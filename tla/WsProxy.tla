------------------------------ MODULE WsProxy -------------------------------
(***************************************************************************)
(* A browser's connection: customerWS and servicerWS, which are alike.     *)
(* The handler opens a gRPC stream and passes the client's frames on to    *)
(* it; a second goroutine passes the responses back.  Each ends by closing *)
(* the socket, and that is all either can tell the other: the stream has   *)
(* no context to cancel.  Connections share nothing, so there is one.      *)
(*                                                                         *)
(* The server is Talk or Service, as far as a stream shows it.  TCP keeps  *)
(* the order; a socket that is closed with something unread is reset, and  *)
(* what was written to it may then be lost.                                *)
(***************************************************************************)
EXTENDS Integers, Sequences, SequencesExt

CONSTANTS
  Relayed,        \* outcomes of the stream a close frame tells the client
  MaxRequests,    \* bound: requests of the client
  MaxResponses,   \* bound: responses of the server
  Window,         \* responses the stream holds before Send waits
  SocketRoom      \* frames the socket holds before WriteMessage waits

Statuses == {"ok", "unauthenticated", "failed"}

ASSUME WsAssumption ==
  /\ Relayed \subseteq Statuses \ {"ok"}
  /\ MaxRequests \in Nat /\ MaxResponses \in Nat
  /\ Window \in Nat \ {0} /\ SocketRoom \in Nat \ {0}

VARIABLES
  handler,     \* "upgraded", "pumping", "returned": the goroutine of the handler
  inHand,      \* the request it has read and not yet sent on
  refused,     \* it met a frame that is no request
  pump,        \* "none", "receiving", "writing", "closing", "done": the other one
  taken,       \* the response it has received and not yet written
  connOpen,    \* neither has closed the socket
  reset,       \* the socket was closed with something unread
  fromClient, toClient, \* frames in the socket
  client,      \* "up", "closing", "vanished", "ended"
  screen,      \* what the client has been shown
  why,         \* the reason it was told, at most one
  asked,       \* requests the client has made
  server,      \* "none", "starting", "serving", "ended"
  status,      \* how the stream ended
  up, down,    \* requests and responses in the stream
  sent,        \* responses of the server
  heard        \* requests the server has received

wsPump   == <<handler, inHand, refused>>
grpcPump == <<pump, taken>>
socket   == <<connOpen, reset, fromClient, toClient>>
human    == <<client, screen, why, asked>>
stream   == <<server, status, up, down, sent, heard>>
wsVars   == <<wsPump, grpcPump, socket, human, stream>>

-----------------------------------------------------------------------------
CloseFrame == 0
Gone == client \in {"closing", "vanished"}
AtMostOne(s, S) == s \in Seq(S) /\ Len(s) <= 1

WsTypeOK ==
  /\ handler \in {"upgraded", "pumping", "returned"}
  /\ AtMostOne(inHand, 1..asked) /\ refused \in BOOLEAN
  /\ pump \in {"none", "receiving", "writing", "closing", "done"}
  /\ AtMostOne(taken, 1..sent) /\ (taken # <<>> <=> pump = "writing")
  /\ connOpen \in BOOLEAN /\ reset \in BOOLEAN
  /\ fromClient \in Seq(0..asked) /\ toClient \in Seq(0..sent)
  /\ Len(toClient) <= SocketRoom
  /\ client \in {"up", "closing", "vanished", "ended"}
  /\ screen \in Seq(1..sent) /\ AtMostOne(why, Relayed) /\ asked \in 0..MaxRequests
  /\ server \in {"none", "starting", "serving", "ended"} /\ status \in Statuses
  /\ up \in Seq(1..asked) /\ down \in Seq(1..sent) /\ Len(down) <= Window
  /\ sent \in 0..MaxResponses /\ heard \in Seq(1..asked)

\* The connection has been upgraded.
WsInit ==
  /\ handler = "upgraded" /\ inHand = <<>> /\ refused = FALSE
  /\ pump = "none" /\ taken = <<>>
  /\ connOpen = TRUE /\ reset = FALSE /\ fromClient = <<>> /\ toClient = <<>>
  /\ client = "up" /\ screen = <<>> /\ why = <<>> /\ asked = 0
  /\ server = "none" /\ status = "ok" /\ up = <<>> /\ down = <<>>
  /\ sent = 0 /\ heard = <<>>

\* The deferred Close of either goroutine; the frames `unread' are in the socket.
CloseSocket(unread) ==
  /\ connOpen' = FALSE
  /\ reset' = (reset \/ (connOpen /\ unread # <<>>))
  /\ fromClient' = unread

-----------------------------------------------------------------------------
(***************************************************************************)
(* The handler.                                                            *)
(***************************************************************************)

Return(unread) == handler' = "returned" /\ CloseSocket(unread)

\* The first message does not come or is no token, or the stream cannot be opened.
NoStream ==
  /\ handler = "upgraded" /\ Return(fromClient)
  /\ UNCHANGED <<inHand, refused, grpcPump, toClient, human, stream>>

\* Nobody has looked at the token yet: the server refuses it later, by a status.
OpenStream ==
  /\ handler = "upgraded" /\ handler' = "pumping"
  /\ pump' = "receiving" /\ server' = "starting"
  /\ UNCHANGED <<inHand, refused, taken, socket, human, status, up, down, sent, heard>>

Reads == handler = "pumping" /\ inHand = <<>>

\* Mutant: a close frame is a message like any other, and is skipped.
ReadMessageOrClose ==
  /\ Reads /\ fromClient # <<>> /\ fromClient' = Tail(fromClient)
  /\ inHand' = IF Head(fromClient) = CloseFrame THEN <<>> ELSE <<Head(fromClient)>>
  /\ UNCHANGED <<handler, refused, grpcPump, connOpen, reset, toClient, human, stream>>

\* What was read into the buffer before is read even if the socket is closed.
ReadMessage ==
  /\ Reads /\ fromClient # <<>>
  /\ \/ /\ Head(fromClient) # CloseFrame
        /\ inHand' = <<Head(fromClient)>> /\ fromClient' = Tail(fromClient)
        /\ UNCHANGED <<handler, refused, connOpen, reset>>
     \/ /\ Head(fromClient) # CloseFrame /\ refused' = TRUE
        /\ Return(Tail(fromClient)) /\ UNCHANGED inHand
     \/ /\ Head(fromClient) = CloseFrame
        /\ Return(Tail(fromClient)) /\ UNCHANGED <<inHand, refused>>
  /\ UNCHANGED <<grpcPump, toClient, human, stream>>

\* Mutant: a deadline for reads, so that lost clients are noticed.
ReadTimesOut ==
  /\ Reads /\ Return(fromClient)
  /\ UNCHANGED <<inHand, refused, grpcPump, toClient, human, stream>>

\* The other goroutine has closed the socket, or the loss of the client shows.
ReadFails ==
  /\ Reads /\ (~connOpen \/ client = "vanished")
  /\ Return(fromClient)
  /\ UNCHANGED <<inHand, refused, grpcPump, toClient, human, stream>>

\* When the stream has ended, SendMsg says so or, before it knows, takes what
\* nobody will receive.
SendMsg ==
  /\ handler = "pumping" /\ inHand # <<>> /\ inHand' = <<>>
  /\ \/ /\ server # "ended" /\ up' = up \o inHand
        /\ UNCHANGED <<handler, connOpen, reset, fromClient>>
     \/ /\ server = "ended" /\ UNCHANGED <<handler, connOpen, reset, fromClient, up>>
     \/ /\ server = "ended" /\ Return(fromClient) /\ UNCHANGED up
  /\ UNCHANGED <<refused, grpcPump, toClient, human, server, status, down, sent, heard>>

-----------------------------------------------------------------------------
(***************************************************************************)
(* The goroutine that receives from the stream.                            *)
(***************************************************************************)

\* Mutant: the deferred Close is forgotten.
FinishOpen == pump' = "done" /\ UNCHANGED <<connOpen, reset, fromClient>>

Finish == pump' = "done" /\ CloseSocket(fromClient)

Recv ==
  /\ pump = "receiving" /\ down # <<>>
  /\ taken' = <<Head(down)>> /\ down' = Tail(down) /\ pump' = "writing"
  /\ UNCHANGED <<wsPump, socket, human, server, status, up, sent, heard>>

\* Mutant: the end is taken before the responses that came before it.
RecvEndAtOnce ==
  /\ pump = "receiving" /\ server = "ended"
  /\ \/ /\ status \in Relayed /\ pump' = "closing"
        /\ UNCHANGED <<connOpen, reset, fromClient>>
     \/ status \notin Relayed /\ Finish
  /\ UNCHANGED <<wsPump, taken, toClient, human, stream>>

\* The end of a stream comes after all it carried; a nil of the server has no status.
RecvEnd ==
  /\ pump = "receiving" /\ down = <<>> /\ server = "ended"
  /\ \/ /\ status \in Relayed /\ pump' = "closing"
        /\ UNCHANGED <<connOpen, reset, fromClient>>
     \/ status \notin Relayed /\ Finish
  /\ UNCHANGED <<wsPump, taken, toClient, human, stream>>

Writable  == connOpen /\ Len(toClient) < SocketRoom
WriteLost == ~connOpen \/ Gone

\* To a client that is gone, a write may still succeed; without room it waits.
WriteMessage ==
  /\ pump = "writing" /\ taken' = <<>>
  /\ \/ /\ Writable /\ toClient' = toClient \o taken /\ pump' = "receiving"
        /\ UNCHANGED <<connOpen, reset, fromClient>>
     \/ WriteLost /\ Finish /\ UNCHANGED toClient
  /\ UNCHANGED <<wsPump, human, stream>>

WriteClose ==
  /\ pump = "closing" /\ Finish
  /\ \/ Writable /\ toClient' = Append(toClient, CloseFrame)
     \/ WriteLost /\ UNCHANGED toClient
  /\ UNCHANGED <<wsPump, taken, human, stream>>

-----------------------------------------------------------------------------
(***************************************************************************)
(* The server, as its stream shows it.                                     *)
(***************************************************************************)

\* The token is refused; or the stream cannot be installed.
Refuse ==
  /\ server = "starting" /\ server' = "ended" /\ status' \in {"unauthenticated", "failed"}
  /\ UNCHANGED <<wsPump, grpcPump, socket, human, up, down, sent, heard>>

Serve ==
  /\ server = "starting" /\ server' = "serving"
  /\ UNCHANGED <<wsPump, grpcPump, socket, human, status, up, down, sent, heard>>

Hear ==
  /\ server = "serving" /\ up # <<>>
  /\ heard' = Append(heard, Head(up)) /\ up' = Tail(up)
  /\ UNCHANGED <<wsPump, grpcPump, socket, human, server, status, down, sent>>

Respond ==
  /\ server = "serving" /\ sent < MaxResponses /\ Len(down) < Window
  /\ sent' = sent + 1 /\ down' = Append(down, sent + 1)
  /\ UNCHANGED <<wsPump, grpcPump, socket, human, server, status, up, heard>>

\* A kick-out, a request that is refused, or a failing uninstallation.
EndStream ==
  /\ server = "serving" /\ server' = "ended" /\ status' \in {"ok", "failed"}
  /\ UNCHANGED <<wsPump, grpcPump, socket, human, up, down, sent, heard>>

-----------------------------------------------------------------------------
(***************************************************************************)
(* The client.                                                             *)
(***************************************************************************)

\* What is written to a socket that is closed at the other end resets it.
Ask ==
  /\ client = "up" /\ asked < MaxRequests /\ asked' = asked + 1
  /\ IF connOpen THEN fromClient' = Append(fromClient, asked + 1) /\ UNCHANGED reset
                 ELSE reset' = TRUE /\ UNCHANGED fromClient
  /\ UNCHANGED <<wsPump, grpcPump, connOpen, toClient, client, screen, why, stream>>

\* The page is closed: a close frame.
Leave ==
  /\ client = "up" /\ client' = "closing"
  /\ fromClient' = IF connOpen THEN Append(fromClient, CloseFrame) ELSE fromClient
  /\ UNCHANGED <<wsPump, grpcPump, connOpen, reset, toClient, screen, why, asked, stream>>

\* The network is gone: nobody is told.
Vanish ==
  /\ client = "up" /\ client' = "vanished"
  /\ UNCHANGED <<wsPump, grpcPump, socket, screen, why, asked, stream>>

See ==
  /\ client = "up" /\ toClient # <<>> /\ toClient' = Tail(toClient)
  /\ IF Head(toClient) = CloseFrame
     THEN client' = "ended" /\ why' = <<status>> /\ UNCHANGED screen
     ELSE screen' = Append(screen, Head(toClient)) /\ UNCHANGED <<client, why>>
  /\ UNCHANGED <<wsPump, grpcPump, connOpen, reset, fromClient, asked, stream>>

SeeEnd ==
  /\ client = "up" /\ ~connOpen /\ (toClient = <<>> \/ reset)
  /\ client' = "ended"
  /\ UNCHANGED <<wsPump, grpcPump, socket, screen, why, asked, stream>>

-----------------------------------------------------------------------------
WsPumpStep   == ReadMessage \/ ReadFails \/ SendMsg
GrpcPumpStep == Recv \/ RecvEnd \/ WriteMessage \/ WriteClose
ServerStep   == Refuse \/ Serve \/ Hear \/ Respond \/ EndStream
ClientStep   == Ask \/ Leave \/ Vanish \/ See \/ SeeEnd

WsNext == NoStream \/ OpenStream \/ WsPumpStep \/ GrpcPumpStep \/ ServerStep \/ ClientStep

WsSpec == WsInit /\ [][WsNext]_wsVars

\* The two goroutines run, and a client that is there reads.  A lost client is
\* noticed only if a write to it fails: nothing sets a deadline.
WsFairSpec ==
  /\ WsSpec
  /\ WF_wsVars(client = "closing" /\ (NoStream \/ OpenStream))
  /\ WF_wsVars(ReadMessage \/ SendMsg \/ (ReadFails /\ ~connOpen))
  /\ WF_wsVars(GrpcPumpStep)
  /\ WF_wsVars(See \/ SeeEnd)

-----------------------------------------------------------------------------
(***************************************************************************)
(* Properties.                                                             *)
(***************************************************************************)

\* The proxy closes the socket, or gives up the responses, of a stream that is
\* still served only if the client is gone or sent what is no request.
ServedWhileThere ==
  /\ server \in {"starting", "serving"}
  /\ ~connOpen \/ handler = "returned" \/ pump = "done"
  => Gone \/ refused

\* A client that only listens sees every response, each once and in the order the
\* server sent them, before its connection ends, and the reason if it is one of those
\* that are told.  (One that is writing when the stream ends may miss both: SendMsg
\* fails first, and the socket is reset.)
ListenerSeesAll ==
  client = "ended" /\ asked = 0 /\ server # "none" =>
    /\ server = "ended" /\ screen = [i \in 1..sent |-> i]
    /\ status \in Relayed => why = <<status>>

\* When the stream has ended both goroutines do, whatever the client is doing, and
\* a client that is there is let go.  With only the socket closed, the next response
\* ends the goroutine that waits for it; until one comes it waits on, and the server
\* takes the client to be there.
EndIsPassedOn ==
  /\ server = "ended" ~> handler = "returned" /\ pump = "done" /\ client # "up"
  /\ ~connOpen /\ down # <<>> ~> pump = "done"

\* A client that leaves is noticed: the handler returns, the socket is closed.
LeaveIsNoticed == client = "closing" ~> handler = "returned" /\ ~connOpen
=============================================================================
