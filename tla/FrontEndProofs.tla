--------------------------- MODULE FrontEndProofs ---------------------------
(***************************************************************************)
(* Proofs about FrontEnd, for any number of requests, responses, users and *)
(* scopes, and any room in the stream and in the socket: its typing, that  *)
(* nobody who is there is cut off, that a listener sees everything, and    *)
(* that who gets in by the page has a scope.                               *)
(***************************************************************************)
EXTENDS FrontEnd, ChannelProofs

\* The socket has the reason of the end only when the stream has ended for it, and
\* the client's close frame only when he has left.
ClosesMeant ==
  /\ pump = "closing" \/ CloseFrame \in ToSet(toClient) =>
       server = "ended" /\ status \in Relayed
  /\ CloseFrame \in ToSet(fromClient) => Gone

\* The handler's first step is the only one that opens a stream, and it finds the
\* socket open.
OpensOnce ==
  /\ handler = "upgraded" => server = "none" /\ connOpen
  /\ server = "none" => pump = "none"

WsTyped == WsTypeOK /\ ClosesMeant /\ OpensOnce

-----------------------------------------------------------------------------
(* The connection: typing. *)

LEMMA WsConstants ==
  /\ MaxRequests \in Nat /\ MaxResponses \in Nat /\ Window \in Nat \ {0}
  /\ SocketRoom \in Nat \ {0} /\ Relayed \subseteq Statuses /\ CloseFrame = 0
BY WsAssumption DEF WsAssumption, CloseFrame, Statuses

\* A line of one kind is one of a wider kind.
LEMMA WiderSeq ==
  ASSUME NEW S, NEW T, S \subseteq T, NEW s \in Seq(S)
  PROVE  s \in Seq(T)
OBVIOUS

\* A line without length is empty.
LEMMA NothingIn ==
  ASSUME NEW S, NEW s \in Seq(S), Len(s) = 0
  PROVE  s = <<>>
OBVIOUS

\* No element, and one.
LEMMA NoneOrOne ==
  ASSUME NEW S
  PROVE  /\ AtMostOne(<<>>, S) /\ ToSet(<<>>) = {}
         /\ \A e \in S : AtMostOne(<<e>>, S) /\ <<e>> # <<>>
<1>1. ASSUME NEW e \in S
      PROVE  <<e>> \in Seq(S) /\ Len(<<e>>) = 1 /\ <<e>> # <<>>
  OBVIOUS
<1>2. ToSet(<<>>) = {}
  BY DEF ToSet
<1> QED  BY <1>1, <1>2 DEF AtMostOne

LEMMA OneElement ==
  ASSUME NEW S, NEW s, AtMostOne(s, S), s # <<>>
  PROVE  s \in Seq(S) /\ Len(s) = 1 /\ s[1] \in S
<1>1. s \in Seq(S)
  BY DEF AtMostOne
<1>2. Len(s) <= 1
  BY DEF AtMostOne
<1>3. Len(s) \in Nat /\ Len(s) # 0
  BY <1>1
<1>4. Len(s) = 1
  <2> DEFINE n == Len(s)
  <2>1. n <= 1 /\ n \in Nat /\ n # 0
    BY <1>2, <1>3
  <2> HIDE DEF n
  <2>2. n = 1
    BY <2>1
  <2> QED  BY <2>2 DEF n
<1> QED  BY <1>1, <1>4

LEMMA AppendIn ==
  ASSUME NEW S, NEW s \in Seq(S), NEW e \in S
  PROVE  Append(s, e) \in Seq(S)
OBVIOUS

LEMMA ElementOf ==
  ASSUME NEW S, NEW s \in Seq(S)
  PROVE  \A i \in DOMAIN s : s[i] \in S
OBVIOUS

LEMMA WsInitTyped == WsInit => WsTyped
<1> SUFFICES ASSUME WsInit PROVE WsTyped
  OBVIOUS
<1>1. /\ handler = "upgraded" /\ inHand = <<>> /\ refused = FALSE
      /\ pump = "none" /\ taken = <<>>
      /\ connOpen = TRUE /\ reset = FALSE /\ fromClient = <<>> /\ toClient = <<>>
      /\ client = "up" /\ screen = <<>> /\ why = <<>> /\ asked = 0
      /\ server = "none" /\ status = "ok" /\ up = <<>> /\ down = <<>>
      /\ sent = 0 /\ heard = <<>>
  BY DEF WsInit
<1>2. AtMostOne(inHand, 1..asked) /\ AtMostOne(taken, 1..sent) /\ AtMostOne(why, Relayed)
  BY <1>1, NoneOrOne
<1>3. fromClient \in Seq(0..asked) /\ toClient \in Seq(0..sent) /\ screen \in Seq(1..sent)
      /\ up \in Seq(1..asked) /\ down \in Seq(1..sent) /\ heard \in Seq(1..asked)
      /\ Len(toClient) <= SocketRoom /\ Len(down) <= Window
  BY <1>1, WsConstants
<1>4. WsTypeOK
  <2>1. taken # <<>> <=> pump = "writing"
    BY <1>1
  <2>2. asked \in 0..MaxRequests /\ sent \in 0..MaxResponses
    BY <1>1, WsConstants
  <2> QED  BY <1>1, <1>2, <1>3, <2>1, <2>2 DEF WsTypeOK, Statuses
<1>5. ToSet(fromClient) = {} /\ ToSet(toClient) = {}
  BY <1>1, NoneOrOne
<1> QED  BY <1>1, <1>4, <1>5 DEF WsTyped, ClosesMeant, OpensOnce

\* The socket is closed, by the handler or by the other goroutine.
LEMMA SocketCloses ==
  ASSUME WsTyped, NEW unread \in Seq(0..asked), ToSet(unread) \subseteq ToSet(fromClient),
         CloseSocket(unread)
  PROVE  /\ connOpen' = FALSE /\ reset' \in BOOLEAN /\ fromClient' \in Seq(0..asked)
         /\ ToSet(fromClient)' \subseteq ToSet(fromClient)
BY DEF CloseSocket, WsTyped, WsTypeOK

LEMMA HandlerTyped ==
  ASSUME WsTyped, NoStream \/ OpenStream \/ WsPumpStep
  PROVE  WsTyped'
<1>1. fromClient \in Seq(0..asked) /\ CloseFrame = 0
  BY WsConstants DEF WsTyped, WsTypeOK
<1>2. fromClient # <<>> =>
        /\ Head(fromClient) \in ToSet(fromClient) /\ Head(fromClient) \in 0..asked
        /\ Tail(fromClient) \in Seq(0..asked)
        /\ ToSet(Tail(fromClient)) \subseteq ToSet(fromClient)
  BY <1>1, HeadTailToSet
<1>3. ASSUME NEW unread \in Seq(0..asked), ToSet(unread) \subseteq ToSet(fromClient),
             Return(unread), AtMostOne(inHand', 1..asked), refused' \in BOOLEAN,
             UNCHANGED <<grpcPump, toClient, human, server, status, down, sent, heard>>,
             up' \in Seq(1..asked)
      PROVE  WsTyped'
  <2>1. /\ connOpen' = FALSE /\ reset' \in BOOLEAN /\ fromClient' \in Seq(0..asked)
        /\ ToSet(fromClient)' \subseteq ToSet(fromClient) /\ handler' = "returned"
    BY <1>3, SocketCloses DEF Return
  <2>2. WsTypeOK'
    BY <1>3, <2>1 DEF WsTyped, WsTypeOK, grpcPump, human
  <2>3. ClosesMeant' /\ OpensOnce'
    BY <1>3, <2>1 DEF WsTyped, ClosesMeant, OpensOnce, Gone, grpcPump, human
  <2> QED  BY <2>2, <2>3 DEF WsTyped
<1>4. /\ AtMostOne(inHand, 1..asked) /\ refused \in BOOLEAN /\ up \in Seq(1..asked)
      /\ ToSet(fromClient) \subseteq ToSet(fromClient)
  BY DEF WsTyped, WsTypeOK
<1>5. CASE NoStream
  BY <1>1, <1>3, <1>4, <1>5 DEF NoStream, stream
<1>6. CASE OpenStream
  <2>1. /\ WsTypeOK /\ ClosesMeant /\ pump = "none"
    BY <1>6 DEF OpenStream, WsTyped, OpensOnce
  <2>2. WsTypeOK'
    BY <1>6, <2>1 DEF OpenStream, WsTypeOK, socket, human
  <2>3. ClosesMeant' /\ OpensOnce'
    BY <1>6, <2>1 DEF OpenStream, ClosesMeant, OpensOnce, Gone, WsTyped, socket, human
  <2> QED  BY <2>2, <2>3 DEF WsTyped
<1>7. CASE ReadMessage
  <2>1. fromClient # <<>>
    BY <1>7 DEF ReadMessage
  <2>2. CASE /\ Head(fromClient) # CloseFrame
             /\ inHand' = <<Head(fromClient)>> /\ fromClient' = Tail(fromClient)
             /\ UNCHANGED <<handler, refused, connOpen, reset>>
    <3>1. AtMostOne(inHand', 1..asked)
      <4>1. Head(fromClient) \in 1..asked
        BY <1>1, <1>2, <2>1, <2>2
      <4> QED  BY <2>2, <4>1, NoneOrOne
    <3>2. fromClient' \in Seq(0..asked) /\ ToSet(fromClient)' \subseteq ToSet(fromClient)
      BY <1>2, <2>1, <2>2
    <3>3. UNCHANGED <<grpcPump, toClient, human, stream>>
      BY <1>7 DEF ReadMessage
    <3>4. WsTypeOK'
      BY <2>2, <3>1, <3>2, <3>3 DEF WsTyped, WsTypeOK, grpcPump, human, stream
    <3>5. ClosesMeant' /\ OpensOnce'
      BY <2>2, <3>2, <3>3
      DEF WsTyped, ClosesMeant, OpensOnce, Gone, grpcPump, human, stream
    <3> QED  BY <3>4, <3>5 DEF WsTyped
  <2>3. CASE /\ refused' = TRUE /\ Return(Tail(fromClient)) /\ UNCHANGED inHand
    BY <1>2, <1>3, <1>4, <1>7, <2>1, <2>3 DEF ReadMessage, stream
  <2>4. CASE Return(Tail(fromClient)) /\ UNCHANGED <<inHand, refused>>
    BY <1>2, <1>3, <1>4, <1>7, <2>1, <2>4 DEF ReadMessage, stream
  <2> QED  BY <1>7, <2>2, <2>3, <2>4 DEF ReadMessage
<1>8. CASE ReadFails
  BY <1>1, <1>3, <1>4, <1>8 DEF ReadFails, stream
<1>9. CASE SendMsg
  <2>1. inHand' = <<>> /\ AtMostOne(inHand', 1..asked)
    BY <1>9, NoneOrOne DEF SendMsg
  <2>2. UNCHANGED <<refused, grpcPump, toClient, human, server, status, down, sent, heard>>
    BY <1>9 DEF SendMsg
  <2>3. up' \in Seq(1..asked)
    <3>1. up \o inHand \in Seq(1..asked)
      BY <1>4 DEF AtMostOne
    <3> QED  BY <1>4, <1>9, <3>1 DEF SendMsg
  <2>4. CASE UNCHANGED <<handler, connOpen, reset, fromClient>>
    <3>1. WsTypeOK'
      BY <2>1, <2>2, <2>3, <2>4 DEF WsTyped, WsTypeOK, grpcPump, human
    <3>2. ClosesMeant' /\ OpensOnce'
      BY <2>2, <2>4 DEF WsTyped, ClosesMeant, OpensOnce, Gone, grpcPump, human
    <3> QED  BY <3>1, <3>2 DEF WsTyped
  <2>5. CASE Return(fromClient)
    BY <1>1, <1>3, <1>4, <2>1, <2>2, <2>3, <2>5
  <2> QED  BY <1>9, <2>4, <2>5 DEF SendMsg
<1> QED  BY <1>5, <1>6, <1>7, <1>8, <1>9 DEF WsPumpStep

LEMMA PumpTyped ==
  ASSUME WsTyped, GrpcPumpStep
  PROVE  WsTyped'
<1>1. /\ down \in Seq(1..sent) /\ Len(down) <= Window /\ toClient \in Seq(0..sent)
      /\ Len(toClient) <= SocketRoom /\ AtMostOne(taken, 1..sent)
      /\ (taken # <<>> <=> pump = "writing") /\ sent \in Nat
      /\ fromClient \in Seq(0..asked) /\ ToSet(fromClient) \subseteq ToSet(fromClient)
      /\ SocketRoom \in Nat /\ CloseFrame = 0
  BY WsConstants DEF WsTyped, WsTypeOK
<1>2. CASE Recv
  <2>1. Head(down) \in 1..sent /\ Tail(down) \in Seq(1..sent) /\ Len(Tail(down)) <= Window
    BY <1>1, <1>2, WsConstants DEF Recv
  <2>2. AtMostOne(taken', 1..sent) /\ taken' # <<>>
    BY <1>2, <2>1, NoneOrOne DEF Recv
  <2>3. WsTypeOK'
    BY <1>2, <2>1, <2>2 DEF Recv, WsTyped, WsTypeOK, wsPump, socket, human
  <2>4. ClosesMeant' /\ OpensOnce'
    BY <1>2 DEF Recv, WsTyped, ClosesMeant, OpensOnce, Gone, wsPump, socket, human
  <2> QED  BY <2>3, <2>4 DEF WsTyped
<1>3. CASE RecvEnd
  <2>1. taken = <<>> /\ server = "ended" /\ UNCHANGED <<wsPump, taken, toClient, human, stream>>
    BY <1>1, <1>3 DEF RecvEnd
  <2>2. CASE status \in Relayed /\ pump' = "closing" /\ UNCHANGED <<connOpen, reset, fromClient>>
    <3>1. WsTypeOK'
      BY <2>1, <2>2 DEF WsTyped, WsTypeOK, wsPump, human, stream
    <3>2. ClosesMeant' /\ OpensOnce'
      BY <2>1, <2>2 DEF WsTyped, ClosesMeant, OpensOnce, Gone, wsPump, human, stream
    <3> QED  BY <3>1, <3>2 DEF WsTyped
  <2>3. CASE Finish
    <3>1. /\ connOpen' = FALSE /\ reset' \in BOOLEAN /\ fromClient' \in Seq(0..asked)
          /\ ToSet(fromClient)' \subseteq ToSet(fromClient) /\ pump' = "done"
      BY <1>1, <2>3, SocketCloses DEF Finish
    <3>2. WsTypeOK'
      BY <2>1, <3>1 DEF WsTyped, WsTypeOK, wsPump, human, stream
    <3>3. ClosesMeant' /\ OpensOnce'
      BY <2>1, <3>1 DEF WsTyped, ClosesMeant, OpensOnce, Gone, wsPump, human, stream
    <3> QED  BY <3>2, <3>3 DEF WsTyped
  <2> QED  BY <1>3, <2>2, <2>3 DEF RecvEnd
<1>4. CASE WriteMessage
  <2>1. taken' = <<>> /\ UNCHANGED <<wsPump, human, stream>> /\ pump = "writing"
    BY <1>4 DEF WriteMessage
  <2>2. AtMostOne(taken', 1..sent) /\ server # "none"
    BY <2>1, NoneOrOne DEF WsTyped, OpensOnce
  <2>3. CASE Writable /\ toClient' = toClient \o taken /\ pump' = "receiving"
             /\ UNCHANGED <<connOpen, reset, fromClient>>
    <3>1. taken \in Seq(1..sent) /\ Len(taken) = 1
      BY <1>1, <2>1, OneElement
    <3>2. taken \in Seq(0..sent)
      <4>1. 1..sent \subseteq 0..sent
        BY <1>1
      <4> QED  BY <3>1, <4>1, WiderSeq
    <3>3. toClient' \in Seq(0..sent) /\ Len(toClient') <= SocketRoom
      <4>1. /\ toClient \o taken \in Seq(0..sent)
            /\ Len(toClient \o taken) = Len(toClient) + Len(taken)
        BY <1>1, <3>2, ConcatPlaces
      <4>2. Len(toClient) \in Nat /\ Len(toClient) < SocketRoom
        BY <1>1, <2>3 DEF Writable
      <4> QED  BY <1>1, <2>3, <3>1, <4>1, <4>2
    <3>4. CloseFrame \notin ToSet(taken)
      <4>1. \A i \in DOMAIN taken : taken[i] \in 1..sent
        BY <3>1, ElementOf
      <4>2. CloseFrame \notin 1..sent
        BY <1>1
      <4> QED  BY <4>1, <4>2 DEF ToSet
    <3>5. ToSet(toClient') = ToSet(toClient) \cup ToSet(taken)
      BY <1>1, <2>3, <3>2, ConcatToSet
    <3>6. WsTypeOK'
      BY <2>1, <2>2, <2>3, <3>3 DEF WsTyped, WsTypeOK, wsPump, human, stream
    <3>7. ClosesMeant' /\ OpensOnce'
      BY <2>1, <2>2, <2>3, <3>4, <3>5
      DEF WsTyped, ClosesMeant, OpensOnce, Gone, wsPump, human, stream
    <3> QED  BY <3>6, <3>7 DEF WsTyped
  <2>4. CASE Finish /\ UNCHANGED toClient
    <3>1. /\ connOpen' = FALSE /\ reset' \in BOOLEAN /\ fromClient' \in Seq(0..asked)
          /\ ToSet(fromClient)' \subseteq ToSet(fromClient) /\ pump' = "done"
      BY <1>1, <2>4, SocketCloses DEF Finish
    <3>2. WsTypeOK'
      BY <2>1, <2>2, <2>4, <3>1 DEF WsTyped, WsTypeOK, wsPump, human, stream
    <3>3. handler' # "upgraded"
      BY <2>1, <2>2 DEF WsTyped, WsTypeOK, OpensOnce, wsPump
    <3>4. ClosesMeant' /\ OpensOnce'
      BY <2>1, <2>2, <2>4, <3>1, <3>3
      DEF WsTyped, ClosesMeant, OpensOnce, Gone, wsPump, human, stream
    <3> QED  BY <3>2, <3>4 DEF WsTyped
  <2> QED  BY <1>4, <2>3, <2>4 DEF WriteMessage
<1>5. CASE WriteClose
  <2>1. /\ Finish /\ UNCHANGED <<wsPump, taken, human, stream>> /\ pump = "closing"
        /\ server = "ended" /\ status \in Relayed
    BY <1>5 DEF WriteClose, WsTyped, ClosesMeant
  <2>2. /\ connOpen' = FALSE /\ reset' \in BOOLEAN /\ fromClient' \in Seq(0..asked)
        /\ ToSet(fromClient)' \subseteq ToSet(fromClient) /\ pump' = "done"
    BY <1>1, <2>1, SocketCloses DEF Finish
  <2>3. toClient' \in Seq(0..sent) /\ Len(toClient') <= SocketRoom
    <3>1. CloseFrame \in 0..sent
      BY <1>1
    <3>2. Writable => /\ Append(toClient, CloseFrame) \in Seq(0..sent)
                      /\ Len(Append(toClient, CloseFrame)) <= SocketRoom
      BY <1>1, <3>1 DEF Writable
    <3> QED  BY <1>1, <1>5, <3>2 DEF WriteClose
  <2>4. WsTypeOK'
    BY <1>1, <2>1, <2>2, <2>3 DEF WsTyped, WsTypeOK, wsPump, human, stream
  <2>5. ClosesMeant' /\ OpensOnce'
    BY <2>1, <2>2 DEF WsTyped, ClosesMeant, OpensOnce, Gone, wsPump, human, stream
  <2> QED  BY <2>4, <2>5 DEF WsTyped
<1> QED  BY <1>2, <1>3, <1>4, <1>5 DEF GrpcPumpStep

LEMMA ServerTyped ==
  ASSUME WsTyped, ServerStep
  PROVE  WsTyped'
<1>1. WsTypeOK /\ ClosesMeant /\ OpensOnce
  BY DEF WsTyped
<1>2. CASE Refuse \/ Serve \/ EndStream
  <2>1. /\ UNCHANGED <<wsPump, grpcPump, socket, human, up, down, sent, heard>>
        /\ server \in {"starting", "serving"} /\ server' \in {"serving", "ended"}
        /\ status' \in Statuses
    BY <1>1, <1>2 DEF Refuse, Serve, EndStream, WsTypeOK, Statuses
  <2>2. WsTypeOK'
    BY <1>1, <2>1 DEF WsTypeOK, wsPump, grpcPump, socket, human
  <2>3. ClosesMeant' /\ OpensOnce'
    BY <1>1, <2>1 DEF ClosesMeant, OpensOnce, Gone, wsPump, grpcPump, socket, human
  <2> QED  BY <2>2, <2>3 DEF WsTyped
<1>3. CASE Hear
  <2>1. up \in Seq(1..asked) /\ up # <<>> /\ heard \in Seq(1..asked)
    BY <1>1, <1>3 DEF Hear, WsTypeOK
  <2>2. Head(up) \in 1..asked /\ Tail(up) \in Seq(1..asked)
    BY <2>1, HeadTailToSet
  <2>3. Append(heard, Head(up)) \in Seq(1..asked)
    BY <2>1, <2>2
  <2>4. WsTypeOK'
    BY <1>1, <1>3, <2>2, <2>3 DEF Hear, WsTypeOK, wsPump, grpcPump, socket, human
  <2>5. ClosesMeant' /\ OpensOnce'
    BY <1>1, <1>3
    DEF Hear, ClosesMeant, OpensOnce, Gone, wsPump, grpcPump, socket, human
  <2> QED  BY <2>4, <2>5 DEF WsTyped
<1>4. CASE Respond
  <2>1. /\ sent \in Nat /\ sent < MaxResponses /\ sent' = sent + 1
        /\ down' = Append(down, sent + 1) /\ Len(down) < Window
        /\ UNCHANGED <<wsPump, grpcPump, socket, human, server, status, up, heard>>
    BY <1>1, <1>4, WsConstants DEF Respond, WsTypeOK
  <2>2. PICK new : new = sent + 1
    OBVIOUS
  <2>3. 1..sent \subseteq 1..new /\ 0..sent \subseteq 0..new /\ new \in 1..new
        /\ new \in 0..MaxResponses
    BY <2>1, <2>2, WsConstants
  <2>4. /\ down \in Seq(1..new) /\ screen \in Seq(1..new) /\ taken \in Seq(1..new)
        /\ toClient \in Seq(0..new)
    BY <1>1, <2>3, WiderSeq DEF WsTypeOK, AtMostOne
  <2>5. down' \in Seq(1..new) /\ Len(down') <= Window
    <3>1. down' = Append(down, new) /\ Window \in Nat
      BY <2>1, <2>2, WsConstants
    <3>2. Append(down, new) \in Seq(1..new) /\ Len(Append(down, new)) = Len(down) + 1
      BY <2>3, <2>4
    <3>3. Len(down) \in Nat
      BY <2>4
    <3> QED  BY <2>1, <3>1, <3>2, <3>3
  <2>6. AtMostOne(taken, 1..new)
    BY <1>1, <2>4 DEF AtMostOne, WsTypeOK
  <2>7. WsTypeOK'
    BY <1>1, <2>1, <2>2, <2>3, <2>4, <2>5, <2>6
    DEF WsTypeOK, wsPump, grpcPump, socket, human
  <2>8. ClosesMeant' /\ OpensOnce'
    BY <1>1, <2>1 DEF ClosesMeant, OpensOnce, Gone, wsPump, grpcPump, socket, human
  <2> QED  BY <2>7, <2>8 DEF WsTyped
<1> QED  BY <1>2, <1>3, <1>4 DEF ServerStep

LEMMA ClientTyped ==
  ASSUME WsTyped, ClientStep
  PROVE  WsTyped'
<1>1. WsTypeOK /\ ClosesMeant /\ OpensOnce
  BY DEF WsTyped
<1>2. CASE Ask
  <2>1. /\ asked \in Nat /\ asked < MaxRequests /\ asked' = asked + 1 /\ client = "up"
        /\ UNCHANGED <<wsPump, grpcPump, connOpen, toClient, client, screen, why, stream>>
    BY <1>1, <1>2, WsConstants DEF Ask, WsTypeOK
  <2>2. PICK new : new = asked + 1
    OBVIOUS
  <2>3. 1..asked \subseteq 1..new /\ 0..asked \subseteq 0..new /\ new \in 0..new /\ new # CloseFrame
        /\ new \in 0..MaxRequests
    BY <2>1, <2>2, WsConstants
  <2>4. /\ inHand \in Seq(1..new) /\ up \in Seq(1..new) /\ heard \in Seq(1..new)
        /\ fromClient \in Seq(0..new)
    BY <1>1, <2>3, WiderSeq DEF WsTypeOK, AtMostOne
  <2>5. /\ Append(fromClient, new) \in Seq(0..new)
        /\ ToSet(Append(fromClient, new)) = ToSet(fromClient) \cup {new}
    BY <2>3, <2>4, AppendToSet
  <2>6. /\ fromClient' \in Seq(0..new) /\ reset' \in BOOLEAN
        /\ ToSet(fromClient') \subseteq ToSet(fromClient) \cup {new}
    BY <1>1, <1>2, <2>2, <2>4, <2>5 DEF Ask, WsTypeOK
  <2>7. AtMostOne(inHand, 1..new)
    BY <1>1, <2>4 DEF AtMostOne, WsTypeOK
  <2>8. WsTypeOK'
    BY <1>1, <2>1, <2>2, <2>3, <2>4, <2>6, <2>7 DEF WsTypeOK, wsPump, grpcPump, stream
  <2>9. ClosesMeant' /\ OpensOnce'
    BY <1>1, <2>1, <2>3, <2>6 DEF ClosesMeant, OpensOnce, Gone, wsPump, grpcPump, stream
  <2> QED  BY <2>8, <2>9 DEF WsTyped
<1>3. CASE Leave
  <2>1. fromClient \in Seq(0..asked) /\ CloseFrame \in 0..asked
    BY <1>1, WsConstants DEF WsTypeOK
  <2>2. fromClient' \in Seq(0..asked) /\ client' = "closing"
    <3>1. Append(fromClient, CloseFrame) \in Seq(0..asked)
      BY <2>1, AppendIn
    <3> QED  BY <1>3, <2>1, <3>1 DEF Leave
  <2>3. UNCHANGED <<wsPump, grpcPump, connOpen, reset, toClient, screen, why, asked, stream>>
    BY <1>3 DEF Leave
  <2>4. WsTypeOK'
    BY <1>1, <2>2, <2>3 DEF WsTypeOK, wsPump, grpcPump, stream
  <2>5. ClosesMeant' /\ OpensOnce'
    BY <1>1, <2>2, <2>3 DEF ClosesMeant, OpensOnce, Gone, wsPump, grpcPump, stream
  <2> QED  BY <2>4, <2>5 DEF WsTyped
<1>4. CASE Vanish
  <2>1. /\ client' = "vanished"
        /\ UNCHANGED <<wsPump, grpcPump, socket, screen, why, asked, stream>>
    BY <1>4 DEF Vanish
  <2>2. WsTypeOK'
    BY <1>1, <2>1 DEF WsTypeOK, wsPump, grpcPump, socket, stream
  <2>3. ClosesMeant' /\ OpensOnce'
    BY <1>1, <2>1 DEF ClosesMeant, OpensOnce, Gone, wsPump, grpcPump, socket, stream
  <2> QED  BY <2>2, <2>3 DEF WsTyped
<1>5. CASE See
  <2>1. /\ toClient \in Seq(0..sent) /\ toClient # <<>> /\ screen \in Seq(1..sent)
        /\ CloseFrame = 0 /\ Len(toClient) <= SocketRoom /\ SocketRoom \in Nat /\ sent \in Nat
    BY <1>1, <1>5, WsConstants DEF See, WsTypeOK
  <2>2. /\ Head(toClient) \in ToSet(toClient) /\ Head(toClient) \in 0..sent
        /\ Tail(toClient) \in Seq(0..sent) /\ Len(Tail(toClient)) <= SocketRoom
        /\ ToSet(Tail(toClient)) \subseteq ToSet(toClient)
    <3>1. Len(Tail(toClient)) < Len(toClient) /\ Len(toClient) \in Nat
          /\ Len(Tail(toClient)) \in Nat
      BY <2>1, HeadTailToSet
    <3> QED  BY <2>1, <3>1, HeadTailToSet
  <2>3. CASE Head(toClient) = CloseFrame /\ client' = "ended" /\ why' = <<status>>
             /\ UNCHANGED screen
    <3>1. status \in Relayed
      BY <1>1, <2>2, <2>3 DEF ClosesMeant
    <3>2. AtMostOne(why', Relayed)
      BY <2>3, <3>1, NoneOrOne
    <3>3. WsTypeOK'
      BY <1>1, <1>5, <2>2, <2>3, <3>2 DEF See, WsTypeOK, wsPump, grpcPump, stream
    <3>4. ClosesMeant' /\ OpensOnce'
      BY <1>1, <1>5, <2>2, <2>3
      DEF See, ClosesMeant, OpensOnce, Gone, wsPump, grpcPump, stream
    <3> QED  BY <3>3, <3>4 DEF WsTyped
  <2>4. CASE /\ Head(toClient) # CloseFrame /\ screen' = Append(screen, Head(toClient))
             /\ UNCHANGED <<client, why>>
    <3>1. Head(toClient) \in 1..sent
      BY <2>1, <2>2, <2>4
    <3>2. screen' \in Seq(1..sent)
      BY <2>1, <2>4, <3>1
    <3>3. WsTypeOK'
      BY <1>1, <1>5, <2>2, <2>4, <3>2 DEF See, WsTypeOK, wsPump, grpcPump, stream
    <3>4. ClosesMeant' /\ OpensOnce'
      BY <1>1, <1>5, <2>2, <2>4
      DEF See, ClosesMeant, OpensOnce, Gone, wsPump, grpcPump, stream
    <3> QED  BY <3>3, <3>4 DEF WsTyped
  <2> QED  BY <1>5, <2>3, <2>4 DEF See
<1>6. CASE SeeEnd
  <2>1. /\ client = "up" /\ client' = "ended"
        /\ UNCHANGED <<wsPump, grpcPump, socket, screen, why, asked, stream>>
    BY <1>6 DEF SeeEnd
  <2>2. WsTypeOK'
    BY <1>1, <2>1 DEF WsTypeOK, wsPump, grpcPump, socket, stream
  <2>3. ClosesMeant' /\ OpensOnce'
    BY <1>1, <2>1 DEF ClosesMeant, OpensOnce, Gone, wsPump, grpcPump, socket, stream
  <2> QED  BY <2>2, <2>3 DEF WsTyped
<1> QED  BY <1>2, <1>3, <1>4, <1>5, <1>6 DEF ClientStep

LEMMA WsStepTyped ==
  ASSUME WsTyped, [WsNext]_wsVars
  PROVE  WsTyped'
<1>1. CASE UNCHANGED wsVars
  BY <1>1 DEF WsTyped, WsTypeOK, ClosesMeant, OpensOnce, Gone, Statuses,
              wsVars, wsPump, grpcPump, socket, human, stream
<1> QED  BY <1>1, HandlerTyped, PumpTyped, ServerTyped, ClientTyped DEF WsNext

-----------------------------------------------------------------------------
(* Nobody who is there is cut off. *)

LEMMA StepServed ==
  ASSUME WsTyped, ServedWhileThere, [WsNext]_wsVars
  PROVE  ServedWhileThere'
<1> DEFINE Cut == ~connOpen \/ handler = "returned" \/ pump = "done"
<1> USE WsConstants
<1>1. /\ server \in {"starting", "serving"} /\ Cut => Gone \/ refused
      /\ handler = "upgraded" => server = "none" /\ connOpen
      /\ server = "none" => pump = "none"
      /\ pump = "closing" => server = "ended"
      /\ CloseFrame \in ToSet(fromClient) => Gone
  BY DEF ServedWhileThere, WsTyped, OpensOnce, ClosesMeant
<1> SUFFICES ASSUME server' \in {"starting", "serving"}, Cut' PROVE Gone' \/ refused'
  BY DEF ServedWhileThere
<1>2. CASE UNCHANGED wsVars
  BY <1>1, <1>2 DEF wsVars, wsPump, grpcPump, socket, human, stream, Gone
<1>3. CASE NoStream
  BY <1>1, <1>3 DEF NoStream, stream
<1>4. CASE OpenStream
  BY <1>1, <1>4 DEF OpenStream, socket, human
<1>5. CASE ReadMessage
  <2>1. Head(fromClient) = CloseFrame => Gone
    <3>1. fromClient \in Seq(0..asked) /\ fromClient # <<>>
      BY <1>5 DEF ReadMessage, WsTyped, WsTypeOK
    <3> QED  BY <1>1, <3>1, HeadTailToSet
  <2>2. UNCHANGED <<grpcPump, human, stream>>
    BY <1>5 DEF ReadMessage
  <2> QED  BY <1>1, <1>5, <2>1, <2>2 DEF ReadMessage, Gone, grpcPump, human, stream
<1>6. CASE ReadFails
  BY <1>1, <1>6 DEF ReadFails, Gone, grpcPump, human, stream
<1>7. CASE SendMsg
  BY <1>1, <1>7 DEF SendMsg, Gone, grpcPump, human
<1>8. CASE Recv
  BY <1>1, <1>8 DEF Recv, Gone, wsPump, socket, human
<1>9. CASE RecvEnd
  BY <1>1, <1>9 DEF RecvEnd, stream
<1>10. CASE WriteMessage
  BY <1>1, <1>10 DEF WriteMessage, WriteLost, Gone, wsPump, human, stream
<1>11. CASE WriteClose
  BY <1>1, <1>11 DEF WriteClose, stream
<1>12. CASE ServerStep
  <2>1. /\ UNCHANGED <<wsPump, grpcPump, socket, human>>
        /\ server \in {"starting", "serving"}
    BY <1>12 DEF ServerStep, Refuse, Serve, Hear, Respond, EndStream
  <2> QED  BY <1>1, <2>1 DEF Gone, wsPump, grpcPump, socket, human
<1>13. CASE ClientStep
  <2>1. UNCHANGED <<wsPump, grpcPump, connOpen, stream>> /\ client = "up"
    BY <1>13 DEF ClientStep, Ask, Leave, Vanish, See, SeeEnd, socket
  <2> QED  BY <1>1, <2>1 DEF Gone, wsPump, grpcPump, stream
<1> QED
  BY <1>2, <1>3, <1>4, <1>5, <1>6, <1>7, <1>8, <1>9, <1>10, <1>11, <1>12, <1>13
  DEF WsNext, WsPumpStep, GrpcPumpStep

-----------------------------------------------------------------------------
(* A listener sees everything. *)

Listener == client \in {"up", "ended"} /\ asked = 0

\* The reason of the end is the last frame in the socket.
CloseWritten == toClient # <<>> /\ toClient[Len(toClient)] = CloseFrame

\* How many responses the client has been shown, or has in the socket.
Written == Len(screen) + Len(toClient) - (IF CloseWritten THEN 1 ELSE 0)

\* Nothing a listener does can end the connection: it is the other goroutine that
\* closes the socket, when it has received the end of the stream.
OnlyTheEndCloses ==
  /\ fromClient = <<>> /\ inHand = <<>> /\ ~reset
  /\ server # "none" /\ ~connOpen => pump = "done"
  /\ pump \in {"closing", "done"} => server = "ended" /\ down = <<>> /\ taken = <<>>

\* The responses are on their way in the order in which they were sent: what has been
\* shown, what is in the socket, what the goroutine has in hand, what is in the stream.
OneLine ==
  /\ \A i \in DOMAIN screen : screen[i] = i
  /\ \A i \in DOMAIN toClient :
       \/ toClient[i] = Len(screen) + i
       \/ toClient[i] = CloseFrame /\ i = Len(toClient) /\ pump = "done"
  /\ taken # <<>> => taken[1] = Written + 1
  /\ \A i \in DOMAIN down : down[i] = Written + Len(taken) + i
  /\ sent = Written + Len(taken) + Len(down)

\* The reason is written before the goroutine ends, and shown before the client ends.
ReasonFollows ==
  /\ pump = "done" /\ status \in Relayed => CloseWritten \/ why = <<status>>
  /\ client = "ended" /\ server # "none" => pump = "done" /\ toClient = <<>>
  /\ client = "ended" => handler # "upgraded"

\* The invariant behind ListenerSeesAll.
Listening == Listener => OnlyTheEndCloses /\ OneLine /\ ReasonFollows

LEMMA InitListening == WsInit => Listening
<1> SUFFICES ASSUME WsInit PROVE OnlyTheEndCloses /\ OneLine /\ ReasonFollows
  BY DEF Listening
<1>1. /\ pump = "none" /\ taken = <<>> /\ ~reset /\ fromClient = <<>> /\ toClient = <<>>
      /\ client = "up" /\ screen = <<>> /\ inHand = <<>>
      /\ server = "none" /\ down = <<>> /\ sent = 0
  BY DEF WsInit
<1>2. Len(<<>>) = 0 /\ DOMAIN <<>> = {}
  OBVIOUS
<1>3. Written = 0
  BY <1>1, <1>2 DEF Written, CloseWritten
<1>4. OneLine
  BY <1>1, <1>2, <1>3 DEF OneLine
<1> QED  BY <1>1, <1>4 DEF OnlyTheEndCloses, ReasonFollows

\* The proxy's steps for a listener: the handler only opens the stream or gives up.
LEMMA HandlerListening ==
  ASSUME WsTyped, Listening, NoStream \/ OpenStream \/ WsPumpStep
  PROVE  Listening'
<1> SUFFICES ASSUME Listener' PROVE (OnlyTheEndCloses /\ OneLine /\ ReasonFollows)'
  BY DEF Listening
<1>1. /\ UNCHANGED <<taken, toClient, client, screen, why, asked, down, sent, status>>
  BY DEF NoStream, OpenStream, WsPumpStep, ReadMessage, ReadFails, SendMsg,
         grpcPump, socket, human, stream
<1>2. OnlyTheEndCloses /\ OneLine /\ ReasonFollows
  BY <1>1 DEF Listening, Listener
<1>3. ~ReadMessage /\ ~SendMsg
  BY <1>2 DEF ReadMessage, SendMsg, OnlyTheEndCloses
<1>4. CASE NoStream
  <2>1. server = "none" /\ UNCHANGED <<inHand, pump, server>> /\ handler' = "returned"
    BY <1>4 DEF NoStream, Return, WsTyped, OpensOnce, grpcPump, stream
  <2>2. fromClient' = <<>> /\ ~reset'
    BY <1>2, <1>4 DEF NoStream, Return, CloseSocket, OnlyTheEndCloses
  <2> QED  BY <1>1, <1>2, <2>1, <2>2
           DEF OnlyTheEndCloses, OneLine, ReasonFollows, Written, CloseWritten
<1>5. CASE OpenStream
  <2>1. /\ connOpen /\ pump = "none" /\ client # "ended"
        /\ UNCHANGED <<inHand, fromClient, reset, connOpen>>
        /\ pump' = "receiving" /\ server' = "starting"
    BY <1>2, <1>5 DEF OpenStream, WsTyped, OpensOnce, ReasonFollows, socket
  <2>2. \A i \in DOMAIN toClient : toClient[i] = Len(screen) + i
    BY <1>2, <2>1 DEF OneLine
  <2>3. OnlyTheEndCloses'
    BY <1>1, <1>2, <2>1 DEF OnlyTheEndCloses
  <2>4. OneLine'
    BY <1>1, <1>2, <2>2 DEF OneLine, Written, CloseWritten
  <2> QED  BY <1>1, <2>1, <2>3, <2>4 DEF ReasonFollows
<1>6. CASE ReadFails
  <2>1. /\ ~connOpen /\ UNCHANGED <<inHand, pump, server>>
        /\ handler' = "returned" /\ ~connOpen'
    BY <1>1, <1>6 DEF ReadFails, Return, CloseSocket, Listener, grpcPump, stream
  <2>2. fromClient' = <<>> /\ ~reset'
    BY <1>2, <1>6 DEF ReadFails, Return, CloseSocket, OnlyTheEndCloses
  <2> QED  BY <1>1, <1>2, <2>1, <2>2
           DEF OnlyTheEndCloses, OneLine, ReasonFollows, Written, CloseWritten
<1> QED  BY <1>3, <1>4, <1>5, <1>6 DEF WsPumpStep

\* The numbers OneLine speaks of.
LEMMA LineTyped ==
  ASSUME WsTyped
  PROVE  /\ screen \in Seq(1..sent) /\ toClient \in Seq(0..sent) /\ taken \in Seq(1..sent)
         /\ down \in Seq(1..sent) /\ sent \in Nat
         /\ Len(screen) \in Nat /\ Len(toClient) \in Nat /\ Len(down) \in Nat
         /\ Len(taken) \in {0, 1} /\ (taken # <<>> <=> Len(taken) = 1)
         /\ (CloseWritten => Len(toClient) # 0) /\ Written \in Nat
         /\ DOMAIN screen = 1..Len(screen) /\ DOMAIN toClient = 1..Len(toClient)
         /\ DOMAIN down = 1..Len(down)
<1>1. /\ screen \in Seq(1..sent) /\ toClient \in Seq(0..sent) /\ AtMostOne(taken, 1..sent)
      /\ down \in Seq(1..sent) /\ sent \in Nat
  BY WsConstants DEF WsTyped, WsTypeOK
<1>2. Len(screen) \in Nat /\ Len(toClient) \in Nat /\ Len(down) \in Nat
  BY <1>1
<1>3. taken \in Seq(1..sent) /\ Len(taken) \in {0, 1} /\ (taken # <<>> <=> Len(taken) = 1)
  <2>1. taken \in Seq(1..sent)
    BY <1>1 DEF AtMostOne
  <2>2. CASE taken = <<>>
    <3>1. Len(<<>>) = 0
      OBVIOUS
    <3> QED  BY <2>1, <2>2, <3>1
  <2>3. CASE taken # <<>>
    BY <1>1, <2>1, <2>3, OneElement
  <2> QED  BY <2>2, <2>3
<1>4. CloseWritten => Len(toClient) # 0
  BY <1>1 DEF CloseWritten
<1>5. Written \in Nat
  BY <1>2, <1>4 DEF Written
<1>6. /\ DOMAIN screen = 1..Len(screen) /\ DOMAIN toClient = 1..Len(toClient)
      /\ DOMAIN down = 1..Len(down)
  BY <1>1
<1> QED  BY <1>1, <1>2, <1>3, <1>4, <1>5, <1>6

\* The goroutine that passes the responses on takes the first of the stream, and
\* writes it behind those in the socket; at the end of the stream nothing is left.
LEMMA PumpListening ==
  ASSUME WsTyped, Listening, GrpcPumpStep
  PROVE  Listening'
<1> SUFFICES ASSUME Listener' PROVE (OnlyTheEndCloses /\ OneLine /\ ReasonFollows)'
  BY DEF Listening
<1>0. CloseFrame = 0
  BY DEF CloseFrame
<1>1. UNCHANGED <<handler, inHand, client, screen, why, asked, server, status, sent>>
  BY DEF GrpcPumpStep, Recv, RecvEnd, WriteMessage, WriteClose, wsPump, human, stream
<1>2. /\ OnlyTheEndCloses /\ OneLine /\ ReasonFollows
      /\ client = "up" \/ pump = "done" \/ server = "none"
      /\ ~Gone
  BY <1>1 DEF Listening, Listener, ReasonFollows, Gone
<1>3. WsTyped'
  BY PumpTyped
<1>4. pump \notin {"none", "done"} /\ server # "none" /\ connOpen
  BY <1>2 DEF GrpcPumpStep, Recv, RecvEnd, WriteMessage, WriteClose,
              OnlyTheEndCloses, WsTyped, OpensOnce
<1>5. \A i \in DOMAIN toClient : toClient[i] = Len(screen) + i
  BY <1>2, <1>4 DEF OneLine
<1>11. /\ Len(screen) \in Nat /\ Len(toClient) \in Nat
       /\ DOMAIN toClient = 1..Len(toClient)
  BY LineTyped
<1>6. ~CloseWritten /\ Written = Len(screen) + Len(toClient)
  <2>1. CloseWritten => Len(toClient) # 0
    BY LineTyped
  <2>2. \A i \in 1..Len(toClient) : toClient[i] # CloseFrame
    BY <1>0, <1>5, <1>11
  <2>3. ~CloseWritten
    <3>1. Len(toClient) # 0 => Len(toClient) \in 1..Len(toClient)
      BY <1>11
    <3> QED  BY <2>1, <2>2, <3>1 DEF CloseWritten
  <2> QED  BY <1>11, <2>3 DEF Written
<1>7. CASE Recv
  <2>1. /\ down # <<>> /\ taken' = <<Head(down)>> /\ down' = Tail(down) /\ pump' = "writing"
        /\ UNCHANGED <<toClient, fromClient, connOpen, reset>> /\ taken = <<>>
    BY <1>7 DEF Recv, socket, WsTyped, WsTypeOK
  <2>2. OnlyTheEndCloses'
    BY <1>1, <1>2, <1>4, <2>1 DEF OnlyTheEndCloses
  <2>3. Written' = Written
    BY <1>1, <2>1 DEF Written, CloseWritten
  <2>4. /\ Len(down) \in Nat \ {0} /\ Head(down) = down[1]
        /\ DOMAIN Tail(down) = 1..(Len(down) - 1) /\ Len(Tail(down)) = Len(down) - 1
        /\ \A i \in 1..(Len(down) - 1) : i + 1 \in 1..Len(down) /\ Tail(down)[i] = down[i + 1]
    <3>1. down \in Seq(1..sent)
      BY LineTyped
    <3> QED  BY <2>1, <3>1, TailPlaces
  <2>5. Len(taken) = 0 /\ Len(taken') = 1 /\ taken'[1] = down[1]
    <3>1. \A x : Len(<<x>>) = 1 /\ <<x>>[1] = x
      OBVIOUS
    <3>2. Len(<<>>) = 0
      OBVIOUS
    <3> QED  BY <2>1, <2>4, <3>1, <3>2
  <2>6. taken'[1] = Written + 1
    <3>1. Written \in Nat /\ DOMAIN down = 1..Len(down)
      BY LineTyped
    <3>2. 1 \in DOMAIN down
      BY <2>4, <3>1
    <3>3. down[1] = Written + 0 + 1
      BY <1>2, <2>5, <3>2 DEF OneLine
    <3> QED  BY <2>5, <3>1, <3>3
  <2>7. \A i \in 1..(Len(down) - 1) : Tail(down)[i] = Written + 1 + i
    <3> SUFFICES ASSUME NEW i \in 1..(Len(down) - 1) PROVE Tail(down)[i] = Written + 1 + i
      OBVIOUS
    <3>1. i + 1 \in DOMAIN down /\ Tail(down)[i] = down[i + 1]
      BY <2>4, LineTyped
    <3>2. down[i + 1] = Written + Len(taken) + (i + 1)
      BY <1>2, <3>1 DEF OneLine
    <3> QED  BY <2>4, <2>5, <3>1, <3>2, LineTyped
  <2>8. sent = Written + 1 + (Len(down) - 1)
    BY <1>2, <2>4, <2>5, LineTyped DEF OneLine
  <2>9. OneLine'
    BY <1>1, <1>2, <1>4, <2>1, <2>3, <2>4, <2>5, <2>6, <2>7, <2>8 DEF OneLine
  <2>10. ReasonFollows'
    BY <1>1, <1>2, <1>4, <2>1 DEF ReasonFollows, CloseWritten
  <2> QED  BY <2>2, <2>9, <2>10
<1>8. CASE RecvEnd
  <2>1. /\ down = <<>> /\ server = "ended" /\ taken = <<>>
        /\ UNCHANGED <<taken, toClient, down>>
    BY <1>8 DEF RecvEnd, stream, WsTyped, WsTypeOK
  <2>2. \/ status \in Relayed /\ pump' = "closing" /\ UNCHANGED <<connOpen, reset, fromClient>>
        \/ status \notin Relayed /\ pump' = "done" /\ ~reset' /\ fromClient' = <<>>
    BY <1>2, <1>8 DEF RecvEnd, Finish, CloseSocket, OnlyTheEndCloses
  <2>3. OnlyTheEndCloses'
    <3>1. fromClient' = <<>> /\ ~reset' /\ inHand' = <<>>
      BY <1>1, <1>2, <2>2 DEF OnlyTheEndCloses
    <3>2. ~connOpen' => pump' = "done"
      BY <1>4, <2>2
    <3> QED  BY <1>1, <2>1, <3>1, <3>2 DEF OnlyTheEndCloses
  <2>4. OneLine'
    BY <1>1, <1>2, <1>5, <2>1 DEF OneLine, Written, CloseWritten
  <2>5. ReasonFollows'
    BY <1>1, <1>2, <1>4, <2>1, <2>2 DEF ReasonFollows
  <2> QED  BY <2>3, <2>4, <2>5
<1>9. CASE WriteMessage
  <2>1. /\ pump = "writing" /\ taken' = <<>> /\ taken # <<>>
        /\ UNCHANGED down
    BY <1>9 DEF WriteMessage, stream, WsTyped, WsTypeOK
  <2>2. /\ toClient' = toClient \o taken /\ pump' = "receiving"
        /\ UNCHANGED <<connOpen, reset, fromClient>>
    BY <1>2, <1>4, <1>9 DEF WriteMessage, WriteLost
  <2>3. OnlyTheEndCloses'
    BY <1>1, <1>2, <1>4, <2>1, <2>2 DEF OnlyTheEndCloses
  <2>4. Len(taken) = 1 /\ taken[1] = Len(screen) + Len(toClient) + 1
    <3>1. Len(taken) = 1
      BY <2>1, LineTyped
    <3>2. taken[1] = Written + 1
      BY <1>2, <2>1 DEF OneLine
    <3> QED  BY <1>6, <3>1, <3>2
  <2>5. /\ DOMAIN toClient' = 1..(Len(toClient) + 1) /\ Len(toClient') = Len(toClient) + 1
        /\ \A i \in 1..Len(toClient) : toClient'[i] = toClient[i]
        /\ toClient'[Len(toClient) + 1] = taken[1]
    <3>1. toClient \in Seq(Nat) /\ taken \in Seq(Nat)
      <4>1. toClient \in Seq(0..sent) /\ taken \in Seq(1..sent)
        BY LineTyped
      <4>2. 1..sent \subseteq Nat /\ 0..sent \subseteq Nat
        OBVIOUS
      <4> QED  BY <4>1, <4>2, WiderSeq
    <3>2. /\ DOMAIN (toClient \o taken) = 1..(Len(toClient) + Len(taken))
          /\ Len(toClient \o taken) = Len(toClient) + Len(taken)
          /\ \A i \in 1..Len(toClient) : (toClient \o taken)[i] = toClient[i]
          /\ \A i \in 1..Len(taken) : (toClient \o taken)[Len(toClient) + i] = taken[i]
      BY <3>1, ConcatPlaces
    <3>3. 1 \in 1..Len(taken)
      BY <2>4
    <3> QED  BY <2>2, <2>4, <3>2, <3>3
  <2>6. \A i \in DOMAIN toClient' : toClient'[i] = Len(screen) + i
    <3> SUFFICES ASSUME NEW i \in 1..(Len(toClient) + 1)
                 PROVE  toClient'[i] = Len(screen) + i
      BY <2>5
    <3>1. i \in 1..Len(toClient) \/ i = Len(toClient) + 1
      BY <1>11
    <3>2. CASE i \in 1..Len(toClient)
      BY <1>5, <1>11, <2>5, <3>2
    <3>3. CASE i = Len(toClient) + 1
      <4>1. toClient'[i] = Len(screen) + Len(toClient) + 1
        BY <2>4, <2>5, <3>3
      <4>2. \A a, b \in Nat : a + b + 1 = a + (b + 1)
        OBVIOUS
      <4>3. Len(screen) + Len(toClient) + 1 = Len(screen) + i
        BY <1>11, <3>3, <4>2
      <4> QED  BY <4>1, <4>3
    <3> QED  BY <3>1, <3>2, <3>3
  <2>7. ~CloseWritten'
    <3>1. toClient'[Len(toClient')] = taken[1]
      BY <2>5
    <3>2. taken[1] # 0
      BY <1>11, <2>4
    <3> QED  BY <1>0, <3>1, <3>2 DEF CloseWritten
  <2>8. Written' = Written + 1 /\ Len(taken') = 0
    <3>1. Len(<<>>) = 0
      OBVIOUS
    <3> QED  BY <1>1, <1>6, <2>1, <2>5, <2>7, <3>1, LineTyped DEF Written
  <2>9. OneLine'
    <3>1. /\ \A i \in DOMAIN down : down[i] = Written + 1 + i
          /\ sent = Written + 1 + Len(down)
      BY <1>2, <2>4 DEF OneLine
    <3>2. Written \in Nat /\ Len(down) \in Nat /\ DOMAIN down = 1..Len(down)
      BY LineTyped
    <3>3. (Written + 1) + 0 = Written + 1
      BY <3>2
    <3>4. /\ \A i \in DOMAIN down' : down'[i] = Written' + Len(taken') + i
          /\ sent' = Written' + Len(taken') + Len(down')
      <4>1. down' = down /\ sent' = sent
        BY <1>1, <2>1
      <4>2. Written' + Len(taken') = Written + 1
        BY <2>8, <3>3
      <4> QED  BY <3>1, <4>1, <4>2
    <3>5. (\A i \in DOMAIN screen : screen[i] = i)'
      BY <1>1, <1>2 DEF OneLine
    <3>6. taken' = <<>>
      BY <2>1
    <3>7. \A i \in DOMAIN toClient' :
            \/ toClient'[i] = Len(screen') + i
            \/ toClient'[i] = CloseFrame /\ i = Len(toClient') /\ pump' = "done"
      <4>1. screen' = screen
        BY <1>1
      <4> QED  BY <2>6, <4>1
    <3> QED  BY <3>4, <3>5, <3>6, <3>7 DEF OneLine
  <2>10. ReasonFollows'
    BY <1>1, <1>2, <1>4, <2>1, <2>2 DEF ReasonFollows
  <2> QED  BY <2>3, <2>9, <2>10
<1>10. CASE WriteClose
  <2>1. /\ pump = "closing" /\ pump' = "done" /\ UNCHANGED <<taken, down>>
        /\ toClient' = Append(toClient, CloseFrame)
        /\ ~reset' /\ fromClient' = <<>>
    BY <1>2, <1>4, <1>10
    DEF WriteClose, WriteLost, Finish, CloseSocket, OnlyTheEndCloses, stream
  <2>2. OnlyTheEndCloses'
    BY <1>1, <1>2, <1>4, <2>1 DEF OnlyTheEndCloses
  <2>3. /\ DOMAIN toClient' = 1..(Len(toClient) + 1) /\ Len(toClient') = Len(toClient) + 1
        /\ \A i \in 1..Len(toClient) : toClient'[i] = toClient[i]
        /\ toClient'[Len(toClient) + 1] = CloseFrame
    <3>1. toClient \in Seq(0..sent) /\ Len(Append(toClient, CloseFrame)) = Len(toClient) + 1
      BY LineTyped
    <3> QED  BY <2>1, <3>1, AppendPlaces
  <2>4. CloseWritten'
    <3>1. toClient' # <<>>
      <4>1. Len(<<>>) = 0 /\ Len(toClient') # 0
        BY <1>11, <2>3
      <4> QED  BY <4>1
    <3> QED  BY <2>3, <3>1 DEF CloseWritten
  <2>5. Written' = Written
    BY <1>1, <1>6, <2>3, <2>4, LineTyped DEF Written
  <2>6. \A i \in DOMAIN toClient' :
          \/ toClient'[i] = Len(screen) + i
          \/ toClient'[i] = CloseFrame /\ i = Len(toClient')
    <3> SUFFICES ASSUME NEW i \in 1..(Len(toClient) + 1)
                 PROVE  \/ toClient'[i] = Len(screen) + i
                        \/ toClient'[i] = CloseFrame /\ i = Len(toClient')
      BY <2>3
    <3>1. i \in 1..Len(toClient) \/ i = Len(toClient) + 1
      BY LineTyped
    <3> QED  BY <1>5, <2>3, <3>1, LineTyped
  <2>7. OneLine'
    BY <1>1, <1>2, <2>1, <2>5, <2>6 DEF OneLine
  <2>8. ReasonFollows'
    BY <1>1, <1>2, <1>4, <2>1, <2>4 DEF ReasonFollows
  <2> QED  BY <2>2, <2>7, <2>8
<1> QED  BY <1>7, <1>8, <1>9, <1>10 DEF GrpcPumpStep

LEMMA ServerListening ==
  ASSUME WsTyped, Listening, ServerStep
  PROVE  Listening'
<1> SUFFICES ASSUME Listener' PROVE (OnlyTheEndCloses /\ OneLine /\ ReasonFollows)'
  BY DEF Listening
<1>1. /\ UNCHANGED <<wsPump, grpcPump, socket, human>>
      /\ server \in {"starting", "serving"} /\ server' # "none"
  BY DEF ServerStep, Refuse, Serve, Hear, Respond, EndStream
<1>2. OnlyTheEndCloses /\ OneLine /\ ReasonFollows
  BY <1>1 DEF Listening, Listener, human
<1>3. pump \notin {"closing", "done"} /\ connOpen /\ client # "ended"
  BY <1>1, <1>2 DEF OnlyTheEndCloses, ReasonFollows
<1>4. OnlyTheEndCloses'
  BY <1>1, <1>2, <1>3 DEF OnlyTheEndCloses, wsPump, grpcPump, socket
<1>5. ReasonFollows'
  BY <1>1, <1>3 DEF ReasonFollows, grpcPump, human
<1>6. Written' = Written
  BY <1>1 DEF Written, CloseWritten, socket, human
<1>0. UNCHANGED <<screen, toClient, taken, pump>>
  BY <1>1 DEF grpcPump, socket, human
<1>10. /\ \A i \in DOMAIN screen' : screen'[i] = i
       /\ \A i \in DOMAIN toClient' :
            \/ toClient'[i] = Len(screen') + i
            \/ toClient'[i] = CloseFrame /\ i = Len(toClient') /\ pump' = "done"
       /\ taken' # <<>> => taken'[1] = Written + 1
  BY <1>0, <1>2 DEF OneLine
<1>7. ASSUME UNCHANGED <<down, sent>> PROVE OneLine'
  <2>1. /\ \A i \in DOMAIN down' : down'[i] = Written + Len(taken) + i
        /\ sent' = Written + Len(taken) + Len(down')
    BY <1>2, <1>7 DEF OneLine
  <2> QED  BY <1>0, <1>6, <1>10, <2>1 DEF OneLine
<1>8. ASSUME Respond PROVE OneLine'
  <2>1. sent' = sent + 1 /\ down' = Append(down, sent + 1)
    BY <1>8 DEF Respond
  <2>2. PICK new : new = sent + 1
    OBVIOUS
  <2>3. /\ down \in Seq(1..sent) /\ Len(down) \in Nat /\ DOMAIN down = 1..Len(down)
        /\ Written \in Nat /\ Len(taken) \in Nat
    BY LineTyped
  <2>4. /\ DOMAIN down' = 1..(Len(down) + 1) /\ Len(down') = Len(down) + 1
        /\ \A i \in 1..Len(down) : down'[i] = down[i]
        /\ down'[Len(down) + 1] = new
    <3>1. Len(Append(down, new)) = Len(down) + 1
      BY <2>3
    <3> QED  BY <2>1, <2>2, <2>3, <3>1, AppendPlaces
  <2>5. new = Written + Len(taken) + (Len(down) + 1)
    BY <1>2, <2>2, <2>3 DEF OneLine
  <2>6. \A i \in DOMAIN down' : down'[i] = Written + Len(taken) + i
    <3>1. \A i \in 1..(Len(down) + 1) : i \in 1..Len(down) \/ i = Len(down) + 1
      BY <2>3
    <3>2. \A i \in 1..Len(down) : down[i] = Written + Len(taken) + i
      BY <1>2, <2>3 DEF OneLine
    <3> QED  BY <2>4, <2>5, <3>1, <3>2
  <2>7. sent' = Written + Len(taken) + Len(down')
    BY <2>1, <2>2, <2>4, <2>5
  <2> QED  BY <1>0, <1>6, <1>10, <2>6, <2>7 DEF OneLine
<1>9. OneLine'
  BY <1>7, <1>8 DEF ServerStep, Refuse, Serve, Hear, EndStream
<1> QED  BY <1>4, <1>5, <1>9

\* What a listener is shown next is the first frame in the socket; when it is the
\* reason of the end, nothing comes after it.
LEMMA SeeListening ==
  ASSUME WsTyped, Listening, See
  PROVE  Listening'
<1> SUFFICES ASSUME Listener' PROVE (OnlyTheEndCloses /\ OneLine /\ ReasonFollows)'
  BY DEF Listening
<1>0. CloseFrame = 0
  BY DEF CloseFrame
<1>1. /\ UNCHANGED <<wsPump, grpcPump, connOpen, reset, fromClient, asked, stream>>
      /\ client = "up" /\ toClient # <<>> /\ toClient' = Tail(toClient)
  BY DEF See
<1>2. OnlyTheEndCloses /\ OneLine /\ ReasonFollows
  BY <1>1 DEF Listening, Listener
<1>3. OnlyTheEndCloses'
  BY <1>1, <1>2 DEF OnlyTheEndCloses, wsPump, grpcPump, stream
<1>4. /\ screen \in Seq(1..sent) /\ toClient \in Seq(0..sent)
      /\ Len(screen) \in Nat /\ Len(toClient) \in Nat \ {0}
      /\ DOMAIN screen = 1..Len(screen) /\ DOMAIN toClient = 1..Len(toClient)
      /\ Len(taken) \in Nat /\ Len(down) \in Nat /\ sent \in Nat
  <2>1. toClient \in Seq(0..sent)
    BY LineTyped
  <2>2. Len(toClient) # 0
    BY <1>1, <2>1
  <2> QED  BY <2>2, LineTyped
<1>5. /\ Head(toClient) = toClient[1] /\ DOMAIN Tail(toClient) = 1..(Len(toClient) - 1)
      /\ Len(Tail(toClient)) = Len(toClient) - 1
      /\ \A i \in 1..(Len(toClient) - 1) :
           i + 1 \in 1..Len(toClient) /\ Tail(toClient)[i] = toClient[i + 1]
  <2>1. Len(Tail(toClient)) = Len(toClient) - 1
    BY <1>1, <1>4
  <2> QED  BY <1>1, <1>4, <2>1, TailPlaces
<1>6. \A i \in 1..Len(toClient) :
        \/ toClient[i] = Len(screen) + i
        \/ toClient[i] = CloseFrame /\ i = Len(toClient) /\ pump = "done"
  BY <1>2, <1>4 DEF OneLine
<1>7. 1 \in 1..Len(toClient) /\ Len(toClient) \in 1..Len(toClient)
  BY <1>4
<1>8. CASE Head(toClient) = CloseFrame
  <2>1. client' = "ended" /\ why' = <<status>> /\ UNCHANGED screen
    BY <1>8 DEF See
  <2>2. Len(toClient) = 1 /\ pump = "done"
    <3>1. toClient[1] # Len(screen) + 1
      BY <1>0, <1>4, <1>5, <1>8
    <3> QED  BY <1>6, <1>7, <3>1
  <2>3. toClient' = <<>> /\ Len(toClient') = 0
    <3>1. Len(Tail(toClient)) = 0
      BY <1>5, <2>2
    <3>2. Tail(toClient) \in Seq(0..sent)
      BY <1>1, <1>4, HeadTailToSet
    <3>3. Tail(toClient) = <<>>
      BY <3>1, <3>2, NothingIn
    <3> QED  BY <1>1, <3>1, <3>3
  <2>4. CloseWritten /\ ~CloseWritten'
    BY <1>1, <1>5, <1>8, <2>2, <2>3 DEF CloseWritten
  <2>5. Written' = Written
    BY <1>4, <2>1, <2>2, <2>3, <2>4 DEF Written
  <2>6. DOMAIN toClient' = {}
    BY <2>3
  <2>7. OneLine'
    BY <1>1, <1>2, <2>1, <2>5, <2>6 DEF OneLine, grpcPump, stream
  <2>8. server = "ended"
    BY <1>2, <2>2 DEF OnlyTheEndCloses
  <2>9. ReasonFollows'
    BY <1>1, <2>1, <2>2, <2>3, <2>8
    DEF ReasonFollows, WsTyped, OpensOnce, wsPump, grpcPump, stream
  <2> QED  BY <1>3, <2>7, <2>9
<1>9. CASE Head(toClient) # CloseFrame
  <2>1. UNCHANGED <<client, why>> /\ screen' = Append(screen, Head(toClient))
    BY <1>9 DEF See
  <2>2. PICK new : new = Head(toClient)
    OBVIOUS
  <2>3. new = Len(screen) + 1
    BY <1>5, <1>6, <1>7, <1>9, <2>2
  <2>4. /\ DOMAIN screen' = 1..(Len(screen) + 1) /\ Len(screen') = Len(screen) + 1
        /\ \A i \in 1..Len(screen) : screen'[i] = screen[i]
        /\ screen'[Len(screen) + 1] = new
    <3>1. Len(Append(screen, new)) = Len(screen) + 1
      BY <1>4
    <3> QED  BY <1>4, <2>1, <2>2, <3>1, AppendPlaces
  <2>5. \A i \in DOMAIN screen' : screen'[i] = i
    <3>1. \A i \in 1..(Len(screen) + 1) : i \in 1..Len(screen) \/ i = Len(screen) + 1
      BY <1>4
    <3>2. \A i \in 1..Len(screen) : screen[i] = i
      BY <1>2, <1>4 DEF OneLine
    <3> QED  BY <2>3, <2>4, <3>1, <3>2
  <2>6. \A i \in DOMAIN toClient' :
          \/ toClient'[i] = Len(screen') + i
          \/ toClient'[i] = CloseFrame /\ i = Len(toClient') /\ pump' = "done"
    <3> SUFFICES ASSUME NEW i \in 1..(Len(toClient) - 1)
                 PROVE  \/ Tail(toClient)[i] = Len(screen') + i
                        \/ /\ Tail(toClient)[i] = CloseFrame /\ i = Len(toClient')
                           /\ pump' = "done"
      BY <1>1, <1>5
    <3>1. i + 1 \in 1..Len(toClient) /\ Tail(toClient)[i] = toClient[i + 1]
      BY <1>5
    <3>2. \/ toClient[i + 1] = Len(screen) + (i + 1)
          \/ toClient[i + 1] = CloseFrame /\ i + 1 = Len(toClient) /\ pump = "done"
      BY <1>6, <3>1
    <3>3. Len(screen) + (i + 1) = Len(screen') + i
      <4>1. i \in Nat /\ Len(screen) \in Nat /\ Len(screen') = Len(screen) + 1
        BY <1>4, <2>4
      <4> QED  BY <4>1
    <3>4. i + 1 = Len(toClient) => i = Len(toClient')
      <4>1. i \in Nat /\ Len(toClient) \in Nat /\ Len(toClient') = Len(toClient) - 1
        BY <1>1, <1>4, <1>5
      <4> QED  BY <4>1
    <3> QED  BY <1>1, <3>1, <3>2, <3>3, <3>4 DEF grpcPump
  <2>7. CloseWritten' <=> CloseWritten
    <3>1. CASE Len(toClient) = 1
      <4>1. ~CloseWritten
        BY <1>5, <1>9, <3>1 DEF CloseWritten
      <4>2. toClient' = <<>>
        <5>1. Len(Tail(toClient)) = 0 /\ Tail(toClient) \in Seq(0..sent)
          BY <1>1, <1>4, <1>5, <3>1
        <5> QED  BY <1>1, <5>1
      <4> QED  BY <4>1, <4>2 DEF CloseWritten
    <3>2. CASE Len(toClient) # 1
      <4>1. Len(toClient) - 1 \in 1..(Len(toClient) - 1) /\ Len(toClient') = Len(toClient) - 1
        BY <1>1, <1>4, <1>5, <3>2
      <4>2. toClient'[Len(toClient')] = toClient[(Len(toClient) - 1) + 1]
        BY <1>1, <1>5, <4>1
      <4>3. (Len(toClient) - 1) + 1 = Len(toClient)
        BY <1>4
      <4>4. toClient' # <<>>
        <5>1. Len(<<>>) = 0 /\ Len(toClient') # 0
          BY <1>4, <3>2, <4>1
        <5> QED  BY <5>1
      <4> QED  BY <1>1, <4>2, <4>3, <4>4 DEF CloseWritten
    <3> QED  BY <3>1, <3>2
  <2>8. Written' = Written
    <3>1. Len(screen') + Len(toClient') = Len(screen) + Len(toClient)
      BY <1>1, <1>4, <1>5, <2>4
    <3> QED  BY <2>7, <3>1 DEF Written
  <2>9. OneLine'
    BY <1>1, <1>2, <2>5, <2>6, <2>8 DEF OneLine, grpcPump, stream
  <2>10. ReasonFollows'
    BY <1>1, <1>2, <2>1, <2>7 DEF ReasonFollows, wsPump, grpcPump, stream
  <2> QED  BY <1>3, <2>9, <2>10
<1> QED  BY <1>8, <1>9

LEMMA ClientListening ==
  ASSUME WsTyped, Listening, ClientStep
  PROVE  Listening'
<1> SUFFICES ASSUME Listener' PROVE Listening'
  BY DEF Listening
<1>1. ~Leave /\ ~Vanish
  BY DEF Leave, Vanish, Listener
<1>2. ~Ask
  BY WsConstants DEF Ask, Listener, WsTyped, WsTypeOK
<1>3. CASE See
  BY <1>3, SeeListening
<1>4. CASE SeeEnd
  <2>1. /\ client = "up" /\ client' = "ended" /\ ~connOpen /\ (toClient = <<>> \/ reset)
        /\ UNCHANGED <<wsPump, grpcPump, socket, screen, why, asked, stream>>
    BY <1>4 DEF SeeEnd
  <2>2. OnlyTheEndCloses /\ OneLine /\ ReasonFollows
    BY <2>1 DEF Listening, Listener
  <2>3. OnlyTheEndCloses'
    BY <2>1, <2>2 DEF OnlyTheEndCloses, wsPump, grpcPump, socket, stream
  <2>4. OneLine'
    BY <2>1, <2>2 DEF OneLine, Written, CloseWritten, grpcPump, socket, stream
  <2>5. ReasonFollows'
    BY <2>1, <2>2 DEF ReasonFollows, OnlyTheEndCloses, CloseWritten, WsTyped, OpensOnce,
                      wsPump, grpcPump, socket, stream
  <2> QED  BY <2>3, <2>4, <2>5 DEF Listening
<1> QED  BY <1>1, <1>2, <1>3, <1>4 DEF ClientStep

LEMMA StepListening ==
  ASSUME WsTyped, Listening, [WsNext]_wsVars
  PROVE  Listening'
<1>1. CASE UNCHANGED wsVars
  BY <1>1 DEF Listening, Listener, OnlyTheEndCloses, OneLine, ReasonFollows, Written,
              CloseWritten, wsVars, wsPump, grpcPump, socket, human, stream
<1> QED
  BY <1>1, HandlerListening, PumpListening, ServerListening, ClientListening DEF WsNext

LEMMA ListeningSees ==
  ASSUME WsTyped, Listening
  PROVE  ListenerSeesAll
<1> SUFFICES ASSUME client = "ended", asked = 0, server # "none"
             PROVE  /\ server = "ended" /\ screen = [i \in 1..sent |-> i]
                    /\ status \in Relayed => why = <<status>>
  BY DEF ListenerSeesAll
<1>1. OnlyTheEndCloses /\ OneLine /\ ReasonFollows
  BY DEF Listening, Listener
<1>2. pump = "done" /\ toClient = <<>> /\ server = "ended" /\ down = <<>> /\ taken = <<>>
  BY <1>1 DEF OnlyTheEndCloses, ReasonFollows
<1>3. ~CloseWritten
  BY <1>2 DEF CloseWritten
<1>4. sent = Len(screen)
  <2>1. Len(<<>>) = 0 /\ Len(screen) \in Nat
    BY LineTyped
  <2>2. Written = Len(screen)
    BY <1>2, <1>3, <2>1 DEF Written
  <2> QED  BY <1>1, <1>2, <2>1, <2>2 DEF OneLine
<1>5. screen = [i \in 1..sent |-> i]
  <2>1. screen \in Seq(1..sent) /\ \A i \in 1..Len(screen) : screen[i] = i
    BY <1>1, LineTyped DEF OneLine
  <2> QED  BY <1>4, <2>1
<1> QED  BY <1>1, <1>2, <1>3, <1>5 DEF ReasonFollows

-----------------------------------------------------------------------------
(* The accounts: typing. *)

\* There is a number for every user.
AccountsTyped == AccountsTypeOK /\ Len(users) <= MaxUsers

LEMMA AccountsConstants ==
  /\ Demo \in Names /\ MaxUsers \in Nat \ {0} /\ MaxGrants \in Nat
  /\ Offers \subseteq SUBSET (0..MaxUsers) /\ NoUser = 0
BY AccountsAssumption DEF AccountsAssumption, NoUser

LEMMA UsersTyped ==
  ASSUME AccountsTyped
  PROVE  /\ users \in Seq(User) /\ Len(users) \in Nat /\ Len(users) <= MaxUsers
         /\ DOMAIN users = Uids /\ Uids = 1..Len(users) /\ Uids \subseteq 1..MaxUsers
         /\ NoUser \notin Uids
         /\ \A u \in Uids : users[u] \in User /\ users[u].name \in Names
<1>1. users \in Seq(User) /\ Len(users) <= MaxUsers
  BY DEF AccountsTyped, AccountsTypeOK
<1>2. Len(users) \in Nat /\ DOMAIN users = 1..Len(users) /\ Uids = 1..Len(users)
  BY <1>1 DEF Uids
<1>3. Uids \subseteq 1..MaxUsers /\ NoUser \notin Uids
  BY <1>1, <1>2, AccountsConstants
<1>4. \A u \in Uids : users[u] \in User /\ users[u].name \in Names
  <2>1. \A u \in Uids : users[u] \in User
    BY <1>1, <1>2, ElementOf
  <2>2. \A user \in User : user.name \in Names
    BY DEF User
  <2> QED  BY <2>1, <2>2
<1>5. DOMAIN users = Uids /\ Uids = 1..Len(users) /\ Len(users) \in Nat
  BY <1>2
<1> QED  BY <1>1, <1>3, <1>4, <1>5

LEMMA AccountsInitTyped == AccountsInit => AccountsTyped
<1> SUFFICES ASSUME AccountsInit PROVE AccountsTyped
  OBVIOUS
<1>1. PICK first : first = [name |-> Demo, scope |-> {0}, admin |-> TRUE]
  OBVIOUS
<1>2. users = <<first>>
  BY <1>1 DEF AccountsInit
<1>3. first \in User
  BY <1>1, AccountsConstants DEF User
<1>4. /\ users \in Seq(User) /\ Len(users) = 1
  BY <1>2, <1>3
<1>5. \A u, v \in Uids : u = v
  BY <1>4 DEF Uids
<1>6. granting = <<>> /\ granting \in Seq(Grant) /\ Len(granting) <= 1 /\ DOMAIN granting = {}
  BY DEF AccountsInit
<1>7. registering \in [Callers -> {NoUser} \cup Uids] /\ page \in {NoUser} \cup Uids
      /\ grants \in 0..MaxGrants /\ granted \subseteq Uids
  BY AccountsConstants DEF AccountsInit
<1> QED
  BY <1>4, <1>5, <1>6, <1>7, AccountsConstants DEF AccountsTyped, AccountsTypeOK

\* What a call of UpdateUserAllExData leaves: one user's scope is another.
LEMMA ScopeSet ==
  ASSUME AccountsTyped, NEW u \in Uids, NEW scope \in SUBSET (0..MaxUsers),
         SetScope(u, scope)
  PROVE  /\ users' \in Seq(User) /\ Len(users)' = Len(users) /\ Uids' = Uids
         /\ \A v \in Uids : users'[v].name = users[v].name
         /\ users'[u].scope = scope /\ \A v \in Uids \ {u} : users'[v] = users[v]
<1>1. users \in Seq(User) /\ DOMAIN users = Uids /\ Uids = 1..Len(users) /\ Len(users) \in Nat
  BY UsersTyped
<1>2. users[u] \in User
  BY UsersTyped
<1>3. PICK new : new = [users[u] EXCEPT !.scope = scope, !.admin = FALSE]
  OBVIOUS
<1>4. new \in User /\ new.scope = scope /\ new.name = users[u].name
  BY <1>2, <1>3 DEF User
<1>5. users' = [users EXCEPT ![u] = new]
  BY <1>1, <1>3 DEF SetScope
<1>6. users' \in Seq(User) /\ Len(users') = Len(users)
  BY <1>1, <1>4, <1>5
<1>7. users'[u] = new /\ \A v \in Uids \ {u} : users'[v] = users[v]
  BY <1>1, <1>5
<1> QED  BY <1>4, <1>6, <1>7 DEF Uids

\* What a call that adds a user leaves: one more user, of a name that is new.
LEMMA UserAdded ==
  ASSUME AccountsTyped, NEW name \in Names, AddUser(name)
  PROVE  /\ users' \in Seq(User) /\ Len(users') = Len(users) + 1 /\ Len(users') <= MaxUsers
         /\ Uids' = Uids \cup {Len(users) + 1} /\ Len(users) + 1 \in Uids'
         /\ \A v \in Uids : users'[v] = users[v] /\ users[v].name # name
         /\ users'[Len(users) + 1].name = name
<1>1. /\ users \in Seq(User) /\ Uids = 1..Len(users) /\ Len(users) \in Nat
  BY UsersTyped
<1>2. PICK new : new = [name |-> name, scope |-> {}, admin |-> FALSE]
  OBVIOUS
<1>3. new \in User /\ new.name = name
  BY <1>2 DEF User
<1>4. users' = Append(users, new) /\ ~Known(name) /\ Len(users) < MaxUsers
  BY <1>2 DEF AddUser
<1>5. /\ users' \in Seq(User) /\ Len(users') = Len(users) + 1
  BY <1>1, <1>3, <1>4
<1>6. /\ \A v \in Uids : users'[v] = users[v]
      /\ users'[Len(users) + 1] = new
  BY <1>1, <1>4, AppendPlaces
<1>7. Len(users') <= MaxUsers
  BY <1>1, <1>4, <1>5, AccountsConstants
<1>8. Uids' = Uids \cup {Len(users) + 1} /\ Len(users) + 1 \in Uids'
  BY <1>1, <1>5 DEF Uids
<1> QED  BY <1>3, <1>4, <1>5, <1>6, <1>7, <1>8 DEF Known

LEMMA AccountsStepTyped ==
  ASSUME AccountsTyped, [AccountsNext]_accountsVars
  PROVE  AccountsTyped' /\ Uids \subseteq Uids'
<1>1. /\ users \in Seq(User) /\ Len(users) <= MaxUsers /\ Uids = 1..Len(users)
      /\ \A u, v \in Uids : users[u].name = users[v].name => u = v
      /\ registering \in [Callers -> {NoUser} \cup Uids]
      /\ granting \in Seq(Grant) /\ Len(granting) <= 1
      /\ \A i \in DOMAIN granting : granting[i].target \in Uids
      /\ grants \in 0..MaxGrants /\ granted \subseteq Uids /\ page \in {NoUser} \cup Uids
  BY UsersTyped DEF AccountsTyped, AccountsTypeOK
<1>2. CASE UNCHANGED accountsVars
  BY <1>2 DEF AccountsTyped, AccountsTypeOK, Uids, accountsVars
<1>3. ASSUME NEW c \in Callers, NEW name \in Names, Register(c, name)
      PROVE  AccountsTyped' /\ Uids \subseteq Uids'
  <2>1. AddUser(name) /\ UNCHANGED <<granting, grants, granted, page>>
        /\ registering' = [registering EXCEPT ![c] = Len(users) + 1]
    BY <1>3 DEF Register
  <2>2. \A u, v \in Uids' : users'[u].name = users'[v].name => u = v
    <3>1. PICK new : new = Len(users) + 1
      OBVIOUS
    <3>2. /\ Uids' = Uids \cup {new} /\ users'[new].name = name
          /\ \A v \in Uids : users'[v] = users[v] /\ users[v].name # name
      BY <2>1, <3>1, UserAdded
    <3>3. \A u, v \in Uids : users[u].name = users[v].name => u = v
      BY <1>1
    <3> QED  BY <3>2, <3>3
  <2>3. registering' \in [Callers -> {NoUser} \cup Uids']
    BY <1>1, <2>1, UserAdded
  <2>4. users' \in Seq(User) /\ Len(users') <= MaxUsers /\ Uids \subseteq Uids'
    BY <2>1, UserAdded
  <2>5. /\ granting' \in Seq(Grant) /\ Len(granting') <= 1
        /\ \A i \in DOMAIN granting' : granting'[i].target \in Uids'
        /\ grants' \in 0..MaxGrants
    BY <1>1, <2>1, <2>4
  <2>6. granted' \subseteq Uids' /\ page' \in {NoUser} \cup Uids'
    BY <1>1, <2>1, <2>4
  <2> QED  BY <2>2, <2>3, <2>4, <2>5, <2>6 DEF AccountsTyped, AccountsTypeOK
<1>4. ASSUME users' \in Seq(User), Len(users)' = Len(users), Uids' = Uids,
             \A v \in Uids : users'[v].name = users[v].name,
             registering' \in [Callers -> {NoUser} \cup Uids],
             granting' \in Seq(Grant), Len(granting)' <= 1,
             \A i \in DOMAIN granting' : granting'[i].target \in Uids,
             grants' \in 0..MaxGrants, granted' \subseteq Uids, page' \in {NoUser} \cup Uids
      PROVE  AccountsTyped' /\ Uids \subseteq Uids'
  BY <1>1, <1>4 DEF AccountsTyped, AccountsTypeOK
<1>5. ASSUME NEW c \in Callers, RegisterScope(c)
      PROVE  AccountsTyped' /\ Uids \subseteq Uids'
  <2>1. /\ registering[c] \in Uids /\ registering' = [registering EXCEPT ![c] = NoUser]
        /\ SetScope(registering[c], {registering[c]}) \/ UNCHANGED users
        /\ UNCHANGED <<granting, grants, granted, page>>
    BY <1>1, <1>5 DEF RegisterScope
  <2>2. PICK u \in Uids : u = registering[c]
    BY <2>1
  <2>3. {u} \in SUBSET (0..MaxUsers)
    BY UsersTyped, AccountsConstants
  <2>4. /\ users' \in Seq(User) /\ Len(users)' = Len(users) /\ Uids' = Uids
        /\ \A v \in Uids : users'[v].name = users[v].name
    BY <1>1, <2>1, <2>2, <2>3, ScopeSet DEF Uids
  <2>5. registering' \in [Callers -> {NoUser} \cup Uids]
    BY <1>1, <2>1
  <2> QED  BY <1>1, <1>4, <2>1, <2>4, <2>5
<1>6. ASSUME NEW u \in Uids, Login(u)
      PROVE  AccountsTyped' /\ Uids \subseteq Uids'
  <2>1. page' = u /\ UNCHANGED <<users, registering, granting, grants, granted>>
    BY <1>6 DEF Login
  <2>2. Uids' = Uids
    BY <2>1 DEF Uids
  <2> QED  BY <1>1, <1>4, <2>1, <2>2
<1>7. ASSUME NEW u \in Uids, NEW scope \in Offers, CheckAdmin(u, scope)
      PROVE  AccountsTyped' /\ Uids \subseteq Uids'
  <2>1. PICK new : new = [target |-> u, scope |-> scope]
    OBVIOUS
  <2>2. new \in Grant /\ new.target = u
    BY <2>1, UsersTyped DEF Grant
  <2>3. granting' = <<new>> /\ grants' = grants + 1 /\ grants < MaxGrants
        /\ UNCHANGED <<users, registering, granted, page>>
    BY <1>7, <2>1 DEF CheckAdmin
  <2>4. /\ granting' \in Seq(Grant) /\ Len(granting)' <= 1
        /\ \A i \in DOMAIN granting' : granting'[i].target \in Uids
    BY <2>2, <2>3
  <2>5. grants' \in 0..MaxGrants
    BY <1>1, <2>3, AccountsConstants
  <2>6. Uids' = Uids
    BY <2>3 DEF Uids
  <2> QED  BY <1>1, <1>4, <2>3, <2>4, <2>5, <2>6
<1>8. ASSUME SetPermissions
      PROVE  AccountsTyped' /\ Uids \subseteq Uids'
  <2>1. /\ granting # <<>> /\ granting' = <<>> /\ UNCHANGED <<registering, grants, page>>
        /\ SetScope(granting[1].target, granting[1].scope)
        /\ granted' = granted \cup {granting[1].target}
    BY <1>8 DEF SetPermissions
  <2>2. granting[1].target \in Uids /\ granting[1].scope \in SUBSET (0..MaxUsers)
    <3>1. 1 \in DOMAIN granting
      BY <1>1, <2>1
    <3>2. granting[1] \in Grant
      BY <1>1, <3>1, ElementOf
    <3> QED  BY <1>1, <3>1, <3>2, AccountsConstants DEF Grant
  <2>3. PICK u \in Uids, scope \in SUBSET (0..MaxUsers) :
          u = granting[1].target /\ scope = granting[1].scope
    BY <2>2
  <2>4. /\ users' \in Seq(User) /\ Len(users)' = Len(users) /\ Uids' = Uids
        /\ \A v \in Uids : users'[v].name = users[v].name
    BY <2>1, <2>3, ScopeSet
  <2>5. /\ granting' \in Seq(Grant) /\ Len(granting)' <= 1 /\ DOMAIN granting' = {}
    BY <2>1
  <2> QED  BY <1>1, <1>4, <2>1, <2>2, <2>4, <2>5
<1> QED  BY <1>2, <1>3, <1>5, <1>6, <1>7, <1>8 DEF AccountsNext

-----------------------------------------------------------------------------
(* Who gets in by the page has a scope. *)

\* He had one when the page let him in, and only an administrator takes it away.
Entitled(u) == u = NoUser \/ users[u].scope # {} \/ u \in granted

\* The invariant behind PageIsScoped: it is so of the page's token and of the one the
\* stream was opened with.
Scoped == Entitled(page) /\ Entitled(holder) /\ PageIsScoped

FrontTyped ==
  /\ WsTyped /\ AccountsTyped
  /\ holder \in {NoUser} \cup Uids
  /\ streamScope \in SUBSET (0..MaxUsers)

\* A step of the three is a step, or none, of the connection and of the accounts.
LEMMA FrontStepParts ==
  ASSUME [FrontNext]_frontVars
  PROVE  [WsNext]_wsVars /\ [AccountsNext]_accountsVars
<1>1. CASE UNCHANGED frontVars
  BY <1>1 DEF frontVars
<1>2. CASE OpenWithToken
  BY <1>2 DEF OpenWithToken, WsNext, accountsVars
<1>3. CASE RefuseToken
  BY <1>3 DEF RefuseToken, WsNext, ServerStep
<1>4. CASE ServeToken
  BY <1>4 DEF ServeToken, WsNext, ServerStep
<1>5. CASE /\ NoStream \/ WsPumpStep \/ GrpcPumpStep \/ Hear \/ Respond \/ EndStream \/ ClientStep
           /\ Elsewhere
  BY <1>5 DEF Elsewhere, WsNext, ServerStep
<1>6. CASE AccountsNext /\ UNCHANGED <<wsVars, holder, streamScope>>
  BY <1>6
<1> QED  BY <1>1, <1>2, <1>3, <1>4, <1>5, <1>6 DEF FrontNext

\* What a step does with the token the stream was opened with, and with its scope.
LEMMA HolderStep ==
  ASSUME [FrontNext]_frontVars
  PROVE  /\ \/ UNCHANGED holder
            \/ OpenStream /\ holder' = page /\ UNCHANGED <<accountsVars, streamScope>>
         /\ \/ UNCHANGED streamScope
            \/ /\ holder # NoUser /\ Serve /\ streamScope' = users[holder].scope
               /\ UNCHANGED <<accountsVars, holder>>
         /\ server' = "serving" => server = "serving" \/ ServeToken
<1>1. CASE UNCHANGED frontVars
  BY <1>1 DEF frontVars, wsVars, stream
<1>2. CASE OpenWithToken
  BY <1>2 DEF OpenWithToken, OpenStream
<1>3. CASE RefuseToken
  BY <1>3 DEF RefuseToken, Refuse
<1>4. CASE ServeToken
  BY <1>4 DEF ServeToken
<1>5. CASE /\ NoStream \/ WsPumpStep \/ GrpcPumpStep \/ Hear \/ Respond \/ EndStream \/ ClientStep
           /\ Elsewhere
  <2>1. UNCHANGED <<holder, streamScope>>
    BY <1>5 DEF Elsewhere
  <2>2. server' = "serving" => server = "serving"
    BY <1>5 DEF NoStream, WsPumpStep, ReadMessage, ReadFails, SendMsg, GrpcPumpStep, Recv,
                RecvEnd, WriteMessage, WriteClose, Hear, Respond, EndStream, ClientStep, Ask,
                Leave, Vanish, See, SeeEnd, stream
  <2> QED  BY <2>1, <2>2
<1>6. CASE AccountsNext /\ UNCHANGED <<wsVars, holder, streamScope>>
  BY <1>6 DEF wsVars, stream
<1> QED  BY <1>1, <1>2, <1>3, <1>4, <1>5, <1>6 DEF FrontNext

LEMMA InitFront == FrontInit => FrontTyped /\ ServedWhileThere /\ Listening /\ Scoped
<1> SUFFICES ASSUME FrontInit PROVE FrontTyped /\ ServedWhileThere /\ Listening /\ Scoped
  OBVIOUS
<1>1. WsInit /\ AccountsInit /\ holder = NoUser /\ streamScope = {}
  BY DEF FrontInit
<1>2. server = "none" /\ page = NoUser
  BY <1>1 DEF WsInit, AccountsInit
<1>3. WsTyped /\ AccountsTyped /\ Listening
  BY <1>1, WsInitTyped, AccountsInitTyped, InitListening
<1> QED
  BY <1>1, <1>2, <1>3 DEF FrontTyped, ServedWhileThere, Scoped, Entitled, PageIsScoped

LEMMA FrontStepTyped ==
  ASSUME FrontTyped, [FrontNext]_frontVars
  PROVE  FrontTyped'
<1>1. /\ WsTyped /\ AccountsTyped /\ holder \in {NoUser} \cup Uids
      /\ streamScope \in SUBSET (0..MaxUsers)
  BY DEF FrontTyped
<1>2. WsTyped' /\ AccountsTyped' /\ Uids \subseteq Uids'
  BY <1>1, FrontStepParts, WsStepTyped, AccountsStepTyped
<1>3. page \in {NoUser} \cup Uids
  BY <1>1 DEF AccountsTyped, AccountsTypeOK
<1>4. holder' \in {NoUser} \cup Uids'
  BY <1>1, <1>2, <1>3, HolderStep
<1>5. streamScope' \in SUBSET (0..MaxUsers)
  <2>1. \A u \in Uids : users[u].scope \in SUBSET (0..MaxUsers)
    <3>1. \A user \in User : user.scope \in SUBSET (0..MaxUsers)
      BY DEF User
    <3> QED  BY <1>1, <3>1, UsersTyped
  <2> QED  BY <1>1, <2>1, HolderStep
<1> QED  BY <1>2, <1>4, <1>5 DEF FrontTyped

\* No call takes a scope away but SetPermissions, which is an administrator's; the page
\* lets nobody in who has none.
LEMMA StaysEntitled ==
  ASSUME AccountsTyped, [AccountsNext]_accountsVars
  PROVE  /\ \A u \in {NoUser} \cup Uids : Entitled(u) => Entitled(u)'
         /\ Entitled(page) => Entitled(page)'
         /\ granted \subseteq granted'
<1>1. /\ registering \in [Callers -> {NoUser} \cup Uids] /\ page \in {NoUser} \cup Uids
      /\ granting \in Seq(Grant) /\ \A i \in DOMAIN granting : granting[i].target \in Uids
  BY DEF AccountsTyped, AccountsTypeOK
<1>2. ASSUME granted \subseteq granted',
             \A v \in Uids : users[v].scope # {} => users'[v].scope # {} \/ v \in granted'
      PROVE  \A u \in {NoUser} \cup Uids : Entitled(u) => Entitled(u)'
  BY <1>2 DEF Entitled
<1>3. CASE UNCHANGED accountsVars
  BY <1>3 DEF Entitled, accountsVars
<1>4. ASSUME NEW c \in Callers, NEW name \in Names, Register(c, name)
      PROVE  /\ \A u \in {NoUser} \cup Uids : Entitled(u) => Entitled(u)'
             /\ UNCHANGED <<page, granted>>
  <2>1. AddUser(name) /\ UNCHANGED <<page, granted>>
    BY <1>4 DEF Register
  <2>2. \A v \in Uids : users'[v] = users[v]
    BY <2>1, UserAdded
  <2> QED  BY <1>2, <2>1, <2>2
<1>5. ASSUME NEW c \in Callers, RegisterScope(c)
      PROVE  /\ \A u \in {NoUser} \cup Uids : Entitled(u) => Entitled(u)'
             /\ UNCHANGED <<page, granted>>
  <2>1. /\ registering[c] \in Uids /\ UNCHANGED <<page, granted>>
        /\ SetScope(registering[c], {registering[c]}) \/ UNCHANGED users
    BY <1>1, <1>5 DEF RegisterScope
  <2>2. PICK u \in Uids : u = registering[c]
    BY <2>1
  <2>3. {u} \in SUBSET (0..MaxUsers)
    BY UsersTyped, AccountsConstants
  <2>4. \A v \in Uids : users[v].scope # {} => users'[v].scope # {}
    <3>1. CASE SetScope(registering[c], {registering[c]})
      <4>1. SetScope(u, {u})
        BY <2>2, <3>1
      <4>2. users'[u].scope = {u} /\ \A v \in Uids \ {u} : users'[v] = users[v]
        BY <2>3, <4>1, ScopeSet
      <4> QED  BY <4>2
    <3>2. CASE UNCHANGED users
      BY <3>2
    <3> QED  BY <2>1, <3>1, <3>2
  <2> QED  BY <1>2, <2>1, <2>4
<1>6. ASSUME NEW u \in Uids, Login(u)
      PROVE  /\ \A v \in {NoUser} \cup Uids : Entitled(v) => Entitled(v)'
             /\ UNCHANGED granted /\ Entitled(page)'
  BY <1>6 DEF Login, Entitled
<1>7. ASSUME NEW u \in Uids, NEW scope \in Offers, CheckAdmin(u, scope)
      PROVE  /\ \A v \in {NoUser} \cup Uids : Entitled(v) => Entitled(v)'
             /\ UNCHANGED <<page, granted>>
  BY <1>7 DEF CheckAdmin, Entitled
<1>8. ASSUME SetPermissions
      PROVE  /\ \A u \in {NoUser} \cup Uids : Entitled(u) => Entitled(u)'
             /\ UNCHANGED page /\ granted \subseteq granted'
  <2>1. /\ granting # <<>> /\ UNCHANGED page
        /\ SetScope(granting[1].target, granting[1].scope)
        /\ granted' = granted \cup {granting[1].target}
    BY <1>8 DEF SetPermissions
  <2>2. granting[1].target \in Uids /\ granting[1].scope \in SUBSET (0..MaxUsers)
    <3>1. 1 \in DOMAIN granting
      BY <1>1, <2>1
    <3>2. granting[1] \in Grant
      BY <1>1, <3>1, ElementOf
    <3> QED  BY <1>1, <3>1, <3>2, AccountsConstants DEF Grant
  <2>3. PICK u \in Uids, scope \in SUBSET (0..MaxUsers) :
          u = granting[1].target /\ scope = granting[1].scope
    BY <2>2
  <2>4. \A v \in Uids \ {u} : users'[v] = users[v]
    BY <2>1, <2>3, ScopeSet
  <2> QED  BY <1>2, <2>1, <2>3, <2>4
<1>9. ASSUME \A u \in {NoUser} \cup Uids : Entitled(u) => Entitled(u)', UNCHANGED page
      PROVE  Entitled(page) => Entitled(page)'
  BY <1>1, <1>9 DEF Entitled
<1> QED  BY <1>3, <1>4, <1>5, <1>6, <1>7, <1>8, <1>9 DEF AccountsNext

LEMMA StepScoped ==
  ASSUME FrontTyped, Scoped, [FrontNext]_frontVars
  PROVE  Scoped'
<1>1. /\ AccountsTyped /\ [AccountsNext]_accountsVars /\ holder \in {NoUser} \cup Uids
      /\ Entitled(page) /\ Entitled(holder) /\ PageIsScoped
  BY FrontStepParts DEF FrontTyped, Scoped
<1>2. Entitled(page)' /\ granted \subseteq granted'
  BY <1>1, StaysEntitled
<1>3. Entitled(holder)'
  <2>1. CASE UNCHANGED holder
    BY <1>1, <2>1, StaysEntitled DEF Entitled
  <2>2. CASE holder' = page /\ UNCHANGED accountsVars
    BY <1>1, <2>2 DEF Entitled, accountsVars
  <2> QED  BY <2>1, <2>2, HolderStep
<1>4. PageIsScoped'
  <2> SUFFICES ASSUME server' = "serving", streamScope' = {} PROVE holder' \in granted'
    BY DEF PageIsScoped
  <2>1. CASE ServeToken
    <3>1. holder # NoUser /\ users[holder].scope = {} /\ UNCHANGED <<holder, granted>>
      BY <2>1 DEF ServeToken, accountsVars
    <3> QED  BY <1>1, <3>1 DEF Entitled
  <2>2. CASE ~ServeToken
    <3>1. server = "serving"
      BY <2>2, HolderStep
    <3>2. UNCHANGED streamScope
      BY <3>1, HolderStep DEF Serve
    <3>3. UNCHANGED holder
      BY <3>1, HolderStep DEF OpenStream, FrontTyped, WsTyped, OpensOnce
    <3> QED  BY <1>1, <1>2, <3>1, <3>2, <3>3 DEF PageIsScoped
  <2> QED  BY <2>1, <2>2
<1> QED  BY <1>2, <1>3, <1>4 DEF Scoped

-----------------------------------------------------------------------------
(* The theorems. *)

\* The handlers' variables, the accounts' and the stream's have values of the kinds the
\* code gives them; in particular a name leads to one user, whatever calls of Register
\* run at once, and what refers to a user refers to one there is.
THEOREM FrontTypedInvariant == FrontSpec => []FrontTypeOK
<1>1. FrontInit => FrontTyped
  BY InitFront
<1>2. FrontTyped /\ [FrontNext]_frontVars => FrontTyped'
  BY FrontStepTyped
<1>3. FrontTyped => FrontTypeOK
  BY DEF FrontTyped, FrontTypeOK, WsTyped, AccountsTyped
<1> QED  BY <1>1, <1>2, <1>3, PTL DEF FrontSpec

\* Neither goroutine of customerWS or servicerWS closes the socket, or stops passing on,
\* while the stream is served, unless the client has left or sent what is no request.
THEOREM ServedInvariant == FrontSpec => []ServedWhileThere
<1>1. FrontInit => FrontTyped /\ ServedWhileThere
  BY InitFront
<1>2. FrontTyped /\ ServedWhileThere /\ [FrontNext]_frontVars => (FrontTyped /\ ServedWhileThere)'
  BY FrontStepTyped, FrontStepParts, StepServed DEF FrontTyped
<1> QED  BY <1>1, <1>2, PTL DEF FrontSpec

\* A client that only listens is shown every response of the stream, once and in order,
\* and then the reason of its end if it is one of those the proxy passes on.
THEOREM ListenerInvariant == FrontSpec => []ListenerSeesAll
<1>1. FrontInit => FrontTyped /\ Listening
  BY InitFront
<1>2. FrontTyped /\ Listening /\ [FrontNext]_frontVars => (FrontTyped /\ Listening)'
  BY FrontStepTyped, FrontStepParts, StepListening DEF FrontTyped
<1>3. FrontTyped /\ Listening => ListenerSeesAll
  BY ListeningSees DEF FrontTyped
<1> QED  BY <1>1, <1>2, <1>3, PTL DEF FrontSpec

\* A stream is served with an empty scope, to which every talk is shown, only if an
\* administrator's SetPermissions was about its user: a registration that is half done,
\* or whose second step failed, does not get past the login page.
THEOREM ScopedInvariant == FrontSpec => []PageIsScoped
<1>1. FrontInit => FrontTyped /\ Scoped
  BY InitFront
<1>2. FrontTyped /\ Scoped /\ [FrontNext]_frontVars => (FrontTyped /\ Scoped)'
  BY FrontStepTyped, StepScoped
<1>3. Scoped => PageIsScoped
  BY DEF Scoped
<1> QED  BY <1>1, <1>2, <1>3, PTL DEF FrontSpec
=============================================================================
