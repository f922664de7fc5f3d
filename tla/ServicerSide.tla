---------------------------- MODULE ServicerSide ----------------------------
(***************************************************************************)
(* The servicers' half of the server.  As on the customers' side, a gRPC   *)
(* stream (Service) has a handler and a receiver, and a main routine owns  *)
(* the registry; but a servicer names the talk in each request, learns of  *)
(* talks from notices that go to everybody, and two of the channels are    *)
(* unbuffered.  A case of the select uses the store and the observers      *)
(* several times while the customers go on; servicerTodo holds the         *)
(* operations of the current case that are still to be done, and each is a *)
(* step.  A read of the store and the sends made from it are one step:     *)
(* only the main routine sends into chSendMessage, so what others do in    *)
(* between can as well be done before or after.                            *)
(*                                                                         *)
(* The customers' half is seen through what it does here: it changes the   *)
(* store and, at some later time, calls the servicers' observer; arriving  *)
(* holds the calls it has still to make.                                   *)
(*                                                                         *)
(* An entry of the registry without streams, which ServiceMessage may      *)
(* leave behind, is not told apart from no entry: only RemoveTrackTalk,    *)
(* which does nothing in a single process, depends on it.                  *)
(***************************************************************************)
EXTENDS TalkStore, Channels

CONSTANTS
  Servicers,           \* servicer streams (the unique id of each)
  UserOf,              \* the user of a stream; one user may have several
  ActsOf, BizsOf,      \* what a stream's token lets it see; {} is everything
  MaxServicerCache,    \* capacity of the five small channels
  MaxServiceMessages,  \* capacity of the message and of the closure channel
  ServiceSendCap,      \* capacity of a stream's chSendMessage
  ServiceRequests,     \* bound: requests each stream makes
  RequestKinds,        \* bound: the kinds of request that are made
  Quitters,            \* bound: the clients that may hang up
  Readers,             \* bound: the clients that take what is sent to them
  Writers,             \* customers, seen from here
  MaxWrites,           \* bound: messages each of them writes
  CustomerMoves,       \* bound: what the customers do besides creating and writing
  ServiceStoreMayFail  \* whether the store may return errors

ASSUME ServicerAssumption ==
  /\ Servicers \cup Writers \subseteq Senders /\ Servicers \cap Writers = {}
  /\ "untold" \notin Users \cup {NoOne}
  /\ UserOf \in [Servicers -> Users]
  /\ ActsOf \in [Servicers -> SUBSET Acts]
  /\ BizsOf \in [Servicers -> SUBSET Bizs]
  /\ MaxServicerCache \in Nat \ {0}
  /\ MaxServiceMessages \in Nat \ {0}
  /\ ServiceSendCap \in Nat \ {0}
  /\ ServiceRequests \in [Servicers -> Nat]
  /\ RequestKinds \subseteq {"attachedTalks", "pendingTalks", "reload", "message",
                             "attach", "detach"}
  /\ Quitters \subseteq Servicers /\ Readers \subseteq Servicers
  /\ MaxWrites \in Nat
  /\ CustomerMoves \subseteq {"close", "reopen", "lose", "again"}
  /\ ServiceStoreMayFail \in BOOLEAN

VARIABLES
  service,             \* where the handler of each stream is
  serviceReceiver,     \* where its receiver is
  serviceRequests,     \* requests received so far
  serviceTalk,         \* the talk of the message in the receiver's hands
  chInstallServicer, chUninstallServicer, chServicerAttachTalk,
  chServicerDetachTalk, chServicerReloadTalk, chServicerMessage,
  servicerRunner,      \* chMainRoutineRunner: the closures posted
  servicers,           \* the registry: user -> its installed streams
  servicerTodo,        \* operations of the current case still to be done
  dismissed,           \* streams whose Remove is still to be called
  chServiceSend,       \* responses waiting for each stream
  serviceInbox,        \* responses each stream has sent to its client
  arriving,            \* calls the customers' half has still to make
  written,             \* messages the customers have written
  reopened,            \* talks a customer has opened again
  unheard,             \* calls lost on the way, to a full channel or to the store
  misled,              \* talks announced as taken or let go that the store failed to note
  outpaced,            \* streams uninstalled while still waiting to install
  unlisted,            \* messages of its user's talks that a stream was not sent when
                       \* installed
  early                \* streams that had heard of talks before they were installed

serviceVars == <<service, serviceReceiver, serviceRequests, serviceTalk>>
talkChans   == <<chServicerAttachTalk, chServicerDetachTalk, chServicerReloadTalk>>
serviceChans == <<chInstallServicer, chUninstallServicer, talkChans, chServicerMessage>>
serviceMain == <<servicers, servicerTodo, dismissed>>
serviceOut  == <<chServiceSend, serviceInbox>>
outsideVars == <<arriving, written, reopened>>
restOfLoss  == <<misled, outpaced, unlisted, early>>
lossVars    == <<unheard, restOfLoss>>
servicerVars == <<serviceVars, serviceChans, servicerRunner, serviceMain, serviceOut,
                  outsideVars, lossVars>>
serviceSideVars == <<talks, servicerVars>>

-----------------------------------------------------------------------------
\* What a response says of a talk.  The status is the store's when the response
\* was made.  Who serves the talk is not in the data of a talk: the list it is
\* in says so (his own talks, or those nobody serves), an attach names the user
\* who took it, a detach one who let it go; the others leave it untold.
Word == [talk : Talks, service : Users \cup {NoOne, "untold"},
         status : {"opened", "closed"}]

\* A response: its words, and the messages it carries with their talks.
ServiceResponse ==
  [ type     : {"talks", "pendingTalks", "attach", "detach", "close", "reload",
                "message", "messageConfirmed", "notify", "kickOut"},
    words    : SUBSET Word,
    contents : SUBSET (Talks \X Message) ]

\* A call of the servicers' observer, which becomes a posted closure.  A detach
\* carries the word of it that was made before it was posted.
Call == [event : {"message"}, talk : Talks, message : Message]
          \cup [event : {"create", "close"}, talk : Talks]
          \cup [event : {"attach"}, talk : Talks, user : Users]
          \cup [event : {"detach"}, talk : Talks, word : Word]

\* What is left to do in a case of the select.
Operation ==
  [op : {"attachedTalks", "pendingTalks", "finishInstall"}, stream : Servicers]
    \cup [op : {"reloadUser"}, talk : Talks, user : Users]
    \cup [op : {"detached"}, talk : Talks]
    \cup [op : {"tellCustomers", "tellServicers"}, call : Call]

Do(op, s) == [op |-> op, stream |-> s]
Tell(who, call) == [op |-> who, call |-> call]

MessageCall(t, m)   == [event |-> "message", talk |-> t, message |-> m]
TalkCall(event, t)  == [event |-> event, talk |-> t]
AttachCall(t, user) == [event |-> "attach", talk |-> t, user |-> user]
DetachCall(t, word) == [event |-> "detach", talk |-> t, word |-> word]

Respond(type, words, contents) ==
  [type |-> type, words |-> words, contents |-> contents]

ServiceTypeOK ==
  /\ service \in [Servicers -> {"idle", "serving", "leaving", "gone",
                                "uninstallFailed", "refused"}]
  /\ serviceReceiver \in [Servicers -> {"off", "receiving", "persisted", "done"}]
  /\ serviceRequests \in [Servicers -> Nat]
  /\ \A s \in Servicers : serviceRequests[s] <= ServiceRequests[s]
  /\ serviceTalk \in [Servicers -> Talks \cup {NoOne}]
  /\ \A s \in Servicers : service[s] = "idle" => serviceReceiver[s] = "off"

ServiceChanTypeOK ==
  /\ Fits(chInstallServicer, Servicers, MaxServicerCache)
  /\ Fits(chUninstallServicer, Servicers, MaxServicerCache)
  /\ Fits(chServicerAttachTalk, Servicers \X Talks, MaxServicerCache)
  /\ Fits(chServicerDetachTalk, Servicers \X Talks, MaxServicerCache)
  /\ Fits(chServicerReloadTalk, Servicers \X Talks, MaxServicerCache)
  /\ Fits(chServicerMessage, (Servicers \X Nat) \X Talks, MaxServiceMessages)
  /\ Fits(servicerRunner, Call, MaxServiceMessages)

ServiceMainTypeOK ==
  /\ servicers \in [Users -> SUBSET Servicers]
  /\ servicerTodo \in Seq(Operation)
  /\ dismissed \subseteq Servicers

ServiceOutTypeOK ==
  /\ chServiceSend \in [Servicers -> Seq(ServiceResponse)]
  /\ \A s \in Servicers : Fits(chServiceSend[s], ServiceResponse, ServiceSendCap)
  /\ serviceInbox \in [Servicers -> Seq(ServiceResponse)]

OutsideTypeOK ==
  /\ arriving \subseteq Call
  /\ written \in [Writers -> 0..MaxWrites]
  /\ reopened \subseteq Talks
  /\ unheard \subseteq Call /\ misled \subseteq Talks
  /\ outpaced \subseteq Servicers /\ early \subseteq Servicers
  /\ unlisted \subseteq Servicers \X (Talks \X Message)

TypeOK == /\ StoreTypeOK /\ ServiceTypeOK /\ ServiceChanTypeOK
          /\ ServiceMainTypeOK /\ ServiceOutTypeOK /\ OutsideTypeOK

ServicerInit ==
  /\ service = [s \in Servicers |-> "idle"]
  /\ serviceReceiver = [s \in Servicers |-> "off"]
  /\ serviceRequests = [s \in Servicers |-> 0]
  /\ serviceTalk = [s \in Servicers |-> NoOne]
  /\ chInstallServicer = <<>> /\ chUninstallServicer = <<>>
  /\ chServicerAttachTalk = <<>> /\ chServicerDetachTalk = <<>>
  /\ chServicerReloadTalk = <<>> /\ chServicerMessage = <<>>
  /\ servicerRunner = <<>>
  /\ servicers = [u \in Users |-> {}]
  /\ servicerTodo = <<>> /\ dismissed = {}
  /\ chServiceSend = [s \in Servicers |-> <<>>]
  /\ serviceInbox = [s \in Servicers |-> <<>>]
  /\ arriving = {} /\ written = [w \in Writers |-> 0] /\ reopened = {}
  /\ unheard = {} /\ misled = {} /\ outpaced = {} /\ unlisted = {} /\ early = {}

Init == StoreInit /\ ServicerInit

-----------------------------------------------------------------------------
AtSelect == servicerTodo = <<>> /\ dismissed = {}

\* The main routine waits: every channel it reads is empty.
Parked ==
  /\ AtSelect /\ chInstallServicer = <<>> /\ chUninstallServicer = <<>>
  /\ chServicerAttachTalk = <<>> /\ chServicerDetachTalk = <<>>
  /\ chServicerReloadTalk = <<>> /\ chServicerMessage = <<>> /\ servicerRunner = <<>>

Offer(ch, cap, x) == IF HasRoom(ch, cap) THEN Append(ch, x) ELSE ch

Post(call) ==
  /\ servicerRunner' = Offer(servicerRunner, MaxServiceMessages, call)
  /\ unheard' = IF HasRoom(servicerRunner, MaxServiceMessages) THEN unheard
                ELSE unheard \cup {call}
  /\ UNCHANGED restOfLoss

NoRoom(S) == {s \in S : ~HasRoom(chServiceSend[s], ServiceSendCap)}

\* Send resp to the streams of S that have room for it.
SendTo(S, resp) ==
  chServiceSend' = [s \in Servicers |->
                      IF s \in S \ NoRoom(S) THEN Append(chServiceSend[s], resp)
                      ELSE chServiceSend[s]]

\* ... and dismiss the others.
SendOrDismiss(S, resp) ==
  /\ SendTo(S, resp)
  /\ dismissed' = NoRoom(S)
  /\ servicers' = [u \in Users |-> servicers[u] \ NoRoom(S)]

InView(s, t) == InScope(ActsOf[s], BizsOf[s], t)

\* GetTalkServicerID, within the token of the stream, is its own user.
IsHis(s, t) == InView(s, t) /\ talks[t].service = UserOf[s]

Registered == UNION {servicers[u] : u \in Users}

\* send4AllServicers: the streams of every user whose token covers the talk.
AllFor(t) == {s \in Registered : InView(s, t)}

Contents(t) == {t} \X Stored(t)

WordOf(t, user) == [talk |-> t, service |-> user, status |-> talks[t].status]

\* Everything put into chSendMessage of a stream, sent to its client or not.
ToldServicer(s) == serviceInbox[s] \o chServiceSend[s]

-----------------------------------------------------------------------------
\* The stream handler.

InstallServicer(s) ==
  /\ service[s] = "idle"
  /\ IF HasRoom(chInstallServicer, MaxServicerCache)
     THEN /\ chInstallServicer' = Append(chInstallServicer, s)
          /\ service' = [service EXCEPT ![s] = "serving"]
          /\ serviceReceiver' = [serviceReceiver EXCEPT ![s] = "receiving"]
     ELSE /\ service' = [service EXCEPT ![s] = "refused"]
          /\ UNCHANGED <<chInstallServicer, serviceReceiver>>
  /\ UNCHANGED <<talks, serviceRequests, serviceTalk, chUninstallServicer, talkChans,
                 chServicerMessage, servicerRunner, serviceMain, serviceOut,
                 outsideVars, lossVars>>

\* A response taken from the channel goes out, and a kick-out ends the loop;
\* or sending it fails, and that ends the loop too.
ServiceSend(s) ==
  /\ service[s] = "serving" /\ chServiceSend[s] # <<>>
  /\ chServiceSend' = [chServiceSend EXCEPT ![s] = Tail(@)]
  /\ \/ /\ s \in Readers
        /\ serviceInbox' = [serviceInbox EXCEPT ![s] = Append(@, Head(chServiceSend[s]))]
        /\ service' = IF Head(chServiceSend[s]).type = "kickOut"
                      THEN [service EXCEPT ![s] = "leaving"] ELSE service
     \/ /\ s \in Quitters
        /\ service' = [service EXCEPT ![s] = "leaving"]
        /\ UNCHANGED serviceInbox
  /\ UNCHANGED <<talks, serviceReceiver, serviceRequests, serviceTalk, serviceChans,
                 servicerRunner, serviceMain, outsideVars, lossVars>>

ServiceTerminal(s) ==
  /\ service[s] = "serving" /\ serviceReceiver[s] = "done"
  /\ service' = [service EXCEPT ![s] = "leaving"]
  /\ UNCHANGED <<talks, serviceReceiver, serviceRequests, serviceTalk, serviceChans,
                 servicerRunner, serviceMain, serviceOut, outsideVars, lossVars>>

\* Mutant: the error of the controller is ignored.
UninstallServicerUnchecked(s) ==
  /\ service[s] = "leaving"
  /\ chUninstallServicer' = IF HasRoom(chUninstallServicer, MaxServicerCache)
                            THEN Append(chUninstallServicer, s) ELSE chUninstallServicer
  /\ service' = [service EXCEPT ![s] = "gone"]
  /\ UNCHANGED <<talks, serviceReceiver, serviceRequests, serviceTalk, chInstallServicer,
                 talkChans, chServicerMessage, servicerRunner, serviceMain, serviceOut,
                 outsideVars, lossVars>>

UninstallServicer(s) ==
  /\ service[s] = "leaving"
  /\ IF HasRoom(chUninstallServicer, MaxServicerCache)
     THEN /\ chUninstallServicer' = Append(chUninstallServicer, s)
          /\ service' = [service EXCEPT ![s] = "gone"]
     ELSE /\ service' = [service EXCEPT ![s] = "uninstallFailed"]
          /\ UNCHANGED chUninstallServicer
  /\ UNCHANGED <<talks, serviceReceiver, serviceRequests, serviceTalk, chInstallServicer,
                 talkChans, chServicerMessage, servicerRunner, serviceMain, serviceOut,
                 outsideVars, lossVars>>

-----------------------------------------------------------------------------
\* The receiver.

CountServiceRequest(s, kind) ==
  /\ kind \in RequestKinds
  /\ serviceReceiver[s] = "receiving" /\ serviceRequests[s] < ServiceRequests[s]
  /\ serviceRequests' = [serviceRequests EXCEPT ![s] = @ + 1]

\* The two query channels are unbuffered: the request gets through only while
\* the main routine waits, and is silently lost otherwise.
ReceiveQuery(s, kind) ==
  /\ CountServiceRequest(s, kind)
  /\ \/ Parked /\ servicerTodo' = <<Do(kind, s)>>
     \/ UNCHANGED servicerTodo
  /\ UNCHANGED <<talks, service, serviceReceiver, serviceTalk, serviceChans, servicerRunner,
                 servicers, dismissed, serviceOut, outsideVars, lossVars>>

\* With its channel full the request is lost, and the receiver goes on.
ReceiveForTalk(s, t) ==
  /\ \/ /\ CountServiceRequest(s, "attach")
        /\ chServicerAttachTalk' = Offer(chServicerAttachTalk, MaxServicerCache, <<s, t>>)
        /\ UNCHANGED <<chServicerDetachTalk, chServicerReloadTalk>>
     \/ /\ CountServiceRequest(s, "detach")
        /\ chServicerDetachTalk' = Offer(chServicerDetachTalk, MaxServicerCache, <<s, t>>)
        /\ UNCHANGED <<chServicerAttachTalk, chServicerReloadTalk>>
     \/ /\ CountServiceRequest(s, "reload")
        /\ chServicerReloadTalk' = Offer(chServicerReloadTalk, MaxServicerCache, <<s, t>>)
        /\ UNCHANGED <<chServicerAttachTalk, chServicerDetachTalk>>
  /\ UNCHANGED <<talks, service, serviceReceiver, serviceTalk, chInstallServicer,
                 chUninstallServicer, chServicerMessage, servicerRunner, serviceMain,
                 serviceOut, outsideVars, lossVars>>

\* A message is stored whoever serves the talk.
ReceiveServiceMessage(s, t) ==
  /\ CountServiceRequest(s, "message")
  /\ AddTalkMessage(t, <<s, serviceRequests[s] + 1>>)
  /\ serviceReceiver' = [serviceReceiver EXCEPT ![s] = "persisted"]
  /\ serviceTalk' = [serviceTalk EXCEPT ![s] = t]
  /\ UNCHANGED <<service, serviceChans, servicerRunner, serviceMain, serviceOut,
                 outsideVars, lossVars>>

\* Mutant: the receiver goes on with a message the store refused.
ReceiveServiceMessageUnstored(s, t) ==
  /\ CountServiceRequest(s, "message")
  /\ ServiceStoreMayFail \/ t \notin DOMAIN talks
  /\ serviceReceiver' = [serviceReceiver EXCEPT ![s] = "persisted"]
  /\ serviceTalk' = [serviceTalk EXCEPT ![s] = t]
  /\ UNCHANGED <<talks, service, serviceChans, servicerRunner, serviceMain, serviceOut,
                 outsideVars, lossVars>>

\* The store refuses it: the receiver ends.
ReceiveServiceMessageFails(s, t) ==
  /\ CountServiceRequest(s, "message")
  /\ ServiceStoreMayFail \/ t \notin DOMAIN talks
  /\ serviceReceiver' = [serviceReceiver EXCEPT ![s] = "done"]
  /\ UNCHANGED <<talks, service, serviceTalk, serviceChans, servicerRunner, serviceMain,
                 serviceOut, outsideVars, lossVars>>

\* With the channel full the receiver goes on; the message stays in the store.
ServicerMessageIncoming(s) ==
  /\ serviceReceiver[s] = "persisted"
  /\ LET m == <<s, serviceRequests[s]>>  t == serviceTalk[s] IN
     /\ chServicerMessage' = Offer(chServicerMessage, MaxServiceMessages, <<m, t>>)
     /\ unheard' = IF HasRoom(chServicerMessage, MaxServiceMessages) THEN unheard
                   ELSE unheard \cup {MessageCall(t, m)}
  /\ serviceReceiver' = [serviceReceiver EXCEPT ![s] = "receiving"]
  /\ UNCHANGED <<talks, service, serviceRequests, serviceTalk, chInstallServicer,
                 chUninstallServicer, talkChans, servicerRunner, serviceMain, serviceOut,
                 outsideVars, restOfLoss>>

StreamOver(s) == service[s] \in {"gone", "uninstallFailed"}

ServiceReceiveFails(s) ==
  /\ serviceReceiver[s] = "receiving"
  /\ s \in Quitters \/ StreamOver(s)
  /\ serviceReceiver' = [serviceReceiver EXCEPT ![s] = "done"]
  /\ UNCHANGED <<talks, service, serviceRequests, serviceTalk, serviceChans,
                 servicerRunner, serviceMain, serviceOut, outsideVars, lossVars>>

-----------------------------------------------------------------------------
\* The main routine: the cases of its select.

\* The talks of the user, with the messages of those that are read: a talk whose
\* messages the store fails to give is sent without them, as if it had none.
Mine(s) == GetServicerTalkInfos(ActsOf[s], BizsOf[s], UserOf[s])

Readings(s) == IF ServiceStoreMayFail THEN SUBSET Mine(s) ELSE {Mine(s)}

AllContents(read) == UNION {Contents(t) : t \in read}

AttachedTalks(s, read) ==
  Respond("talks", {WordOf(t, UserOf[s]) : t \in Mine(s)}, AllContents(read))

PendingTalks(s) ==
  Respond("pendingTalks",
          {WordOf(t, NoOne) : t \in GetPendingTalkInfos(ActsOf[s], BizsOf[s])}, {})

Reload(t) == Respond("reload", {WordOf(t, "untold")}, Contents(t))

\* Mutant: a stream is sent the talks that wait, and not those of its user.
HandleInstallBlind ==
  /\ AtSelect /\ chInstallServicer # <<>>
  /\ servicerTodo' = <<Do("finishInstall", Head(chInstallServicer))>>
  /\ chInstallServicer' = Tail(chInstallServicer)
  /\ UNCHANGED <<talks, serviceVars, chUninstallServicer, talkChans, chServicerMessage,
                 servicerRunner, servicers, dismissed, serviceOut, outsideVars, lossVars>>

\* What the stream lacks when of its user's talks only those in read were sent with
\* their messages.
NotSent(s, read) == {s} \X AllContents(Mine(s) \ read)

\* First the talks the user serves; then finishInstall.
HandleInstallServicer ==
  /\ AtSelect /\ chInstallServicer # <<>>
  /\ LET s == Head(chInstallServicer) IN
     /\ \/ \E read \in Readings(s) :
             /\ SendTo({s}, AttachedTalks(s, read))
             /\ unlisted' = unlisted \cup
                  NotSent(s, IF s \in NoRoom({s}) THEN {} ELSE read)
        \/ /\ ServiceStoreMayFail /\ UNCHANGED chServiceSend
           /\ unlisted' = unlisted \cup NotSent(s, {})
     /\ servicerTodo' = <<Do("finishInstall", s)>>
     /\ early' = early \cup {z \in {s} : \E r \in ToSet(ToldServicer(z)) : r.words # {}}
  /\ chInstallServicer' = Tail(chInstallServicer)
  /\ UNCHANGED <<talks, serviceVars, chUninstallServicer, talkChans, chServicerMessage,
                 servicerRunner, servicers, dismissed, serviceInbox, outsideVars,
                 unheard, misled, outpaced>>

HandleUninstallServicer ==
  /\ AtSelect /\ chUninstallServicer # <<>>
  /\ LET s == Head(chUninstallServicer) IN
     /\ servicers' = [servicers EXCEPT ![UserOf[s]] = @ \ {s}]
     /\ outpaced' = outpaced \cup ({s} \cap ToSet(chInstallServicer))
  /\ chUninstallServicer' = Tail(chUninstallServicer)
  /\ UNCHANGED <<talks, serviceVars, chInstallServicer, talkChans, chServicerMessage,
                 servicerRunner, servicerTodo, dismissed, serviceOut, outsideVars,
                 unheard, misled, unlisted, early>>

\* Mutant: only a talk that nobody serves is taken.
HandleAttachOnlyFree ==
  /\ AtSelect /\ chServicerAttachTalk # <<>>
  /\ LET s == Head(chServicerAttachTalk)[1]  t == Head(chServicerAttachTalk)[2]
         u == UserOf[s]
     IN /\ InView(s, t) /\ ~IsHis(s, t)
        /\ \/ talks[t].service = NoOne /\ UpdateTalkServiceID(ActsOf[s], BizsOf[s], t, u)
           \/ talks[t].service # NoOne /\ UNCHANGED talks
        /\ servicerTodo' = <<Tell("tellServicers", AttachCall(t, u))>>
  /\ chServicerAttachTalk' = Tail(chServicerAttachTalk)
  /\ UNCHANGED <<serviceVars, chInstallServicer, chUninstallServicer,
                 chServicerDetachTalk, chServicerReloadTalk, chServicerMessage,
                 servicerRunner, servicers, dismissed, serviceOut, outsideVars, lossVars>>

\* A talk may be taken from another user.  That the store failed to note it is
\* not looked at: everybody is told all the same.
HandleAttach ==
  /\ AtSelect /\ chServicerAttachTalk # <<>>
  /\ LET s == Head(chServicerAttachTalk)[1]  t == Head(chServicerAttachTalk)[2]
         u == UserOf[s]
     IN \/ /\ InView(s, t) /\ ~IsHis(s, t)
           /\ \/ UpdateTalkServiceID(ActsOf[s], BizsOf[s], t, u) /\ UNCHANGED misled
              \/ ServiceStoreMayFail /\ UNCHANGED talks /\ misled' = misled \cup {t}
           /\ servicerTodo' = <<Tell("tellServicers", AttachCall(t, u))>>
        \/ /\ ServiceStoreMayFail \/ ~InView(s, t) \/ IsHis(s, t)
           /\ UNCHANGED <<talks, servicerTodo, misled>>
  /\ chServicerAttachTalk' = Tail(chServicerAttachTalk)
  /\ UNCHANGED <<serviceVars, chInstallServicer, chUninstallServicer,
                 chServicerDetachTalk, chServicerReloadTalk, chServicerMessage,
                 servicerRunner, servicers, dismissed, serviceOut, outsideVars, unheard,
                 outpaced, unlisted, early>>

\* Who does not serve the talk is told so.
HandleDetach ==
  /\ AtSelect /\ chServicerDetachTalk # <<>>
  /\ LET s == Head(chServicerDetachTalk)[1]  t == Head(chServicerDetachTalk)[2]
     IN \/ /\ IsHis(s, t)
           /\ \/ UpdateTalkServiceID(ActsOf[s], BizsOf[s], t, NoOne) /\ UNCHANGED misled
              \/ ServiceStoreMayFail /\ UNCHANGED talks /\ misled' = misled \cup {t}
           /\ servicerTodo' = <<[op |-> "detached", talk |-> t]>>
           /\ UNCHANGED chServiceSend
        \/ /\ InView(s, t) /\ ~IsHis(s, t)
           /\ SendTo({s}, Respond("notify", {}, {}))
           /\ UNCHANGED <<talks, servicerTodo, misled>>
        \/ /\ ServiceStoreMayFail \/ ~InView(s, t)
           /\ UNCHANGED <<talks, servicerTodo, chServiceSend, misled>>
  /\ chServicerDetachTalk' = Tail(chServicerDetachTalk)
  /\ UNCHANGED <<serviceVars, chInstallServicer, chUninstallServicer,
                 chServicerAttachTalk, chServicerReloadTalk, chServicerMessage,
                 servicerRunner, servicers, dismissed, serviceInbox, outsideVars, unheard,
                 outpaced, unlisted, early>>

HandleReload ==
  /\ AtSelect /\ chServicerReloadTalk # <<>>
  /\ LET s == Head(chServicerReloadTalk)[1]  t == Head(chServicerReloadTalk)[2]
     IN \/ t \in DOMAIN talks /\ SendTo({s}, Reload(t))
        \/ /\ ServiceStoreMayFail \/ t \notin DOMAIN talks
           /\ UNCHANGED chServiceSend
  /\ chServicerReloadTalk' = Tail(chServicerReloadTalk)
  /\ UNCHANGED <<talks, serviceVars, chInstallServicer, chUninstallServicer,
                 chServicerAttachTalk, chServicerDetachTalk, chServicerMessage,
                 servicerRunner, serviceMain, serviceInbox, outsideVars, lossVars>>

\* Mutant: only the servicers' observer is told of a servicer's message.
HandleServiceMessageOneSided ==
  /\ AtSelect /\ chServicerMessage # <<>>
  /\ LET m == Head(chServicerMessage)[1]  t == Head(chServicerMessage)[2]  s == m[1]
     IN /\ IsHis(s, t)
        /\ SendOrDismiss({s}, Respond("messageConfirmed", {}, {<<t, m>>}))
        /\ servicerTodo' = <<Tell("tellServicers", MessageCall(t, m))>>
  /\ chServicerMessage' = Tail(chServicerMessage)
  /\ UNCHANGED <<talks, serviceVars, chInstallServicer, chUninstallServicer, talkChans,
                 servicerRunner, serviceInbox, outsideVars, lossVars>>

\* Only who serves the talk now has his message confirmed and passed on to both
\* sides; the message of another stays in the store, and nobody hears of it.
HandleServiceMessage ==
  /\ AtSelect /\ chServicerMessage # <<>>
  /\ LET m == Head(chServicerMessage)[1]  t == Head(chServicerMessage)[2]  s == m[1]
         call == MessageCall(t, m)
     IN \/ /\ IsHis(s, t)
           /\ SendOrDismiss({s}, Respond("messageConfirmed", {}, {<<t, m>>}))
           /\ servicerTodo' = <<Tell("tellCustomers", call), Tell("tellServicers", call)>>
           /\ UNCHANGED unheard
        \/ /\ ServiceStoreMayFail \/ ~IsHis(s, t)
           /\ unheard' = unheard \cup {call}
           /\ UNCHANGED <<chServiceSend, serviceMain>>
  /\ chServicerMessage' = Tail(chServicerMessage)
  /\ UNCHANGED <<talks, serviceVars, chInstallServicer, chUninstallServicer, talkChans,
                 servicerRunner, serviceInbox, outsideVars, restOfLoss>>

-----------------------------------------------------------------------------
\* The closures the observer posts, run by the main routine.

\* To the streams of whoever serves the talk by now, whatever their scope.
RunMessage(call) ==
  LET user == talks[call.talk].service IN
  /\ SendOrDismiss(IF user = NoOne THEN {} ELSE servicers[user],
                   Respond("message", {}, {<<call.talk, call.message>>}))
  /\ UNCHANGED servicerTodo

\* Mutant: the announcement goes where the messages go.
RunCreateToOwner(call) ==
  LET user == talks[call.talk].service IN
  /\ SendOrDismiss(IF user = NoOne THEN {} ELSE servicers[user],
                   Respond("detach", {WordOf(call.talk, "untold")}, {}))
  /\ UNCHANGED servicerTodo

\* A created talk is announced by a detach that names nobody.
RunCreate(call) ==
  /\ SendOrDismiss(AllFor(call.talk), Respond("detach", {WordOf(call.talk, "untold")}, {}))
  /\ UNCHANGED servicerTodo

CloseWord(t) == [talk |-> t, service |-> "untold", status |-> "closed"]

\* Mutant: as with messages, only who serves the talk is told.
RunCloseToOwner(call) ==
  LET user == talks[call.talk].service IN
  /\ SendOrDismiss(IF user = NoOne THEN {} ELSE servicers[user],
                   Respond("close", {CloseWord(call.talk)}, {}))
  /\ UNCHANGED servicerTodo

RunClose(call) ==
  /\ SendOrDismiss(AllFor(call.talk), Respond("close", {CloseWord(call.talk)}, {}))
  /\ UNCHANGED servicerTodo

\* Mutant: the new owner is not sent the talk.
RunAttachOnly(call) ==
  /\ SendOrDismiss(AllFor(call.talk), Respond("attach", {WordOf(call.talk, call.user)}, {}))
  /\ UNCHANGED servicerTodo

\* Then the streams of the user who took the talk are sent all of it.
RunAttach(call) ==
  /\ SendOrDismiss(AllFor(call.talk), Respond("attach", {WordOf(call.talk, call.user)}, {}))
  /\ servicerTodo' = <<[op |-> "reloadUser", talk |-> call.talk, user |-> call.user]>>

RunDetach(call) ==
  /\ SendOrDismiss(AllFor(call.talk), Respond("detach", {call.word}, {}))
  /\ UNCHANGED servicerTodo

\* A closure that the store fails does nothing, and nobody hears of it.
RunCall(call) ==
  \/ /\ \/ call.event = "message" /\ RunMessage(call)
        \/ call.event = "create" /\ RunCreate(call)
        \/ call.event = "close" /\ RunClose(call)
        \/ call.event = "attach" /\ RunAttach(call)
        \/ call.event = "detach" /\ RunDetach(call)
     /\ UNCHANGED unheard
  \/ /\ ServiceStoreMayFail /\ call.event # "detach"
     /\ unheard' = unheard \cup {call}
     /\ UNCHANGED <<chServiceSend, serviceMain>>

RunPostedCall ==
  /\ AtSelect /\ servicerRunner # <<>>
  /\ RunCall(Head(servicerRunner))
  /\ servicerRunner' = Tail(servicerRunner)
  /\ UNCHANGED <<talks, serviceVars, serviceChans, serviceInbox, outsideVars, restOfLoss>>

-----------------------------------------------------------------------------
\* The rest of a case.

Dismiss(s) ==
  /\ s \in dismissed
  /\ SendTo({s}, Respond("kickOut", {}, {}))
  /\ dismissed' = dismissed \ {s}
  /\ UNCHANGED <<talks, serviceVars, serviceChans, servicerRunner, servicers,
                 servicerTodo, serviceInbox, outsideVars, lossVars>>

\* The next operation of the case is op; nothing else is left of it unless more.
NextOperation(op, more) ==
  /\ dismissed = {} /\ servicerTodo # <<>> /\ Head(servicerTodo).op = op
  /\ servicerTodo' = more \o Tail(servicerTodo)

AnswerAttachedTalks ==
  /\ NextOperation("attachedTalks", <<>>)
  /\ LET s == Head(servicerTodo).stream IN
     \/ \E read \in Readings(s) : SendTo({s}, AttachedTalks(s, read))
     \/ ServiceStoreMayFail /\ UNCHANGED chServiceSend
  /\ UNCHANGED <<talks, serviceVars, serviceChans, servicerRunner, servicers, dismissed,
                 serviceInbox, outsideVars, lossVars>>

AnswerPendingTalks ==
  /\ NextOperation("pendingTalks", <<>>)
  /\ LET s == Head(servicerTodo).stream IN
     \/ SendTo({s}, PendingTalks(s))
     \/ ServiceStoreMayFail /\ UNCHANGED chServiceSend
  /\ UNCHANGED <<talks, serviceVars, serviceChans, servicerRunner, servicers, dismissed,
                 serviceInbox, outsideVars, lossVars>>

\* The talks nobody serves, then the registry.
FinishInstall ==
  /\ NextOperation("finishInstall", <<>>)
  /\ LET s == Head(servicerTodo).stream IN
     /\ \/ SendTo({s}, PendingTalks(s))
        \/ ServiceStoreMayFail /\ UNCHANGED chServiceSend
     /\ servicers' = [servicers EXCEPT ![UserOf[s]] = @ \cup {s}]
  /\ UNCHANGED <<talks, serviceVars, serviceChans, servicerRunner, dismissed,
                 serviceInbox, outsideVars, lossVars>>

ReloadUser ==
  /\ NextOperation("reloadUser", <<>>)
  /\ LET t == Head(servicerTodo).talk  user == Head(servicerTodo).user IN
     \/ /\ SendOrDismiss(servicers[user], Reload(t))
        /\ UNCHANGED unheard
     \/ /\ ServiceStoreMayFail
        /\ unheard' = unheard \cup {AttachCall(t, user)}
        /\ UNCHANGED <<chServiceSend, servicers, dismissed>>
  /\ UNCHANGED <<talks, serviceVars, serviceChans, servicerRunner, serviceInbox,
                 outsideVars, restOfLoss>>

\* The observer of a detach reads the talk before it posts, and does not without it.
ReadDetached ==
  /\ LET t == Head(servicerTodo).talk  call == DetachCall(t, WordOf(t, NoOne)) IN
     \/ NextOperation("detached", <<Tell("tellServicers", call)>>) /\ UNCHANGED unheard
     \/ /\ ServiceStoreMayFail /\ NextOperation("detached", <<>>)
        /\ unheard' = unheard \cup {call}
  /\ UNCHANGED <<talks, serviceVars, serviceChans, servicerRunner, servicers, dismissed,
                 serviceOut, outsideVars, restOfLoss>>

TellServicers ==
  /\ NextOperation("tellServicers", <<>>)
  /\ Post(Head(servicerTodo).call)
  /\ UNCHANGED <<talks, serviceVars, serviceChans, servicers, dismissed, serviceOut,
                 outsideVars>>

\* What the customers' observer does with it is the customers' half.
TellCustomers ==
  /\ NextOperation("tellCustomers", <<>>)
  /\ UNCHANGED <<talks, serviceVars, serviceChans, servicerRunner, servicers, dismissed,
                 serviceOut, outsideVars, lossVars>>

-----------------------------------------------------------------------------
(***************************************************************************)
(* The customers' half, as far as the servicers' half can tell: what it    *)
(* does to the store, and the calls its main routine makes later, in any   *)
(* order but that of two messages of one customer.                         *)
(***************************************************************************)

CustomerCreates(t, act, biz) ==
  /\ CreateTalk(t, act, biz)
  /\ arriving' = arriving \cup {TalkCall("create", t)}
  /\ UNCHANGED <<written, reopened>>

\* A number may be left out: that request was another, or the store refused it.
CustomerWrites(w, t) ==
  /\ \E n \in (written[w] + 1)..MaxWrites :
       /\ AddTalkMessage(t, <<w, n>>)
       /\ arriving' = arriving \cup {MessageCall(t, <<w, n>>)}
       /\ written' = [written EXCEPT ![w] = n]
  /\ UNCHANGED reopened

\* Bound: unless they do it again and again, a talk is closed only while it is open,
\* and reopened once.
CustomerCloses(t) ==
  /\ "close" \in CustomerMoves
  /\ CloseTalk({}, {}, t)
  /\ talks[t].status = "opened" \/ "again" \in CustomerMoves
  /\ arriving' = arriving \cup {TalkCall("close", t)}
  /\ UNCHANGED <<written, reopened>>

\* No servicer is told of it.
CustomerReopens(t) ==
  /\ "reopen" \in CustomerMoves
  /\ OpenTalk({}, {}, t) /\ talks[t].status = "closed"
  /\ t \notin reopened \/ "again" \in CustomerMoves
  /\ reopened' = reopened \cup {t}
  /\ UNCHANGED <<arriving, written>>

CustomerStep ==
  /\ \E t \in Talks :
       \/ \E act \in Acts, biz \in Bizs : CustomerCreates(t, act, biz)
       \/ \E w \in Writers : CustomerWrites(w, t)
       \/ CustomerCloses(t) \/ CustomerReopens(t)
  /\ UNCHANGED <<serviceVars, serviceChans, servicerRunner, serviceMain, serviceOut,
                 lossVars>>

IsNext(call) ==
  /\ call \in arriving
  /\ call.event = "message" =>
       ~ \E other \in arriving : /\ other.event = "message"
                                 /\ other.message[1] = call.message[1]
                                 /\ other.message[2] < call.message[2]

Arrive(call) ==
  /\ IsNext(call)
  /\ Post(call)
  /\ arriving' = arriving \ {call}
  /\ UNCHANGED <<talks, written, reopened, serviceVars, serviceChans, serviceMain,
                 serviceOut>>

\* A full channel on the customers' side: the message is not passed on, the
\* stream that created the talk is not installed.
Lose(call) ==
  /\ "lose" \in CustomerMoves
  /\ call \in arriving /\ call.event \in {"message", "create"}
  /\ arriving' = arriving \ {call}
  /\ unheard' = unheard \cup {call}
  /\ UNCHANGED <<talks, written, reopened, serviceVars, serviceChans, servicerRunner,
                 serviceMain, serviceOut, restOfLoss>>

-----------------------------------------------------------------------------
ServiceStep(s) ==
  \/ InstallServicer(s) \/ ServiceSend(s) \/ ServiceTerminal(s) \/ UninstallServicer(s)

ServiceReceiverStep(s) ==
  \/ \E kind \in {"attachedTalks", "pendingTalks"} : ReceiveQuery(s, kind)
  \/ \E t \in Talks : \/ ReceiveForTalk(s, t)
                      \/ ReceiveServiceMessage(s, t) \/ ReceiveServiceMessageFails(s, t)
  \/ ServicerMessageIncoming(s)
  \/ ServiceReceiveFails(s)

ServicerMainAlone ==
  \/ HandleInstallServicer \/ HandleUninstallServicer
  \/ HandleAttach \/ HandleDetach \/ HandleReload \/ HandleServiceMessage
  \/ RunPostedCall
  \/ AnswerAttachedTalks \/ AnswerPendingTalks \/ FinishInstall
  \/ ReloadUser \/ ReadDetached \/ TellServicers
  \/ \E s \in Servicers : Dismiss(s)

ServicerMainStep == ServicerMainAlone \/ TellCustomers

CallStep == \E call \in arriving : Arrive(call) \/ Lose(call)

Next ==
  \/ \E s \in Servicers : ServiceStep(s) \/ ServiceReceiverStep(s)
  \/ ServicerMainStep
  \/ CustomerStep
  \/ CallStep

Spec == Init /\ [][Next]_serviceSideVars

\* Every goroutine that can go on does in the end, but no servicer has to ask
\* for anything or hang up.  A case of the select needs strong fairness, as on
\* the customers' side.  The customers' main routine, fair itself, makes its
\* calls in the end.
ServiceFairness(s) ==
  /\ WF_serviceSideVars(ServiceStep(s))
  /\ WF_serviceSideVars(\/ ServicerMessageIncoming(s)
                        \/ StreamOver(s) /\ ServiceReceiveFails(s))

SelectFairness ==
  /\ SF_serviceSideVars(HandleInstallServicer)
  /\ SF_serviceSideVars(HandleUninstallServicer)
  /\ SF_serviceSideVars(HandleAttach) /\ SF_serviceSideVars(HandleDetach)
  /\ SF_serviceSideVars(HandleReload) /\ SF_serviceSideVars(HandleServiceMessage)
  /\ SF_serviceSideVars(RunPostedCall)

\* The main routine does not stop within a case.
CaseFairness ==
  WF_serviceSideVars(~AtSelect /\ ServicerMainStep)

FairSpec == /\ Spec /\ (\A s \in Servicers : ServiceFairness(s))
            /\ SelectFairness /\ CaseFairness /\ WF_serviceSideVars(CallStep)

-----------------------------------------------------------------------------
(***************************************************************************)
(* Properties.                                                             *)
(***************************************************************************)

ContentsTold(s) == UNION {r.contents : r \in ToSet(ToldServicer(s))}

HeardOf(s, t) ==
  {c[2] : c \in {d \in UNION {r.contents : r \in {q \in ToSet(ToldServicer(s)) :
                                                   q.type # "messageConfirmed"}} :
                d[1] = t}}

Mentions(r, t) == \E w \in r.words : w.talk = t

\* A response that says who serves the talk.
Assigns(r, t) == \E w \in r.words : w.talk = t /\ w.service # "untold"

\* What the last of the responses that do says, and what the last of those that
\* mention the talk says of its status.
LastAssigns(line, t, user) == \A i \in DOMAIN line :
  Assigns(line[i], t) /\ (\A j \in DOMAIN line : j > i => ~Assigns(line[j], t))
    => \A w \in line[i].words : w.talk = t => w.service = user

LastMentions(line, t, status) == \A i \in DOMAIN line :
  Mentions(line[i], t) /\ (\A j \in DOMAIN line : j > i => ~Mentions(line[j], t))
    => \/ line[i].type = "detach"
       \/ \A w \in line[i].words : w.talk = t => w.status = status

\* The calls the main routine or the customers have still to make, and those
\* posted and not yet run.
CallsPending ==
  arriving \cup ToSet(servicerRunner)
    \cup {op.call : op \in {o \in ToSet(servicerTodo) : o.op = "tellServicers"}}

\* Messages of a talk that were stored and are still to be relayed: in the hands of
\* a receiver, in the channel, or in a call that is to be run or was lost.
InHand(t) ==
  {<<s, serviceRequests[s]>> : s \in {r \in Servicers : /\ serviceReceiver[r] = "persisted"
                                                        /\ serviceTalk[r] = t}}

Queued(t) == {p[1] : p \in {q \in ToSet(chServicerMessage) : q[2] = t}}

Called(t) == {call.message : call \in {c \in CallsPending \cup unheard :
                                         c.event = "message" /\ c.talk = t}}

MessagesComing(t) == InHand(t) \cup Queued(t) \cup Called(t)

Unlisted(s, t) == {u[2][2] : u \in {v \in unlisted : v[1] = s /\ v[2][1] = t}}

\* Nobody is taking, letting go or being sent the talk, and no notice of it
\* was lost.
Settled(t) ==
  /\ \A call \in CallsPending \cup unheard :
       call.talk = t => call.event \notin {"attach", "detach"}
  /\ \A op \in ToSet(servicerTodo) :
       op.op \in {"reloadUser", "detached"} => op.talk # t

\* A servicer is shown, confirmed or replayed only messages that the store
\* holds for the very talk they are shown under.
ToldIsStored == \A s \in Servicers :
  \A c \in ContentsTold(s) : c[2] \in Stored(c[1])

\* Who takes a talk, or comes back to one that is his, misses none of its
\* messages: they are in the talks sent at the installation, in the reload
\* that follows the attach, or relayed to whoever serves the talk when the
\* relay runs; or still on their way, or lost with a full channel, a failing store
\* or as a message of another user's.  Closed talks are not sent at the installation,
\* and a talk that the store fails then is sent as if it were empty: only the messages
\* it had at that moment are missed, those of a later moment are not.  A stream that is
\* over is promised nothing.
NoGap == \A s \in Registered, t \in DOMAIN talks :
  /\ service[s] = "serving"
  /\ IsHis(s, t)
  /\ talks[t].status = "opened" /\ t \notin reopened
  /\ Settled(t)
  => Stored(t) \subseteq HeardOf(s, t) \cup MessagesComing(t) \cup Unlisted(s, t)

\* Once it is registered, and until it is over, a stream is told every change of the
\* talks of its token; of talks it heard of before, by a query that got in first, it
\* may have missed some.
Informed(s, t) == service[s] = "serving" /\ s \notin early /\ InView(s, t)

\* However attaches and detaches of several servicers race, once the notices of
\* them are out, what a servicer was told last about who serves a talk is what
\* the store says - unless it failed to note a change that was announced.
AssignmentTold == \A s \in Registered, t \in DOMAIN talks :
  Informed(s, t) /\ Settled(t) /\ t \notin misled
    => LastAssigns(ToldServicer(s), t, talks[t].service)

\* Every servicer who heard of a talk hears that it was closed, whether anybody
\* serves it or not (item 1 of TODO.md says otherwise of talks nobody serves);
\* only a detach, whose word is read before it is posted, may still be
\* contradicted by the close it overtook, or contradict it.
CloseTold == \A s \in Registered, t \in DOMAIN talks :
  /\ Informed(s, t) /\ talks[t].status = "closed" /\ t \notin reopened
  /\ TalkCall("close", t) \notin CallsPending \cup unheard
  => LastMentions(ToldServicer(s), t, "closed")

\* A stream that is over stays in the registry only while its uninstallation
\* is queued, or when the select took it before the installation.
RegistryExplained == \A s \in Registered :
  service[s] = "gone" => s \in ToSet(chUninstallServicer) \cup outpaced

Serves(s, t) ==
  s \in Registered /\ t \in DOMAIN talks /\ talks[t].service = UserOf[s]

\* A customer's message in a talk that a servicer serves and goes on serving
\* reaches his stream in the end, unless it, or the notice that he took the
\* talk, was lost with a full channel.
AssigneeHears ==
  \A s \in Servicers, t \in Talks, m \in Writers \X (1..MaxWrites) :
    Serves(s, t) /\ m \in Stored(t)
      ~> \/ ~Serves(s, t) \/ m \in HeardOf(s, t)
         \/ {MessageCall(t, m), AttachCall(t, UserOf[s])} \cap unheard # {}

\* A talk that is open and that nobody serves, be it new or let go, comes to the
\* notice of every registered stream whose token covers it, unless a notice of
\* it was lost or the stream leaves.
PendingIsAnnounced == \A s \in Servicers, t \in Talks :
  s \in Registered /\ t \in GetPendingTalkInfos(ActsOf[s], BizsOf[s])
    ~> \/ s \notin Registered \/ \E call \in unheard : call.talk = t
       \/ \E r \in ToSet(ToldServicer(s)) : Mentions(r, t)

-----------------------------------------------------------------------------
(***************************************************************************)
(* Inductive invariants, from which the safety properties above follow.    *)
(***************************************************************************)

\* Whatever is said of a talk, the talk exists; and on every hop a message is in
\* the store under the talk it travels with: in a receiver's hands, queued, called,
\* posted, and shown.
PersistedIsStored == \A s \in Servicers :
  serviceReceiver[s] = "persisted" =>
    <<s, serviceRequests[s]>> \in Stored(serviceTalk[s])

QueuedIsStored == \A q \in ToSet(chServicerMessage) : q[1] \in Stored(q[2])

CallStored(call) ==
  /\ call.talk \in DOMAIN talks
  /\ call.event = "message" => call.message \in Stored(call.talk)

CallsStored == \A call \in arriving \cup ToSet(servicerRunner) : CallStored(call)

TodoStored == \A op \in ToSet(servicerTodo) :
  /\ op.op \in {"tellCustomers", "tellServicers"} => CallStored(op.call)
  /\ op.op \in {"reloadUser", "detached"} => op.talk \in DOMAIN talks

ResponseStored(r) == \A c \in r.contents : c[2] \in Stored(c[1])

SentIsStored == \A s \in Servicers :
  \A r \in ToSet(serviceInbox[s]) \cup ToSet(chServiceSend[s]) : ResponseStored(r)

Pipeline == /\ PersistedIsStored /\ QueuedIsStored /\ CallsStored /\ TodoStored
            /\ SentIsStored

\* Streams between the two halves of their installation.
Installing == {op.stream : op \in {o \in ToSet(servicerTodo) : o.op = "finishInstall"}}

\* Every stream is registered under its user; the two halves of an installation are
\* one case of the select; a stream that is over, wherever it waits to enter the
\* registry, has its uninstallation queued or taken already; and one that has not
\* started waits nowhere.
Sorted == \A u \in Users : \A s \in servicers[u] : UserOf[s] = u

InstallAlone == Installing # {} => Len(servicerTodo) = 1

OverExplained == \A s \in Registered \cup Installing \cup ToSet(chInstallServicer) :
  service[s] = "gone" => s \in ToSet(chUninstallServicer) \cup outpaced

Entered == \A s \in Registered \cup Installing \cup ToSet(chInstallServicer) :
  service[s] # "idle"

Registry == Sorted /\ InstallAlone /\ OverExplained /\ Entered

\* Who has been sent the list of his talks has every message of each of his talks, or
\* it is on its way to him, or the list lacked it - or the whole of the talk is on its
\* way.
Resending(s, t) ==
  \/ AttachCall(t, UserOf[s]) \in CallsPending \cup unheard
  \/ \E op \in ToSet(servicerTodo) :
       op.op = "reloadUser" /\ op.talk = t /\ op.user = UserOf[s]

Awaits(s, t) ==
  /\ service[s] = "serving"
  /\ IsHis(s, t) /\ talks[t].status = "opened" /\ t \notin reopened

Supplied(s, t) ==
  \/ Resending(s, t)
  \/ Stored(t) \subseteq HeardOf(s, t) \cup MessagesComing(t) \cup Unlisted(s, t)

Complete == \A s \in Registered \cup Installing, t \in DOMAIN talks :
  Awaits(s, t) => Supplied(s, t)

\* What a call, or the rest of a case, says of who serves the talk.
Reassigns(call, t) == call.talk = t /\ call.event \in {"attach", "detach"}

Taker(call) == IF call.event = "attach" THEN call.user ELSE NoOne

OpReassigns(op, t) ==
  \/ op.op = "detached" /\ op.talk = t
  \/ op.op = "tellServicers" /\ Reassigns(op.call, t)

OpTaker(op) == IF op.op = "detached" THEN NoOne ELSE Taker(op.call)

LastReassigns(calls, t, user) == \A i \in DOMAIN calls :
  Reassigns(calls[i], t) /\ (\A j \in DOMAIN calls : j > i => ~Reassigns(calls[j], t))
    => Taker(calls[i]) = user

\* What is said of a talk is said of one there is; a detach says that nobody serves
\* the talk; the customers announce neither.
WordsKnown ==
  /\ \A s \in Servicers : \A r \in ToSet(ToldServicer(s)) :
       \A w \in r.words : w.talk \in DOMAIN talks
  /\ \A call \in ToSet(servicerRunner)
                  \cup {op.call : op \in {o \in ToSet(servicerTodo) : o.op = "tellServicers"}} :
       call.event = "detach" => call.word.talk = call.talk /\ call.word.service = NoOne
  /\ \A call \in arriving : call.event \notin {"attach", "detach"}

\* The last that is said of who serves a talk, in the case that runs, in the calls
\* posted, and if in neither, in what a stream was told, is what the store says.
Reliable(t) == t \notin misled /\ \A call \in unheard : ~Reassigns(call, t)

NoOp(t)   == \A op \in ToSet(servicerTodo) : ~OpReassigns(op, t)
NoCall(t) == \A call \in ToSet(servicerRunner) : ~Reassigns(call, t)

CaseAgrees(t) == \A op \in ToSet(servicerTodo) :
  OpReassigns(op, t) => OpTaker(op) = talks[t].service

StreamAgrees(s, t) == Informed(s, t) => LastAssigns(ToldServicer(s), t, talks[t].service)

Agrees(t) == Reliable(t) =>
  /\ CaseAgrees(t)
  /\ NoOp(t) => LastReassigns(servicerRunner, t, talks[t].service)
  /\ NoOp(t) /\ NoCall(t) => \A s \in Registered \cup Installing : StreamAgrees(s, t)

Agreement == \A t \in DOMAIN talks : Agrees(t)

\* A stream was told last that a talk is closed, or will be told.
ClosePending(t) == TalkCall("close", t) \in CallsPending \cup unheard

StreamCloses(s, t) ==
  /\ Informed(s, t) /\ talks[t].status = "closed" /\ t \notin reopened
  /\ ~ClosePending(t)
  => LastMentions(ToldServicer(s), t, "closed")

Closing == \A s \in Registered \cup Installing, t \in DOMAIN talks : StreamCloses(s, t)

Words == WordsKnown /\ Agreement /\ Closing

-----------------------------------------------------------------------------
(***************************************************************************)
(* What the customers' half may rely on: see AllInOne.                     *)
(***************************************************************************)

\* What the servicers' half has stored in a talk and not yet told the customers'
\* observer.
ForCustomers(t) ==
  InHand(t) \cup Queued(t)
    \cup {op.call.message : op \in {o \in ToSet(servicerTodo) : o.op = "tellCustomers"}}

\* What it will not tell it: a message of a servicer who does not serve the talk is
\* stored all the same.
Withheld == {call.message : call \in {d \in unheard : d.event = "message"}}

Elsewhere(t) == ForCustomers(t) \cup Withheld

\* The customers are told of nothing but messages.
OnlyRelays == \A op \in ToSet(servicerTodo) :
  op.op = "tellCustomers" => op.call.event = "message"
=============================================================================
