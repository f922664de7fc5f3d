---------------------------- MODULE CustomerSide ----------------------------
(***************************************************************************)
(* The customers' half of the server.  One gRPC stream of a customer is    *)
(* served by three goroutines: the stream handler (Talk), the receiver     *)
(* (customerReceiveRoutine) and, once installed, a goroutine that loads    *)
(* the history of the talk.  They meet in the main routine of the          *)
(* CustomerController, which owns the registry of customers and picks at   *)
(* random among five bounded channels; nothing that sends into a channel   *)
(* ever waits: a full channel is an error or a silent loss.                *)
(*                                                                         *)
(* The variables overtaken, kickLost and dropped record what the code      *)
(* loses without telling anyone; no action reads them.                     *)
(***************************************************************************)
EXTENDS TalkStore, Channels

CONSTANTS
  Customers,       \* customer streams (the unique id of each)
  ActOf, BizOf,    \* the activity and business in the token of a stream
  NoTalk,          \* a stream that has no talk yet
  MaxCache,        \* capacity of the install, uninstall and close channels
  MaxMessageCache, \* capacity of the message and of the closure channel
  SendCap,         \* capacity of a stream's chSendMessage
  MaxRequests,     \* bound: requests each stream receives after its first one
  Leavers,         \* bound: the clients that may hang up
  StoreMayFail     \* whether the store (and the tracker) may return errors

ASSUME CustomerAssumption ==
  /\ Customers \subseteq Senders
  /\ ActOf \in [Customers -> Acts]
  /\ BizOf \in [Customers -> Bizs]
  /\ NoTalk \notin Talks
  /\ {MaxCache, MaxMessageCache, SendCap} \subseteq Nat \ {0}
  /\ MaxRequests \in [Customers -> Nat]
  /\ Leavers \subseteq Customers
  /\ StoreMayFail \in BOOLEAN

VARIABLES
  stream,              \* where the handler of each stream is
  talkOf, creates,     \* the talk of each stream; whether it created it
  receiver, requests,  \* where the receiver is; requests received so far
  chInstallCustomer, chUninstallCustomer, chCustomerMessage, chCustomerClose,
  customerRunner,      \* chMainRoutineRunner: the closures posted
  customers,           \* the registry: talk -> its installed streams
  customerTodo,        \* observer calls the main routine has still to make
  removing,            \* streams whose Remove it has still to call
  loader, history,     \* the history goroutine of each stream, what it read
  chSendMessage,       \* responses waiting for each stream
  inbox,               \* responses each stream has sent to its client
  overtaken,           \* streams uninstalled while still waiting to install
  kickLost,            \* streams whose kick-out found no room
  dropped              \* notices that found no room

streamVars   == <<stream, talkOf, creates>>
receiverVars == <<receiver, requests>>
installVars  == <<chInstallCustomer, chUninstallCustomer>>
requestVars  == <<chCustomerMessage, chCustomerClose>>
mdVars       == <<customers, customerTodo, removing>>
loaderVars   == <<loader, history>>
ghostVars    == <<overtaken, kickLost, dropped>>
customerVars == <<streamVars, receiverVars, installVars, requestVars,
                  customerRunner, mdVars, loaderVars, chSendMessage, inbox,
                  ghostVars>>
vars         == <<talks, customerVars>>

-----------------------------------------------------------------------------
\* What a stream is sent.  A history carries many messages, a live message
\* and a confirmation one, the others none.
Response == [type : {"messages", "message", "messageConfirmed", "close", "kickOut"},
             messages : Seq(Message)]

\* What the mdi tells the customers' observer, and the servicers' one.
CustomerNotice == [event : {"message", "close"}, talk : Talks, messages : Seq(Message)]
ServicerNotice == [event : {"message", "close", "create"},
                   talk : Talks, messages : Seq(Message)]

Call == [to : {"customers"}, notice : CustomerNotice]
          \cup [to : {"servicers"}, notice : ServicerNotice]

StreamTypeOK ==
  /\ stream \in [Customers -> {"idle", "started", "serving", "leaving",
                               "gone", "uninstallFailed", "refused"}]
  /\ talkOf \in [Customers -> Talks \cup {NoTalk}]
  /\ creates \in [Customers -> BOOLEAN]
  /\ receiver \in [Customers -> {"off", "receiving", "persisted", "done"}]
  /\ requests \in [Customers -> Nat]
  /\ \A c \in Customers : requests[c] <= MaxRequests[c]

ChannelTypeOK ==
  /\ chInstallCustomer \in Seq(Customers) /\ Len(chInstallCustomer) <= MaxCache
  /\ chUninstallCustomer \in Seq(Customers) /\ Len(chUninstallCustomer) <= MaxCache
  /\ chCustomerClose \in Seq(Customers) /\ Len(chCustomerClose) <= MaxCache
  /\ chCustomerMessage \in Seq(Customers \X Nat)
  /\ Len(chCustomerMessage) <= MaxMessageCache
  /\ customerRunner \in Seq(CustomerNotice) /\ Len(customerRunner) <= MaxMessageCache

MainTypeOK ==
  /\ customers \in [Talks -> SUBSET Customers]
  /\ customerTodo \in Seq(Call)
  /\ removing \subseteq Customers

SendTypeOK ==
  /\ loader \in [Customers -> {"off", "reading", "sending", "done", "failed"}]
  /\ history \in [Customers -> Seq(Message)]
  /\ chSendMessage \in [Customers -> Seq(Response)]
  /\ \A c \in Customers : Len(chSendMessage[c]) <= SendCap
  /\ inbox \in [Customers -> Seq(Response)]

GhostTypeOK ==
  /\ overtaken \subseteq Customers
  /\ kickLost \subseteq Customers
  /\ dropped \subseteq CustomerNotice

TypeOK == /\ StoreTypeOK /\ StreamTypeOK /\ ChannelTypeOK
          /\ MainTypeOK /\ SendTypeOK /\ GhostTypeOK

CustomerInit ==
  /\ stream = [c \in Customers |-> "idle"]
  /\ talkOf = [c \in Customers |-> NoTalk]
  /\ creates = [c \in Customers |-> FALSE]
  /\ receiver = [c \in Customers |-> "off"]
  /\ requests = [c \in Customers |-> 0]
  /\ chInstallCustomer = <<>> /\ chUninstallCustomer = <<>>
  /\ chCustomerMessage = <<>> /\ chCustomerClose = <<>>
  /\ customerRunner = <<>>
  /\ customers = [t \in Talks |-> {}]
  /\ customerTodo = <<>> /\ removing = {}
  /\ loader = [c \in Customers |-> "off"]
  /\ history = [c \in Customers |-> <<>>]
  /\ chSendMessage = [c \in Customers |-> <<>>]
  /\ inbox = [c \in Customers |-> <<>>]
  /\ overtaken = {} /\ kickLost = {} /\ dropped = {}

Init == StoreInit /\ CustomerInit

-----------------------------------------------------------------------------
\* The main routine is in its select.
AtSelect == customerTodo = <<>> /\ removing = {}

\* Mutant: the newest closure runs first.
PostFirst(notice) ==
  IF HasRoom(customerRunner, MaxMessageCache)
  THEN customerRunner' = <<notice>> \o customerRunner /\ UNCHANGED dropped
  ELSE dropped' = dropped \cup {notice} /\ UNCHANGED customerRunner

Post(notice) ==
  IF HasRoom(customerRunner, MaxMessageCache)
  THEN customerRunner' = Append(customerRunner, notice) /\ UNCHANGED dropped
  ELSE dropped' = dropped \cup {notice} /\ UNCHANGED customerRunner

\* Mutant: a stream without room is given up without Remove.
SendResponseNoRemove(S, t, resp) ==
  LET full == {c \in S : ~HasRoom(chSendMessage[c], SendCap)} IN
  /\ chSendMessage' = [c \in Customers |->
                         IF c \in S \ full THEN Append(chSendMessage[c], resp)
                         ELSE chSendMessage[c]]
  /\ customers' = [customers EXCEPT ![t] = @ \ full]
  /\ removing' = {}

\* Send resp to the streams in S, all of talk t.  Those without room are taken
\* out of the registry and must still be told to go.
SendResponse(S, t, resp) ==
  LET full == {c \in S : ~HasRoom(chSendMessage[c], SendCap)} IN
  /\ chSendMessage' = [c \in Customers |->
                         IF c \in S \ full THEN Append(chSendMessage[c], resp)
                         ELSE chSendMessage[c]]
  /\ customers' = [customers EXCEPT ![t] = @ \ full]
  /\ removing' = full

\* The mdi of the single-process server tells the customers' observer first.
TellBoth(event, t, ms) ==
  LET notice == [event |-> event, talk |-> t, messages |-> ms]
  IN  << [to |-> "customers", notice |-> notice],
         [to |-> "servicers", notice |-> notice] >>

-----------------------------------------------------------------------------
\* The stream handler.

Start(c, t, create) ==
  /\ stream[c] = "idle"
  /\ stream' = [stream EXCEPT ![c] = "started"]
  /\ talkOf' = [talkOf EXCEPT ![c] = t]
  /\ creates' = [creates EXCEPT ![c] = create]
  /\ UNCHANGED <<receiverVars, installVars, requestVars, customerRunner, mdVars,
                 loaderVars, chSendMessage, inbox, ghostVars>>

TalkStartCreate(c, t) == CreateTalk(t, ActOf[c], BizOf[c]) /\ Start(c, t, TRUE)

TalkStartOpen(c, t) == OpenTalk({ActOf[c]}, {BizOf[c]}, t) /\ Start(c, t, FALSE)

\* An invalid first request, a talk out of scope, a store that fails.
TalkStartRefused(c) ==
  /\ stream[c] = "idle"
  /\ stream' = [stream EXCEPT ![c] = "refused"]
  /\ UNCHANGED <<talks, talkOf, creates, receiverVars, installVars, requestVars,
                 customerRunner, mdVars, loaderVars, chSendMessage, inbox, ghostVars>>

InstallCustomer(c) ==
  /\ stream[c] = "started"
  /\ IF HasRoom(chInstallCustomer, MaxCache)
     THEN /\ chInstallCustomer' = Append(chInstallCustomer, c)
          /\ stream' = [stream EXCEPT ![c] = "serving"]
          /\ receiver' = [receiver EXCEPT ![c] = "receiving"]
     ELSE /\ stream' = [stream EXCEPT ![c] = "refused"]
          /\ UNCHANGED <<chInstallCustomer, receiver>>
  /\ UNCHANGED <<talks, talkOf, creates, requests, chUninstallCustomer, requestVars,
                 customerRunner, mdVars, loaderVars, chSendMessage, inbox, ghostVars>>

\* Mutant: a kick-out is sent like any other response.
StreamSendGoesOn(c) ==
  /\ stream[c] = "serving" /\ chSendMessage[c] # <<>>
  /\ chSendMessage' = [chSendMessage EXCEPT ![c] = Tail(@)]
  /\ inbox' = [inbox EXCEPT ![c] = Append(@, Head(chSendMessage[c]))]
  /\ UNCHANGED <<talks, streamVars, receiverVars, installVars, requestVars,
                 customerRunner, mdVars, loaderVars, ghostVars>>

\* A response taken from chSendMessage goes out; a kick-out ends the loop.
StreamSend(c) ==
  /\ stream[c] = "serving" /\ chSendMessage[c] # <<>>
  /\ chSendMessage' = [chSendMessage EXCEPT ![c] = Tail(@)]
  /\ inbox' = [inbox EXCEPT ![c] = Append(@, Head(chSendMessage[c]))]
  /\ stream' = IF Head(chSendMessage[c]).type = "kickOut"
               THEN [stream EXCEPT ![c] = "leaving"] ELSE stream
  /\ UNCHANGED <<talks, talkOf, creates, receiverVars, installVars, requestVars,
                 customerRunner, mdVars, loaderVars, ghostVars>>

\* Sending fails: the client is gone, and so is the response.
StreamBroken(c) ==
  /\ c \in Leavers
  /\ stream[c] = "serving" /\ chSendMessage[c] # <<>>
  /\ chSendMessage' = [chSendMessage EXCEPT ![c] = Tail(@)]
  /\ stream' = [stream EXCEPT ![c] = "leaving"]
  /\ UNCHANGED <<talks, talkOf, creates, receiverVars, installVars, requestVars,
                 customerRunner, mdVars, loaderVars, inbox, ghostVars>>

\* The receiver has ended (chTerminal).
StreamTerminal(c) ==
  /\ stream[c] = "serving" /\ receiver[c] = "done"
  /\ stream' = [stream EXCEPT ![c] = "leaving"]
  /\ UNCHANGED <<talks, talkOf, creates, receiverVars, installVars, requestVars,
                 customerRunner, mdVars, loaderVars, chSendMessage, inbox, ghostVars>>

\* Mutant: the error of the controller is ignored.
UninstallCustomerUnchecked(c) ==
  /\ stream[c] = "leaving"
  /\ chUninstallCustomer' = IF HasRoom(chUninstallCustomer, MaxCache)
                            THEN Append(chUninstallCustomer, c)
                            ELSE chUninstallCustomer
  /\ stream' = [stream EXCEPT ![c] = "gone"]
  /\ UNCHANGED <<talks, talkOf, creates, receiverVars, chInstallCustomer, requestVars,
                 customerRunner, mdVars, loaderVars, chSendMessage, inbox, ghostVars>>

UninstallCustomer(c) ==
  /\ stream[c] = "leaving"
  /\ IF HasRoom(chUninstallCustomer, MaxCache)
     THEN /\ chUninstallCustomer' = Append(chUninstallCustomer, c)
          /\ stream' = [stream EXCEPT ![c] = "gone"]
     ELSE /\ stream' = [stream EXCEPT ![c] = "uninstallFailed"]
          /\ UNCHANGED chUninstallCustomer
  /\ UNCHANGED <<talks, talkOf, creates, receiverVars, chInstallCustomer, requestVars,
                 customerRunner, mdVars, loaderVars, chSendMessage, inbox, ghostVars>>

-----------------------------------------------------------------------------
\* The receiver.  A request that had arrived before the stream ended may still
\* be received after it.

Over(c) == stream[c] \in {"gone", "uninstallFailed"}

CountRequest(c) ==
  /\ receiver[c] = "receiving" /\ requests[c] < MaxRequests[c]
  /\ requests' = [requests EXCEPT ![c] = @ + 1]

\* The message being handled by the receiver of c.
Current(c) == <<c, requests[c]>>

\* A message is stored before the controller hears of it.
ReceiveMessage(c) ==
  /\ CountRequest(c)
  /\ AddTalkMessage(talkOf[c], <<c, requests[c] + 1>>)
  /\ receiver' = [receiver EXCEPT ![c] = "persisted"]
  /\ UNCHANGED <<streamVars, installVars, requestVars, customerRunner, mdVars,
                 loaderVars, chSendMessage, inbox, ghostVars>>

\* Mutant: the receiver does not skip a message the store refused.
ReceiveMessageFailsUnnoticed(c) ==
  /\ StoreMayFail /\ CountRequest(c)
  /\ receiver' = [receiver EXCEPT ![c] = "persisted"]
  /\ UNCHANGED <<talks, streamVars, installVars, requestVars, customerRunner,
                 mdVars, loaderVars, chSendMessage, inbox, ghostVars>>

\* The store refused the message: the receiver goes on with the next request.
ReceiveMessageFails(c) ==
  /\ StoreMayFail /\ CountRequest(c)
  /\ UNCHANGED <<talks, receiver, streamVars, installVars, requestVars, customerRunner,
                 mdVars, loaderVars, chSendMessage, inbox, ghostVars>>

\* With the channel full the receiver ends; the message stays in the store.
CustomerMessageIncoming(c) ==
  /\ receiver[c] = "persisted"
  /\ IF HasRoom(chCustomerMessage, MaxMessageCache)
     THEN /\ chCustomerMessage' = Append(chCustomerMessage, Current(c))
          /\ receiver' = [receiver EXCEPT ![c] = "receiving"]
          /\ UNCHANGED dropped
     ELSE /\ receiver' = [receiver EXCEPT ![c] = "done"]
          /\ dropped' = dropped \cup {[event |-> "message", talk |-> talkOf[c],
                                       messages |-> <<Current(c)>>]}
          /\ UNCHANGED chCustomerMessage
  /\ UNCHANGED <<talks, streamVars, requests, installVars, chCustomerClose,
                 customerRunner, mdVars, loaderVars, chSendMessage, inbox,
                 overtaken, kickLost>>

ReceiveClose(c) ==
  /\ CountRequest(c)
  /\ IF HasRoom(chCustomerClose, MaxCache)
     THEN chCustomerClose' = Append(chCustomerClose, c) /\ UNCHANGED receiver
     ELSE receiver' = [receiver EXCEPT ![c] = "done"] /\ UNCHANGED chCustomerClose
  /\ UNCHANGED <<talks, streamVars, installVars, chCustomerMessage, customerRunner,
                 mdVars, loaderVars, chSendMessage, inbox, ghostVars>>

\* The client hangs up, or the handler has returned.
ReceiveFails(c) ==
  /\ receiver[c] = "receiving"
  /\ c \in Leavers \/ Over(c)
  /\ receiver' = [receiver EXCEPT ![c] = "done"]
  /\ UNCHANGED <<talks, streamVars, requests, installVars, requestVars, customerRunner,
                 mdVars, loaderVars, chSendMessage, inbox, ghostVars>>

-----------------------------------------------------------------------------
\* The main routine: one case of its select each.

\* The talk is looked up, tracked, the stream registered, the history loader
\* started; the servicers hear of a talk the stream created.
HandleInstall ==
  /\ AtSelect /\ chInstallCustomer # <<>>
  /\ LET c == Head(chInstallCustomer)  t == talkOf[c] IN
     \/ /\ TalkExists({ActOf[c]}, {BizOf[c]}, t)
        /\ customers' = [customers EXCEPT ![t] = @ \cup {c}]
        /\ loader' = [loader EXCEPT ![c] = "reading"]
        /\ customerTodo' =
             IF creates[c]
             THEN << [to |-> "servicers",
                      notice |-> [event |-> "create", talk |-> t, messages |-> <<>>]] >>
             ELSE <<>>
        /\ UNCHANGED removing
     \/ /\ StoreMayFail \/ ~TalkExists({ActOf[c]}, {BizOf[c]}, t)
        /\ removing' = {c}
        /\ UNCHANGED <<customers, loader, customerTodo>>
  /\ chInstallCustomer' = Tail(chInstallCustomer)
  /\ UNCHANGED <<talks, streamVars, receiverVars, chUninstallCustomer, requestVars,
                 customerRunner, history, chSendMessage, inbox, ghostVars>>

\* Mutant: the track of the talk is removed, the stream is not.
HandleUninstallKeeps ==
  /\ AtSelect /\ chUninstallCustomer # <<>>
  /\ chUninstallCustomer' = Tail(chUninstallCustomer)
  /\ UNCHANGED <<talks, streamVars, receiverVars, chInstallCustomer, requestVars,
                 customerRunner, mdVars, loaderVars, chSendMessage, inbox, ghostVars>>

HandleUninstall ==
  /\ AtSelect /\ chUninstallCustomer # <<>>
  /\ LET c == Head(chUninstallCustomer) IN
     /\ customers' = [customers EXCEPT ![talkOf[c]] = @ \ {c}]
     /\ overtaken' = IF c \in ToSet(chInstallCustomer) THEN overtaken \cup {c}
                     ELSE overtaken
  /\ chUninstallCustomer' = Tail(chUninstallCustomer)
  /\ UNCHANGED <<talks, streamVars, receiverVars, chInstallCustomer, requestVars,
                 customerRunner, customerTodo, removing, loaderVars, chSendMessage,
                 inbox, kickLost, dropped>>

\* Mutant: the message itself is echoed to its sender.
HandleMessageEcho ==
  /\ AtSelect /\ chCustomerMessage # <<>>
  /\ LET m == Head(chCustomerMessage)  c == m[1] IN
     /\ SendResponse({c}, talkOf[c], [type |-> "message", messages |-> <<m>>])
     /\ customerTodo' = TellBoth("message", talkOf[c], <<m>>)
  /\ chCustomerMessage' = Tail(chCustomerMessage)
  /\ UNCHANGED <<talks, streamVars, receiverVars, installVars, chCustomerClose,
                 customerRunner, loaderVars, inbox, ghostVars>>

\* Mutant: a customer's message is passed on to the servicers only.
HandleMessageOneSided ==
  /\ AtSelect /\ chCustomerMessage # <<>>
  /\ LET m == Head(chCustomerMessage)  c == m[1] IN
     /\ SendResponse({c}, talkOf[c], [type |-> "messageConfirmed", messages |-> <<m>>])
     /\ customerTodo' = Tail(TellBoth("message", talkOf[c], <<m>>))
  /\ chCustomerMessage' = Tail(chCustomerMessage)
  /\ UNCHANGED <<talks, streamVars, receiverVars, installVars, chCustomerClose,
                 customerRunner, loaderVars, inbox, ghostVars>>

\* Confirmed to its sender, then passed on to both sides.
HandleMessage ==
  /\ AtSelect /\ chCustomerMessage # <<>>
  /\ LET m == Head(chCustomerMessage)  c == m[1] IN
     /\ SendResponse({c}, talkOf[c], [type |-> "messageConfirmed", messages |-> <<m>>])
     /\ customerTodo' = TellBoth("message", talkOf[c], <<m>>)
  /\ chCustomerMessage' = Tail(chCustomerMessage)
  /\ UNCHANGED <<talks, streamVars, receiverVars, installVars, chCustomerClose,
                 customerRunner, loaderVars, inbox, ghostVars>>

\* Mutant: whether the store noted the close is not looked at.
HandleCloseUnchecked ==
  /\ AtSelect /\ chCustomerClose # <<>>
  /\ LET c == Head(chCustomerClose) IN
     /\ CloseTalk({ActOf[c]}, {BizOf[c]}, talkOf[c]) \/ UNCHANGED talks
     /\ customerTodo' = TellBoth("close", talkOf[c], <<>>)
  /\ chCustomerClose' = Tail(chCustomerClose)
  /\ UNCHANGED <<streamVars, receiverVars, installVars, chCustomerMessage, customerRunner,
                 customers, removing, loaderVars, chSendMessage, inbox, ghostVars>>

HandleClose ==
  /\ AtSelect /\ chCustomerClose # <<>>
  /\ LET c == Head(chCustomerClose) IN
     \/ /\ CloseTalk({ActOf[c]}, {BizOf[c]}, talkOf[c])
        /\ customerTodo' = TellBoth("close", talkOf[c], <<>>)
     \/ /\ StoreMayFail
        /\ UNCHANGED <<talks, customerTodo>>
  /\ chCustomerClose' = Tail(chCustomerClose)
  /\ UNCHANGED <<streamVars, receiverVars, installVars, chCustomerMessage, customerRunner,
                 customers, removing, loaderVars, chSendMessage, inbox, ghostVars>>

\* Mutant: the sender is left out of the relay (excludedUniqueID).
RunPostedToOthers ==
  /\ AtSelect /\ customerRunner # <<>>
  /\ LET notice == Head(customerRunner) IN
       SendResponse({c \in customers[notice.talk] :
                       \A m \in ToSet(notice.messages) : m[1] # c}, notice.talk,
                    [type |-> notice.event, messages |-> notice.messages])
  /\ customerRunner' = Tail(customerRunner)
  /\ UNCHANGED <<talks, streamVars, receiverVars, installVars, requestVars, customerTodo,
                 loaderVars, inbox, ghostVars>>

\* A closure posted by OnMessageIncoming or OnTalkClose.
RunPosted ==
  /\ AtSelect /\ customerRunner # <<>>
  /\ LET notice == Head(customerRunner) IN
       SendResponse(customers[notice.talk], notice.talk,
                    [type |-> notice.event, messages |-> notice.messages])
  /\ customerRunner' = Tail(customerRunner)
  /\ UNCHANGED <<talks, streamVars, receiverVars, installVars, requestVars, customerTodo,
                 loaderVars, inbox, ghostVars>>

-----------------------------------------------------------------------------
\* The rest of a case: Remove of the streams that had no room, then the
\* observer calls.

KickOut(c) ==
  /\ c \in removing
  /\ IF HasRoom(chSendMessage[c], SendCap)
     THEN /\ chSendMessage' = [chSendMessage EXCEPT ![c] =
                                 Append(@, [type |-> "kickOut", messages |-> <<>>])]
          /\ UNCHANGED kickLost
     ELSE kickLost' = kickLost \cup {c} /\ UNCHANGED chSendMessage
  /\ removing' = removing \ {c}
  /\ UNCHANGED <<talks, streamVars, receiverVars, installVars, requestVars, customerRunner,
                 customers, customerTodo, loaderVars, inbox, overtaken, dropped>>

NextCall(to) ==
  /\ removing = {} /\ customerTodo # <<>> /\ Head(customerTodo).to = to
  /\ customerTodo' = Tail(customerTodo)

NotifyCustomers ==
  /\ NextCall("customers")
  /\ Post(Head(customerTodo).notice)
  /\ UNCHANGED <<talks, streamVars, receiverVars, installVars, requestVars, customers,
                 removing, loaderVars, chSendMessage, inbox, overtaken, kickLost>>

\* What the servicers' observer does with it is the servicers' half.
NotifyServicers ==
  /\ NextCall("servicers")
  /\ UNCHANGED <<talks, streamVars, receiverVars, installVars, requestVars,
                 customerRunner, customers, removing, loaderVars, chSendMessage, inbox,
                 ghostVars>>

-----------------------------------------------------------------------------
\* The history goroutine reads the store, then sends what it read.

LoadHistory(c) ==
  /\ loader[c] = "reading"
  /\ \/ /\ talkOf[c] \in DOMAIN talks
        /\ history' = [history EXCEPT ![c] = GetTalkMessages(talkOf[c])]
        /\ loader' = [loader EXCEPT ![c] = "sending"]
     \/ /\ StoreMayFail
        /\ loader' = [loader EXCEPT ![c] = "failed"]
        /\ UNCHANGED history
  /\ UNCHANGED <<talks, streamVars, receiverVars, installVars, requestVars,
                 customerRunner, mdVars, chSendMessage, inbox, ghostVars>>

SendHistory(c) ==
  /\ loader[c] = "sending"
  /\ IF HasRoom(chSendMessage[c], SendCap)
     THEN /\ chSendMessage' = [chSendMessage EXCEPT ![c] =
                                 Append(@, [type |-> "messages", messages |-> history[c]])]
          /\ loader' = [loader EXCEPT ![c] = "done"]
     ELSE /\ loader' = [loader EXCEPT ![c] = "failed"]
          /\ UNCHANGED chSendMessage
  /\ UNCHANGED <<talks, streamVars, receiverVars, installVars, requestVars,
                 customerRunner, mdVars, history, inbox, ghostVars>>

-----------------------------------------------------------------------------
StreamStep(c) ==
  \/ \E t \in Talks : TalkStartCreate(c, t) \/ TalkStartOpen(c, t)
  \/ TalkStartRefused(c)
  \/ InstallCustomer(c)
  \/ StreamSend(c) \/ StreamBroken(c) \/ StreamTerminal(c)
  \/ UninstallCustomer(c)

ReceiverStep(c) ==
  \/ ReceiveMessage(c) \/ ReceiveMessageFails(c)
  \/ CustomerMessageIncoming(c)
  \/ ReceiveClose(c) \/ ReceiveFails(c)

LoaderStep(c) == LoadHistory(c) \/ SendHistory(c)

MainStep ==
  \/ HandleInstall \/ HandleUninstall \/ HandleMessage \/ HandleClose \/ RunPosted
  \/ NotifyCustomers \/ NotifyServicers
  \/ \E c \in Customers : KickOut(c)

Next ==
  \/ \E c \in Customers : StreamStep(c) \/ ReceiverStep(c) \/ LoaderStep(c)
  \/ MainStep

Spec == Init /\ [][Next]_vars

\* Every goroutine that can take a step takes it in the end, except that no
\* client has to send anything or hang up: the receiver of a stream that has
\* ended is the exception's exception, its Recv returns an error.  The cases of
\* the select need strong fairness: a case is ready only while the main routine
\* is in its select, and Go picks among the ready ones at random.
StreamFairness(c) ==
  /\ WF_vars(InstallCustomer(c)) /\ WF_vars(UninstallCustomer(c))
  /\ WF_vars(StreamSend(c)) /\ WF_vars(StreamTerminal(c))
  /\ WF_vars(CustomerMessageIncoming(c))
  /\ WF_vars(Over(c) /\ ReceiveFails(c))
  /\ WF_vars(LoaderStep(c))

MainFairness ==
  /\ SF_vars(HandleInstall) /\ SF_vars(HandleUninstall)
  /\ SF_vars(HandleMessage) /\ SF_vars(HandleClose) /\ SF_vars(RunPosted)
  /\ WF_vars(NotifyCustomers) /\ WF_vars(NotifyServicers)
  /\ WF_vars(\E c \in Customers : KickOut(c))

FairSpec == Spec /\ (\A c \in Customers : StreamFairness(c)) /\ MainFairness

-----------------------------------------------------------------------------
(***************************************************************************)
(* Properties.                                                             *)
(***************************************************************************)

\* Everything put into chSendMessage of a stream, sent to its client or not.
Told(c) == inbox[c] \o chSendMessage[c]

MessagesIn(responses) == UNION {ToSet(r.messages) : r \in responses}

Heard(c) == MessagesIn({r \in ToSet(Told(c)) : r.type \in {"messages", "message"}})

\* The live messages among it, by their places.
LiveAt(c) == {i \in DOMAIN Told(c) : Told(c)[i].type = "message"}

Shown(c, i) == Told(c)[i].messages[1]

DroppedMessages == MessagesIn(dropped)

\* Stored, and still on its way to the registry of customers.
InFlight ==
  {Current(c) : c \in {d \in Customers : receiver[d] = "persisted"}}
    \cup ToSet(chCustomerMessage)
    \cup MessagesIn({call.notice : call \in
                       {d \in ToSet(customerTodo) : d.to = "customers"}})
    \cup MessagesIn(ToSet(customerRunner))

\* Installed, with the history in hand, and not on the way out.
Attending(c) ==
  stream[c] = "serving" /\ c \in customers[talkOf[c]] /\ loader[c] = "done"

\* A client is shown, confirmed or replayed only messages that the store holds
\* for the client's own talk: the receiver stores a message before it hands it
\* to the controller, and every hop of the relay keeps message and talk
\* together.
ToldIsStored == \A c \in Customers :
  MessagesIn(ToSet(Told(c))) \subseteq Stored(talkOf[c])

\* No gap between history and live messages: the stream is registered before
\* its history is read, so a message of the talk is in the history, or was
\* relayed, or is still on its way, or its notice was dropped because a channel
\* was full (the one hole the code leaves, CustomerMessageIncoming and Post).
NoGap == \A c \in Customers : Attending(c) =>
  Stored(talkOf[c]) \subseteq Heard(c) \cup InFlight \cup DroppedMessages

\* Whatever the interleaving of receivers and of the select, all clients of a
\* talk see live messages in one order: the messages of two clients are never
\* swapped between two screens (one main routine, one closure channel).
SameOrder == \A c, d \in Customers : talkOf[c] = talkOf[d] =>
  \A i, j \in LiveAt(c), k, l \in LiveAt(d) :
    ~ /\ i < j /\ k < l
      /\ Shown(c, i) = Shown(d, l) /\ Shown(c, j) = Shown(d, k)

\* A client's messages reach every screen in the order it sent them, each at
\* most once.
SenderOrder == \A c \in Customers : \A i, j \in LiveAt(c) :
  i < j /\ Shown(c, i)[1] = Shown(c, j)[1] => Shown(c, i)[2] < Shown(c, j)[2]

\* A stream that is over stays in the registry only while its uninstallation
\* is queued, or when the select took its uninstallation before its
\* installation (two channels, no order between them): then it stays for ever.
RegistryExplained == \A t \in Talks : \A c \in customers[t] :
  /\ talkOf[c] = t
  /\ stream[c] = "gone" => c \in ToSet(chUninstallCustomer) \cup overtaken

\* A client whose stream goes on although the server no longer relays to it is
\* about to be told to go, unless the kick-out, which takes the same full
\* channel that made the server give the client up, was lost.
ServedOrKicked == \A c \in Customers :
  /\ stream[c] = "serving" /\ c \notin ToSet(chInstallCustomer)
  /\ c \notin customers[talkOf[c]]
  => \/ c \in removing \cup kickLost
     \/ \E r \in ToSet(chSendMessage[c]) : r.type = "kickOut"

\* A stored message reaches every attending client of the talk in the end,
\* unless its notice is dropped or the client stops attending.
EveryoneHears ==
  \A c \in Customers, m \in UNION {{d} \X (1..MaxRequests[d]) : d \in Customers} :
    Attending(c) /\ m \in Stored(talkOf[c])
      ~> ~Attending(c) \/ m \in Heard(c) \cup DroppedMessages

\* A stream that ended and got its uninstallation queued is in the end out of
\* the registry for good, unless it was overtaken.
LeftIsForgotten == \A c \in Customers :
  (stream[c] = "gone") ~> [](c \in overtaken \/ \A t \in Talks : c \notin customers[t])

\* A client the server gives up on leaves, unless the kick-out was lost.
RemovedLeaves == \A c \in Customers :
  (c \in removing) ~> (stream[c] # "serving" \/ c \in kickLost)

-----------------------------------------------------------------------------
(***************************************************************************)
(* The inductive invariant behind TypeOK and ToldIsStored: wherever a      *)
(* message is on its way, it is stored in the talk it travels with.        *)
(***************************************************************************)

IdleHasNoTalk == \A c \in Customers : stream[c] = "idle" => talkOf[c] = NoTalk

PersistedIsStored == \A c \in Customers :
  receiver[c] = "persisted" => Current(c) \in Stored(talkOf[c])

QueuedIsStored == \A m \in ToSet(chCustomerMessage) : m \in Stored(talkOf[m[1]])

NoticesStored(notices) == \A n \in notices : ToSet(n.messages) \subseteq Stored(n.talk)

CallsStored == NoticesStored({call.notice : call \in ToSet(customerTodo)})

PostedIsStored == NoticesStored(ToSet(customerRunner))

RegisteredForItsTalk == \A t \in Talks : \A c \in customers[t] : talkOf[c] = t

HistoryIsStored == \A c \in Customers : ToSet(history[c]) \subseteq Stored(talkOf[c])

SentIsStored == \A c \in Customers :
  \A r \in ToSet(inbox[c]) \cup ToSet(chSendMessage[c]) :
    ToSet(r.messages) \subseteq Stored(talkOf[c])

\* On every hop of the relay - receiver, message channel, observer call,
\* closure, history goroutine, send channel - a message is in the store, under
\* the talk it is relayed to.
Pipeline ==
  /\ IdleHasNoTalk /\ PersistedIsStored /\ QueuedIsStored /\ CallsStored
  /\ PostedIsStored /\ RegisteredForItsTalk /\ HistoryIsStored /\ SentIsStored

-----------------------------------------------------------------------------
(***************************************************************************)
(* The inductive invariant behind RegistryExplained and ServedOrKicked:    *)
(* who is in the registry, or will be, and who has been told to go.        *)
(***************************************************************************)

Waiting(c) == c \in ToSet(chInstallCustomer)

Entered(c) == Waiting(c) \/ \E t \in Talks : c \in customers[t]

KickedOut(c) == \E r \in ToSet(chSendMessage[c]) : r.type = "kickOut"

\* A stream that is over and is, or will be, in the registry has its
\* uninstallation queued, or was overtaken by it.
OverExplained == \A c \in Customers :
  stream[c] = "gone" /\ Entered(c) => c \in ToSet(chUninstallCustomer) \cup overtaken

LeaversQueued == \A c \in ToSet(chUninstallCustomer) : stream[c] = "gone"

HasTalk == \A c \in Customers : stream[c] \in {"started", "serving"} => talkOf[c] \in Talks

Registry == HasTalk /\ OverExplained /\ LeaversQueued /\ ServedOrKicked

-----------------------------------------------------------------------------
(***************************************************************************)
(* The inductive invariant behind NoGap.  NoGap says nothing of a stream   *)
(* whose history is read but not sent yet; and a closure tells the streams *)
(* of one talk only, so a message must not be stored in two.               *)
(***************************************************************************)

\* Relayed to, with the history read.
Listening(c) == /\ stream[c] = "serving" /\ c \in customers[talkOf[c]]
                /\ loader[c] \in {"sending", "done"}

\* What a client has heard, or will with its history.
Known(c) == Heard(c) \cup (IF loader[c] = "sending" THEN ToSet(history[c]) ELSE {})

Underway == InFlight \cup DroppedMessages

Missed(c) == IF Listening(c) THEN Stored(talkOf[c]) \ (Known(c) \cup Underway) ELSE {}

GapFree == \A c \in Customers : Missed(c) = {}

\* No message is stored in two talks.
OneTalk == \A t, u \in DOMAIN talks : Stored(t) \cap Stored(u) # {} => t = u

\* A message is stored in the talk of its sender only.
OwnTalk == \A t \in Talks : \A m \in Stored(t) : m[1] \in Customers /\ talkOf[m[1]] = t

OnlyMessages(notices) ==
  \A n \in notices : n.event = "message" \/ ToSet(n.messages) = {}

\* A stream that has not asked for its installation has no receiver and no
\* history goroutine.
NotYetServed == \A c \in Customers : stream[c] \in {"idle", "started"} =>
  receiver[c] = "off" /\ loader[c] = "off" /\ c \notin ToSet(chInstallCustomer)

Orderly == /\ NotYetServed
           /\ OnlyMessages({call.notice : call \in ToSet(customerTodo)})
           /\ OnlyMessages(ToSet(customerRunner))

Complete == GapFree /\ OwnTalk /\ Orderly

-----------------------------------------------------------------------------
(***************************************************************************)
(* The inductive invariant behind SenderOrder and SameOrder: the messages  *)
(* of one sender are in order within each hop of the relay and from hop to *)
(* hop, so that a message about to be shown is on no screen yet.           *)
(***************************************************************************)

\* The order in which one client's messages were sent.
Before(m, n) == m[1] = n[1] => m[2] < n[2]

AllBefore(A, B) == \A m \in A, n \in B : Before(m, n)

\* A message its sender's receiver is through with.
Past(m) == /\ m \in Customers \X Nat /\ m[2] <= requests[m[1]]
           /\ receiver[m[1]] = "persisted" => m[2] < requests[m[1]]

\* The messages on each hop between the message channel and the screens.
Queued == ToSet(chCustomerMessage)

Relayed(notices) == {n.messages[1] : n \in {k \in notices : k.event = "message"}}

CallsOf(calls) == Relayed({call.notice : call \in {d \in ToSet(calls) : d.to = "customers"}})

Called == CallsOf(customerTodo)

Posted == Relayed(ToSet(customerRunner))

Screen(c) == {Shown(c, i) : i \in LiveAt(c)}

\* The main routine tells the customers' observer first.
CustomersFirst == \A i \in DOMAIN customerTodo : customerTodo[i].to = "customers" => i = 1

HopsOrdered ==
  /\ \A c \in Customers : AllBefore(Screen(c), Posted \cup Called \cup Queued)
  /\ AllBefore(Posted, Called \cup Queued)
  /\ AllBefore(Called, Queued)

QueueOrdered == \A i, j \in DOMAIN chCustomerMessage :
  i < j => Before(chCustomerMessage[i], chCustomerMessage[j])

\* The messages of a customer wait for the main routine in their order.
InTurn == QueueOrdered /\ \A m \in Queued : Past(m)

PostedOrdered == \A i, j \in DOMAIN customerRunner :
  i < j /\ customerRunner[i].event = "message" /\ customerRunner[j].event = "message"
    => Before(customerRunner[i].messages[1], customerRunner[j].messages[1])

AllPast ==
  /\ \A m \in Posted \cup Called \cup Queued : Past(m)
  /\ \A c \in Customers : \A m \in Screen(c) : Past(m)

\* SameOrder, for the clients of any two talks.
OneOrder == \A c, d \in Customers :
  \A i, j \in LiveAt(c), k, l \in LiveAt(d) :
    ~ /\ i < j /\ k < l
      /\ Shown(c, i) = Shown(d, l) /\ Shown(c, j) = Shown(d, k)

Line == /\ CustomersFirst /\ HopsOrdered /\ QueueOrdered /\ PostedOrdered
        /\ AllPast /\ SenderOrder /\ OneOrder

=============================================================================
