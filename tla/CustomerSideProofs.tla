------------------------- MODULE CustomerSideProofs -------------------------
(***************************************************************************)
(* Proofs about CustomerSide: TypeOK, ToldIsStored, RegistryExplained,     *)
(* ServedOrKicked, NoGap, SenderOrder and SameOrder are invariants.        *)
(*                                                                         *)
(* None of them is inductive.  TypeOK and ToldIsStored follow from TypeOK  *)
(* and Pipeline together (the talk of a queued message must be a talk);    *)
(* the two about the registry from Registry, NoGap from Complete, and the  *)
(* two about the order from Line, each inductive given those before it.    *)
(***************************************************************************)
EXTENDS CustomerSide, StoreProofs

-----------------------------------------------------------------------------
(* TypeOK. *)

\* Parts of TypeOK whose variables a step leaves alone.
LEMMA TypeKept ==
  ASSUME TypeOK
  PROVE  /\ UNCHANGED talks => StoreTypeOK'
         /\ UNCHANGED <<streamVars, receiverVars>> => StreamTypeOK'
         /\ UNCHANGED <<installVars, requestVars, customerRunner>> => ChannelTypeOK'
         /\ UNCHANGED mdVars => MainTypeOK'
         /\ UNCHANGED <<loaderVars, chSendMessage, inbox>> => SendTypeOK'
         /\ UNCHANGED ghostVars => GhostTypeOK'
<1> USE DEF TypeOK
<1>1. UNCHANGED talks => StoreTypeOK'
  BY DEF StoreTypeOK
<1>2. UNCHANGED <<streamVars, receiverVars>> => StreamTypeOK'
  BY DEF StreamTypeOK, streamVars, receiverVars
<1>3. UNCHANGED <<installVars, requestVars, customerRunner>> => ChannelTypeOK'
  BY DEF ChannelTypeOK, installVars, requestVars
<1>4. UNCHANGED mdVars => MainTypeOK'
  BY DEF MainTypeOK, mdVars
<1>5. UNCHANGED <<loaderVars, chSendMessage, inbox>> => SendTypeOK'
  BY DEF SendTypeOK, loaderVars
<1>6. UNCHANGED ghostVars => GhostTypeOK'
  BY DEF GhostTypeOK, ghostVars
<1> QED  BY <1>1, <1>2, <1>3, <1>4, <1>5, <1>6

\* The talk of a message in the channel, or in the receiver's hands, is known.
LEMMA SenderHasTalk ==
  ASSUME TypeOK, Pipeline
  PROVE  /\ \A m \in ToSet(chCustomerMessage) : talkOf[m[1]] \in Talks
         /\ \A c \in Customers : receiver[c] = "persisted" => talkOf[c] \in Talks
BY StoredHasTalk DEF TypeOK, Pipeline, QueuedIsStored, PersistedIsStored

\* SendResponse keeps the registry, the streams to remove and the send channels
\* well-formed.
LEMMA SendResponseTyped ==
  ASSUME TypeOK, NEW S \in SUBSET Customers, NEW t \in Talks, NEW resp \in Response,
         SendResponse(S, t, resp), UNCHANGED <<loaderVars, inbox>>
  PROVE  /\ customers' \in [Talks -> SUBSET Customers]
         /\ removing' \subseteq Customers
         /\ SendTypeOK'
<1> DEFINE full == {c \in S : ~HasRoom(chSendMessage[c], SendCap)}
<1>1. /\ chSendMessage' = [c \in Customers |->
                             IF c \in S \ full THEN Append(chSendMessage[c], resp)
                             ELSE chSendMessage[c]]
      /\ customers' = [customers EXCEPT ![t] = @ \ full]
      /\ removing' = full
  BY DEF SendResponse
<1>2. customers' \in [Talks -> SUBSET Customers] /\ removing' \subseteq Customers
  BY <1>1 DEF TypeOK, MainTypeOK
<1>3. \A c \in Customers : /\ chSendMessage[c] \in Seq(Response)
                           /\ Len(chSendMessage[c]) <= SendCap
                           /\ SendCap \in Nat
  BY CustomerAssumption DEF TypeOK, SendTypeOK
<1>4. \A c \in S \ full : /\ Append(chSendMessage[c], resp) \in Seq(Response)
                          /\ Len(Append(chSendMessage[c], resp)) <= SendCap
  BY <1>3, SendTyped
<1>5. \A c \in Customers : /\ chSendMessage'[c] \in Seq(Response)
                           /\ Len(chSendMessage'[c]) <= SendCap
  BY <1>1, <1>3, <1>4
<1>6. chSendMessage' \in [Customers -> Seq(Response)]
  BY <1>1, <1>5
<1>7. SendTypeOK'
  BY <1>5, <1>6 DEF TypeOK, SendTypeOK, loaderVars
<1> QED  BY <1>2, <1>7

\* A send to a channel of streams keeps it well-formed.
LEMMA RequestQueueTyped ==
  ASSUME ChannelTypeOK, NEW c \in Customers
  PROVE  /\ HasRoom(chInstallCustomer, MaxCache) =>
              /\ Append(chInstallCustomer, c) \in Seq(Customers)
              /\ Len(Append(chInstallCustomer, c)) <= MaxCache
         /\ HasRoom(chUninstallCustomer, MaxCache) =>
              /\ Append(chUninstallCustomer, c) \in Seq(Customers)
              /\ Len(Append(chUninstallCustomer, c)) <= MaxCache
         /\ HasRoom(chCustomerClose, MaxCache) =>
              /\ Append(chCustomerClose, c) \in Seq(Customers)
              /\ Len(Append(chCustomerClose, c)) <= MaxCache
<1>1. MaxCache \in Nat /\ MaxMessageCache \in Nat
  BY CustomerAssumption
<1>2. /\ chInstallCustomer \in Seq(Customers)
      /\ chUninstallCustomer \in Seq(Customers)
      /\ chCustomerClose \in Seq(Customers)
  BY DEF ChannelTypeOK
<1>3. HasRoom(chInstallCustomer, MaxCache) =>
        /\ Append(chInstallCustomer, c) \in Seq(Customers)
        /\ Len(Append(chInstallCustomer, c)) <= MaxCache
  BY <1>1, <1>2, SendTyped
<1>4. HasRoom(chUninstallCustomer, MaxCache) =>
        /\ Append(chUninstallCustomer, c) \in Seq(Customers)
        /\ Len(Append(chUninstallCustomer, c)) <= MaxCache
  BY <1>1, <1>2, SendTyped
<1>5. HasRoom(chCustomerClose, MaxCache) =>
        /\ Append(chCustomerClose, c) \in Seq(Customers)
        /\ Len(Append(chCustomerClose, c)) <= MaxCache
  BY <1>1, <1>2, SendTyped
<1> QED  BY <1>3, <1>4, <1>5

\* So does a send to the message channel.
LEMMA MessageQueueTyped ==
  ASSUME ChannelTypeOK, NEW m \in Customers \X Nat
  PROVE  HasRoom(chCustomerMessage, MaxMessageCache) =>
           /\ Append(chCustomerMessage, m) \in Seq(Customers \X Nat)
           /\ Len(Append(chCustomerMessage, m)) <= MaxMessageCache
<1>1. MaxCache \in Nat /\ MaxMessageCache \in Nat
  BY CustomerAssumption
<1>2. chCustomerMessage \in Seq(Customers \X Nat)
  BY DEF ChannelTypeOK
<1> QED  BY <1>1, <1>2, SendTyped

\* So does a send to the channel of closures.
LEMMA RunnerTyped ==
  ASSUME ChannelTypeOK, NEW n \in CustomerNotice
  PROVE  HasRoom(customerRunner, MaxMessageCache) =>
           /\ Append(customerRunner, n) \in Seq(CustomerNotice)
           /\ Len(Append(customerRunner, n)) <= MaxMessageCache
<1>1. MaxCache \in Nat /\ MaxMessageCache \in Nat
  BY CustomerAssumption
<1>2. customerRunner \in Seq(CustomerNotice)
  BY DEF ChannelTypeOK
<1> QED  BY <1>1, <1>2, SendTyped

\* The count of requests stays within its bound.
LEMMA CountRequestTyped ==
  ASSUME StreamTypeOK, NEW c \in Customers, CountRequest(c)
  PROVE  /\ requests' \in [Customers -> Nat]
         /\ \A d \in Customers : requests'[d] <= MaxRequests[d]
<1>1. /\ requests' = [requests EXCEPT ![c] = @ + 1]
      /\ requests[c] < MaxRequests[c]
      /\ requests \in [Customers -> Nat]
      /\ \A d \in Customers : requests[d] <= MaxRequests[d] /\ MaxRequests[d] \in Nat
  BY CustomerAssumption DEF CountRequest, StreamTypeOK
<1>2. requests[c] + 1 \in Nat /\ requests[c] + 1 <= MaxRequests[c]
  BY <1>1
<1> QED  BY <1>1, <1>2

\* The stream handler.
LEMMA StreamStepTyped ==
  ASSUME TypeOK, NEW c \in Customers, StreamStep(c)
  PROVE  TypeOK'
<1> USE DEF TypeOK
<1>1. ASSUME NEW t \in Talks, TalkStartCreate(c, t) \/ TalkStartOpen(c, t)
      PROVE  TypeOK'
  <2>1. StoreTypeOK'
    <3>1. ActOf[c] \in Acts /\ BizOf[c] \in Bizs
      BY CustomerAssumption
    <3>2. CASE TalkStartCreate(c, t)
      <4>1. t \notin DOMAIN talks /\ CreateTalk(t, ActOf[c], BizOf[c])
        BY <3>2 DEF TalkStartCreate, CreateTalk
      <4>2. DOMAIN talks' = DOMAIN talks \cup {t}
        BY <4>1 DEF CreateTalk
      <4>3. PICK new : new = [ status |-> "opened", act |-> ActOf[c], biz |-> BizOf[c],
                               service |-> NoOne, messages |-> <<>> ]
        OBVIOUS
      <4>4. new \in TalkInfo
        BY <3>1, <4>3 DEF TalkInfo
      <4>5. \A u \in DOMAIN talks : talks[u] \in TalkInfo
        BY DEF StoreTypeOK
      <4>6. \A u \in DOMAIN talks' : talks'[u] = IF u = t THEN new ELSE talks[u]
        BY <4>1, <4>2, <4>3 DEF CreateTalk
      <4>7. \A u \in DOMAIN talks' : talks'[u] \in TalkInfo
        BY <4>2, <4>4, <4>5, <4>6
      <4> QED  BY <4>1, <4>2, <4>7 DEF CreateTalk, StoreTypeOK
    <3>3. CASE TalkStartOpen(c, t)
      BY <3>3, StatusTyped DEF TalkStartOpen
    <3> QED  BY <1>1, <3>2, <3>3
  <2>2. StreamTypeOK'
    BY <1>1 DEF TalkStartCreate, TalkStartOpen, Start, StreamTypeOK, receiverVars
  <2> QED  BY <1>1, <2>1, <2>2, TypeKept DEF TalkStartCreate, TalkStartOpen, Start
<1>2. CASE TalkStartRefused(c)
  <2>1. StreamTypeOK'
    BY <1>2 DEF TalkStartRefused, StreamTypeOK, receiverVars
  <2> QED  BY <1>2, <2>1, TypeKept DEF TalkStartRefused
<1>3. CASE InstallCustomer(c)
  <2>1. StreamTypeOK'
    BY <1>3 DEF InstallCustomer, StreamTypeOK
  <2>2. ChannelTypeOK'
    BY <1>3, RequestQueueTyped DEF InstallCustomer, ChannelTypeOK, requestVars
  <2> QED  BY <1>3, <2>1, <2>2, TypeKept DEF InstallCustomer
<1>4. CASE StreamSend(c) \/ StreamBroken(c)
  <2>1. StreamTypeOK'
    BY <1>4 DEF StreamSend, StreamBroken, StreamTypeOK, receiverVars
  <2>2. /\ chSendMessage[c] \in Seq(Response) /\ chSendMessage[c] # <<>>
        /\ chSendMessage' = [chSendMessage EXCEPT ![c] = Tail(@)]
        /\ SendCap \in Nat /\ Len(chSendMessage[c]) \in Nat
    BY <1>4, CustomerAssumption DEF StreamSend, StreamBroken, SendTypeOK
  <2>3. /\ Tail(chSendMessage[c]) \in Seq(Response)
        /\ Head(chSendMessage[c]) \in Response
        /\ Len(Tail(chSendMessage[c])) < Len(chSendMessage[c])
        /\ Len(Tail(chSendMessage[c])) \in Nat
    BY <2>2, HeadTailToSet
  <2>4. /\ chSendMessage' \in [Customers -> Seq(Response)]
        /\ \A d \in Customers : Len(chSendMessage'[d]) <= SendCap
    BY <2>2, <2>3 DEF SendTypeOK
  <2>5. inbox' \in [Customers -> Seq(Response)]
    <3>1. Append(inbox[c], Head(chSendMessage[c])) \in Seq(Response)
      BY <2>3 DEF SendTypeOK
    <3> QED  BY <1>4, <3>1 DEF StreamSend, StreamBroken, SendTypeOK
  <2>6. SendTypeOK'
    BY <1>4, <2>4, <2>5 DEF StreamSend, StreamBroken, SendTypeOK, loaderVars
  <2> QED  BY <1>4, <2>1, <2>6, TypeKept DEF StreamSend, StreamBroken
<1>5. CASE StreamTerminal(c)
  <2>1. StreamTypeOK'
    BY <1>5 DEF StreamTerminal, StreamTypeOK, receiverVars
  <2> QED  BY <1>5, <2>1, TypeKept DEF StreamTerminal
<1>6. CASE UninstallCustomer(c)
  <2>1. StreamTypeOK'
    BY <1>6 DEF UninstallCustomer, StreamTypeOK, receiverVars
  <2>2. ChannelTypeOK'
    BY <1>6, RequestQueueTyped DEF UninstallCustomer, ChannelTypeOK, requestVars
  <2> QED  BY <1>6, <2>1, <2>2, TypeKept DEF UninstallCustomer
<1> QED  BY <1>1, <1>2, <1>3, <1>4, <1>5, <1>6 DEF StreamStep

\* The receiver.
LEMMA ReceiverStepTyped ==
  ASSUME TypeOK, Pipeline, NEW c \in Customers, ReceiverStep(c)
  PROVE  TypeOK'
<1> USE DEF TypeOK
<1>1. /\ Current(c) \in Customers \X Nat /\ Current(c) \in Message
      /\ <<c, requests[c] + 1>> \in Message
  BY CustomerAssumption DEF Current, Message, StreamTypeOK
<1>2. CASE ReceiveMessage(c)
  <2>1. StoreTypeOK'
    <3>1. talkOf[c] \in Talks
      BY <1>2 DEF ReceiveMessage, AddTalkMessage, StoreTypeOK
    <3>2. ActOf[c] \in Acts /\ BizOf[c] \in Bizs /\ NoOne \in Users \cup {NoOne}
      BY CustomerAssumption
    <3>3. AddTalkMessage(talkOf[c], <<c, requests[c] + 1>>)
      BY <1>2 DEF ReceiveMessage
    <3> QED  BY <1>1, <3>1, <3>2, <3>3, StoreTyped
  <2>2. StreamTypeOK'
    BY <1>2, CountRequestTyped DEF ReceiveMessage, StreamTypeOK, streamVars
  <2> QED  BY <1>2, <2>1, <2>2, TypeKept DEF ReceiveMessage
<1>3. CASE ReceiveMessageFails(c)
  <2>1. StreamTypeOK'
    BY <1>3, CountRequestTyped DEF ReceiveMessageFails, StreamTypeOK, streamVars
  <2> QED  BY <1>3, <2>1, TypeKept DEF ReceiveMessageFails
<1>4. CASE CustomerMessageIncoming(c)
  <2>1. StreamTypeOK'
    BY <1>4 DEF CustomerMessageIncoming, StreamTypeOK, streamVars
  <2>2. ChannelTypeOK'
    BY <1>1, <1>4, MessageQueueTyped DEF CustomerMessageIncoming, ChannelTypeOK, installVars
  <2>3. GhostTypeOK'
    <3>1. talkOf[c] \in Talks
      BY <1>4, SenderHasTalk DEF CustomerMessageIncoming
    <3>2. [event |-> "message", talk |-> talkOf[c], messages |-> <<Current(c)>>] \in CustomerNotice
      BY <1>1, <3>1 DEF CustomerNotice
    <3> QED  BY <1>4, <3>2 DEF CustomerMessageIncoming, GhostTypeOK
  <2> QED  BY <1>4, <2>1, <2>2, <2>3, TypeKept DEF CustomerMessageIncoming
<1>5. CASE ReceiveClose(c)
  <2>1. StreamTypeOK'
    BY <1>5, CountRequestTyped DEF ReceiveClose, StreamTypeOK, streamVars
  <2>2. ChannelTypeOK'
    BY <1>5, RequestQueueTyped DEF ReceiveClose, ChannelTypeOK, installVars
  <2> QED  BY <1>5, <2>1, <2>2, TypeKept DEF ReceiveClose
<1>6. CASE ReceiveFails(c)
  <2>1. StreamTypeOK'
    BY <1>6 DEF ReceiveFails, StreamTypeOK, streamVars
  <2> QED  BY <1>6, <2>1, TypeKept DEF ReceiveFails
<1> QED  BY <1>2, <1>3, <1>4, <1>5, <1>6 DEF ReceiverStep

\* The history goroutine.
LEMMA LoaderStepTyped ==
  ASSUME TypeOK, NEW c \in Customers, LoaderStep(c)
  PROVE  TypeOK'
<1> USE DEF TypeOK
<1>1. CASE LoadHistory(c)
  <2>1. talkOf[c] \in DOMAIN talks => GetTalkMessages(talkOf[c]) \in Seq(Message)
    BY DEF GetTalkMessages, StoreTypeOK, TalkInfo
  <2>2. SendTypeOK'
    BY <1>1, <2>1 DEF LoadHistory, SendTypeOK
  <2> QED  BY <1>1, <2>2, TypeKept DEF LoadHistory
<1>2. CASE SendHistory(c)
  <2> DEFINE resp == [type |-> "messages", messages |-> history[c]]
  <2>1. resp \in Response /\ chSendMessage[c] \in Seq(Response) /\ SendCap \in Nat
    BY CustomerAssumption DEF SendTypeOK, Response
  <2>2. HasRoom(chSendMessage[c], SendCap) =>
          /\ Append(chSendMessage[c], resp) \in Seq(Response)
          /\ Len(Append(chSendMessage[c], resp)) <= SendCap
    BY <2>1, SendTyped
  <2>3. SendTypeOK'
    BY <1>2, <2>1, <2>2 DEF SendHistory, SendTypeOK
  <2> QED  BY <1>2, <2>3, TypeKept DEF SendHistory
<1> QED  BY <1>1, <1>2 DEF LoaderStep


\* What TellBoth leaves for the main routine to do, and the calls that remain
\* after one, are calls.
LEMMA CallsTyped ==
  ASSUME NEW event \in {"message", "close"}, NEW t \in Talks, NEW ms \in Seq(Message)
  PROVE  TellBoth(event, t, ms) \in Seq(Call)
<1>1. [event |-> event, talk |-> t, messages |-> ms]
        \in CustomerNotice \cap ServicerNotice
  BY DEF CustomerNotice, ServicerNotice
<1> QED  BY <1>1 DEF TellBoth, Call

\* The cases of the select.
LEMMA HandleTyped ==
  ASSUME TypeOK, Pipeline,
         HandleInstall \/ HandleUninstall \/ HandleMessage \/ HandleClose \/ RunPosted
  PROVE  TypeOK'
<1> USE DEF TypeOK
<1>1. CASE HandleInstall
  <2> DEFINE c == Head(chInstallCustomer)
             t == talkOf[c]
  <2>1. /\ chInstallCustomer \in Seq(Customers) /\ chInstallCustomer # <<>>
        /\ MaxCache \in Nat /\ Len(chInstallCustomer) <= MaxCache
        /\ Len(chInstallCustomer) \in Nat
    BY <1>1, CustomerAssumption DEF HandleInstall, ChannelTypeOK
  <2>2. /\ c \in Customers /\ Tail(chInstallCustomer) \in Seq(Customers)
        /\ Len(Tail(chInstallCustomer)) <= MaxCache
    BY <2>1, HeadTailToSet
  <2>3. ChannelTypeOK'
    BY <1>1, <2>2 DEF HandleInstall, ChannelTypeOK, requestVars
  <2>4. MainTypeOK' /\ SendTypeOK'
    <3>1. CASE /\ TalkExists({ActOf[c]}, {BizOf[c]}, t)
               /\ customers' = [customers EXCEPT ![t] = @ \cup {c}]
               /\ loader' = [loader EXCEPT ![c] = "reading"]
               /\ customerTodo' =
                    IF creates[c]
                    THEN << [to |-> "servicers",
                             notice |-> [event |-> "create", talk |-> t,
                                         messages |-> <<>>]] >>
                    ELSE <<>>
               /\ UNCHANGED removing
      <4>1. t \in Talks
        BY <3>1 DEF TalkExists, InScope, StoreTypeOK
      <4>2. [event |-> "create", talk |-> t, messages |-> <<>>] \in ServicerNotice
        BY <4>1 DEF ServicerNotice
      <4>3. [to |-> "servicers", notice |-> [event |-> "create", talk |-> t,
                                             messages |-> <<>>]] \in Call
        BY <4>2 DEF Call
      <4>6. customerTodo' \in Seq(Call)
        BY <3>1, <4>3
      <4>4. MainTypeOK'
        BY <2>2, <3>1, <4>6 DEF MainTypeOK
      <4>5. SendTypeOK'
        BY <1>1, <3>1 DEF HandleInstall, SendTypeOK
      <4> QED  BY <4>4, <4>5
    <3>2. CASE removing' = {c} /\ UNCHANGED <<customers, loader, customerTodo>>
      <4>1. MainTypeOK'
        BY <2>2, <3>2 DEF MainTypeOK
      <4>2. SendTypeOK'
        BY <1>1, <3>2 DEF HandleInstall, SendTypeOK
      <4> QED  BY <4>1, <4>2
    <3> QED  BY <1>1, <3>1, <3>2 DEF HandleInstall
  <2> QED  BY <1>1, <2>3, <2>4, TypeKept DEF HandleInstall
<1>2. CASE HandleUninstall
  <2>1. /\ chUninstallCustomer \in Seq(Customers) /\ chUninstallCustomer # <<>>
        /\ MaxCache \in Nat /\ Len(chUninstallCustomer) <= MaxCache
        /\ Len(chUninstallCustomer) \in Nat
    BY <1>2, CustomerAssumption DEF HandleUninstall, ChannelTypeOK
  <2>2. /\ Head(chUninstallCustomer) \in Customers
        /\ Tail(chUninstallCustomer) \in Seq(Customers)
        /\ Len(Tail(chUninstallCustomer)) <= MaxCache
    BY <2>1, HeadTailToSet
  <2>3. ChannelTypeOK'
    BY <1>2, <2>2 DEF HandleUninstall, ChannelTypeOK, requestVars
  <2>4. MainTypeOK'
    BY <1>2 DEF HandleUninstall, MainTypeOK
  <2>5. GhostTypeOK'
    BY <1>2, <2>2 DEF HandleUninstall, GhostTypeOK
  <2> QED  BY <1>2, <2>3, <2>4, <2>5, TypeKept DEF HandleUninstall
<1>3. CASE HandleMessage
  <2> DEFINE m == Head(chCustomerMessage)
             c == m[1]
  <2>1. /\ chCustomerMessage \in Seq(Customers \X Nat) /\ chCustomerMessage # <<>>
        /\ MaxMessageCache \in Nat /\ Len(chCustomerMessage) <= MaxMessageCache
        /\ Len(chCustomerMessage) \in Nat
    BY <1>3, CustomerAssumption DEF HandleMessage, ChannelTypeOK
  <2>2. /\ m \in Customers \X Nat /\ Tail(chCustomerMessage) \in Seq(Customers \X Nat)
        /\ Len(Tail(chCustomerMessage)) <= MaxMessageCache
        /\ m \in ToSet(chCustomerMessage)
    BY <2>1, HeadTailToSet
  <2>3. /\ c \in Customers /\ {c} \in SUBSET Customers
        /\ talkOf[c] \in Talks /\ <<m>> \in Seq(Message)
    BY <2>2, SenderHasTalk, CustomerAssumption DEF Message
  <2>4. [type |-> "messageConfirmed", messages |-> <<m>>] \in Response
    BY <2>3 DEF Response
  <2>5. /\ SendResponse({c}, talkOf[c], [type |-> "messageConfirmed", messages |-> <<m>>])
        /\ customerTodo' = TellBoth("message", talkOf[c], <<m>>)
        /\ UNCHANGED <<loaderVars, inbox>>
    BY <1>3 DEF HandleMessage
  <2>6. MainTypeOK' /\ SendTypeOK'
    BY <2>3, <2>4, <2>5, SendResponseTyped, CallsTyped DEF MainTypeOK
  <2>7. ChannelTypeOK'
    BY <1>3, <2>2 DEF HandleMessage, ChannelTypeOK, installVars
  <2> QED  BY <1>3, <2>6, <2>7, TypeKept DEF HandleMessage
<1>4. CASE HandleClose
  <2> DEFINE c == Head(chCustomerClose)
  <2>1. /\ chCustomerClose \in Seq(Customers) /\ chCustomerClose # <<>>
        /\ MaxCache \in Nat /\ Len(chCustomerClose) <= MaxCache
        /\ Len(chCustomerClose) \in Nat
    BY <1>4, CustomerAssumption DEF HandleClose, ChannelTypeOK
  <2>2. /\ c \in Customers /\ Tail(chCustomerClose) \in Seq(Customers)
        /\ Len(Tail(chCustomerClose)) <= MaxCache
    BY <2>1, HeadTailToSet
  <2>3. ChannelTypeOK'
    BY <1>4, <2>2 DEF HandleClose, ChannelTypeOK, installVars
  <2>4. StoreTypeOK' /\ MainTypeOK'
    <3>1. CASE /\ CloseTalk({ActOf[c]}, {BizOf[c]}, talkOf[c])
               /\ customerTodo' = TellBoth("close", talkOf[c], <<>>)
      <4>1. talkOf[c] \in Talks /\ talkOf[c] \in DOMAIN talks
        BY <3>1 DEF CloseTalk, InScope, StoreTypeOK
      <4>2. StoreTypeOK'
        BY <3>1, <4>1, StatusTyped
      <4>3. customerTodo' \in Seq(Call)
        <5>1. <<>> \in Seq(Message) /\ "close" \in {"message", "close"}
          OBVIOUS
        <5>2. TellBoth("close", talkOf[c], <<>>) \in Seq(Call)
          BY <4>1, <5>1, CallsTyped
        <5> QED  BY <3>1, <5>2
      <4>4. MainTypeOK'
        BY <1>4, <4>3 DEF HandleClose, MainTypeOK
      <4> QED  BY <4>2, <4>4
    <3>2. CASE UNCHANGED <<talks, customerTodo>>
      BY <1>4, <3>2 DEF HandleClose, StoreTypeOK, MainTypeOK
    <3> QED  BY <1>4, <3>1, <3>2 DEF HandleClose
  <2> QED  BY <1>4, <2>3, <2>4, TypeKept DEF HandleClose
<1>5. CASE RunPosted
  <2> DEFINE n == Head(customerRunner)
  <2>1. /\ customerRunner \in Seq(CustomerNotice) /\ customerRunner # <<>>
        /\ MaxMessageCache \in Nat /\ Len(customerRunner) <= MaxMessageCache
        /\ Len(customerRunner) \in Nat
    BY <1>5, CustomerAssumption DEF RunPosted, ChannelTypeOK
  <2>2. /\ n \in CustomerNotice /\ Tail(customerRunner) \in Seq(CustomerNotice)
        /\ Len(Tail(customerRunner)) <= MaxMessageCache
    BY <2>1, HeadTailToSet
  <2>3. n.talk \in Talks /\ customers[n.talk] \in SUBSET Customers
    BY <2>2 DEF CustomerNotice, MainTypeOK
  <2>4. [type |-> n.event, messages |-> n.messages] \in Response
    BY <2>2 DEF CustomerNotice, Response
  <2>5. /\ SendResponse(customers[n.talk], n.talk,
                        [type |-> n.event, messages |-> n.messages])
        /\ UNCHANGED <<loaderVars, inbox>>
    BY <1>5 DEF RunPosted
  <2>6. /\ customers' \in [Talks -> SUBSET Customers] /\ removing' \subseteq Customers
        /\ SendTypeOK'
    BY <2>3, <2>4, <2>5, SendResponseTyped
  <2>7. MainTypeOK'
    BY <1>5, <2>6 DEF RunPosted, MainTypeOK
  <2>8. ChannelTypeOK'
    BY <1>5, <2>2 DEF RunPosted, ChannelTypeOK, installVars, requestVars
  <2> QED  BY <1>5, <2>6, <2>7, <2>8, TypeKept DEF RunPosted
<1> QED  BY <1>1, <1>2, <1>3, <1>4, <1>5

\* The rest of a case.
LEMMA RestTyped ==
  ASSUME TypeOK,
         \/ NotifyCustomers \/ NotifyServicers
         \/ \E c \in Customers : KickOut(c)
  PROVE  TypeOK'
<1> USE DEF TypeOK
<1>1. CASE \E c \in Customers : KickOut(c)
  <2>1. PICK c \in Customers : KickOut(c)
    BY <1>1
  <2> DEFINE resp == [type |-> "kickOut", messages |-> <<>>]
  <2>2. resp \in Response /\ chSendMessage[c] \in Seq(Response) /\ SendCap \in Nat
    <3>1. <<>> \in Seq(Message)
      OBVIOUS
    <3>2. resp \in Response
      BY <3>1 DEF Response
    <3>3. chSendMessage[c] \in Seq(Response)
      BY <2>1 DEF SendTypeOK
    <3> QED  BY <3>2, <3>3, CustomerAssumption
  <2>3. HasRoom(chSendMessage[c], SendCap) =>
          /\ Append(chSendMessage[c], resp) \in Seq(Response)
          /\ Len(Append(chSendMessage[c], resp)) <= SendCap
    BY <2>2, SendTyped
  <2>4. SendTypeOK'
    <3>1. PICK new : /\ chSendMessage' = [chSendMessage EXCEPT ![c] = new]
                     /\ \/ new = chSendMessage[c]
                        \/ /\ HasRoom(chSendMessage[c], SendCap)
                           /\ new = Append(chSendMessage[c], resp)
      <4>1. CASE HasRoom(chSendMessage[c], SendCap)
        BY <2>1, <4>1 DEF KickOut
      <4>2. CASE ~HasRoom(chSendMessage[c], SendCap)
        <5>1. chSendMessage' = [chSendMessage EXCEPT ![c] = chSendMessage[c]]
          BY <2>1, <4>2 DEF KickOut, SendTypeOK
        <5> QED  BY <5>1
      <4> QED  BY <4>1, <4>2
    <3>2. Len(chSendMessage[c]) <= SendCap
      BY <2>1 DEF SendTypeOK
    <3>3. new \in Seq(Response) /\ Len(new) <= SendCap
      BY <2>2, <2>3, <3>1, <3>2
    <3>4. /\ chSendMessage' \in [Customers -> Seq(Response)]
          /\ \A d \in Customers : Len(chSendMessage'[d]) <= SendCap
      BY <2>1, <3>1, <3>3 DEF SendTypeOK
    <3> QED  BY <2>1, <3>4 DEF KickOut, SendTypeOK, loaderVars
  <2>5. MainTypeOK' /\ GhostTypeOK'
    BY <2>1 DEF KickOut, MainTypeOK, GhostTypeOK
  <2> QED  BY <2>1, <2>4, <2>5, TypeKept DEF KickOut
<1>2. ASSUME NEW to, NextCall(to)
      PROVE  /\ Head(customerTodo) \in Call
             /\ customerTodo' \in Seq(Call)
             /\ Head(customerTodo) \in ToSet(customerTodo)
             /\ Head(customerTodo).to = to
             /\ ToSet(customerTodo') \subseteq ToSet(customerTodo)
  BY <1>2, HeadTailToSet DEF NextCall, MainTypeOK
<1>3. CASE NotifyCustomers
  <2> DEFINE n == Head(customerTodo).notice
  <2>1. NextCall("customers") /\ Post(n)
    BY <1>3 DEF NotifyCustomers
  <2>2. n \in CustomerNotice /\ customerTodo' \in Seq(Call)
    BY <1>2, <2>1 DEF Call
  <2>3. ChannelTypeOK' /\ GhostTypeOK'
    <3>1. CASE HasRoom(customerRunner, MaxMessageCache)
      <4>1. ChannelTypeOK'
        BY <1>3, <2>1, <2>2, <3>1, RunnerTyped
        DEF NotifyCustomers, Post, ChannelTypeOK, installVars, requestVars
      <4>2. GhostTypeOK'
        BY <1>3, <2>1, <3>1 DEF NotifyCustomers, Post, GhostTypeOK
      <4> QED  BY <4>1, <4>2
    <3>2. CASE ~HasRoom(customerRunner, MaxMessageCache)
      BY <1>3, <2>1, <2>2, <3>2
      DEF NotifyCustomers, Post, ChannelTypeOK, GhostTypeOK, installVars, requestVars
    <3> QED  BY <3>1, <3>2
  <2>4. MainTypeOK'
    BY <1>3, <2>2 DEF NotifyCustomers, MainTypeOK
  <2> QED  BY <1>3, <2>3, <2>4, TypeKept DEF NotifyCustomers
<1>4. CASE NotifyServicers
  <2>1. MainTypeOK'
    BY <1>2, <1>4 DEF NotifyServicers, MainTypeOK
  <2> QED  BY <1>4, <2>1, TypeKept DEF NotifyServicers
<1> QED  BY <1>1, <1>3, <1>4

\* Every step keeps the state well-formed.
LEMMA StepTyped ==
  ASSUME TypeOK, Pipeline, [Next]_vars
  PROVE  TypeOK'
<1>1. CASE \E c \in Customers : StreamStep(c) \/ ReceiverStep(c) \/ LoaderStep(c)
  BY <1>1, StreamStepTyped, ReceiverStepTyped, LoaderStepTyped
<1>2. CASE MainStep
  BY <1>2, HandleTyped, RestTyped DEF MainStep
<1>3. CASE UNCHANGED vars
  BY <1>3, TypeKept DEF vars, customerVars, TypeOK
<1> QED  BY <1>1, <1>2, <1>3 DEF Next


-----------------------------------------------------------------------------
(* Pipeline. *)

\* A message received is stored in the talk of its stream, and nothing is lost.
LEMMA MessageIsStored ==
  ASSUME TypeOK, NEW c \in Customers, ReceiveMessage(c)
  PROVE  /\ \A u : Stored(u) \subseteq Stored(u)'
         /\ <<c, requests[c] + 1>> \in Stored(talkOf[c])'
<1> DEFINE t == talkOf[c]
           m == <<c, requests[c] + 1>>
<1>1. t \in DOMAIN talks /\ talks[t] \in TalkInfo /\ UNCHANGED talkOf
  BY DEF ReceiveMessage, AddTalkMessage, TypeOK, StoreTypeOK, streamVars
<1>2. talks[t].messages \in Seq(Message)
  BY <1>1 DEF TalkInfo
<1>3. /\ DOMAIN talks' = DOMAIN talks
      /\ talks'[t].messages = Append(talks[t].messages, m)
      /\ \A u \in DOMAIN talks : u # t => talks'[u].messages = talks[u].messages
  BY <1>1 DEF ReceiveMessage, AddTalkMessage, TypeOK, StoreTypeOK, TalkInfo
<1>4. ToSet(talks'[t].messages) = ToSet(talks[t].messages) \cup {m}
  BY <1>2, <1>3, AppendToSet
<1> QED  BY <1>1, <1>3, <1>4 DEF Stored

\* No step takes a message out of the store.
LEMMA StoreOnlyGrows ==
  ASSUME TypeOK, Pipeline, Next
  PROVE  \A u : Stored(u) \subseteq Stored(u)'
<1>1. CASE UNCHANGED talks
  BY <1>1 DEF Stored
<1>2. ASSUME NEW c \in Customers, NEW t \in Talks, TalkStartCreate(c, t)
      PROVE  \A u : Stored(u) \subseteq Stored(u)'
  BY <1>2 DEF TalkStartCreate, CreateTalk, Stored
<1>3. ASSUME NEW acts, NEW bizs, NEW t,
             OpenTalk(acts, bizs, t) \/ CloseTalk(acts, bizs, t)
      PROVE  \A u : Stored(u) \subseteq Stored(u)'
  <2>1. t \in DOMAIN talks /\ talks[t] \in TalkInfo
    BY <1>3 DEF OpenTalk, CloseTalk, InScope, TypeOK, StoreTypeOK
  <2>2. /\ DOMAIN talks' = DOMAIN talks
        /\ \A u \in DOMAIN talks : talks'[u].messages = talks[u].messages
    <3>1. CASE OpenTalk(acts, bizs, t)
      BY <2>1, <3>1 DEF OpenTalk, TypeOK, StoreTypeOK, TalkInfo
    <3>2. CASE CloseTalk(acts, bizs, t)
      BY <2>1, <3>2 DEF CloseTalk, TypeOK, StoreTypeOK, TalkInfo
    <3> QED  BY <1>3, <3>1, <3>2
  <2> QED  BY <2>2 DEF Stored
<1>4. ASSUME NEW c \in Customers, ReceiveMessage(c)
      PROVE  \A u : Stored(u) \subseteq Stored(u)'
  BY <1>4, MessageIsStored
<1>5. CASE \E c \in Customers : StreamStep(c)
  <2>1. PICK c \in Customers : StreamStep(c)
    BY <1>5
  <2>2. CASE \E t \in Talks : TalkStartCreate(c, t) \/ TalkStartOpen(c, t)
    BY <1>2, <1>3, <2>2 DEF TalkStartOpen
  <2>3. CASE TalkStartRefused(c) \/ InstallCustomer(c) \/ StreamSend(c)
               \/ StreamBroken(c) \/ StreamTerminal(c) \/ UninstallCustomer(c)
    BY <1>1, <2>3 DEF TalkStartRefused, InstallCustomer, StreamSend, StreamBroken,
                      StreamTerminal, UninstallCustomer
  <2> QED  BY <2>1, <2>2, <2>3 DEF StreamStep
<1>6. CASE \E c \in Customers : ReceiverStep(c) \/ LoaderStep(c)
  <2>1. PICK c \in Customers : ReceiverStep(c) \/ LoaderStep(c)
    BY <1>6
  <2> QED  BY <1>1, <1>4, <2>1 DEF ReceiverStep, LoaderStep, ReceiveMessageFails,
             CustomerMessageIncoming, ReceiveClose, ReceiveFails, LoadHistory, SendHistory
<1>7. CASE MainStep
  <2>1. CASE HandleClose
    BY <1>1, <1>3, <2>1 DEF HandleClose
  <2>2. CASE ~HandleClose
    BY <1>1, <1>7, <2>2 DEF MainStep, HandleInstall, HandleUninstall, HandleMessage,
         RunPosted, NotifyCustomers, NotifyServicers, KickOut
  <2> QED  BY <2>1, <2>2
<1> QED  BY <1>5, <1>6, <1>7 DEF Next

\* Parts of Pipeline whose variables a step leaves alone, given that no talk
\* loses a message and no stream changes its talk.
LEMMA PipelineKept ==
  ASSUME TypeOK, Pipeline, \A u : Stored(u) \subseteq Stored(u)', UNCHANGED talkOf
  PROVE  /\ (\A c \in Customers : stream'[c] = "idle" => stream[c] = "idle")
               => IdleHasNoTalk'
         /\ UNCHANGED receiverVars => PersistedIsStored'
         /\ UNCHANGED chCustomerMessage => QueuedIsStored'
         /\ UNCHANGED customerTodo => CallsStored'
         /\ UNCHANGED customerRunner => PostedIsStored'
         /\ UNCHANGED customers => RegisteredForItsTalk'
         /\ UNCHANGED history => HistoryIsStored'
         /\ UNCHANGED <<inbox, chSendMessage>> => SentIsStored'
<1> USE DEF Pipeline
<1>1. (\A c \in Customers : stream'[c] = "idle" => stream[c] = "idle") => IdleHasNoTalk'
  BY DEF IdleHasNoTalk
<1>2. UNCHANGED receiverVars => PersistedIsStored'
  BY DEF PersistedIsStored, receiverVars, Current
<1>3. UNCHANGED chCustomerMessage => QueuedIsStored'
  BY DEF QueuedIsStored
<1>4. UNCHANGED customerTodo => CallsStored'
  BY DEF CallsStored, NoticesStored
<1>5. UNCHANGED customerRunner => PostedIsStored'
  BY DEF PostedIsStored, NoticesStored
<1>6. UNCHANGED customers => RegisteredForItsTalk'
  BY DEF RegisteredForItsTalk
<1>7. UNCHANGED history => HistoryIsStored'
  BY DEF HistoryIsStored
<1>8. UNCHANGED <<inbox, chSendMessage>> => SentIsStored'
  BY DEF SentIsStored
<1> QED  BY <1>1, <1>2, <1>3, <1>4, <1>5, <1>6, <1>7, <1>8


\* A response is appended to the send channel of some streams, all of whose
\* talks hold its messages.
LEMMA SentKept ==
  ASSUME TypeOK, Pipeline, \A u : Stored(u) \subseteq Stored(u)',
         UNCHANGED <<talkOf, inbox>>, NEW resp,
         \A c \in Customers :
           \/ chSendMessage'[c] = chSendMessage[c]
           \/ /\ chSendMessage'[c] = Append(chSendMessage[c], resp)
              /\ ToSet(resp.messages) \subseteq Stored(talkOf[c])
  PROVE  SentIsStored'
<1> SUFFICES ASSUME NEW c \in Customers,
                    NEW r \in ToSet(inbox[c]) \cup ToSet(chSendMessage'[c])
             PROVE  ToSet(r.messages) \subseteq Stored(talkOf[c])
  BY DEF SentIsStored
<1>1. chSendMessage[c] \in Seq(Response)
  BY DEF TypeOK, SendTypeOK
<1>2. ToSet(Append(chSendMessage[c], resp)) = ToSet(chSendMessage[c]) \cup {resp}
  BY <1>1, AppendToSet
<1>3. r \in ToSet(inbox[c]) \cup ToSet(chSendMessage[c])
      \/ (r = resp /\ ToSet(resp.messages) \subseteq Stored(talkOf[c]))
  BY <1>2
<1> QED  BY <1>3 DEF Pipeline, SentIsStored

\* SendResponse to streams whose talk holds the messages.
LEMMA SendResponseKept ==
  ASSUME TypeOK, Pipeline, \A u : Stored(u) \subseteq Stored(u)',
         UNCHANGED <<talkOf, inbox>>,
         NEW S \in SUBSET Customers, NEW t \in Talks, NEW resp,
         SendResponse(S, t, resp),
         \A c \in S : ToSet(resp.messages) \subseteq Stored(talkOf[c])
  PROVE  SentIsStored' /\ RegisteredForItsTalk'
<1>1. \A c \in Customers :
        \/ chSendMessage'[c] = chSendMessage[c]
        \/ /\ chSendMessage'[c] = Append(chSendMessage[c], resp)
           /\ ToSet(resp.messages) \subseteq Stored(talkOf[c])
  BY DEF SendResponse
<1>2. SentIsStored'
  BY <1>1, SentKept
<1>3. \A u \in Talks : customers'[u] \subseteq customers[u]
  BY DEF SendResponse, TypeOK, MainTypeOK
<1>4. RegisteredForItsTalk'
  BY <1>3 DEF Pipeline, RegisteredForItsTalk
<1> QED  BY <1>2, <1>4

\* The stream handler.
LEMMA StreamStepKept ==
  ASSUME TypeOK, Pipeline, NEW c \in Customers, StreamStep(c),
         \A u : Stored(u) \subseteq Stored(u)'
  PROVE  Pipeline'
<1>1. ASSUME NEW t \in Talks, Start(c, t, TRUE) \/ Start(c, t, FALSE)
      PROVE  Pipeline'
  <2>1. /\ stream[c] = "idle" /\ talkOf[c] = NoTalk /\ Stored(talkOf[c]) = {}
        /\ NoTalk \notin Talks
    BY <1>1, CustomerAssumption
    DEF Start, Pipeline, IdleHasNoTalk, Stored, TypeOK, StoreTypeOK
  <2>2. /\ stream' = [stream EXCEPT ![c] = "started"]
        /\ talkOf' = [talkOf EXCEPT ![c] = t]
        /\ UNCHANGED <<receiverVars, installVars, requestVars, customerRunner, mdVars,
                       loaderVars, chSendMessage, inbox>>
    BY <1>1 DEF Start
  <2>3. \A d \in Customers : Stored(talkOf[d]) \subseteq Stored(talkOf[d])'
    BY <2>1, <2>2 DEF TypeOK, StreamTypeOK
  <2>4. IdleHasNoTalk'
    BY <2>2 DEF Pipeline, IdleHasNoTalk, TypeOK, StreamTypeOK
  <2>5. PersistedIsStored'
    BY <2>2, <2>3 DEF Pipeline, PersistedIsStored, receiverVars, Current
  <2>6. QueuedIsStored'
    <3>1. \A m \in ToSet(chCustomerMessage) : m[1] \in Customers
      BY DEF TypeOK, ChannelTypeOK, ToSet
    <3> QED  BY <2>2, <2>3, <3>1 DEF Pipeline, QueuedIsStored, requestVars
  <2>7. CallsStored' /\ PostedIsStored'
    BY <2>2 DEF Pipeline, CallsStored, PostedIsStored, NoticesStored, mdVars
  <2>8. RegisteredForItsTalk'
    BY <2>1, <2>2 DEF Pipeline, RegisteredForItsTalk, mdVars, TypeOK, StreamTypeOK
  <2>9. HistoryIsStored'
    BY <2>2, <2>3 DEF Pipeline, HistoryIsStored, loaderVars
  <2>10. SentIsStored'
    BY <2>2, <2>3 DEF Pipeline, SentIsStored
  <2> QED  BY <2>4, <2>5, <2>6, <2>7, <2>8, <2>9, <2>10 DEF Pipeline
<1>2. CASE TalkStartRefused(c) \/ StreamTerminal(c) \/ UninstallCustomer(c)
  <2>1. UNCHANGED <<talkOf, receiverVars, requestVars, customerRunner, mdVars,
                    loaderVars, chSendMessage, inbox>>
    BY <1>2 DEF TalkStartRefused, StreamTerminal, UninstallCustomer
  <2>2. \A d \in Customers : stream'[d] = "idle" => stream[d] = "idle"
    BY <1>2 DEF TalkStartRefused, StreamTerminal, UninstallCustomer,
               TypeOK, StreamTypeOK
  <2> QED  BY <2>1, <2>2, PipelineKept DEF Pipeline, requestVars, mdVars, loaderVars
<1>3. CASE InstallCustomer(c)
  <2>1. UNCHANGED <<talkOf, requestVars, customerRunner, mdVars,
                    loaderVars, chSendMessage, inbox>>
    BY <1>3 DEF InstallCustomer
  <2>2. \A d \in Customers : stream'[d] = "idle" => stream[d] = "idle"
    BY <1>3 DEF InstallCustomer, TypeOK, StreamTypeOK
  <2>3. PersistedIsStored'
    BY <1>3 DEF InstallCustomer, Pipeline, PersistedIsStored, Current,
               TypeOK, StreamTypeOK
  <2> QED  BY <2>1, <2>2, <2>3, PipelineKept DEF Pipeline, requestVars, mdVars, loaderVars
<1>4. CASE StreamSend(c) \/ StreamBroken(c)
  <2>1. UNCHANGED <<talkOf, receiverVars, requestVars, customerRunner, mdVars,
                    loaderVars>>
    BY <1>4 DEF StreamSend, StreamBroken
  <2>2. \A d \in Customers : stream'[d] = "idle" => stream[d] = "idle"
    BY <1>4 DEF StreamSend, StreamBroken, TypeOK, StreamTypeOK
  <2>3. SentIsStored'
    <3>1. /\ chSendMessage[c] \in Seq(Response) /\ chSendMessage[c] # <<>>
          /\ inbox[c] \in Seq(Response)
      BY <1>4 DEF StreamSend, StreamBroken, TypeOK, SendTypeOK
    <3>2. /\ ToSet(Tail(chSendMessage[c])) \subseteq ToSet(chSendMessage[c])
          /\ Head(chSendMessage[c]) \in ToSet(chSendMessage[c])
          /\ Head(chSendMessage[c]) \in Response
      BY <3>1, HeadTailToSet
    <3>3. ToSet(Append(inbox[c], Head(chSendMessage[c])))
            = ToSet(inbox[c]) \cup {Head(chSendMessage[c])}
      BY <3>1, AppendToSet
    <3>4. \A d \in Customers :
            ToSet(inbox'[d]) \cup ToSet(chSendMessage'[d])
              \subseteq ToSet(inbox[d]) \cup ToSet(chSendMessage[d])
      BY <1>4, <3>2, <3>3 DEF StreamSend, StreamBroken, TypeOK, SendTypeOK
    <3> QED  BY <2>1, <3>4 DEF Pipeline, SentIsStored
  <2> QED  BY <2>1, <2>2, <2>3, PipelineKept DEF Pipeline, requestVars, mdVars, loaderVars
<1> QED  BY <1>1, <1>2, <1>3, <1>4 DEF StreamStep, TalkStartCreate, TalkStartOpen

\* The receiver.
LEMMA ReceiverStepKept ==
  ASSUME TypeOK, Pipeline, NEW c \in Customers, ReceiverStep(c),
         \A u : Stored(u) \subseteq Stored(u)'
  PROVE  Pipeline'
<1>1. UNCHANGED <<streamVars, talkOf, customerRunner, mdVars, loaderVars,
                  chSendMessage, inbox>>
  BY DEF ReceiverStep, ReceiveMessage, ReceiveMessageFails, CustomerMessageIncoming,
         ReceiveClose, ReceiveFails, streamVars
<1>2. PersistedIsStored'
  <2>1. CASE ReceiveMessage(c)
    <3>1. /\ requests' = [requests EXCEPT ![c] = @ + 1]
          /\ receiver' = [receiver EXCEPT ![c] = "persisted"]
      BY <2>1 DEF ReceiveMessage, CountRequest
    <3>2. <<c, requests[c] + 1>> \in Stored(talkOf[c])'
      BY <2>1, MessageIsStored
    <3> QED  BY <1>1, <3>1, <3>2
             DEF Pipeline, PersistedIsStored, Current, TypeOK, StreamTypeOK
  <2>2. CASE ~ReceiveMessage(c)
    <3>1. \A d \in Customers : receiver'[d] = "persisted" =>
                                 receiver[d] = "persisted" /\ requests'[d] = requests[d]
      BY <2>2 DEF ReceiverStep, ReceiveMessageFails, CustomerMessageIncoming,
                 ReceiveClose, ReceiveFails, CountRequest, TypeOK, StreamTypeOK
    <3> QED  BY <1>1, <3>1 DEF Pipeline, PersistedIsStored, Current
  <2> QED  BY <2>1, <2>2
<1>3. QueuedIsStored'
  <2>1. CASE CustomerMessageIncoming(c)
    <3>1. /\ chCustomerMessage \in Seq(Customers \X Nat)
          /\ Current(c) \in Stored(talkOf[c]) /\ Current(c)[1] = c
      BY <2>1 DEF CustomerMessageIncoming, Pipeline, PersistedIsStored, Current,
                 TypeOK, ChannelTypeOK
    <3>2. ToSet(Append(chCustomerMessage, Current(c)))
            = ToSet(chCustomerMessage) \cup {Current(c)}
      BY <3>1, AppendToSet
    <3>3. ToSet(chCustomerMessage') \subseteq ToSet(chCustomerMessage) \cup {Current(c)}
      BY <2>1, <3>2 DEF CustomerMessageIncoming
    <3> QED  BY <1>1, <3>1, <3>3 DEF Pipeline, QueuedIsStored
  <2>2. CASE ~CustomerMessageIncoming(c)
    <3>1. UNCHANGED chCustomerMessage
      BY <2>2 DEF ReceiverStep, ReceiveMessage, ReceiveMessageFails, ReceiveClose,
                 ReceiveFails, requestVars
    <3> QED  BY <1>1, <3>1, PipelineKept
  <2> QED  BY <2>1, <2>2
<1> QED  BY <1>1, <1>2, <1>3, PipelineKept DEF Pipeline, streamVars, mdVars, loaderVars

\* The history goroutine.
LEMMA LoaderStepKept ==
  ASSUME TypeOK, Pipeline, NEW c \in Customers, LoaderStep(c),
         \A u : Stored(u) \subseteq Stored(u)'
  PROVE  Pipeline'
<1>1. UNCHANGED <<talks, streamVars, talkOf, receiverVars, requestVars, customerRunner,
                  mdVars, inbox>>
  BY DEF LoaderStep, LoadHistory, SendHistory, streamVars
<1>2. HistoryIsStored'
  <2>1. CASE LoadHistory(c)
    BY <1>1, <2>1 DEF LoadHistory, GetTalkMessages, Stored, Pipeline, HistoryIsStored,
                     TypeOK, SendTypeOK
  <2>2. CASE SendHistory(c)
    BY <1>1, <2>2, PipelineKept DEF SendHistory
  <2> QED  BY <2>1, <2>2 DEF LoaderStep
<1>3. SentIsStored'
  <2>1. CASE LoadHistory(c)
    BY <1>1, <2>1, PipelineKept DEF LoadHistory
  <2>2. CASE SendHistory(c)
    <3> DEFINE resp == [type |-> "messages", messages |-> history[c]]
    <3>1. ToSet(resp.messages) \subseteq Stored(talkOf[c])
      BY DEF Pipeline, HistoryIsStored
    <3>2. \A d \in Customers :
            \/ chSendMessage'[d] = chSendMessage[d]
            \/ /\ chSendMessage'[d] = Append(chSendMessage[d], resp)
               /\ ToSet(resp.messages) \subseteq Stored(talkOf[d])
      BY <2>2, <3>1 DEF SendHistory, TypeOK, SendTypeOK
    <3> QED  BY <1>1, <3>2, SentKept
  <2> QED  BY <2>1, <2>2 DEF LoaderStep
<1> QED  BY <1>1, <1>2, <1>3, PipelineKept DEF Pipeline, streamVars, requestVars, mdVars


\* Both calls of TellBoth carry the same messages for the same talk.
LEMMA TellBothCarries ==
  ASSUME NEW event, NEW t, NEW ms
  PROVE  \A call \in ToSet(TellBoth(event, t, ms)) :
           call.notice.messages = ms /\ call.notice.talk = t
<1> DEFINE notice == [event |-> event, talk |-> t, messages |-> ms]
<1>1. TellBoth(event, t, ms) = << [to |-> "customers", notice |-> notice],
                                  [to |-> "servicers", notice |-> notice] >>
  BY DEF TellBoth
<1> QED  BY <1>1 DEF ToSet

\* The cases of the select.
LEMMA HandleKept ==
  ASSUME TypeOK, Pipeline, \A u : Stored(u) \subseteq Stored(u)',
         HandleInstall \/ HandleUninstall \/ HandleMessage \/ HandleClose \/ RunPosted
  PROVE  Pipeline'
<1>1. CASE HandleInstall
  <2> DEFINE c == Head(chInstallCustomer)
  <2>1. UNCHANGED <<streamVars, talkOf, receiverVars, requestVars, customerRunner,
                    history, chSendMessage, inbox>>
    BY <1>1 DEF HandleInstall, streamVars
  <2>2. RegisteredForItsTalk'
    BY <1>1, <2>1 DEF HandleInstall, Pipeline, RegisteredForItsTalk, TypeOK, MainTypeOK
  <2>3. CallsStored'
    <3>1. \/ UNCHANGED customerTodo
          \/ customerTodo' = <<>>
          \/ customerTodo' = << [to |-> "servicers",
                                 notice |-> [event |-> "create", talk |-> talkOf[c],
                                             messages |-> <<>>]] >>
      BY <1>1 DEF HandleInstall
    <3>2. CASE UNCHANGED customerTodo
      BY <2>1, <3>2, PipelineKept
    <3>3. CASE ~UNCHANGED customerTodo
      <4>1. \A call \in ToSet(customerTodo') : ToSet(call.notice.messages) = {}
        BY <3>1, <3>3 DEF ToSet
      <4> QED  BY <4>1 DEF CallsStored, NoticesStored
    <3> QED  BY <3>2, <3>3
  <2> QED  BY <2>1, <2>2, <2>3, PipelineKept DEF Pipeline, streamVars, requestVars
<1>2. CASE HandleUninstall
  <2>1. UNCHANGED <<streamVars, talkOf, receiverVars, requestVars, customerRunner,
                    customerTodo, history, chSendMessage, inbox>>
    BY <1>2 DEF HandleUninstall, streamVars, loaderVars
  <2>2. RegisteredForItsTalk'
    BY <1>2, <2>1 DEF HandleUninstall, Pipeline, RegisteredForItsTalk, TypeOK, MainTypeOK
  <2> QED  BY <2>1, <2>2, PipelineKept DEF Pipeline, streamVars, requestVars
<1>3. CASE HandleMessage
  <2> DEFINE m == Head(chCustomerMessage)
             c == m[1]
             resp == [type |-> "messageConfirmed", messages |-> <<m>>]
  <2>1. UNCHANGED <<talks, streamVars, talkOf, receiverVars, customerRunner, history, inbox>>
    BY <1>3 DEF HandleMessage, streamVars, loaderVars
  <2>2. /\ chCustomerMessage \in Seq(Customers \X Nat) /\ chCustomerMessage # <<>>
        /\ chCustomerMessage' = Tail(chCustomerMessage)
    BY <1>3 DEF HandleMessage, TypeOK, ChannelTypeOK
  <2>3. /\ m \in ToSet(chCustomerMessage) /\ m \in Customers \X Nat
        /\ ToSet(chCustomerMessage') \subseteq ToSet(chCustomerMessage)
    BY <2>2, HeadTailToSet
  <2>4. /\ m \in Stored(talkOf[c]) /\ talkOf[c] \in Talks /\ {c} \in SUBSET Customers
        /\ ToSet(<<m>>) = {m}
    BY <2>3, SenderHasTalk DEF Pipeline, QueuedIsStored, ToSet
  <2>5. SentIsStored' /\ RegisteredForItsTalk'
    <3>1. SendResponse({c}, talkOf[c], resp)
      BY <1>3 DEF HandleMessage
    <3> QED  BY <2>1, <2>4, <3>1, SendResponseKept
  <2>6. CallsStored'
    <3>1. customerTodo' = TellBoth("message", talkOf[c], <<m>>)
      BY <1>3 DEF HandleMessage
    <3>2. \A call \in ToSet(customerTodo') :
            call.notice.messages = <<m>> /\ call.notice.talk = talkOf[c]
      BY <3>1, TellBothCarries
    <3> QED  BY <2>1, <2>4, <3>2 DEF CallsStored, NoticesStored, Stored
  <2>7. QueuedIsStored'
    BY <2>1, <2>3 DEF Pipeline, QueuedIsStored
  <2> QED  BY <2>1, <2>5, <2>6, <2>7, PipelineKept DEF Pipeline, streamVars
<1>4. CASE HandleClose
  <2> DEFINE c == Head(chCustomerClose)
  <2>1. UNCHANGED <<streamVars, talkOf, receiverVars, chCustomerMessage, customerRunner,
                    customers, history, chSendMessage, inbox>>
    BY <1>4 DEF HandleClose, streamVars, loaderVars
  <2>2. CallsStored'
    <3>1. CASE customerTodo' = TellBoth("close", talkOf[c], <<>>)
      <4>1. \A call \in ToSet(customerTodo') : call.notice.messages = <<>>
        BY <3>1, TellBothCarries
      <4> QED  BY <4>1 DEF CallsStored, NoticesStored, ToSet
    <3>2. CASE UNCHANGED customerTodo
      BY <2>1, <3>2, PipelineKept
    <3> QED  BY <1>4, <3>1, <3>2 DEF HandleClose
  <2> QED  BY <2>1, <2>2, PipelineKept DEF Pipeline, streamVars
<1>5. CASE RunPosted
  <2> DEFINE n == Head(customerRunner)
             resp == [type |-> n.event, messages |-> n.messages]
  <2>1. UNCHANGED <<talks, streamVars, talkOf, receiverVars, chCustomerMessage,
                    customerTodo, history, inbox>>
    BY <1>5 DEF RunPosted, streamVars, requestVars, loaderVars
  <2>2. /\ customerRunner \in Seq(CustomerNotice) /\ customerRunner # <<>>
        /\ customerRunner' = Tail(customerRunner)
    BY <1>5 DEF RunPosted, TypeOK, ChannelTypeOK
  <2>3. /\ n \in ToSet(customerRunner) /\ n \in CustomerNotice
        /\ ToSet(customerRunner') \subseteq ToSet(customerRunner)
    BY <2>2, HeadTailToSet
  <2>4. /\ n.talk \in Talks /\ customers[n.talk] \in SUBSET Customers
        /\ ToSet(n.messages) \subseteq Stored(n.talk)
        /\ \A d \in customers[n.talk] : talkOf[d] = n.talk
    BY <2>3 DEF CustomerNotice, TypeOK, MainTypeOK, Pipeline, PostedIsStored,
               NoticesStored, RegisteredForItsTalk
  <2>5. SentIsStored' /\ RegisteredForItsTalk'
    <3>1. SendResponse(customers[n.talk], n.talk, resp)
      BY <1>5 DEF RunPosted
    <3> QED  BY <2>1, <2>4, <3>1, SendResponseKept
  <2>6. PostedIsStored'
    BY <2>1, <2>3 DEF Pipeline, PostedIsStored, NoticesStored, Stored
  <2> QED  BY <2>1, <2>5, <2>6, PipelineKept DEF Pipeline, streamVars
<1> QED  BY <1>1, <1>2, <1>3, <1>4, <1>5

\* The rest of a case.
LEMMA RestKept ==
  ASSUME TypeOK, Pipeline, \A u : Stored(u) \subseteq Stored(u)',
         \/ NotifyCustomers \/ NotifyServicers
         \/ \E c \in Customers : KickOut(c)
  PROVE  Pipeline'
<1>1. CASE \E c \in Customers : KickOut(c)
  <2>1. PICK c \in Customers : KickOut(c)
    BY <1>1
  <2> DEFINE resp == [type |-> "kickOut", messages |-> <<>>]
  <2>2. UNCHANGED <<talks, streamVars, talkOf, receiverVars, requestVars, customerRunner,
                    customers, customerTodo, history, inbox>>
    BY <2>1 DEF KickOut, streamVars, loaderVars
  <2>3. SentIsStored'
    <3>1. \A d \in Customers :
            \/ chSendMessage'[d] = chSendMessage[d]
            \/ /\ chSendMessage'[d] = Append(chSendMessage[d], resp)
               /\ ToSet(resp.messages) \subseteq Stored(talkOf[d])
      BY <2>1 DEF KickOut, TypeOK, SendTypeOK, ToSet
    <3> QED  BY <2>2, <3>1, SentKept
  <2> QED  BY <2>2, <2>3, PipelineKept DEF Pipeline, streamVars, requestVars
<1>2. ASSUME NEW to, NextCall(to), UNCHANGED talkOf
      PROVE  CallsStored' /\ Head(customerTodo) \in ToSet(customerTodo)
  <2>1. /\ customerTodo \in Seq(Call) /\ customerTodo # <<>>
        /\ customerTodo' = Tail(customerTodo)
    BY <1>2 DEF NextCall, TypeOK, MainTypeOK
  <2>2. /\ ToSet(customerTodo') \subseteq ToSet(customerTodo)
        /\ Head(customerTodo) \in ToSet(customerTodo)
    BY <2>1, HeadTailToSet
  <2> QED  BY <2>2 DEF Pipeline, CallsStored, NoticesStored
<1>3. CASE NotifyCustomers
  <2> DEFINE n == Head(customerTodo).notice
  <2>1. UNCHANGED <<talks, streamVars, talkOf, receiverVars, requestVars, customers,
                    history, chSendMessage, inbox>>
    BY <1>3 DEF NotifyCustomers, streamVars, loaderVars
  <2>2. CallsStored' /\ Head(customerTodo) \in ToSet(customerTodo)
    BY <1>2, <1>3, <2>1 DEF NotifyCustomers
  <2>3. ToSet(n.messages) \subseteq Stored(n.talk)
    BY <2>2 DEF Pipeline, CallsStored, NoticesStored
  <2>4. PostedIsStored'
    <3>1. customerRunner \in Seq(CustomerNotice)
      BY DEF TypeOK, ChannelTypeOK
    <3>2. ToSet(Append(customerRunner, n)) = ToSet(customerRunner) \cup {n}
      BY <3>1, AppendToSet
    <3>3. ToSet(customerRunner') \subseteq ToSet(customerRunner) \cup {n}
      BY <1>3, <3>2 DEF NotifyCustomers, Post
    <3> QED  BY <2>3, <3>3 DEF Pipeline, PostedIsStored, NoticesStored
  <2> QED  BY <2>1, <2>2, <2>4, PipelineKept DEF Pipeline, streamVars, requestVars
<1>4. CASE NotifyServicers
  <2>1. UNCHANGED <<talks, streamVars, talkOf, receiverVars, requestVars, customerRunner,
                    customers, history, chSendMessage, inbox>>
    BY <1>4 DEF NotifyServicers, streamVars, loaderVars
  <2>2. CallsStored'
    BY <1>2, <1>4, <2>1 DEF NotifyServicers
  <2> QED  BY <2>1, <2>2, PipelineKept DEF Pipeline, streamVars, requestVars
<1> QED  BY <1>1, <1>3, <1>4

\* Every step keeps each message on its way stored.
LEMMA StepKept ==
  ASSUME TypeOK, Pipeline, [Next]_vars
  PROVE  Pipeline'
<1>1. CASE Next
  <2>1. \A u : Stored(u) \subseteq Stored(u)'
    BY <1>1, StoreOnlyGrows
  <2>2. CASE \E c \in Customers : StreamStep(c) \/ ReceiverStep(c) \/ LoaderStep(c)
    BY <2>1, <2>2, StreamStepKept, ReceiverStepKept, LoaderStepKept
  <2>3. CASE MainStep
    BY <2>1, <2>3, HandleKept, RestKept DEF MainStep
  <2> QED  BY <1>1, <2>2, <2>3 DEF Next
<1>2. CASE UNCHANGED vars
  <2>1. \A u : Stored(u) \subseteq Stored(u)'
    BY <1>2 DEF vars, Stored
  <2> QED  BY <1>2, <2>1, PipelineKept
           DEF vars, customerVars, streamVars, requestVars, mdVars, loaderVars, Pipeline
<1> QED  BY <1>1, <1>2

-----------------------------------------------------------------------------
(* The theorems. *)

LEMMA InitOK == Init => TypeOK /\ Pipeline
<1> SUFFICES ASSUME Init PROVE TypeOK /\ Pipeline
  OBVIOUS
<1> USE DEF Init, StoreInit, CustomerInit
<1>1. /\ \A S : <<>> \in Seq(S) /\ ToSet(<<>>) = {}
      /\ Len(<<>>) = 0
      /\ MaxCache \in Nat /\ MaxMessageCache \in Nat /\ SendCap \in Nat
      /\ \A c \in Customers : MaxRequests[c] \in Nat
  BY CustomerAssumption DEF ToSet
<1>2. StoreTypeOK
  BY DEF StoreTypeOK
<1>3. StreamTypeOK
  BY <1>1 DEF StreamTypeOK
<1>4. ChannelTypeOK
  BY <1>1 DEF ChannelTypeOK
<1>5. MainTypeOK /\ SendTypeOK /\ GhostTypeOK
  BY <1>1 DEF MainTypeOK, SendTypeOK, GhostTypeOK
<1>6. Pipeline
  BY <1>1 DEF Pipeline, IdleHasNoTalk, PersistedIsStored, QueuedIsStored, CallsStored,
              PostedIsStored, NoticesStored, RegisteredForItsTalk, HistoryIsStored,
              SentIsStored
<1> QED  BY <1>2, <1>3, <1>4, <1>5, <1>6 DEF TypeOK

\* The state of the customers' half is always well-formed; in particular no
\* channel ever holds more than its capacity, whatever the number of streams
\* and the sizes of the channels.
THEOREM Typed == Spec => []TypeOK
<1>1. TypeOK /\ Pipeline /\ [Next]_vars => (TypeOK /\ Pipeline)'
  BY StepTyped, StepKept
<1> QED  BY InitOK, <1>1, PTL DEF Spec

\* Pipeline, the inductive invariant of the relay.
THEOREM PipelineInvariant == Spec => []Pipeline
<1>1. TypeOK /\ Pipeline /\ [Next]_vars => (TypeOK /\ Pipeline)'
  BY StepTyped, StepKept
<1> QED  BY InitOK, <1>1, PTL DEF Spec

\* What is stored when it is handed on is stored when it is shown.
LEMMA ToldFollows ==
  ASSUME TypeOK, Pipeline
  PROVE  ToldIsStored
<1> SUFFICES ASSUME NEW c \in Customers
             PROVE  MessagesIn(ToSet(Told(c))) \subseteq Stored(talkOf[c])
  BY DEF ToldIsStored
<1>1. inbox[c] \in Seq(Response) /\ chSendMessage[c] \in Seq(Response)
  BY DEF TypeOK, SendTypeOK
<1>2. ToSet(Told(c)) \subseteq ToSet(inbox[c]) \cup ToSet(chSendMessage[c])
  BY <1>1, ConcatToSet DEF Told
<1>3. \A r \in ToSet(Told(c)) : ToSet(r.messages) \subseteq Stored(talkOf[c])
  BY <1>2 DEF Pipeline, SentIsStored
<1> QED  BY <1>3 DEF MessagesIn

\* No client is ever shown, confirmed or replayed a message that the store does
\* not hold for its talk, for any number of streams, talks and messages, with a
\* store that may fail and channels of any capacity.
THEOREM ToldIsStoredInvariant == Spec => []ToldIsStored
<1>1. TypeOK /\ Pipeline => ToldIsStored
  BY ToldFollows
<1> QED  BY <1>1, Typed, PipelineInvariant, PTL

-----------------------------------------------------------------------------
(* RegistryExplained and ServedOrKicked. *)

\* What a step may do without a look at the registry's invariant: no stream ends
\* for good, comes to serve, enters or leaves the registry, and no kick-out is
\* taken from a stream that goes on.
LEMMA RegistryKept ==
  ASSUME TypeOK, Registry, UNCHANGED <<talkOf, customers, installVars, overtaken>>,
         removing \cup kickLost \subseteq removing' \cup kickLost',
         \A c \in Customers :
           /\ stream'[c] \in {"started", "gone"} => stream'[c] = stream[c]
           /\ stream[c] = "gone" => stream'[c] = "gone"
           /\ stream'[c] = "serving" =>
                stream[c] = "serving" /\ (KickedOut(c) => KickedOut(c)')
  PROVE  Registry'
<1>1. HasTalk' /\ OverExplained'
  BY DEF Registry, HasTalk, OverExplained, Entered, Waiting, installVars
<1>2. LeaversQueued'
  <2>1. \A c \in ToSet(chUninstallCustomer) : c \in Customers
    BY DEF TypeOK, ChannelTypeOK, ToSet
  <2> QED  BY <2>1 DEF Registry, LeaversQueued, installVars
<1>3. ServedOrKicked'
  BY DEF Registry, ServedOrKicked, KickedOut, installVars
<1> QED  BY <1>1, <1>2, <1>3 DEF Registry

\* A response more does not take a kick-out away.
LEMMA KickStays ==
  ASSUME TypeOK, NEW c \in Customers, NEW resp,
         \/ chSendMessage'[c] = chSendMessage[c]
         \/ chSendMessage'[c] = Append(chSendMessage[c], resp)
  PROVE  KickedOut(c) => KickedOut(c)'
<1>1. chSendMessage[c] \in Seq(Response)
  BY DEF TypeOK, SendTypeOK
<1>2. ToSet(Append(chSendMessage[c], resp)) = ToSet(chSendMessage[c]) \cup {resp}
  BY <1>1, AppendToSet
<1>3. ToSet(chSendMessage[c]) \subseteq ToSet(chSendMessage'[c])
  BY <1>2
<1> QED  BY <1>3 DEF KickedOut

LEMMA StreamStepRegistry ==
  ASSUME TypeOK, Pipeline, Registry, NEW c \in Customers, StreamStep(c)
  PROVE  Registry'
<1> USE DEF TypeOK, StreamTypeOK
<1>1. ASSUME NEW t \in Talks, Start(c, t, TRUE) \/ Start(c, t, FALSE)
      PROVE  Registry'
  <2>1. /\ stream[c] = "idle" /\ stream' = [stream EXCEPT ![c] = "started"]
        /\ talkOf' = [talkOf EXCEPT ![c] = t]
        /\ UNCHANGED <<installVars, mdVars, chSendMessage, ghostVars>>
    BY <1>1 DEF Start
  <2>2. OverExplained' /\ LeaversQueued'
    <3>1. \A d \in Customers : stream'[d] = "gone" <=> stream[d] = "gone"
      BY <2>1
    <3>2. \A d \in ToSet(chUninstallCustomer) : d \in Customers
      BY DEF ChannelTypeOK, ToSet
    <3> QED  BY <2>1, <3>1, <3>2 DEF Registry, OverExplained, LeaversQueued, Entered,
               Waiting, installVars, mdVars, ghostVars
  <2>3. ServedOrKicked' /\ HasTalk'
    BY <2>1 DEF Registry, HasTalk, ServedOrKicked, installVars, mdVars, ghostVars
  <2> QED  BY <2>2, <2>3 DEF Registry
<1>2. CASE TalkStartRefused(c) \/ StreamTerminal(c)
  <2>1. /\ UNCHANGED <<talkOf, customers, installVars, overtaken, removing, kickLost, chSendMessage>>
        /\ stream[c] \notin {"gone"} /\ stream'[c] \in {"refused", "leaving"}
        /\ \A d \in Customers : d # c => stream'[d] = stream[d]
    BY <1>2 DEF TalkStartRefused, StreamTerminal, mdVars, ghostVars
  <2> QED  BY <2>1, RegistryKept DEF KickedOut
<1>3. CASE StreamSend(c) \/ StreamBroken(c)
  <2>1. /\ UNCHANGED <<talkOf, customers, installVars, overtaken, removing, kickLost>>
        /\ stream[c] = "serving" /\ stream'[c] \in {"serving", "leaving"}
        /\ stream'[c] = "serving" => Head(chSendMessage[c]).type # "kickOut"
        /\ \A d \in Customers : d # c =>
             stream'[d] = stream[d] /\ chSendMessage'[d] = chSendMessage[d]
        /\ chSendMessage[c] \in Seq(Response) /\ chSendMessage[c] # <<>>
        /\ chSendMessage'[c] = Tail(chSendMessage[c])
    BY <1>3 DEF StreamSend, StreamBroken, mdVars, ghostVars, SendTypeOK
  <2>2. ToSet(chSendMessage[c]) = {Head(chSendMessage[c])} \cup ToSet(chSendMessage'[c])
    BY <2>1, HeadOrTail
  <2>3. stream'[c] = "serving" => (KickedOut(c) => KickedOut(c)')
    BY <2>1, <2>2 DEF KickedOut
  <2>4. \A d \in Customers : d # c => (KickedOut(d) => KickedOut(d)')
    BY <2>1 DEF KickedOut
  <2> QED  BY <2>1, <2>3, <2>4, RegistryKept
<1>4. CASE InstallCustomer(c)
  <2>1. /\ UNCHANGED <<talkOf, customers, chUninstallCustomer, overtaken, removing, kickLost,
                      chSendMessage>>
        /\ stream[c] = "started" /\ chInstallCustomer \in Seq(Customers)
        /\ \/ /\ chInstallCustomer' = Append(chInstallCustomer, c)
              /\ stream' = [stream EXCEPT ![c] = "serving"]
           \/ /\ UNCHANGED chInstallCustomer /\ stream' = [stream EXCEPT ![c] = "refused"]
    BY <1>4 DEF InstallCustomer, mdVars, ghostVars, ChannelTypeOK
  <2>2. \/ /\ ToSet(chInstallCustomer') = ToSet(chInstallCustomer) \cup {c}
           /\ stream' = [stream EXCEPT ![c] = "serving"]
        \/ /\ UNCHANGED chInstallCustomer
           /\ stream' = [stream EXCEPT ![c] = "refused"]
    BY <2>1, AppendToSet
  <2>3. \A d \in Customers : d # c =>
          stream'[d] = stream[d] /\ (Waiting(d)' <=> Waiting(d))
    BY <2>2 DEF Waiting
  <2>4. OverExplained' /\ LeaversQueued'
    <3>1. \A d \in ToSet(chUninstallCustomer) : d \in Customers
      BY DEF ChannelTypeOK, ToSet
    <3>2. stream'[c] # "gone" /\ c \notin ToSet(chUninstallCustomer)
      BY <2>1, <2>2 DEF Registry, LeaversQueued
    <3> QED  BY <2>1, <2>3, <3>1, <3>2 DEF Registry, OverExplained, LeaversQueued, Entered
  <2>5. ServedOrKicked' /\ HasTalk'
    BY <2>1, <2>2, <2>3 DEF Registry, HasTalk, ServedOrKicked, Waiting
  <2> QED  BY <2>4, <2>5 DEF Registry
<1>5. CASE UninstallCustomer(c)
  <2>1. /\ UNCHANGED <<talkOf, customers, chInstallCustomer, overtaken, removing, kickLost,
                      chSendMessage>>
        /\ stream[c] = "leaving" /\ chUninstallCustomer \in Seq(Customers)
        /\ \/ /\ chUninstallCustomer' = Append(chUninstallCustomer, c)
              /\ stream' = [stream EXCEPT ![c] = "gone"]
           \/ /\ UNCHANGED chUninstallCustomer
              /\ stream' = [stream EXCEPT ![c] = "uninstallFailed"]
    BY <1>5 DEF UninstallCustomer, mdVars, ghostVars, ChannelTypeOK
  <2>2. \/ /\ ToSet(chUninstallCustomer') = ToSet(chUninstallCustomer) \cup {c}
           /\ stream' = [stream EXCEPT ![c] = "gone"]
        \/ /\ UNCHANGED chUninstallCustomer
           /\ stream' = [stream EXCEPT ![c] = "uninstallFailed"]
    BY <2>1, AppendToSet
  <2>3. OverExplained' /\ LeaversQueued'
    <3>1. \A d \in ToSet(chUninstallCustomer) : d \in Customers
      BY DEF ChannelTypeOK, ToSet
    <3> QED  BY <2>1, <2>2, <3>1 DEF Registry, OverExplained, LeaversQueued, Entered, Waiting
  <2>4. ServedOrKicked' /\ HasTalk'
    BY <2>1, <2>2 DEF Registry, HasTalk, ServedOrKicked
  <2> QED  BY <2>3, <2>4 DEF Registry
<1> QED  BY <1>1, <1>2, <1>3, <1>4, <1>5 DEF StreamStep, TalkStartCreate, TalkStartOpen

\* Taking streams that have no room out of the registry, and noting that they are
\* to be told to go.
LEMMA SendResponseRegistry ==
  ASSUME TypeOK, Pipeline, Registry, AtSelect,
         NEW S \in SUBSET Customers, NEW t \in Talks, NEW resp,
         SendResponse(S, t, resp), \A c \in S : talkOf[c] = t,
         UNCHANGED <<stream, talkOf, installVars, overtaken, kickLost>>
  PROVE  Registry'
<1>1. /\ \A u \in Talks : customers'[u] \subseteq customers[u]
      /\ removing = {} /\ removing' \subseteq S
      /\ \A u \in Talks : \A c \in customers[u] : c \in customers'[u] \/ c \in removing'
  BY DEF SendResponse, TypeOK, MainTypeOK, AtSelect
<1>2. \A c \in Customers : KickedOut(c) => KickedOut(c)'
  BY KickStays DEF SendResponse
<1>3. OverExplained' /\ LeaversQueued' /\ HasTalk'
  BY <1>1 DEF Registry, HasTalk, OverExplained, LeaversQueued, Entered, Waiting, installVars
<1>4. ServedOrKicked'
  <2> SUFFICES ASSUME NEW c \in Customers, stream[c] = "serving",
                      c \notin ToSet(chInstallCustomer), c \notin customers'[talkOf[c]],
                      c \notin removing' \cup kickLost
               PROVE  KickedOut(c)'
    BY DEF ServedOrKicked, KickedOut, installVars
  <2>1. talkOf[c] \in Talks
    BY DEF Registry, HasTalk
  <2> QED  BY <1>1, <1>2, <2>1 DEF Registry, ServedOrKicked, KickedOut
<1> QED  BY <1>3, <1>4 DEF Registry

LEMMA ReceiverLoaderRegistry ==
  ASSUME TypeOK, Pipeline, Registry, NEW c \in Customers, ReceiverStep(c) \/ LoaderStep(c)
  PROVE  Registry'
<1>1. UNCHANGED <<stream, talkOf, customers, installVars, overtaken, removing, kickLost>>
  BY DEF ReceiverStep, ReceiveMessage, ReceiveMessageFails, CustomerMessageIncoming,
         ReceiveClose, ReceiveFails, LoaderStep, LoadHistory, SendHistory, streamVars,
         mdVars, ghostVars
<1>2. \A d \in Customers :
        \/ chSendMessage'[d] = chSendMessage[d]
        \/ chSendMessage'[d] = Append(chSendMessage[d],
                                      [type |-> "messages", messages |-> history[c]])
  BY DEF ReceiverStep, ReceiveMessage, ReceiveMessageFails, CustomerMessageIncoming,
         ReceiveClose, ReceiveFails, LoaderStep, LoadHistory, SendHistory, TypeOK, SendTypeOK
<1>3. \A d \in Customers : KickedOut(d) => KickedOut(d)'
  BY <1>2, KickStays
<1> QED  BY <1>1, <1>3, RegistryKept

LEMMA HandleRegistry ==
  ASSUME TypeOK, Pipeline, Registry,
         HandleInstall \/ HandleUninstall \/ HandleMessage \/ HandleClose \/ RunPosted
  PROVE  Registry'
<1>1. CASE HandleInstall
  <2> DEFINE c == Head(chInstallCustomer)
  <2>1. /\ UNCHANGED <<stream, talkOf, chUninstallCustomer, overtaken, kickLost, chSendMessage>>
        /\ chInstallCustomer \in Seq(Customers) /\ chInstallCustomer # <<>>
        /\ chInstallCustomer' = Tail(chInstallCustomer) /\ removing = {}
        /\ \/ /\ TalkExists({ActOf[c]}, {BizOf[c]}, talkOf[c])
              /\ customers' = [customers EXCEPT ![talkOf[c]] = @ \cup {c}]
              /\ UNCHANGED removing
           \/ removing' = {c} /\ UNCHANGED customers
    BY <1>1 DEF HandleInstall, AtSelect, streamVars, ghostVars, TypeOK, ChannelTypeOK
  <2>2. ToSet(chInstallCustomer) = {c} \cup ToSet(chInstallCustomer')
    BY <2>1, HeadOrTail
  <2>3. c \in Customers /\ \A d : Waiting(d) <=> d = c \/ Waiting(d)'
    BY <2>1, <2>2, HeadTailToSet DEF Waiting
  <2>4. TalkExists({ActOf[c]}, {BizOf[c]}, talkOf[c]) => talkOf[c] \in Talks
    BY DEF TalkExists, InScope, TypeOK, StoreTypeOK
  <2>5. /\ \A t \in Talks : \A d \in customers'[t] : d \in customers[t] \/ d = c
        /\ \A t \in Talks : customers[t] \subseteq customers'[t]
        /\ c \in customers'[talkOf[c]] \/ c \in removing'
    BY <2>1, <2>4 DEF TypeOK, MainTypeOK
  <2>6. OverExplained' /\ LeaversQueued' /\ HasTalk'
    BY <2>1, <2>3, <2>5 DEF Registry, HasTalk, OverExplained, LeaversQueued, Entered
  <2>7. ServedOrKicked'
    BY <2>1, <2>3, <2>5 DEF Registry, HasTalk, ServedOrKicked, Waiting
  <2> QED  BY <2>6, <2>7 DEF Registry
<1>2. CASE HandleUninstall
  <2> DEFINE c == Head(chUninstallCustomer)
  <2>1. /\ UNCHANGED <<stream, talkOf, chInstallCustomer, removing, kickLost, chSendMessage>>
        /\ chUninstallCustomer \in Seq(Customers) /\ chUninstallCustomer # <<>>
        /\ chUninstallCustomer' = Tail(chUninstallCustomer)
        /\ customers' = [customers EXCEPT ![talkOf[c]] = @ \ {c}]
        /\ overtaken' = IF c \in ToSet(chInstallCustomer) THEN overtaken \cup {c}
                        ELSE overtaken
    BY <1>2 DEF HandleUninstall, streamVars, TypeOK, ChannelTypeOK
  <2>2. /\ ToSet(chUninstallCustomer) = {c} \cup ToSet(chUninstallCustomer')
        /\ c \in Customers
    BY <2>1, HeadOrTail, HeadTailToSet
  <2>3. stream[c] = "gone"
    BY <2>2 DEF Registry, LeaversQueued
  <2>4. /\ \A t \in Talks : customers'[t] \subseteq customers[t] /\ c \notin customers'[t]
        /\ \A t \in Talks : \A d \in customers[t] : d # c => d \in customers'[t]
    BY <2>1 DEF TypeOK, MainTypeOK, Pipeline, RegisteredForItsTalk
  <2>5. LeaversQueued' /\ HasTalk'
    BY <2>1, <2>2 DEF Registry, HasTalk, LeaversQueued
  <2>6. OverExplained'
    <3> SUFFICES ASSUME NEW d \in Customers, stream[d] = "gone", Entered(d)'
                 PROVE  d \in ToSet(chUninstallCustomer') \cup overtaken'
      BY <2>1 DEF OverExplained
    <3>1. Entered(d) /\ (d = c => Waiting(c))
      BY <2>1, <2>4 DEF Entered, Waiting
    <3>2. d \in ToSet(chUninstallCustomer) \cup overtaken
      BY <3>1 DEF Registry, OverExplained
    <3> QED  BY <2>1, <2>2, <3>1, <3>2 DEF Waiting
  <2>7. ServedOrKicked'
    <3> SUFFICES ASSUME NEW d \in Customers, stream[d] = "serving",
                        d \notin ToSet(chInstallCustomer), d \notin customers'[talkOf[d]],
                        d \notin removing \cup kickLost
                 PROVE  KickedOut(d)
      BY <2>1 DEF ServedOrKicked, KickedOut
    <3>1. d # c /\ d \notin customers[talkOf[d]]
      BY <2>3, <2>4 DEF Registry, HasTalk
    <3> QED  BY <3>1 DEF Registry, ServedOrKicked, KickedOut
  <2> QED  BY <2>5, <2>6, <2>7 DEF Registry
<1>3. CASE HandleMessage
  <2> DEFINE m == Head(chCustomerMessage)
  <2>1. /\ chCustomerMessage \in Seq(Customers \X Nat) /\ chCustomerMessage # <<>>
        /\ SendResponse({m[1]}, talkOf[m[1]], [type |-> "messageConfirmed", messages |-> <<m>>])
        /\ UNCHANGED <<stream, talkOf, installVars, overtaken, kickLost>> /\ AtSelect
    BY <1>3 DEF HandleMessage, streamVars, ghostVars, TypeOK, ChannelTypeOK
  <2>2. m \in ToSet(chCustomerMessage) /\ m \in Customers \X Nat
    BY <2>1, HeadTailToSet
  <2>3. talkOf[m[1]] \in Talks /\ {m[1]} \in SUBSET Customers
    BY <2>2, SenderHasTalk
  <2> QED  BY <2>1, <2>3, SendResponseRegistry
<1>4. CASE HandleClose
  <2>1. UNCHANGED <<stream, talkOf, customers, installVars, overtaken, removing, kickLost,
                    chSendMessage>>
    BY <1>4 DEF HandleClose, streamVars, ghostVars
  <2> QED  BY <2>1, RegistryKept DEF KickedOut
<1>5. CASE RunPosted
  <2> DEFINE n == Head(customerRunner)
  <2>1. /\ customerRunner \in Seq(CustomerNotice) /\ customerRunner # <<>>
        /\ SendResponse(customers[n.talk], n.talk, [type |-> n.event, messages |-> n.messages])
        /\ UNCHANGED <<stream, talkOf, installVars, overtaken, kickLost>> /\ AtSelect
    BY <1>5 DEF RunPosted, streamVars, ghostVars, TypeOK, ChannelTypeOK
  <2>2. n \in CustomerNotice
    BY <2>1, HeadTailToSet
  <2>3. /\ n.talk \in Talks /\ customers[n.talk] \in SUBSET Customers
        /\ \A d \in customers[n.talk] : talkOf[d] = n.talk
    BY <2>2 DEF CustomerNotice, TypeOK, MainTypeOK, Pipeline, RegisteredForItsTalk
  <2> QED  BY <2>1, <2>3, SendResponseRegistry
<1> QED  BY <1>1, <1>2, <1>3, <1>4, <1>5

LEMMA RestRegistry ==
  ASSUME TypeOK, Pipeline, Registry,
         \/ NotifyCustomers \/ NotifyServicers
         \/ \E c \in Customers : KickOut(c)
  PROVE  Registry'
<1>1. ASSUME NEW c \in Customers, KickOut(c)  PROVE  Registry'
  <2> DEFINE resp == [type |-> "kickOut", messages |-> <<>>]
  <2>1. /\ UNCHANGED <<stream, talkOf, customers, installVars, overtaken>>
        /\ removing' = removing \ {c} /\ chSendMessage[c] \in Seq(Response)
        /\ \/ /\ chSendMessage' = [chSendMessage EXCEPT ![c] = Append(@, resp)]
              /\ UNCHANGED kickLost
           \/ kickLost' = kickLost \cup {c} /\ UNCHANGED chSendMessage
    BY <1>1 DEF KickOut, streamVars, TypeOK, SendTypeOK
  <2>6. \A d \in Customers : \/ chSendMessage'[d] = chSendMessage[d]
                             \/ chSendMessage'[d] = Append(chSendMessage[d], resp)
    BY <2>1 DEF TypeOK, SendTypeOK
  <2>2. \A d \in Customers : KickedOut(d) => KickedOut(d)'
    BY <2>6, KickStays
  <2>3. c \in kickLost' \/ KickedOut(c)'
    <3>1. ToSet(Append(chSendMessage[c], resp)) = ToSet(chSendMessage[c]) \cup {resp}
      BY <2>1, AppendToSet
    <3>2. CASE chSendMessage' = [chSendMessage EXCEPT ![c] = Append(@, resp)]
      <4>1. ToSet(chSendMessage'[c]) = ToSet(chSendMessage[c]) \cup {resp}
        BY <3>1, <3>2 DEF TypeOK, SendTypeOK
      <4>2. resp.type = "kickOut"
        OBVIOUS
      <4> HIDE DEF resp
      <4> QED  BY <4>1, <4>2 DEF KickedOut
    <3> QED  BY <2>1, <3>2
  <2>4. OverExplained' /\ LeaversQueued' /\ HasTalk'
    BY <2>1 DEF Registry, HasTalk, OverExplained, LeaversQueued, Entered, Waiting, installVars
  <2>5. ServedOrKicked'
    BY <2>1, <2>2, <2>3 DEF Registry, ServedOrKicked, KickedOut, installVars
  <2> QED  BY <2>4, <2>5 DEF Registry
<1>2. CASE NotifyCustomers \/ NotifyServicers
  <2>1. UNCHANGED <<stream, talkOf, customers, installVars, overtaken, removing, kickLost,
                    chSendMessage>>
    BY <1>2 DEF NotifyCustomers, NotifyServicers, streamVars, ghostVars
  <2> QED  BY <2>1, RegistryKept DEF KickedOut
<1> QED  BY <1>1, <1>2

LEMMA StepRegistry ==
  ASSUME TypeOK, Pipeline, Registry, [Next]_vars
  PROVE  Registry'
<1>1. CASE \E c \in Customers : StreamStep(c) \/ ReceiverStep(c) \/ LoaderStep(c)
  BY <1>1, StreamStepRegistry, ReceiverLoaderRegistry
<1>2. CASE MainStep
  BY <1>2, HandleRegistry, RestRegistry DEF MainStep
<1>3. CASE UNCHANGED vars
  BY <1>3, RegistryKept DEF KickedOut, vars, customerVars, streamVars, mdVars, ghostVars
<1> QED  BY <1>1, <1>2, <1>3 DEF Next

\* At first nothing is registered and nobody has been kicked out.
LEMMA RegistryInit == Init => Registry
<1>1. ToSet(<<>>) = {}
  BY DEF ToSet
<1> QED  BY <1>1 DEF Init, CustomerInit, Registry, HasTalk, OverExplained, LeaversQueued,
           ServedOrKicked, Entered, Waiting

\* Registry, the inductive invariant of installation and removal.
LEMMA RegistryInvariant == Spec => []Registry
<1>1. TypeOK /\ Pipeline /\ Registry /\ [Next]_vars => Registry'
  BY StepRegistry
<1> QED  BY RegistryInit, <1>1, Typed, PipelineInvariant, PTL DEF Spec

LEMMA ExplainedFollows ==
  ASSUME TypeOK, Pipeline, Registry
  PROVE  RegistryExplained
BY DEF TypeOK, MainTypeOK, Pipeline, RegisteredForItsTalk, Registry, OverExplained, Entered,
   RegistryExplained

\* However the uninstallation of a stream, its installation and the removals
\* interleave, a stream that is over stays registered only while its
\* uninstallation waits, or if that overtook its installation in the select.
THEOREM RegistryExplainedInvariant == Spec => []RegistryExplained
<1>1. TypeOK /\ Pipeline /\ Registry => RegistryExplained
  BY ExplainedFollows
<1> QED  BY <1>1, Typed, PipelineInvariant, RegistryInvariant, PTL

\* Who was installed and not taken out again is served, or the server is about
\* to give him up, or his kick-out is on its way or was lost with a full channel:
\* no client stays connected unserved without a cause the code has.
THEOREM ServedOrKickedInvariant == Spec => []ServedOrKicked
<1>1. Registry => ServedOrKicked
  BY DEF Registry
<1> QED  BY <1>1, RegistryInvariant, PTL

-----------------------------------------------------------------------------
(* NoGap. *)

\* What was put into a stream's channel is in it or was sent to its client.
LEMMA HeardOf ==
  ASSUME TypeOK, NEW c \in Customers
  PROVE  /\ ToSet(Told(c)) = ToSet(inbox[c]) \cup ToSet(chSendMessage[c])
         /\ Heard(c) = MessagesIn({r \in ToSet(inbox[c]) \cup ToSet(chSendMessage[c]) :
                                     r.type \in {"messages", "message"}})
<1>1. inbox[c] \in Seq(Response) /\ chSendMessage[c] \in Seq(Response)
  BY DEF TypeOK, SendTypeOK
<1>2. ToSet(Told(c)) = ToSet(inbox[c]) \cup ToSet(chSendMessage[c])
  BY <1>1, ConcatToSet DEF Told
<1> QED  BY <1>2 DEF Heard

\* The same of the next state.
LEMMA ToldNext ==
  ASSUME TypeOK', NEW c \in Customers
  PROVE  ToSet(inbox'[c] \o chSendMessage'[c]) = ToSet(inbox'[c]) \cup ToSet(chSendMessage'[c])
<1>1. inbox'[c] \in Seq(Response) /\ chSendMessage'[c] \in Seq(Response)
  BY DEF TypeOK, SendTypeOK
<1> QED  BY <1>1, ConcatToSet

\* Heard is monotone in what a client is told.
LEMMA HeardGrows ==
  ASSUME TypeOK, TypeOK', NEW c \in Customers,
         ToSet(inbox[c]) \cup ToSet(chSendMessage[c])
           \subseteq ToSet(inbox'[c]) \cup ToSet(chSendMessage'[c])
  PROVE  Heard(c) \subseteq Heard(c)'
<1>1. Heard(c) = MessagesIn({r \in ToSet(inbox[c]) \cup ToSet(chSendMessage[c]) :
                               r.type \in {"messages", "message"}})
  BY HeardOf
<1>2. Heard(c)' = MessagesIn({r \in ToSet(inbox'[c]) \cup ToSet(chSendMessage'[c]) :
                                r.type \in {"messages", "message"}})
  <2>2. ToSet(inbox'[c] \o chSendMessage'[c]) = ToSet(inbox'[c]) \cup ToSet(chSendMessage'[c])
    BY ToldNext
  <2> QED  BY <2>2 DEF Heard, Told, MessagesIn
<1> QED  BY <1>1, <1>2 DEF MessagesIn

\* A response more takes nothing away from what a client has heard.
LEMMA SendHeard ==
  ASSUME TypeOK, TypeOK', NEW c \in Customers, NEW resp, UNCHANGED inbox,
         \/ chSendMessage'[c] = chSendMessage[c]
         \/ chSendMessage'[c] = Append(chSendMessage[c], resp)
  PROVE  Heard(c) \subseteq Heard(c)'
<1>1. chSendMessage[c] \in Seq(Response)
  BY DEF TypeOK, SendTypeOK
<1>2. ToSet(Append(chSendMessage[c], resp)) = ToSet(chSendMessage[c]) \cup {resp}
  BY <1>1, AppendToSet
<1>3. ToSet(chSendMessage[c]) \subseteq ToSet(chSendMessage'[c])
  BY <1>2
<1> QED  BY <1>3, HeardGrows

\* The messages of a response that was sent are heard.
LEMMA SentHeard ==
  ASSUME TypeOK, TypeOK', NEW c \in Customers, NEW resp,
         resp.type \in {"messages", "message"},
         chSendMessage'[c] = Append(chSendMessage[c], resp)
  PROVE  ToSet(resp.messages) \subseteq Heard(c)'
<1>1. chSendMessage[c] \in Seq(Response)
  BY DEF TypeOK, SendTypeOK
<1>2. ToSet(chSendMessage'[c]) = ToSet(chSendMessage[c]) \cup {resp}
  BY <1>1, AppendToSet
<1>4. ToSet(inbox'[c] \o chSendMessage'[c]) = ToSet(inbox'[c]) \cup ToSet(chSendMessage'[c])
  BY ToldNext
<1>5. resp \in ToSet(inbox'[c] \o chSendMessage'[c])
  BY <1>2, <1>4
<1> QED  BY <1>5 DEF Heard, Told, MessagesIn

\* Nobody misses what he did not miss before.
NoneMissedMore == \A c \in Customers : Missed(c)' \subseteq Missed(c)

\* A step that stores nothing, and loses nothing that was underway.
LEMMA MissedKept ==
  ASSUME UNCHANGED talkOf, \A u : Stored(u)' = Stored(u),
         Underway \subseteq Underway',
         \A c \in Customers : Listening(c)' => Listening(c) /\ Known(c) \subseteq Known(c)'
  PROVE  NoneMissedMore
<1> SUFFICES ASSUME NEW c \in Customers, Listening(c)'
             PROVE  Stored(talkOf[c])' \ (Known(c)' \cup Underway')
                      \subseteq Stored(talkOf[c]) \ (Known(c) \cup Underway)
  BY DEF NoneMissedMore, Missed
<1>1. Stored(talkOf[c])' = Stored(talkOf[c])
  OBVIOUS
<1> QED  BY <1>1

\* Parts of Orderly whose variables a step leaves alone.
LEMMA OrderlyKept ==
  ASSUME Orderly
  PROVE  /\ UNCHANGED <<stream, receiver, loader, chInstallCustomer>> => NotYetServed'
         /\ UNCHANGED customerTodo =>
              OnlyMessages({call.notice : call \in ToSet(customerTodo)})'
         /\ UNCHANGED customerRunner => OnlyMessages(ToSet(customerRunner))'
<1>1. UNCHANGED <<stream, receiver, loader, chInstallCustomer>> => NotYetServed'
  BY DEF Orderly, NotYetServed
<1>2. UNCHANGED customerTodo => OnlyMessages({call.notice : call \in ToSet(customerTodo)})'
  BY DEF Orderly, OnlyMessages
<1>3. UNCHANGED customerRunner => OnlyMessages(ToSet(customerRunner))'
  BY DEF Orderly, OnlyMessages
<1> QED  BY <1>1, <1>2, <1>3

\* Parts of Underway that a step leaves alone.
LEMMA UnderwayKept ==
  ASSUME UNCHANGED <<receiver, requests, chCustomerMessage, customerTodo, customerRunner,
                     dropped>>
  PROVE  Underway' = Underway
BY DEF Underway, InFlight, DroppedMessages, MessagesIn, Current

LEMMA StreamStepOrderly ==
  ASSUME TypeOK, TypeOK', Pipeline, HasTalk, Orderly, OneTalk, NEW c \in Customers, StreamStep(c)
  PROVE  Orderly' /\ NoneMissedMore
<1>1. ASSUME NEW t \in Talks, TalkStartCreate(c, t) \/ TalkStartOpen(c, t)
      PROVE  Orderly' /\ NoneMissedMore
  <2>1. \A u : Stored(u)' = Stored(u)
    BY <1>1, NothingStored DEF TalkStartCreate, TalkStartOpen, TypeOK
  <2>2. /\ stream[c] = "idle" /\ stream' = [stream EXCEPT ![c] = "started"]
        /\ talkOf' = [talkOf EXCEPT ![c] = t]
        /\ UNCHANGED <<receiver, requests, chInstallCustomer, chCustomerMessage, customerTodo,
                       customerRunner, dropped, customers, loader, history,
                       chSendMessage, inbox>>
    BY <1>1 DEF TalkStartCreate, TalkStartOpen, Start, receiverVars, installVars,
         requestVars, mdVars, loaderVars, ghostVars
  <2>3. Underway' = Underway
    BY <2>2, UnderwayKept
  <2>4. \A d \in Customers : /\ Listening(d)' => Listening(d) /\ d # c
                             /\ d # c => talkOf'[d] = talkOf[d]
                             /\ Known(d)' = Known(d)
    BY <2>2 DEF Listening, Known, Heard, Told, MessagesIn, TypeOK, StreamTypeOK
  <2>5. NoneMissedMore
    <3> SUFFICES ASSUME NEW d \in Customers, Listening(d)'
                 PROVE  Missed(d)' \subseteq Missed(d)
      BY DEF NoneMissedMore, Missed
    <3>1. Stored(talkOf[d])' = Stored(talkOf[d])
      BY <2>1, <2>4
    <3> QED  BY <2>3, <2>4, <3>1 DEF Missed
  <2>7. NotYetServed'
    BY <2>2 DEF Orderly, NotYetServed, TypeOK, StreamTypeOK
  <2> QED  BY <2>2, <2>5, <2>7, OrderlyKept DEF Orderly
<1>2. CASE /\ \/ TalkStartRefused(c) \/ StreamTerminal(c) \/ UninstallCustomer(c)
              \/ StreamBroken(c) \/ StreamSend(c)
  <2>1. /\ UNCHANGED <<talks, talkOf, receiver, requests, chInstallCustomer,
                       chCustomerMessage, customerTodo, customerRunner, dropped, customers,
                       loader, history>>
        /\ \A d \in Customers : stream'[d] \in {"idle", "started"} => stream'[d] = stream[d]
        /\ \A d \in Customers : stream'[d] = "serving" => stream'[d] = stream[d]
    BY <1>2 DEF TalkStartRefused, StreamTerminal, UninstallCustomer, StreamBroken, StreamSend,
         receiverVars, installVars, requestVars, mdVars, loaderVars, ghostVars,
         TypeOK, StreamTypeOK
  <2>2. Underway' = Underway
    BY <2>1, UnderwayKept
  <2>3. \A d \in Customers : Listening(d)' => Heard(d) \subseteq Heard(d)'
    <3> SUFFICES ASSUME NEW d \in Customers, Listening(d)'  PROVE  Heard(d) \subseteq Heard(d)'
      OBVIOUS
    <3>1. CASE StreamSend(c) /\ d = c
      <4>1. /\ chSendMessage[c] \in Seq(Response) /\ chSendMessage[c] # <<>>
            /\ inbox[c] \in Seq(Response)
            /\ chSendMessage'[c] = Tail(chSendMessage[c])
            /\ inbox'[c] = Append(inbox[c], Head(chSendMessage[c]))
        BY <3>1 DEF StreamSend, TypeOK, SendTypeOK
      <4>2. ToSet(chSendMessage[c]) = {Head(chSendMessage[c])} \cup ToSet(chSendMessage'[c])
        BY <4>1, HeadOrTail
      <4>3. ToSet(inbox'[c]) = ToSet(inbox[c]) \cup {Head(chSendMessage[c])}
        BY <4>1, AppendToSet
      <4> QED  BY <3>1, <4>2, <4>3, HeardGrows
    <3>2. CASE ~(StreamSend(c) /\ d = c)
      <4>1. chSendMessage'[d] = chSendMessage[d] /\ inbox'[d] = inbox[d]
        <5>1. CASE StreamBroken(c)
          <6>1. d # c
            BY <3>2, <5>1 DEF StreamBroken, Listening, TypeOK, StreamTypeOK
          <6> QED  BY <5>1, <6>1 DEF StreamBroken, TypeOK, SendTypeOK
        <5>2. CASE StreamSend(c)
          BY <3>2, <5>2 DEF StreamSend, TypeOK, SendTypeOK
        <5>3. CASE TalkStartRefused(c) \/ StreamTerminal(c) \/ UninstallCustomer(c)
          BY <5>3 DEF TalkStartRefused, StreamTerminal, UninstallCustomer
        <5> QED  BY <1>2, <5>1, <5>2, <5>3
      <4> QED  BY <4>1, HeardGrows
    <3> QED  BY <3>1, <3>2
  <2>4. NoneMissedMore
    <3>1. \A d \in Customers : Listening(d)' => Listening(d) /\ Known(d) \subseteq Known(d)'
      BY <2>1, <2>3 DEF Listening, Known
    <3>2. \A u : Stored(u)' = Stored(u)
      BY <2>1 DEF Stored
    <3> QED  BY <2>1, <2>2, <3>1, <3>2, MissedKept
  <2>5. NotYetServed'
    BY <2>1 DEF Orderly, NotYetServed
  <2>6. \A u : Stored(u)' = Stored(u)
    BY <2>1 DEF Stored
  <2> QED  BY <2>1, <2>4, <2>5, <2>6, OrderlyKept DEF Orderly
<1>3. CASE InstallCustomer(c)
  <2>1. /\ UNCHANGED <<talks, talkOf, requests, chCustomerMessage, customerTodo,
                       customerRunner, dropped, customers, loader, history, inbox,
                       chSendMessage>>
        /\ stream[c] = "started" /\ stream'[c] \in {"serving", "refused"}
        /\ receiver'[c] \in {receiver[c], "receiving"}
        /\ \A d \in Customers : d # c => stream'[d] = stream[d] /\ receiver'[d] = receiver[d]
        /\ chInstallCustomer' \in {chInstallCustomer, Append(chInstallCustomer, c)}
    BY <1>3 DEF InstallCustomer, requestVars, mdVars, loaderVars, ghostVars, TypeOK,
       StreamTypeOK
  <2>2. receiver[c] = "off" /\ loader[c] = "off"
    BY <2>1 DEF Orderly, NotYetServed
  <2>3. {d \in Customers : receiver'[d] = "persisted"}
          = {d \in Customers : receiver[d] = "persisted"}
    BY <2>1, <2>2
  <2>4. Underway' = Underway
    BY <2>1, <2>3 DEF Underway, InFlight, DroppedMessages, MessagesIn, Current
  <2>5. \A u : Stored(u)' = Stored(u)
    BY <2>1 DEF Stored
  <2>6. NoneMissedMore
    <3>1. \A d \in Customers : Listening(d)' => Listening(d) /\ Known(d) \subseteq Known(d)'
      BY <2>1, <2>2 DEF Listening, Known, Heard, Told, MessagesIn
    <3> QED  BY <2>1, <2>4, <2>5, <3>1, MissedKept
  <2>7. NotYetServed'
    <3>1. chInstallCustomer \in Seq(Customers)
      BY DEF TypeOK, ChannelTypeOK
    <3>2. ToSet(chInstallCustomer') \subseteq ToSet(chInstallCustomer) \cup {c}
      <4>1. ToSet(Append(chInstallCustomer, c)) = ToSet(chInstallCustomer) \cup {c}
        BY <3>1, AppendToSet
      <4> QED  BY <2>1, <4>1
    <3> QED  BY <2>1, <3>2 DEF Orderly, NotYetServed
  <2> QED  BY <2>1, <2>5, <2>6, <2>7, OrderlyKept DEF Orderly
<1> QED  BY <1>1, <1>2, <1>3 DEF StreamStep

LEMMA ReceiverStepOrderly ==
  ASSUME TypeOK, TypeOK', Pipeline, HasTalk, Orderly, OneTalk, NEW c \in Customers, ReceiverStep(c)
  PROVE  Orderly' /\ NoneMissedMore
<1>1. /\ UNCHANGED <<stream, talkOf, customerTodo, customerRunner, customers, loader, history,
                     chInstallCustomer, inbox, chSendMessage>>
      /\ receiver[c] \in {"receiving", "persisted"} /\ receiver'[c] # "off"
      /\ \A d \in Customers : d # c => /\ receiver'[d] = receiver[d]
                                       /\ requests'[d] = requests[d]
  BY DEF ReceiverStep, ReceiveMessage, ReceiveMessageFails, CustomerMessageIncoming,
         ReceiveClose, ReceiveFails, CountRequest, streamVars, mdVars, loaderVars, installVars,
         TypeOK, StreamTypeOK
<1>2. \A d \in Customers : Listening(d)' = Listening(d) /\ Known(d) = Known(d)'
  BY <1>1 DEF Listening, Known, Heard, Told, MessagesIn
<1>3. NotYetServed'
  BY <1>1 DEF Orderly, NotYetServed
<1>4. /\ \A d \in Customers : receiver[d] = "persisted" => Current(d) \in Underway
      /\ \A d \in Customers : receiver'[d] = "persisted" => Current(d)' \in Underway'
  BY DEF Underway, InFlight
<1>5. Underway \subseteq Underway'
      /\ \A u : Stored(u)' \subseteq Stored(u) \cup Underway'
  <2>1. CASE ReceiveMessage(c)
    <3>1. /\ receiver[c] = "receiving" /\ receiver'[c] = "persisted"
          /\ Current(c)' = <<c, requests[c] + 1>>
          /\ AddTalkMessage(talkOf[c], <<c, requests[c] + 1>>)
          /\ UNCHANGED <<chCustomerMessage, dropped>>
      BY <2>1 DEF ReceiveMessage, CountRequest, Current, TypeOK, StreamTypeOK, requestVars,
         ghostVars
    <3>2. \A u : Stored(u)' \subseteq Stored(u) \cup (IF u = talkOf[c] THEN {Current(c)'} ELSE {})
      <4> DEFINE t == talkOf[c]
                 m == <<c, requests[c] + 1>>
      <4>1. t \in DOMAIN talks /\ talks[t] \in TalkInfo
        BY <3>1 DEF AddTalkMessage, TypeOK, StoreTypeOK
      <4>2. talks[t].messages \in Seq(Message)
        BY <4>1 DEF TalkInfo
      <4>3. /\ DOMAIN talks' = DOMAIN talks
            /\ talks'[t].messages = Append(talks[t].messages, m)
            /\ \A u \in DOMAIN talks : u # t => talks'[u].messages = talks[u].messages
        BY <3>1, <4>1 DEF AddTalkMessage, TypeOK, StoreTypeOK, TalkInfo
      <4>4. ToSet(talks'[t].messages) = ToSet(talks[t].messages) \cup {m}
        BY <4>2, <4>3, AppendToSet
      <4> QED  BY <3>1, <4>1, <4>3, <4>4 DEF Stored
    <3>4. Underway \subseteq Underway'
      BY <1>1, <3>1 DEF Underway, InFlight, DroppedMessages, MessagesIn, Current
    <3> QED  BY <1>4, <3>1, <3>2, <3>4
  <2>2. CASE CustomerMessageIncoming(c)
    <3>1. /\ UNCHANGED talks /\ UNCHANGED requests /\ dropped \subseteq dropped'
          /\ receiver[c] = "persisted" /\ chCustomerMessage \in Seq(Customers \X Nat)
          /\ \/ /\ chCustomerMessage' = Append(chCustomerMessage, Current(c))
                /\ UNCHANGED dropped
             \/ /\ UNCHANGED chCustomerMessage
                /\ [event |-> "message", talk |-> talkOf[c],
                    messages |-> <<Current(c)>>] \in dropped'
      BY <2>2 DEF CustomerMessageIncoming, TypeOK, ChannelTypeOK
    <3>2. Current(c) \in ToSet(chCustomerMessage') \cup DroppedMessages'
      <4>1. ToSet(Append(chCustomerMessage, Current(c)))
              = ToSet(chCustomerMessage) \cup {Current(c)}
        BY <3>1, AppendToSet
      <4>2. Current(c) \in ToSet(<<Current(c)>>)
        BY DEF ToSet
      <4> DEFINE n == [event |-> "message", talk |-> talkOf[c], messages |-> <<Current(c)>>]
      <4>3. Current(c) \in ToSet(n.messages)
        BY <4>2
      <4>4. n \in dropped' => Current(c) \in DroppedMessages'
        <5> HIDE DEF n
        <5> QED  BY <4>3 DEF DroppedMessages, MessagesIn
      <4> QED  BY <3>1, <4>1, <4>4
    <3>3. ToSet(chCustomerMessage) \subseteq ToSet(chCustomerMessage')
      <4>1. ToSet(Append(chCustomerMessage, Current(c)))
              = ToSet(chCustomerMessage) \cup {Current(c)}
        BY <3>1, AppendToSet
      <4> QED  BY <3>1, <4>1
    <3>4. DroppedMessages \subseteq DroppedMessages'
      BY <3>1 DEF DroppedMessages, MessagesIn
    <3>5. Underway \subseteq Underway'
      <4> DEFINE Stored1 == {Current(d) : d \in {e \in Customers : receiver[e] = "persisted"}}
      <4>1. Stored1 \subseteq Underway'
        <5>1. \A d \in Customers : d # c => Current(d)' = Current(d)
          BY <1>1 DEF Current
        <5>2. \A d \in Customers : receiver[d] = "persisted" /\ d # c => Current(d) \in Underway'
          BY <1>1, <1>4, <5>1
        <5>3. Current(c) \in Underway'
          BY <3>2 DEF Underway, InFlight
        <5> QED  BY <5>2, <5>3
      <4>2. /\ MessagesIn({call.notice : call \in {d \in ToSet(customerTodo) : d.to = "customers"}})
                \subseteq Underway'
            /\ MessagesIn(ToSet(customerRunner)) \subseteq Underway'
        <5>1. UNCHANGED <<customerTodo, customerRunner>>
          BY <1>1
        <5> QED  BY <5>1 DEF Underway, InFlight, MessagesIn
      <4>3. /\ ToSet(chCustomerMessage) \subseteq Underway'
            /\ DroppedMessages \subseteq Underway'
        BY <3>3, <3>4 DEF Underway, InFlight
      <4> QED  BY <4>1, <4>2, <4>3 DEF Underway, InFlight
    <3>6. \A u : Stored(u)' = Stored(u)
      BY <3>1 DEF Stored
    <3> QED  BY <3>5, <3>6
  <2>3. CASE ReceiveMessageFails(c) \/ ReceiveClose(c) \/ ReceiveFails(c)
    <3>1. /\ UNCHANGED <<talks, chCustomerMessage, dropped>>
          /\ receiver[c] # "persisted"
      BY <2>3 DEF ReceiveMessageFails, ReceiveClose, ReceiveFails, CountRequest, requestVars,
         ghostVars
    <3>2. Underway \subseteq Underway'
      BY <1>1, <3>1 DEF Underway, InFlight, DroppedMessages, MessagesIn, Current
    <3>3. \A u : Stored(u)' = Stored(u)
      BY <3>1 DEF Stored
    <3> QED  BY <3>2, <3>3
  <2> QED  BY <2>1, <2>2, <2>3 DEF ReceiverStep
<1>6. NoneMissedMore
  <2> SUFFICES ASSUME NEW d \in Customers, Listening(d)'
               PROVE  Missed(d)' \subseteq Missed(d)
    BY DEF NoneMissedMore, Missed
  <2>1. Stored(talkOf[d])' \subseteq Stored(talkOf[d]) \cup Underway'
    BY <1>1, <1>5
  <2> QED  BY <1>2, <1>5, <2>1 DEF Missed
<1> QED  BY <1>1, <1>3, <1>6, OrderlyKept DEF Orderly

LEMMA LoaderStepOrderly ==
  ASSUME TypeOK, TypeOK', Pipeline, HasTalk, Orderly, OneTalk, NEW c \in Customers, LoaderStep(c)
  PROVE  Orderly' /\ NoneMissedMore
<1>1. /\ UNCHANGED <<talks, stream, talkOf, receiver, requests, chInstallCustomer,
                     chCustomerMessage, customerTodo, customerRunner, dropped, customers, inbox>>
      /\ loader[c] \in {"reading", "sending"}
      /\ \A d \in Customers : d # c => /\ loader'[d] = loader[d] /\ history'[d] = history[d]
                                       /\ chSendMessage'[d] = chSendMessage[d]
  BY DEF LoaderStep, LoadHistory, SendHistory, streamVars, receiverVars, installVars,
         requestVars, mdVars, ghostVars, TypeOK, SendTypeOK
<1>2. Underway' = Underway /\ \A u : Stored(u)' = Stored(u)
  BY <1>1, UnderwayKept DEF Stored
<1>3. NotYetServed'
  BY <1>1 DEF Orderly, NotYetServed
<1>4. \A d \in Customers : d # c => (Listening(d)' <=> Listening(d)) /\ Known(d)' = Known(d)
  BY <1>1 DEF Listening, Known, Heard, Told, MessagesIn
<1>5. Missed(c)' \subseteq Missed(c)
  <2> SUFFICES ASSUME Listening(c)'
               PROVE  Stored(talkOf[c]) \ (Known(c)' \cup Underway) \subseteq Missed(c)
    BY <1>1, <1>2 DEF Missed
  <2>1. CASE LoadHistory(c)
    <3>1. /\ loader'[c] = "sending" /\ talkOf[c] \in DOMAIN talks
          /\ history'[c] = talks[talkOf[c]].messages
      BY <2>1 DEF LoadHistory, GetTalkMessages, Listening, TypeOK, SendTypeOK
    <3> QED  BY <3>1 DEF Known, Stored
  <2>2. CASE SendHistory(c)
    <3> DEFINE resp == [type |-> "messages", messages |-> history[c]]
    <3>1. /\ loader[c] = "sending" /\ loader'[c] = "done"
          /\ chSendMessage'[c] = Append(chSendMessage[c], resp)
      BY <2>2 DEF SendHistory, Listening, TypeOK, SendTypeOK
    <3>2. ToSet(resp.messages) \subseteq Heard(c)'
      BY <3>1, SentHeard
    <3>3. Heard(c) \subseteq Heard(c)'
      BY <1>1, <3>1, SendHeard
    <3>4. Listening(c)
      BY <1>1, <3>1 DEF Listening
    <3> QED  BY <3>1, <3>2, <3>3, <3>4 DEF Missed, Known
  <2> QED  BY <2>1, <2>2 DEF LoaderStep
<1>6. NoneMissedMore
  <2>1. \A d \in Customers : d # c => Missed(d)' = Missed(d)
    BY <1>1, <1>2, <1>4 DEF Missed
  <2> QED  BY <1>5, <2>1 DEF NoneMissedMore
<1> QED  BY <1>1, <1>2, <1>3, <1>6, OrderlyKept DEF Orderly

\* What the customers' observer is still to be told.
CarriedBy(calls) == MessagesIn({call.notice : call \in {d \in ToSet(calls) : d.to = "customers"}})

LEMMA TellBothEvent ==
  ASSUME NEW t, NEW ms
  PROVE  \A call \in ToSet(TellBoth("message", t, ms)) : call.notice.event = "message"
<1> DEFINE notice == [event |-> "message", talk |-> t, messages |-> ms]
<1>1. TellBoth("message", t, ms) = << [to |-> "customers", notice |-> notice],
                                      [to |-> "servicers", notice |-> notice] >>
  BY DEF TellBoth
<1> QED  BY <1>1 DEF ToSet

LEMMA TellBothCalled ==
  ASSUME NEW event, NEW t, NEW m
  PROVE  m \in CarriedBy(TellBoth(event, t, <<m>>))
<1> DEFINE notice == [event |-> event, talk |-> t, messages |-> <<m>>]
           first == [to |-> "customers", notice |-> notice]
<1>1. TellBoth(event, t, <<m>>) = << first, [to |-> "servicers", notice |-> notice] >>
  BY DEF TellBoth
<1>2. first \in ToSet(TellBoth(event, t, <<m>>)) /\ first.to = "customers"
  BY <1>1 DEF ToSet
<1>3. first.notice.messages = <<m>>
  OBVIOUS
<1>4. m \in ToSet(<<m>>)
  BY DEF ToSet
<1> HIDE DEF first
<1> QED  BY <1>2, <1>3, <1>4 DEF CarriedBy, MessagesIn

LEMMA HandleOrderly ==
  ASSUME TypeOK, TypeOK', Pipeline, HasTalk, Orderly, OneTalk,
         HandleInstall \/ HandleUninstall \/ HandleMessage \/ HandleClose \/ RunPosted
  PROVE  Orderly' /\ NoneMissedMore
<1>1. CASE HandleInstall
  <2> DEFINE c == Head(chInstallCustomer)
  <2>1. /\ UNCHANGED <<talks, stream, talkOf, receiver, requests, chCustomerMessage,
                       customerRunner, dropped, history, chSendMessage, inbox>>
        /\ chInstallCustomer \in Seq(Customers) /\ chInstallCustomer # <<>>
        /\ chInstallCustomer' = Tail(chInstallCustomer)
        /\ customerTodo = <<>>
    BY <1>1 DEF HandleInstall, AtSelect, streamVars, receiverVars, requestVars, ghostVars,
         TypeOK, ChannelTypeOK
  <2>2. /\ c \in ToSet(chInstallCustomer) /\ c \in Customers
        /\ ToSet(chInstallCustomer') \subseteq ToSet(chInstallCustomer)
    BY <2>1, HeadTailToSet
  <2>3. /\ loader' = [loader EXCEPT ![c] = "reading"]
        /\ customers' = [customers EXCEPT ![talkOf[c]] = @ \cup {c}]
        /\ \A call \in ToSet(customerTodo') : ToSet(call.notice.messages) = {}
        \/ /\ UNCHANGED <<loader, customers, customerTodo>>
    <3>1. ToSet(<<>>) = {}
      BY DEF ToSet
    <3>2. CASE /\ loader' = [loader EXCEPT ![c] = "reading"]
               /\ customers' = [customers EXCEPT ![talkOf[c]] = @ \cup {c}]
               /\ customerTodo' =
                    IF creates[c]
                    THEN << [to |-> "servicers",
                             notice |-> [event |-> "create", talk |-> talkOf[c],
                                         messages |-> <<>>]] >>
                    ELSE <<>>
      <4>1. \A call \in ToSet(customerTodo') : call.notice.messages = <<>>
        BY <3>2 DEF ToSet
      <4> QED  BY <3>1, <3>2, <4>1
    <3> QED  BY <1>1, <3>2 DEF HandleInstall
  <2>4. NotYetServed'
    BY <2>1, <2>2, <2>3 DEF Orderly, NotYetServed, TypeOK, SendTypeOK
  <2>5. OnlyMessages({call.notice : call \in ToSet(customerTodo)})'
    BY <2>3 DEF Orderly, OnlyMessages
  <2>6. Underway \subseteq Underway'
    <3>1. ToSet(<<>>) = {}
      BY DEF ToSet
    <3>2. ToSet(customerTodo) = {}
      BY <2>1, <3>1
    <3> QED  BY <2>1, <3>2 DEF Underway, InFlight, DroppedMessages, MessagesIn, Current
  <2>7. \A d \in Customers : Listening(d)' => Listening(d) /\ Known(d) = Known(d)'
    <3> SUFFICES ASSUME NEW d \in Customers, Listening(d)'
                 PROVE  Listening(d) /\ Known(d) = Known(d)'
      OBVIOUS
    <3>1. loader'[d] = loader[d]
      BY <2>3 DEF Listening, TypeOK, SendTypeOK
    <3>2. Known(d) = Known(d)'
      BY <2>1, <3>1 DEF Known, Heard, Told, MessagesIn
    <3>3. d \in customers[talkOf[d]]
      <4>1. CASE UNCHANGED customers
        BY <2>1, <4>1 DEF Listening
      <4>2. CASE /\ loader' = [loader EXCEPT ![c] = "reading"]
                 /\ customers' = [customers EXCEPT ![talkOf[c]] = @ \cup {c}]
        <5>1. d # c
          BY <2>2, <4>2 DEF Listening, TypeOK, SendTypeOK
        <5>2. DOMAIN customers' = Talks /\ DOMAIN customers = Talks
          BY DEF TypeOK, MainTypeOK
        <5>3. talkOf[d] \in Talks
          BY <2>1 DEF HasTalk, Listening
        <5> QED  BY <2>1, <4>2, <5>1, <5>2, <5>3 DEF Listening, TypeOK, MainTypeOK
      <4> QED  BY <2>3, <4>1, <4>2
    <3> QED  BY <2>1, <3>1, <3>2, <3>3 DEF Listening
  <2>8. \A u : Stored(u)' = Stored(u)
    BY <2>1 DEF Stored
  <2> QED  BY <2>1, <2>4, <2>5, <2>6, <2>7, <2>8, MissedKept, OrderlyKept DEF Orderly
<1>2. CASE HandleUninstall
  <2> DEFINE c == Head(chUninstallCustomer)
  <2>1. /\ UNCHANGED <<talks, stream, talkOf, receiver, requests, chInstallCustomer,
                       chCustomerMessage, customerTodo, customerRunner, dropped, loader,
                       history, chSendMessage, inbox>>
        /\ customers' = [customers EXCEPT ![talkOf[c]] = @ \ {c}]
    BY <1>2 DEF HandleUninstall, streamVars, receiverVars, requestVars, loaderVars
  <2>2. \A d \in Customers : Listening(d)' => Listening(d)
    BY <2>1 DEF Listening, HasTalk, TypeOK, MainTypeOK
  <2>3. \A d \in Customers : Known(d)' = Known(d)
    BY <2>1 DEF Known, Heard, Told, MessagesIn
  <2>4. Underway' = Underway /\ \A u : Stored(u)' = Stored(u)
    BY <2>1, UnderwayKept DEF Stored
  <2> QED  BY <2>1, <2>2, <2>3, <2>4, MissedKept, OrderlyKept DEF Orderly
<1>3. CASE HandleMessage
  <2> DEFINE m == Head(chCustomerMessage)
             resp == [type |-> "messageConfirmed", messages |-> <<m>>]
  <2>1. /\ UNCHANGED <<talks, stream, talkOf, receiver, requests, chInstallCustomer,
                       customerRunner, dropped, loader, history, inbox>>
        /\ chCustomerMessage \in Seq(Customers \X Nat) /\ chCustomerMessage # <<>>
        /\ chCustomerMessage' = Tail(chCustomerMessage)
        /\ customerTodo = <<>>
        /\ customerTodo' = TellBoth("message", talkOf[m[1]], <<m>>)
        /\ SendResponse({m[1]}, talkOf[m[1]], resp)
    BY <1>3 DEF HandleMessage, AtSelect, streamVars, receiverVars, installVars, ghostVars,
         loaderVars, TypeOK, ChannelTypeOK
  <2>2. /\ m \in ToSet(chCustomerMessage) /\ m \in Customers \X Nat
        /\ ToSet(chCustomerMessage) = {m} \cup ToSet(chCustomerMessage')
    BY <2>1, HeadTailToSet, HeadOrTail
  <2>3. talkOf[m[1]] \in Talks
    BY <2>2, SenderHasTalk
  <2>4. \A d \in Customers : Listening(d)' => Listening(d) /\ Known(d) \subseteq Known(d)'
    <3>1. \A d \in Customers : \/ chSendMessage'[d] = chSendMessage[d]
                               \/ chSendMessage'[d] = Append(chSendMessage[d], resp)
      BY <2>1 DEF SendResponse
    <3>2. \A d \in Customers : Heard(d) \subseteq Heard(d)'
      BY <2>1, <3>1, SendHeard
    <3>3. \A d \in Customers : Listening(d)' => Listening(d)
      BY <2>1, <2>3 DEF Listening, SendResponse, HasTalk, TypeOK, MainTypeOK
    <3> QED  BY <2>1, <3>2, <3>3 DEF Known
  <2>5. OnlyMessages({call.notice : call \in ToSet(customerTodo)})'
    BY <2>1, TellBothEvent DEF OnlyMessages
  <2>6. Underway \subseteq Underway'
    <3>1. ToSet(<<>>) = {}
      BY DEF ToSet
    <3>2. ToSet(customerTodo) = {}
      BY <2>1, <3>1
    <3>3. m \in CarriedBy(customerTodo')
      BY <2>1, TellBothCalled
    <3> QED  BY <2>1, <2>2, <3>2, <3>3
             DEF Underway, InFlight, DroppedMessages, MessagesIn, Current, CarriedBy
  <2>7. \A u : Stored(u)' = Stored(u)
    BY <2>1 DEF Stored
  <2> QED  BY <2>1, <2>4, <2>5, <2>6, <2>7, MissedKept, OrderlyKept DEF Orderly
<1>4. CASE HandleClose
  <2> DEFINE c == Head(chCustomerClose)
  <2>1. /\ UNCHANGED <<stream, talkOf, receiver, requests, chInstallCustomer,
                       chCustomerMessage, customerRunner, dropped, customers, loader,
                       history, chSendMessage, inbox>>
        /\ customerTodo = <<>>
        /\ \/ /\ CloseTalk({ActOf[c]}, {BizOf[c]}, talkOf[c])
              /\ customerTodo' = TellBoth("close", talkOf[c], <<>>)
           \/ UNCHANGED <<talks, customerTodo>>
    BY <1>4 DEF HandleClose, AtSelect, streamVars, receiverVars, installVars, ghostVars,
         loaderVars
  <2>2. \A u : Stored(u)' = Stored(u)
    BY <2>1, NothingStored DEF Stored, TypeOK
  <2>3. \A d \in Customers : (Listening(d)' <=> Listening(d)) /\ Known(d)' = Known(d)
    BY <2>1 DEF Listening, Known, Heard, Told, MessagesIn
  <2>4. Underway \subseteq Underway'
    <3>1. ToSet(<<>>) = {}
      BY DEF ToSet
    <3>2. ToSet(customerTodo) = {}
      BY <2>1, <3>1
    <3> QED  BY <2>1, <3>2 DEF Underway, InFlight, DroppedMessages, MessagesIn, Current
  <2>5. OnlyMessages({call.notice : call \in ToSet(customerTodo)})'
    <3>1. ToSet(<<>>) = {}
      BY DEF ToSet
    <3>2. CASE customerTodo' = TellBoth("close", talkOf[c], <<>>)
      <4>1. \A call \in ToSet(customerTodo') : call.notice.messages = <<>>
        BY <3>2, TellBothCarries
      <4> QED  BY <3>1, <4>1 DEF OnlyMessages
    <3> QED  BY <2>1, <3>2, OrderlyKept
  <2> QED  BY <2>1, <2>2, <2>3, <2>4, <2>5, MissedKept, OrderlyKept DEF Orderly
<1>5. CASE RunPosted
  <2> DEFINE n == Head(customerRunner)
             resp == [type |-> n.event, messages |-> n.messages]
  <2>1. /\ UNCHANGED <<talks, stream, talkOf, receiver, requests, chInstallCustomer,
                       chCustomerMessage, customerTodo, dropped, loader, history, inbox>>
        /\ customerRunner \in Seq(CustomerNotice) /\ customerRunner # <<>>
        /\ customerRunner' = Tail(customerRunner)
        /\ SendResponse(customers[n.talk], n.talk, resp)
    BY <1>5 DEF RunPosted, streamVars, receiverVars, installVars, requestVars, ghostVars,
         loaderVars, TypeOK, ChannelTypeOK
  <2>2. /\ n \in ToSet(customerRunner) /\ n \in CustomerNotice
        /\ ToSet(customerRunner) = {n} \cup ToSet(customerRunner')
    BY <2>1, HeadTailToSet, HeadOrTail
  <2>3. /\ n.talk \in Talks
        /\ ToSet(n.messages) \subseteq Stored(n.talk)
        /\ n.event = "message" \/ ToSet(n.messages) = {}
    BY <2>2 DEF CustomerNotice, Pipeline, PostedIsStored, NoticesStored, Orderly, OnlyMessages
  <2>4. \A d \in Customers : Listening(d)' => Listening(d) /\ Known(d) \subseteq Known(d)'
    <3>1. \A d \in Customers : \/ chSendMessage'[d] = chSendMessage[d]
                               \/ chSendMessage'[d] = Append(chSendMessage[d], resp)
      BY <2>1 DEF SendResponse
    <3>2. \A d \in Customers : Heard(d) \subseteq Heard(d)'
      BY <2>1, <3>1, SendHeard
    <3>3. \A d \in Customers : Listening(d)' => Listening(d)
      BY <2>1, <2>3 DEF Listening, SendResponse, HasTalk, TypeOK, MainTypeOK
    <3> QED  BY <2>1, <3>2, <3>3 DEF Known
  <2>5. Underway \subseteq Underway' \cup ToSet(n.messages)
    BY <2>1, <2>2 DEF Underway, InFlight, DroppedMessages, MessagesIn, Current
  <2>6. ASSUME NEW d \in Customers, Listening(d)', talkOf[d] = n.talk
        PROVE  ToSet(n.messages) \subseteq Known(d)'
    <3>1. d \in customers[n.talk] /\ d \in customers'[n.talk]
      BY <2>1, <2>4, <2>6 DEF Listening
    <3>2. chSendMessage'[d] = Append(chSendMessage[d], resp)
      BY <2>1, <2>3, <3>1 DEF SendResponse, TypeOK, MainTypeOK
    <3>3. n.event = "message" => ToSet(resp.messages) \subseteq Heard(d)'
      BY <3>2, SentHeard
    <3> QED  BY <2>3, <3>3 DEF Known
  <2>9. \A u : Stored(u)' = Stored(u)
    BY <2>1 DEF Stored
  <2>7. NoneMissedMore
    <3> SUFFICES ASSUME NEW d \in Customers, Listening(d)',
                        NEW x \in Stored(talkOf[d]), x \notin Known(d)' \cup Underway'
                 PROVE  x \notin Known(d) \cup Underway
      BY <2>1, <2>4, <2>9 DEF NoneMissedMore, Missed
    <3>1. CASE x \in ToSet(n.messages)
      <4>1. talkOf[d] = n.talk
        BY <2>3, <3>1 DEF OneTalk, Stored
      <4> QED  BY <2>6, <3>1, <4>1
    <3> QED  BY <2>4, <2>5, <3>1
  <2>8. OnlyMessages(ToSet(customerRunner))'
    BY <2>2 DEF Orderly, OnlyMessages
  <2> QED  BY <2>1, <2>7, <2>8, <2>9, OrderlyKept DEF Orderly
<1> QED  BY <1>1, <1>2, <1>3, <1>4, <1>5

LEMMA RestOrderly ==
  ASSUME TypeOK, TypeOK', Pipeline, HasTalk, Orderly, OneTalk,
         \/ NotifyCustomers \/ NotifyServicers
         \/ \E c \in Customers : KickOut(c)
  PROVE  Orderly' /\ NoneMissedMore
<1>1. ASSUME NEW c \in Customers, KickOut(c)  PROVE  Orderly' /\ NoneMissedMore
  <2> DEFINE resp == [type |-> "kickOut", messages |-> <<>>]
  <2>1. /\ UNCHANGED <<talks, stream, talkOf, receiver, requests, chInstallCustomer,
                       chCustomerMessage, customerTodo, customerRunner, dropped, customers,
                       loader, history, inbox>>
        /\ \A d \in Customers : \/ chSendMessage'[d] = chSendMessage[d]
                                \/ chSendMessage'[d] = Append(chSendMessage[d], resp)
    BY <1>1 DEF KickOut, streamVars, receiverVars, installVars, requestVars, loaderVars,
         TypeOK, SendTypeOK
  <2>2. \A d \in Customers : Heard(d) \subseteq Heard(d)'
    BY <2>1, SendHeard
  <2>3. \A d \in Customers : Listening(d)' => Listening(d) /\ Known(d) \subseteq Known(d)'
    BY <2>1, <2>2 DEF Listening, Known
  <2>4. Underway' = Underway /\ \A u : Stored(u)' = Stored(u)
    BY <2>1, UnderwayKept DEF Stored
  <2> QED  BY <2>1, <2>3, <2>4, MissedKept, OrderlyKept DEF Orderly
<1>2. CASE NotifyCustomers \/ NotifyServicers
  <2> DEFINE call == Head(customerTodo)
             n == call.notice
  <2>1. /\ UNCHANGED <<talks, stream, talkOf, receiver, requests, chInstallCustomer,
                       chCustomerMessage, customers, loader, history, inbox, chSendMessage>>
        /\ customerTodo \in Seq(Call) /\ customerTodo # <<>>
        /\ customerTodo' = Tail(customerTodo)
        /\ customerRunner \in Seq(CustomerNotice)
        /\ \/ call.to = "customers" /\ Post(n)
           \/ call.to = "servicers" /\ UNCHANGED <<customerRunner, dropped>>
    BY <1>2 DEF NotifyCustomers, NotifyServicers, NextCall, streamVars, receiverVars,
         installVars, requestVars, loaderVars, ghostVars, TypeOK, MainTypeOK, ChannelTypeOK
  <2>2. /\ call \in ToSet(customerTodo)
        /\ ToSet(customerTodo) = {call} \cup ToSet(customerTodo')
    BY <2>1, HeadTailToSet, HeadOrTail
  <2>3. \/ ToSet(customerRunner') = ToSet(customerRunner) \cup {n} /\ UNCHANGED dropped
        \/ UNCHANGED customerRunner /\ dropped' = dropped \cup {n}
        \/ call.to = "servicers" /\ UNCHANGED <<customerRunner, dropped>>
    <3>1. ToSet(Append(customerRunner, n)) = ToSet(customerRunner) \cup {n}
      BY <2>1, AppendToSet
    <3> QED  BY <2>1, <3>1 DEF Post
  <2>4. Underway \subseteq Underway'
    BY <2>1, <2>2, <2>3 DEF Underway, InFlight, DroppedMessages, MessagesIn, Current
  <2>5. /\ OnlyMessages({d.notice : d \in ToSet(customerTodo)})'
        /\ OnlyMessages(ToSet(customerRunner))'
    BY <2>2, <2>3 DEF Orderly, OnlyMessages
  <2>6. \A d \in Customers : (Listening(d)' <=> Listening(d)) /\ Known(d)' = Known(d)
    BY <2>1 DEF Listening, Known, Heard, Told, MessagesIn
  <2>7. \A u : Stored(u)' = Stored(u)
    BY <2>1 DEF Stored
  <2> QED  BY <2>1, <2>4, <2>5, <2>6, <2>7, MissedKept, OrderlyKept DEF Orderly
<1> QED  BY <1>1, <1>2


LEMMA StepOrderly ==
  ASSUME TypeOK, TypeOK', Pipeline, HasTalk, Orderly, OneTalk, [Next]_vars
  PROVE  Orderly' /\ NoneMissedMore
<1>1. CASE \E c \in Customers : StreamStep(c) \/ ReceiverStep(c) \/ LoaderStep(c)
  BY <1>1, StreamStepOrderly, ReceiverStepOrderly, LoaderStepOrderly
<1>2. CASE MainStep
  BY <1>2, HandleOrderly, RestOrderly DEF MainStep
<1>3. CASE UNCHANGED vars
  <2>1. UNCHANGED <<talks, stream, talkOf, receiver, requests, chInstallCustomer,
                    chCustomerMessage, customerTodo, customerRunner, dropped, customers,
                    loader, history, inbox, chSendMessage>>
    BY <1>3 DEF vars, customerVars, streamVars, receiverVars, installVars, requestVars,
       mdVars, loaderVars, ghostVars
  <2>2. \A d \in Customers : (Listening(d)' <=> Listening(d)) /\ Known(d)' = Known(d)
    BY <2>1 DEF Listening, Known, Heard, Told, MessagesIn
  <2>3. Underway' = Underway /\ \A u : Stored(u)' = Stored(u)
    BY <2>1, UnderwayKept DEF Stored
  <2> QED  BY <2>1, <2>2, <2>3, MissedKept, OrderlyKept DEF Orderly
<1> QED  BY <1>1, <1>2, <1>3 DEF Next

\* Only a receiver stores a message.
LEMMA WhoStores ==
  ASSUME TypeOK, [Next]_vars
  PROVE  (\E c \in Customers : ReceiveMessage(c)) \/ (\A u : Stored(u)' = Stored(u))
<1>1. UNCHANGED talks => \A u : Stored(u)' = Stored(u)
  BY DEF Stored
<1>2. CASE \E c \in Customers : StreamStep(c)
  <2>1. PICK c \in Customers : StreamStep(c)
    BY <1>2
  <2>2. CASE \E t \in Talks : TalkStartCreate(c, t) \/ TalkStartOpen(c, t)
    BY <2>2, NothingStored DEF TalkStartCreate, TalkStartOpen, TypeOK
  <2>3. CASE TalkStartRefused(c) \/ InstallCustomer(c) \/ StreamSend(c)
               \/ StreamBroken(c) \/ StreamTerminal(c) \/ UninstallCustomer(c)
    BY <1>1, <2>3 DEF TalkStartRefused, InstallCustomer, StreamSend, StreamBroken,
                      StreamTerminal, UninstallCustomer
  <2> QED  BY <2>1, <2>2, <2>3 DEF StreamStep
<1>3. CASE \E c \in Customers : ReceiverStep(c) \/ LoaderStep(c)
  BY <1>1, <1>3 DEF ReceiverStep, LoaderStep, ReceiveMessageFails,
     CustomerMessageIncoming, ReceiveClose, ReceiveFails, LoadHistory, SendHistory
<1>4. CASE MainStep
  <2>1. CASE HandleClose
    BY <1>1, <2>1, NothingStored DEF HandleClose, TypeOK
  <2>2. CASE ~HandleClose
    BY <1>1, <1>4, <2>2 DEF MainStep, HandleInstall, HandleUninstall, HandleMessage,
         RunPosted, NotifyCustomers, NotifyServicers, KickOut
  <2> QED  BY <2>1, <2>2
<1>5. CASE UNCHANGED vars
  BY <1>1, <1>5 DEF vars
<1> QED  BY <1>2, <1>3, <1>4, <1>5 DEF Next

\* Only a stream that starts gets a talk.
LEMMA WhoStarts ==
  ASSUME [Next]_vars
  PROVE  \/ \E c \in Customers, t \in Talks : TalkStartCreate(c, t) \/ TalkStartOpen(c, t)
         \/ UNCHANGED <<talkOf, creates>>
<1>1. CASE \E c \in Customers : StreamStep(c)
  BY <1>1 DEF StreamStep, TalkStartRefused, InstallCustomer, StreamSend, StreamBroken,
              StreamTerminal, UninstallCustomer
<1>2. CASE \E c \in Customers : ReceiverStep(c) \/ LoaderStep(c)
  BY <1>2 DEF ReceiverStep, LoaderStep, ReceiveMessage, ReceiveMessageFails,
     CustomerMessageIncoming, ReceiveClose, ReceiveFails, LoadHistory, SendHistory, streamVars
<1>3. CASE MainStep
  BY <1>3 DEF MainStep, HandleInstall, HandleUninstall, HandleMessage, HandleClose,
     RunPosted, NotifyCustomers, NotifyServicers, KickOut, streamVars
<1>4. CASE UNCHANGED vars
  BY <1>4 DEF vars, customerVars, streamVars
<1> QED  BY <1>1, <1>2, <1>3, <1>4 DEF Next

\* A message stays in the talk of its sender.
LEMMA StepOwnTalk ==
  ASSUME TypeOK, Pipeline, OwnTalk, [Next]_vars
  PROVE  OwnTalk'
<1>1. ASSUME NEW c \in Customers, ReceiveMessage(c)  PROVE  OwnTalk'
  <2>1. /\ AddTalkMessage(talkOf[c], <<c, requests[c] + 1>>)
        /\ UNCHANGED talkOf
    BY <1>1 DEF ReceiveMessage, streamVars
  <2>2. \A u : Stored(u)' \subseteq
          Stored(u) \cup (IF u = talkOf[c] THEN {<<c, requests[c] + 1>>} ELSE {})
    BY <2>1, AddsOne DEF TypeOK
  <2> QED  BY <2>1, <2>2 DEF OwnTalk
<1>2. ASSUME NEW c \in Customers, NEW t \in Talks, \A u : Stored(u)' = Stored(u),
             TalkStartCreate(c, t) \/ TalkStartOpen(c, t)
      PROVE  OwnTalk'
  <2>1. stream[c] = "idle" /\ talkOf' = [talkOf EXCEPT ![c] = t]
    BY <1>2 DEF TalkStartCreate, TalkStartOpen, Start
  <2>2. talkOf[c] = NoTalk /\ NoTalk \notin Talks
    BY <2>1, CustomerAssumption DEF Pipeline, IdleHasNoTalk
  <2> QED  BY <1>2, <2>1, <2>2 DEF OwnTalk, TypeOK, StreamTypeOK
<1>3. ASSUME \A u : Stored(u)' = Stored(u), UNCHANGED talkOf  PROVE  OwnTalk'
  BY <1>3 DEF OwnTalk
<1> QED  BY <1>1, <1>2, <1>3, WhoStores, WhoStarts

LEMMA StepComplete ==
  ASSUME TypeOK, TypeOK', Pipeline, HasTalk, Complete, [Next]_vars
  PROVE  Complete'
<1>1. OneTalk
  <2> SUFFICES ASSUME NEW t \in DOMAIN talks, NEW u \in DOMAIN talks,
                      NEW m \in Stored(t), m \in Stored(u)
               PROVE  t = u
    BY DEF OneTalk
  <2> QED  BY StoredHasTalk DEF Complete, OwnTalk, TypeOK
<1>2. Orderly' /\ NoneMissedMore /\ OwnTalk'
  BY <1>1, StepOrderly, StepOwnTalk DEF Complete
<1> QED  BY <1>2 DEF Complete, GapFree, NoneMissedMore

\* At first no talk holds a message.
LEMMA CompleteInit == Init => Complete
<1>1. ToSet(<<>>) = {}
  BY DEF ToSet
<1>2. Init => \A t : Stored(t) = {}
  BY DEF Init, StoreInit, Stored
<1> QED  BY <1>1, <1>2 DEF Init, CustomerInit, Complete, GapFree, Missed, Listening,
           OwnTalk, Orderly, NotYetServed, OnlyMessages

\* Complete, the inductive invariant of the history and the relay together.
LEMMA CompleteInvariant == Spec => []Complete
<1>1. TypeOK /\ TypeOK' /\ Pipeline /\ Registry /\ Complete /\ [Next]_vars => Complete'
  BY StepComplete DEF Registry
<1> QED  BY CompleteInit, <1>1, Typed, PipelineInvariant, RegistryInvariant, PTL DEF Spec

\* However the reading of the history in its own goroutine and the relay of
\* live messages interleave, a client who attends a talk misses none of its
\* messages: each was in the history or relayed, or is under way, or was dropped
\* with a full channel.
THEOREM NoGapInvariant == Spec => []NoGap
<1>1. Complete => NoGap
  BY DEF Complete, GapFree, Missed, Listening, Attending, Known, Underway, NoGap
<1> QED  BY <1>1, CompleteInvariant, PTL

-----------------------------------------------------------------------------
(* SenderOrder and SameOrder. *)

\* The client of c is shown no live message more; it may lose one.
ShownSame(c) == \A i, j \in LiveAt(c)' :
  /\ \E p \in LiveAt(c) : Shown(c, i)' = Shown(c, p)
  /\ i < j => \E p, q \in LiveAt(c) :
       p < q /\ Shown(c, i)' = Shown(c, p) /\ Shown(c, j)' = Shown(c, q)

\* At most the message x is shown in addition, after all others.
ShownLast(c, x) == \A i, j \in LiveAt(c)' :
  /\ Shown(c, i)' = x \/ \E p \in LiveAt(c) : Shown(c, i)' = Shown(c, p)
  /\ i < j =>
       \/ Shown(c, j)' = x /\ \E p \in LiveAt(c) : Shown(c, i)' = Shown(c, p)
       \/ \E p, q \in LiveAt(c) :
            p < q /\ Shown(c, i)' = Shown(c, p) /\ Shown(c, j)' = Shown(c, q)

LEMMA ScreensKept ==
  ASSUME SenderOrder, OneOrder, \A c \in Customers : ShownSame(c)
  PROVE  /\ SenderOrder' /\ OneOrder'
         /\ \A c \in Customers : Screen(c)' \subseteq Screen(c)
<1>1. SenderOrder'
  <2> SUFFICES ASSUME NEW c \in Customers, NEW i \in LiveAt(c)', NEW j \in LiveAt(c)',
                      i < j, Shown(c, i)'[1] = Shown(c, j)'[1]
               PROVE  Shown(c, i)'[2] < Shown(c, j)'[2]
    BY DEF SenderOrder
  <2>1. PICK p \in LiveAt(c), q \in LiveAt(c) :
          p < q /\ Shown(c, i)' = Shown(c, p) /\ Shown(c, j)' = Shown(c, q)
    BY DEF ShownSame
  <2> QED  BY <2>1 DEF SenderOrder
<1>2. OneOrder'
  <2> SUFFICES ASSUME NEW c \in Customers, NEW d \in Customers,
                      NEW i \in LiveAt(c)', NEW j \in LiveAt(c)', i < j,
                      NEW k \in LiveAt(d)', NEW l \in LiveAt(d)', k < l,
                      Shown(c, i)' = Shown(d, l)', Shown(c, j)' = Shown(d, k)'
               PROVE  FALSE
    BY DEF OneOrder
  <2>1. PICK p \in LiveAt(c), q \in LiveAt(c) :
          p < q /\ Shown(c, i)' = Shown(c, p) /\ Shown(c, j)' = Shown(c, q)
    BY DEF ShownSame
  <2>2. PICK r \in LiveAt(d), s \in LiveAt(d) :
          r < s /\ Shown(d, k)' = Shown(d, r) /\ Shown(d, l)' = Shown(d, s)
    BY DEF ShownSame
  <2> QED  BY <2>1, <2>2 DEF OneOrder
<1>3. \A c \in Customers : Screen(c)' \subseteq Screen(c)
  BY DEF ShownSame, Screen
<1> QED  BY <1>1, <1>2, <1>3

LEMMA ScreensExtended ==
  ASSUME SenderOrder, OneOrder, NEW x, x[2] \in Nat,
         \A c \in Customers : ShownLast(c, x),
         \A c \in Customers : AllBefore(Screen(c), {x})
  PROVE  /\ SenderOrder' /\ OneOrder'
         /\ \A c \in Customers : Screen(c)' \subseteq Screen(c) \cup {x}
<1>1. \A c \in Customers : \A p \in LiveAt(c) :
        Before(Shown(c, p), x) /\ Shown(c, p) # x
  <2>1. ~Before(x, x)
    BY DEF Before
  <2> QED  BY <2>1 DEF AllBefore, Screen
<1>2. SenderOrder'
  <2> SUFFICES ASSUME NEW c \in Customers, NEW i \in LiveAt(c)', NEW j \in LiveAt(c)',
                      i < j, Shown(c, i)'[1] = Shown(c, j)'[1]
               PROVE  Shown(c, i)'[2] < Shown(c, j)'[2]
    BY DEF SenderOrder
  <2>1. CASE Shown(c, j)' = x /\ \E p \in LiveAt(c) : Shown(c, i)' = Shown(c, p)
    BY <1>1, <2>1 DEF Before
  <2>2. CASE \E p, q \in LiveAt(c) :
               p < q /\ Shown(c, i)' = Shown(c, p) /\ Shown(c, j)' = Shown(c, q)
    BY <2>2 DEF SenderOrder
  <2> QED  BY <2>1, <2>2 DEF ShownLast
<1>3. OneOrder'
  <2> SUFFICES ASSUME NEW c \in Customers, NEW d \in Customers,
                      NEW i \in LiveAt(c)', NEW j \in LiveAt(c)', i < j,
                      NEW k \in LiveAt(d)', NEW l \in LiveAt(d)', k < l,
                      Shown(c, i)' = Shown(d, l)', Shown(c, j)' = Shown(d, k)'
               PROVE  FALSE
    BY DEF OneOrder
  <2>1. \/ Shown(c, j)' = x /\ \E p \in LiveAt(c) : Shown(c, i)' = Shown(c, p)
        \/ \E p, q \in LiveAt(c) :
             p < q /\ Shown(c, i)' = Shown(c, p) /\ Shown(c, j)' = Shown(c, q)
    BY DEF ShownLast
  <2>2. \/ Shown(d, l)' = x /\ \E p \in LiveAt(d) : Shown(d, k)' = Shown(d, p)
        \/ \E p, q \in LiveAt(d) :
             p < q /\ Shown(d, k)' = Shown(d, p) /\ Shown(d, l)' = Shown(d, q)
    BY DEF ShownLast
  <2> HIDE DEF Shown
  <2>3. (\E p \in LiveAt(d) : Shown(d, k)' = Shown(d, p)) /\ Shown(d, k)' # x
    BY <1>1, <2>2
  <2>4. (\E p \in LiveAt(c) : Shown(c, i)' = Shown(c, p)) /\ Shown(c, i)' # x
    BY <1>1, <2>1
  <2>5. PICK p \in LiveAt(c), q \in LiveAt(c) :
          p < q /\ Shown(c, i)' = Shown(c, p) /\ Shown(c, j)' = Shown(c, q)
    BY <2>1, <2>3
  <2>6. PICK r \in LiveAt(d), s \in LiveAt(d) :
          r < s /\ Shown(d, k)' = Shown(d, r) /\ Shown(d, l)' = Shown(d, s)
    BY <2>2, <2>4
  <2> QED  BY <2>5, <2>6 DEF OneOrder
<1>4. \A c \in Customers : Screen(c)' \subseteq Screen(c) \cup {x}
  BY DEF ShownLast, Screen
<1> QED  BY <1>2, <1>3, <1>4


\* What a stream is told does not change when a response goes out, ...
LEMMA ToldSame ==
  ASSUME NEW c \in Customers, Told(c)' = Told(c)
  PROVE  ShownSame(c)
BY DEF ShownSame, LiveAt, Shown

\* ... loses one when a response gets lost with the client, ...
LEMMA ToldLess ==
  ASSUME TypeOK, NEW c \in Customers, chSendMessage[c] # <<>>,
         chSendMessage'[c] = Tail(chSendMessage[c]), inbox'[c] = inbox[c]
  PROVE  ShownSame(c)
<1>1. inbox[c] \in Seq(Response) /\ chSendMessage[c] \in Seq(Response)
  BY DEF TypeOK, SendTypeOK
<1>2. Within(inbox[c] \o Tail(chSendMessage[c]), inbox[c] \o chSendMessage[c])
  BY <1>1, ConcatTail
<1>3. Within(Told(c)', Told(c))
  BY <1>2 DEF Told
<1>4. \A i, j \in DOMAIN Told(c)' : \E p, q \in DOMAIN Told(c) :
        Told(c)'[i] = Told(c)[p] /\ Told(c)'[j] = Told(c)[q] /\ (i < j => p < q)
  BY <1>3 DEF Within
<1> HIDE DEF Told
<1> QED  BY <1>4 DEF ShownSame, LiveAt, Shown

\* ... and grows at the end when one is sent.
LEMMA ToldMore ==
  ASSUME TypeOK, NEW c \in Customers, NEW resp \in Response,
         chSendMessage'[c] = Append(chSendMessage[c], resp), inbox'[c] = inbox[c]
  PROVE  /\ resp.type # "message" => ShownSame(c)
         /\ resp.type = "message" => ShownLast(c, resp.messages[1])
<1>1. inbox[c] \in Seq(Response) /\ chSendMessage[c] \in Seq(Response)
  BY DEF TypeOK, SendTypeOK
<1>2. Extended(inbox[c] \o Append(chSendMessage[c], resp), inbox[c] \o chSendMessage[c], resp)
  BY <1>1, ConcatAppend
<1>9. Extended(Told(c)', Told(c), resp)
  BY <1>2 DEF Told
<1>3. PICK n \in Nat : /\ DOMAIN Told(c) = 1..n
                       /\ DOMAIN Told(c)' = 1..(n + 1)
                       /\ \A i \in 1..n : Told(c)'[i] = Told(c)[i]
                       /\ Told(c)'[n + 1] = resp
  BY <1>9 DEF Extended
<1>4. \A i \in 1..(n + 1) : i \in 1..n \/ i = n + 1
  OBVIOUS
<1>5. \A i \in LiveAt(c)' : \/ i \in LiveAt(c) /\ Shown(c, i)' = Shown(c, i)
                            \/ /\ resp.type = "message" /\ i = n + 1
                               /\ Shown(c, i)' = resp.messages[1]
  BY <1>3, <1>4 DEF LiveAt, Shown
<1>6. LiveAt(c) \subseteq 1..n
  BY <1>3 DEF LiveAt
<1>7. ASSUME resp.type # "message"  PROVE  ShownSame(c)
  <2> HIDE DEF Shown
  <2> QED  BY <1>5, <1>7 DEF ShownSame
<1>8. ASSUME resp.type = "message"  PROVE  ShownLast(c, resp.messages[1])
  <2>1. \A i, j \in LiveAt(c)' : i < j => i \in LiveAt(c) /\ Shown(c, i)' = Shown(c, i)
    BY <1>3, <1>4, <1>5, <1>6 DEF LiveAt
  <2> QED  BY <1>5, <2>1 DEF ShownLast
<1> QED  BY <1>7, <1>8

\* The first message leaves the channel: the others come after it.
LEMMA QueueTail ==
  ASSUME TypeOK, QueueOrdered, chCustomerMessage # <<>>,
         chCustomerMessage' = Tail(chCustomerMessage)
  PROVE  /\ QueueOrdered' /\ Queued' \subseteq Queued
         /\ Head(chCustomerMessage) \in Queued
         /\ \A x \in Queued' : Before(Head(chCustomerMessage), x)
<1> DEFINE q == chCustomerMessage
<1>1. q \in Seq(Customers \X Nat)
  BY DEF TypeOK, ChannelTypeOK
<1>2. /\ Len(q) \in Nat \ {0} /\ DOMAIN q = 1..Len(q) /\ Head(q) = q[1]
      /\ DOMAIN q' = 1..(Len(q) - 1)
      /\ \A i \in 1..(Len(q) - 1) : i + 1 \in 1..Len(q) /\ q'[i] = q[i + 1]
  BY <1>1, TailPlaces
<1>3. \A x \in Queued' : Before(Head(q), x)
  <2>1. \A i \in 1..(Len(q) - 1) : Before(q[1], q[i + 1])
    BY <1>2 DEF QueueOrdered
  <2> QED  BY <1>2, <2>1 DEF Queued, ToSet
<1>4. QueueOrdered'
  <2>1. \A i, j \in 1..(Len(q) - 1) : i < j => i + 1 < j + 1
    BY <1>2
  <2> QED  BY <1>2, <2>1 DEF QueueOrdered
<1>5. Queued' \subseteq Queued /\ Head(q) \in Queued
  BY <1>1, HeadTailToSet DEF Queued
<1> QED  BY <1>3, <1>4, <1>5

\* A receiver: it is through with every message in the channel, and so it is with the
\* one it adds.
LEMMA ReceiverStepInTurn ==
  ASSUME TypeOK, InTurn, NEW c \in Customers, ReceiverStep(c)
  PROVE  /\ InTurn' /\ \A m : Past(m) => Past(m)'
         /\ \A m, n : Past(m) /\ n \in Queued' => n \in Queued \/ Before(m, n)
<1>1. /\ \/ /\ requests' = [requests EXCEPT ![c] = @ + 1]
            /\ UNCHANGED chCustomerMessage
         \/ /\ UNCHANGED <<requests, chCustomerMessage>>
            /\ receiver'[c] # "persisted"
         \/ CustomerMessageIncoming(c)
      /\ \A d \in Customers : d # c => receiver'[d] = receiver[d]
  BY DEF ReceiverStep, ReceiveMessage, ReceiveMessageFails, CustomerMessageIncoming,
         ReceiveClose, ReceiveFails, CountRequest, requestVars, TypeOK, StreamTypeOK
<1>2. \A m : Past(m) => Past(m)'
  <2> SUFFICES ASSUME NEW m, Past(m)  PROVE  Past(m)'
    OBVIOUS
  <2>1. /\ m \in Customers \X Nat /\ requests \in [Customers -> Nat]
        /\ m[1] \in Customers /\ m[2] \in Nat /\ requests[m[1]] \in Nat
    BY DEF Past, TypeOK, StreamTypeOK
  <2>2. CASE requests' = [requests EXCEPT ![c] = @ + 1]
    <3>1. requests'[m[1]] = IF m[1] = c THEN requests[m[1]] + 1 ELSE requests[m[1]]
      BY <2>1, <2>2
    <3>2. m[1] = c => m[2] < requests'[m[1]]
      BY <2>1, <3>1 DEF Past
    <3>3. m[1] # c => requests'[m[1]] = requests[m[1]] /\ receiver'[m[1]] = receiver[m[1]]
      BY <1>1, <2>1, <3>1
    <3>4. requests'[m[1]] \in Nat
      BY <2>1, <3>1
    <3>5. m[2] < requests'[m[1]] => m[2] <= requests'[m[1]]
      BY <2>1, <3>4
    <3> QED  BY <2>1, <3>2, <3>3, <3>5 DEF Past
  <2>3. CASE UNCHANGED requests /\ receiver'[c] # "persisted"
    BY <1>1, <2>1, <2>3 DEF Past
  <2>4. CASE CustomerMessageIncoming(c)
    BY <1>1, <2>1, <2>3, <2>4 DEF CustomerMessageIncoming, TypeOK, StreamTypeOK
  <2> QED  BY <1>1, <2>2, <2>3, <2>4
<1>3. CASE UNCHANGED chCustomerMessage
  BY <1>2, <1>3 DEF InTurn, QueueOrdered, Queued
<1>4. CASE ~UNCHANGED chCustomerMessage
  <2>1. /\ receiver[c] = "persisted" /\ receiver'[c] = "receiving"
        /\ chCustomerMessage' = Append(chCustomerMessage, Current(c))
        /\ chCustomerMessage \in Seq(Customers \X Nat)
        /\ UNCHANGED requests
    BY <1>1, <1>4 DEF CustomerMessageIncoming, TypeOK, StreamTypeOK, ChannelTypeOK
  <2>2. Queued' = Queued \cup {Current(c)}
    BY <2>1, AppendToSet DEF Queued
  <2>3. \A m : Past(m) => Before(m, Current(c))
    BY <2>1 DEF Past, Before, Current
  <2>4. \A m : m = Current(c) => Past(m)'
    BY <2>1 DEF Past, Current, TypeOK, StreamTypeOK
  <2>5. QueueOrdered'
    <3>1. /\ Len(chCustomerMessage) \in Nat /\ DOMAIN chCustomerMessage = 1..Len(chCustomerMessage)
          /\ DOMAIN chCustomerMessage' = 1..(Len(chCustomerMessage) + 1)
          /\ \A i \in 1..Len(chCustomerMessage) : chCustomerMessage'[i] = chCustomerMessage[i]
          /\ chCustomerMessage'[Len(chCustomerMessage) + 1] = Current(c)
      BY <2>1, AppendPlaces
    <3>2. \A i \in 1..Len(chCustomerMessage) : Before(chCustomerMessage[i], Current(c))
      BY <2>3, <3>1 DEF InTurn, Queued, ToSet
    <3>3. \A i \in 1..(Len(chCustomerMessage) + 1) :
            i \in 1..Len(chCustomerMessage) \/ i = Len(chCustomerMessage) + 1
      BY <3>1
    <3>4. \A i, j \in 1..(Len(chCustomerMessage) + 1) : i < j => i \in 1..Len(chCustomerMessage)
      BY <3>1
    <3> QED  BY <3>1, <3>2, <3>3, <3>4 DEF InTurn, QueueOrdered
  <2>6. \A m \in Queued' : Past(m)'
    BY <1>2, <2>2, <2>4 DEF InTurn
  <2> QED  BY <1>2, <2>2, <2>3, <2>5, <2>6 DEF InTurn
<1> QED  BY <1>3, <1>4

\* No other step puts a message into the channel.
LEMMA StepInTurn ==
  ASSUME TypeOK, InTurn, [Next]_vars
  PROVE  /\ InTurn' /\ \A m : Past(m) => Past(m)'
         /\ \A m, n : Past(m) /\ n \in Queued' => n \in Queued \/ Before(m, n)
<1>1. CASE \E c \in Customers : ReceiverStep(c)
  BY <1>1, ReceiverStepInTurn
<1>2. ASSUME UNCHANGED requests,
             \A d \in Customers : receiver'[d] = "persisted" => receiver[d] = "persisted",
             \/ UNCHANGED chCustomerMessage
             \/ chCustomerMessage # <<>> /\ chCustomerMessage' = Tail(chCustomerMessage)
      PROVE  /\ InTurn' /\ \A m : Past(m) => Past(m)'
             /\ \A m, n : Past(m) /\ n \in Queued' => n \in Queued \/ Before(m, n)
  <2>1. \A m : Past(m) => Past(m)'
    BY <1>2 DEF Past
  <2>2. QueueOrdered' /\ Queued' \subseteq Queued
    BY <1>2, QueueTail DEF InTurn, QueueOrdered, Queued
  <2> QED  BY <2>1, <2>2 DEF InTurn
<1>3. CASE \E c \in Customers : StreamStep(c) \/ LoaderStep(c)
  <2>1. /\ UNCHANGED <<requests, chCustomerMessage>>
        /\ \A d \in Customers : receiver'[d] = "persisted" => receiver[d] = "persisted"
    BY <1>3 DEF StreamStep, TalkStartCreate, TalkStartOpen, Start, TalkStartRefused,
       InstallCustomer, StreamSend, StreamBroken, StreamTerminal, UninstallCustomer,
       LoaderStep, LoadHistory, SendHistory, receiverVars, requestVars, TypeOK, StreamTypeOK
  <2> QED  BY <1>2, <2>1
<1>4. CASE MainStep
  <2>1. /\ UNCHANGED receiverVars
        /\ \/ UNCHANGED chCustomerMessage
           \/ chCustomerMessage # <<>> /\ chCustomerMessage' = Tail(chCustomerMessage)
    BY <1>4 DEF MainStep, HandleInstall, HandleUninstall, HandleMessage, HandleClose,
       RunPosted, NotifyCustomers, NotifyServicers, KickOut, requestVars
  <2> QED  BY <1>2, <2>1 DEF receiverVars
<1>5. CASE UNCHANGED vars
  BY <1>2, <1>5 DEF vars, customerVars, receiverVars, requestVars
<1> QED  BY <1>1, <1>3, <1>4, <1>5 DEF Next

LEMMA LineKept ==
  ASSUME Line, \A m : Past(m) => Past(m)', UNCHANGED <<chCustomerMessage, customerRunner>>,
         Called' \subseteq Called, CustomersFirst', \A c \in Customers : ShownSame(c)
  PROVE  Line'
<1>1. /\ SenderOrder' /\ OneOrder'
      /\ \A c \in Customers : Screen(c)' \subseteq Screen(c)
  BY ScreensKept DEF Line
<1>2. Posted' = Posted /\ Queued' = Queued
  BY DEF Posted, Queued, Relayed
<1>3. QueueOrdered' /\ PostedOrdered'
  BY DEF Line, QueueOrdered, PostedOrdered
<1>4. HopsOrdered'
  BY <1>1, <1>2 DEF Line, HopsOrdered, AllBefore
<1>5. AllPast'
  BY <1>1, <1>2 DEF Line, AllPast
<1> QED  BY <1>1, <1>3, <1>4, <1>5 DEF Line

LEMMA StreamStepLine ==
  ASSUME TypeOK, Line, NEW c \in Customers, StreamStep(c)
  PROVE  Line'
<1>1. /\ UNCHANGED <<requests, chCustomerMessage, customerTodo, customerRunner>>
      /\ \A d \in Customers : receiver'[d] = "persisted" => receiver[d] = "persisted"
  BY DEF StreamStep, TalkStartCreate, TalkStartOpen, Start, TalkStartRefused, InstallCustomer,
     StreamSend, StreamBroken, StreamTerminal, UninstallCustomer, receiverVars, requestVars,
     mdVars, TypeOK, StreamTypeOK
<1>2. \A m : Past(m) => Past(m)'
  BY <1>1 DEF Past
<1>3. Called' = Called /\ CustomersFirst'
  BY <1>1 DEF Called, CallsOf, Relayed, Line, CustomersFirst
<1>4. \A d \in Customers : ShownSame(d)
  <2> SUFFICES ASSUME NEW d \in Customers  PROVE  ShownSame(d)
    OBVIOUS
  <2>1. \/ UNCHANGED <<inbox, chSendMessage>> \/ StreamSend(c) \/ StreamBroken(c)
    BY DEF StreamStep, TalkStartCreate, TalkStartOpen, Start, TalkStartRefused,
       InstallCustomer, StreamTerminal, UninstallCustomer
  <2>2. CASE inbox'[d] = inbox[d] /\ chSendMessage'[d] = chSendMessage[d]
    BY <2>2, ToldSame DEF Told
  <2>3. CASE StreamSend(c) /\ d = c
    <3>1. /\ inbox[c] \in Seq(Response) /\ chSendMessage[c] \in Seq(Response)
          /\ chSendMessage[c] # <<>>
          /\ chSendMessage'[c] = Tail(chSendMessage[c])
          /\ inbox'[c] = Append(inbox[c], Head(chSendMessage[c]))
      BY <2>3 DEF StreamSend, TypeOK, SendTypeOK
    <3>2. Append(inbox[c], Head(chSendMessage[c])) \o Tail(chSendMessage[c])
            = inbox[c] \o chSendMessage[c]
      BY <3>1, ConcatMove
    <3> QED  BY <2>3, <3>1, <3>2, ToldSame DEF Told
  <2>4. CASE StreamBroken(c) /\ d = c
    BY <2>4, ToldLess DEF StreamBroken, TypeOK, SendTypeOK
  <2>5. CASE d # c /\ (StreamSend(c) \/ StreamBroken(c))
    BY <2>2, <2>5 DEF StreamSend, StreamBroken, TypeOK, SendTypeOK
  <2> QED  BY <2>1, <2>2, <2>3, <2>4, <2>5
<1> QED  BY <1>1, <1>2, <1>3, <1>4, LineKept

LEMMA ReceiverStepLine ==
  ASSUME TypeOK, Line, NEW c \in Customers, ReceiverStep(c)
  PROVE  Line'
<1>1. UNCHANGED <<customerTodo, customerRunner, inbox, chSendMessage>>
  BY DEF ReceiverStep, ReceiveMessage, ReceiveMessageFails, CustomerMessageIncoming,
         ReceiveClose, ReceiveFails, mdVars
<1>2. /\ QueueOrdered' /\ \A m \in Queued' : Past(m)'
      /\ \A m : Past(m) => Past(m)'
      /\ \A m, n : Past(m) /\ n \in Queued' => n \in Queued \/ Before(m, n)
  BY ReceiverStepInTurn DEF Line, AllPast, InTurn
<1>3. Called' = Called /\ CustomersFirst' /\ Posted' = Posted /\ PostedOrdered'
  BY <1>1 DEF Called, CallsOf, Posted, Relayed, Line, CustomersFirst, PostedOrdered
<1>4. /\ SenderOrder' /\ OneOrder'
      /\ \A d \in Customers : Screen(d)' \subseteq Screen(d)
  <2>1. \A d \in Customers : ShownSame(d)
    BY <1>1, ToldSame DEF Told
  <2> QED  BY <2>1, ScreensKept DEF Line
<1>5. AllPast'
  BY <1>2, <1>3, <1>4 DEF Line, AllPast
<1>6. HopsOrdered'
  BY <1>2, <1>3, <1>4 DEF Line, AllPast, HopsOrdered, AllBefore
<1> QED  BY <1>2, <1>3, <1>4, <1>5, <1>6 DEF Line

LEMMA LoaderStepLine ==
  ASSUME TypeOK, Line, NEW c \in Customers, LoaderStep(c)
  PROVE  Line'
<1>1. /\ UNCHANGED <<requests, receiver, chCustomerMessage, customerTodo, customerRunner, inbox>>
      /\ \A d \in Customers :
           \/ chSendMessage'[d] = chSendMessage[d]
           \/ chSendMessage'[d] = Append(chSendMessage[d],
                                         [type |-> "messages", messages |-> history[c]])
  BY DEF LoaderStep, LoadHistory, SendHistory, receiverVars, requestVars, mdVars,
         TypeOK, SendTypeOK
<1>2. [type |-> "messages", messages |-> history[c]] \in Response
  BY DEF Response, TypeOK, SendTypeOK
<1>3. \A m : Past(m) => Past(m)'
  BY <1>1 DEF Past
<1>4. Called' = Called /\ CustomersFirst'
  BY <1>1 DEF Called, CallsOf, Relayed, Line, CustomersFirst
<1>5. \A d \in Customers : ShownSame(d)
  BY <1>1, <1>2, ToldSame, ToldMore DEF Told
<1> QED  BY <1>1, <1>3, <1>4, <1>5, LineKept

LEMMA TellBothFirst ==
  ASSUME NEW event, NEW t, NEW ms
  PROVE  /\ \A i \in DOMAIN TellBoth(event, t, ms) :
              TellBoth(event, t, ms)[i].to = "customers" => i = 1
         /\ CallsOf(TellBoth(event, t, ms)) = IF event = "message" THEN {ms[1]} ELSE {}
<1> DEFINE notice == [event |-> event, talk |-> t, messages |-> ms]
           first == [to |-> "customers", notice |-> notice]
           second == [to |-> "servicers", notice |-> notice]
<1>1. TellBoth(event, t, ms) = << first, second >>
  BY DEF TellBoth
<1>2. \A i \in DOMAIN TellBoth(event, t, ms) :
        i = 1 \/ (i = 2 /\ TellBoth(event, t, ms)[i].to = "servicers")
  BY <1>1
<1>3. ToSet(TellBoth(event, t, ms)) = {first, second}
  BY <1>1 DEF ToSet
<1>4. /\ first.to = "customers" /\ second.to = "servicers" /\ first.notice = notice
      /\ notice.event = event /\ notice.messages = ms
  OBVIOUS
<1> HIDE DEF first, second, notice
<1>5. {d \in {first, second} : d.to = "customers"} = {first}
  BY <1>4
<1>6. CallsOf(TellBoth(event, t, ms)) = Relayed({notice})
  BY <1>3, <1>4, <1>5 DEF CallsOf
<1>7. Relayed({notice}) = IF event = "message" THEN {ms[1]} ELSE {}
  BY <1>4 DEF Relayed
<1> QED  BY <1>2, <1>6, <1>7

LEMMA CreateToldFirst ==
  ASSUME NEW t
  PROVE  LET calls == << [to |-> "servicers",
                          notice |-> [event |-> "create", talk |-> t, messages |-> <<>>]] >>
         IN  /\ \A i \in DOMAIN calls : calls[i].to = "customers" => i = 1
             /\ CallsOf(calls) = {}
<1> DEFINE call == [to |-> "servicers",
                    notice |-> [event |-> "create", talk |-> t, messages |-> <<>>]]
<1>1. call.to = "servicers"
  OBVIOUS
<1> HIDE DEF call
<1>2. ToSet(<<call>>) = {call} /\ DOMAIN <<call>> = {1}
  BY DEF ToSet
<1>3. CallsOf(<<call>>) = {}
  BY <1>1, <1>2 DEF CallsOf, Relayed
<1> QED  BY <1>2, <1>3 DEF call

LEMMA NothingCalled == CallsOf(<<>>) = {} /\ \A i \in DOMAIN <<>> : FALSE
<1>1. ToSet(<<>>) = {}
  BY DEF ToSet
<1> QED  BY <1>1 DEF CallsOf, Relayed

LEMMA HandleLine ==
  ASSUME TypeOK, Pipeline, Line,
         HandleInstall \/ HandleUninstall \/ HandleMessage \/ HandleClose \/ RunPosted
  PROVE  Line'
<1>1. UNCHANGED <<receiver, requests, inbox>> /\ \A m : Past(m) => Past(m)'
  BY DEF HandleInstall, HandleUninstall, HandleMessage, HandleClose, RunPosted, receiverVars,
     Past
<1>2. CASE HandleInstall \/ HandleUninstall \/ HandleClose
  <2>1. UNCHANGED <<chCustomerMessage, customerRunner, chSendMessage>>
    BY <1>2 DEF HandleInstall, HandleUninstall, HandleClose, requestVars
  <2>2. \A d \in Customers : ShownSame(d)
    BY <1>1, <2>1, ToldSame DEF Told
  <2>3. Called' \subseteq Called /\ CustomersFirst'
    <3>1. \/ UNCHANGED customerTodo
          \/ customerTodo' = <<>>
          \/ \E t : customerTodo' = TellBoth("close", t, <<>>)
          \/ \E t : customerTodo' = << [to |-> "servicers",
                                        notice |-> [event |-> "create", talk |-> t,
                                                    messages |-> <<>>]] >>
      BY <1>2 DEF HandleInstall, HandleUninstall, HandleClose
    <3>2. CASE UNCHANGED customerTodo
      BY <3>2 DEF Called, CallsOf, Line, CustomersFirst
    <3>3. CASE customerTodo' = <<>>
      BY <3>3, NothingCalled DEF Called, CustomersFirst
    <3>4. ASSUME NEW t, customerTodo' = TellBoth("close", t, <<>>)
          PROVE  Called' = {} /\ CustomersFirst'
      BY <3>4, TellBothFirst DEF Called, CustomersFirst
    <3>5. ASSUME NEW t, customerTodo' = << [to |-> "servicers",
                                            notice |-> [event |-> "create", talk |-> t,
                                                        messages |-> <<>>]] >>
          PROVE  Called' = {} /\ CustomersFirst'
      BY <3>5, CreateToldFirst DEF Called, CustomersFirst
    <3> QED  BY <3>1, <3>2, <3>3, <3>4, <3>5
  <2> QED  BY <1>1, <2>1, <2>2, <2>3, LineKept
<1>3. CASE HandleMessage
  <2> DEFINE m == Head(chCustomerMessage)
             resp == [type |-> "messageConfirmed", messages |-> <<m>>]
             q == chCustomerMessage
  <2>1. /\ UNCHANGED customerRunner /\ customerTodo = <<>>
        /\ q \in Seq(Customers \X Nat) /\ q # <<>> /\ chCustomerMessage' = Tail(q)
        /\ customerTodo' = TellBoth("message", talkOf[m[1]], <<m>>)
        /\ SendResponse({m[1]}, talkOf[m[1]], resp)
    BY <1>3 DEF HandleMessage, AtSelect, TypeOK, ChannelTypeOK
  <2>2. /\ Called = {} /\ Called' = {m} /\ CustomersFirst'
    BY <2>1, NothingCalled, TellBothFirst DEF Called, CustomersFirst
  <2>3. /\ m \in Queued /\ m \in Customers \X Nat
        /\ Queued = {m} \cup Queued'
    BY <2>1, HeadTailToSet, HeadOrTail DEF Queued
  <2>4. resp \in Response
    <3>1. <<m>> \in Seq(Message)
      BY <2>3, CustomerAssumption DEF Message
    <3> QED  BY <3>1 DEF Response
  <2>5. \A d \in Customers : ShownSame(d)
    <3>1. \A d \in Customers : \/ chSendMessage'[d] = chSendMessage[d]
                               \/ chSendMessage'[d] = Append(chSendMessage[d], resp)
      BY <2>1 DEF SendResponse
    <3>2. resp.type # "message"
      OBVIOUS
    <3> HIDE DEF resp
    <3> QED  BY <1>1, <2>4, <3>1, <3>2, ToldSame, ToldMore DEF Told
  <2>6. /\ SenderOrder' /\ OneOrder'
        /\ \A d \in Customers : Screen(d)' \subseteq Screen(d)
    BY <2>5, ScreensKept DEF Line
  <2>7. Posted' = Posted /\ PostedOrdered'
    BY <2>1 DEF Posted, Relayed, Line, PostedOrdered
  <2>8. (Called \cup Queued)' \subseteq Called \cup Queued
    BY <2>2, <2>3
  <2>9. AllPast'
    BY <1>1, <2>6, <2>7, <2>8 DEF Line, AllPast
  <2>10. QueueOrdered' /\ \A x \in Queued' : Before(m, x)
    BY <2>1, QueueTail DEF Line
  <2>11. HopsOrdered'
    <3>1. AllBefore(Called', Queued')
      BY <2>2, <2>10 DEF AllBefore
    <3> QED  BY <2>6, <2>7, <2>8, <3>1 DEF Line, HopsOrdered, AllBefore
  <2> QED  BY <2>2, <2>6, <2>7, <2>9, <2>10, <2>11 DEF Line
<1>4. CASE RunPosted
  <2> DEFINE n == Head(customerRunner)
             resp == [type |-> n.event, messages |-> n.messages]
             q == customerRunner
             x == n.messages[1]
  <2>1. /\ UNCHANGED <<chCustomerMessage, customerTodo>>
        /\ q \in Seq(CustomerNotice) /\ q # <<>> /\ customerRunner' = Tail(q)
        /\ SendResponse(customers[n.talk], n.talk, resp)
    BY <1>4 DEF RunPosted, requestVars, TypeOK, ChannelTypeOK
  <2>2. /\ n \in ToSet(q) /\ n \in CustomerNotice
        /\ ToSet(q) = {n} \cup ToSet(q')
    BY <2>1, HeadTailToSet, HeadOrTail
  <2>3. resp \in Response
    BY <2>2 DEF Response, CustomerNotice
  <2>4. \A d \in Customers : \/ chSendMessage'[d] = chSendMessage[d]
                             \/ chSendMessage'[d] = Append(chSendMessage[d], resp)
    BY <2>1 DEF SendResponse
  <2>5. /\ Called' = Called /\ Queued' = Queued /\ CustomersFirst' /\ QueueOrdered'
    BY <2>1 DEF Called, CallsOf, Queued, Line, CustomersFirst, QueueOrdered
  <2>6. /\ Posted' \subseteq Posted
        /\ n.event = "message" => x \in Posted
    BY <2>2 DEF Posted, Relayed
  <2>7. /\ Len(q) \in Nat \ {0} /\ DOMAIN q = 1..Len(q) /\ n = q[1]
        /\ DOMAIN q' = 1..(Len(q) - 1)
        /\ \A i \in 1..(Len(q) - 1) : i + 1 \in 1..Len(q) /\ q'[i] = q[i + 1]
    BY <2>1, TailPlaces
  <2>8. PostedOrdered'
    <3>1. SUFFICES ASSUME NEW i \in DOMAIN q', NEW j \in DOMAIN q', i < j,
                          q'[i].event = "message", q'[j].event = "message"
                   PROVE  Before(q'[i].messages[1], q'[j].messages[1])
      BY DEF PostedOrdered
    <3>2. /\ i + 1 \in DOMAIN q /\ j + 1 \in DOMAIN q /\ i + 1 < j + 1
          /\ q'[i] = q[i + 1] /\ q'[j] = q[j + 1]
      BY <2>7, <3>1
    <3>3. \A k, l \in DOMAIN q :
            k < l /\ q[k].event = "message" /\ q[l].event = "message"
              => Before(q[k].messages[1], q[l].messages[1])
      BY DEF Line, PostedOrdered
    <3>4. Before(q[i + 1].messages[1], q[j + 1].messages[1])
      BY <3>1, <3>2, <3>3
    <3> QED  BY <3>2, <3>4
  <2>9. /\ SenderOrder' /\ OneOrder'
        /\ \A d \in Customers : Screen(d)' \subseteq
             Screen(d) \cup (IF n.event = "message" THEN {x} ELSE {})
    <3>1. CASE n.event = "message"
      <4>1. \A d \in Customers : ShownSame(d) \/ ShownLast(d, x)
        BY <1>1, <2>3, <2>4, <3>1, ToldSame, ToldMore DEF Told
      <4>2. \A d \in Customers : ShownLast(d, x)
        BY <4>1 DEF ShownSame, ShownLast
      <4>3. \A d \in Customers : AllBefore(Screen(d), {x})
        BY <2>6, <3>1 DEF Line, HopsOrdered, AllBefore
      <4>4. x[2] \in Nat
        BY <2>6, <3>1 DEF Line, AllPast, Past
      <4> QED  BY <3>1, <4>2, <4>3, <4>4, ScreensExtended DEF Line
    <3>2. CASE n.event # "message"
      <4>1. \A d \in Customers : ShownSame(d)
        BY <1>1, <2>3, <2>4, <3>2, ToldSame, ToldMore DEF Told
      <4> QED  BY <3>2, <4>1, ScreensKept DEF Line
    <3> QED  BY <3>1, <3>2
  <2>10. AllPast'
    <3>1. \A m \in (Posted \cup Called \cup Queued)' : Past(m)'
      BY <1>1, <2>5, <2>6 DEF Line, AllPast
    <3>2. n.event = "message" => Past(x)
      BY <2>6 DEF Line, AllPast
    <3>3. \A d \in Customers : \A m \in Screen(d)' : Past(m)
      BY <2>9, <3>2 DEF Line, AllPast
    <3>4. \A d \in Customers : \A m \in Screen(d)' : Past(m)'
      BY <1>1, <3>3
    <3> QED  BY <3>1, <3>4 DEF AllPast
  <2>11. n.event = "message" => AllBefore({x}, Posted' \cup Called \cup Queued)
    <3> SUFFICES ASSUME n.event = "message", NEW y \in Posted' \cup Called \cup Queued
                 PROVE  Before(x, y)
      BY DEF AllBefore
    <3>1. CASE y \in Called \cup Queued
      BY <2>6, <3>1 DEF Line, HopsOrdered, AllBefore
    <3>2. CASE y \in Posted'
      <4>1. PICK i \in 1..(Len(q) - 1) : q'[i].event = "message" /\ y = q'[i].messages[1]
        BY <2>7, <3>2 DEF Posted, Relayed, ToSet
      <4>2. /\ i + 1 \in DOMAIN q /\ 1 \in DOMAIN q /\ 1 < i + 1
            /\ q[i + 1] = q'[i]
        BY <2>7
      <4> QED  BY <2>7, <4>1, <4>2 DEF Line, PostedOrdered
    <3> QED  BY <3>1, <3>2
  <2>12. HopsOrdered'
    <3>1. AllBefore(Posted', (Called \cup Queued)') /\ AllBefore(Called', Queued')
      BY <2>5, <2>6 DEF Line, HopsOrdered, AllBefore
    <3>2. ASSUME NEW d \in Customers
          PROVE  AllBefore(Screen(d)', (Posted \cup Called \cup Queued)')
      BY <2>5, <2>6, <2>9, <2>11 DEF Line, HopsOrdered, AllBefore
    <3> QED  BY <3>1, <3>2 DEF HopsOrdered
  <2> QED  BY <2>5, <2>8, <2>9, <2>10, <2>12 DEF Line
<1> QED  BY <1>2, <1>3, <1>4

LEMMA RestLine ==
  ASSUME TypeOK, Line,
         \/ NotifyCustomers \/ NotifyServicers
         \/ \E c \in Customers : KickOut(c)
  PROVE  Line'
<1>1. UNCHANGED <<receiver, requests, inbox, chCustomerMessage>> /\ \A m : Past(m) => Past(m)'
  BY DEF NotifyCustomers, NotifyServicers, KickOut, receiverVars, requestVars, Past
<1>2. ASSUME NEW c \in Customers, KickOut(c)  PROVE  Line'
  <2> DEFINE resp == [type |-> "kickOut", messages |-> <<>>]
  <2>1. /\ UNCHANGED <<customerTodo, customerRunner>>
        /\ \A d \in Customers : \/ chSendMessage'[d] = chSendMessage[d]
                                \/ chSendMessage'[d] = Append(chSendMessage[d], resp)
    BY <1>2 DEF KickOut, TypeOK, SendTypeOK
  <2>2. resp \in Response /\ resp.type # "message"
    <3>1. <<>> \in Seq(Message)
      OBVIOUS
    <3> QED  BY <3>1 DEF Response
  <2>3. \A d \in Customers : ShownSame(d)
    <3> HIDE DEF resp
    <3> QED  BY <1>1, <2>1, <2>2, ToldSame, ToldMore DEF Told
  <2>4. Called' = Called /\ CustomersFirst'
    BY <2>1 DEF Called, CallsOf, Relayed, Line, CustomersFirst
  <2> QED  BY <1>1, <2>1, <2>3, <2>4, LineKept
<1>3. CASE NotifyCustomers \/ NotifyServicers
  <2> DEFINE call == Head(customerTodo)
             n == call.notice
             q == customerRunner
  <2>1. /\ UNCHANGED chSendMessage
        /\ customerTodo \in Seq(Call) /\ customerTodo # <<>>
        /\ customerTodo' = Tail(customerTodo)
        /\ q \in Seq(CustomerNotice)
        /\ \/ call.to = "customers" /\ Post(n)
           \/ call.to = "servicers" /\ UNCHANGED customerRunner
    BY <1>3 DEF NotifyCustomers, NotifyServicers, NextCall, TypeOK, MainTypeOK, ChannelTypeOK,
       ghostVars
  <2>2. /\ call \in ToSet(customerTodo)
        /\ ToSet(customerTodo') \subseteq ToSet(customerTodo)
    BY <2>1, HeadTailToSet
  <2>3. \A i \in DOMAIN customerTodo' : customerTodo'[i].to # "customers"
    <3>1. /\ Len(customerTodo) \in Nat \ {0} /\ DOMAIN customerTodo = 1..Len(customerTodo)
          /\ DOMAIN customerTodo' = 1..(Len(customerTodo) - 1)
          /\ \A i \in 1..(Len(customerTodo) - 1) :
               i + 1 \in 1..Len(customerTodo) /\ customerTodo'[i] = customerTodo[i + 1]
      BY <2>1, TailPlaces
    <3>2. \A i \in 1..(Len(customerTodo) - 1) : i + 1 # 1
      BY <3>1
    <3> QED  BY <3>1, <3>2 DEF Line, CustomersFirst
  <2>4. Called' = {} /\ CustomersFirst'
    BY <2>3 DEF Called, CallsOf, Relayed, CustomersFirst, ToSet
  <2>5. \A d \in Customers : ShownSame(d)
    BY <1>1, <2>1, ToldSame DEF Told
  <2>6. CASE UNCHANGED customerRunner
    BY <1>1, <2>4, <2>5, <2>6, LineKept
  <2>7. CASE ~UNCHANGED customerRunner
    <3>1. call.to = "customers" /\ customerRunner' = Append(q, n)
      BY <2>1, <2>7 DEF Post
    <3>2. /\ Posted' \subseteq Posted \cup (IF n.event = "message" THEN {n.messages[1]} ELSE {})
          /\ n.event = "message" => n.messages[1] \in Called
      <4>1. ToSet(Append(q, n)) = ToSet(q) \cup {n}
        BY <2>1, AppendToSet
      <4> QED  BY <2>2, <3>1, <4>1 DEF Posted, Called, CallsOf, Relayed
    <3>3. /\ SenderOrder' /\ OneOrder'
          /\ \A d \in Customers : Screen(d)' \subseteq Screen(d)
      BY <2>5, ScreensKept DEF Line
    <3>4. Queued' = Queued /\ QueueOrdered'
      BY <1>1 DEF Queued, Line, QueueOrdered
    <3>5. AllPast'
      <4>1. \A m \in (Posted \cup Called \cup Queued)' : m \in Posted \cup Called \cup Queued
        BY <2>4, <3>2, <3>4
      <4> QED  BY <1>1, <3>3, <4>1 DEF Line, AllPast
    <3>6. HopsOrdered'
      BY <2>4, <3>2, <3>3, <3>4 DEF Line, HopsOrdered, AllBefore
    <3>7. PostedOrdered'
      <4>1. /\ Len(q) \in Nat /\ DOMAIN q = 1..Len(q)
            /\ DOMAIN q' = 1..(Len(q) + 1)
            /\ \A i \in 1..Len(q) : q'[i] = q[i]
            /\ q'[Len(q) + 1] = n
        BY <2>1, <3>1, AppendPlaces
      <4>2. \A i \in 1..Len(q) : q[i].event = "message" /\ n.event = "message" =>
              Before(q[i].messages[1], n.messages[1])
        <5>1. \A i \in 1..Len(q) : q[i].event = "message" => q[i].messages[1] \in Posted
          BY <4>1 DEF Posted, Relayed, ToSet
        <5> QED  BY <3>2, <5>1 DEF Line, HopsOrdered, AllBefore
      <4>3. \A i \in 1..(Len(q) + 1) : i \in 1..Len(q) \/ i = Len(q) + 1
        BY <4>1
      <4>4. \A i, j \in 1..(Len(q) + 1) : i < j => i \in 1..Len(q)
        BY <4>1
      <4> QED  BY <4>1, <4>2, <4>3, <4>4 DEF Line, PostedOrdered
    <3> QED  BY <2>4, <3>3, <3>4, <3>5, <3>6, <3>7 DEF Line
  <2> QED  BY <2>6, <2>7
<1> QED  BY <1>2, <1>3

LEMMA StepLine ==
  ASSUME TypeOK, Pipeline, Line, [Next]_vars
  PROVE  Line'
<1>1. CASE \E c \in Customers : StreamStep(c) \/ ReceiverStep(c) \/ LoaderStep(c)
  BY <1>1, StreamStepLine, ReceiverStepLine, LoaderStepLine
<1>2. CASE MainStep
  BY <1>2, HandleLine, RestLine DEF MainStep
<1>3. CASE UNCHANGED vars
  <2>1. UNCHANGED <<receiver, requests, chCustomerMessage, customerTodo, customerRunner,
                    inbox, chSendMessage>>
    BY <1>3 DEF vars, customerVars, receiverVars, requestVars, mdVars
  <2>2. (\A m : Past(m) => Past(m)') /\ Called' = Called /\ CustomersFirst'
    BY <2>1 DEF Past, Called, CallsOf, Line, CustomersFirst
  <2>3. \A d \in Customers : ShownSame(d)
    BY <2>1, ToldSame DEF Told
  <2> QED  BY <2>1, <2>2, <2>3, LineKept
<1> QED  BY <1>1, <1>2, <1>3 DEF Next

\* At first no message is on any screen or on its way.
LEMMA LineInit == Init => Line
<1> SUFFICES ASSUME Init  PROVE  Line
  OBVIOUS
<1>1. /\ chCustomerMessage = <<>> /\ customerRunner = <<>> /\ customerTodo = <<>>
      /\ \A c \in Customers : Told(c) = <<>>
  BY DEF Init, CustomerInit, Told
<1>2. \A c \in Customers : LiveAt(c) = {}
  BY <1>1 DEF LiveAt
<1>3. ToSet(<<>>) = {}
  BY DEF ToSet
<1>4. Queued = {} /\ Posted = {} /\ Called = {} /\ \A c \in Customers : Screen(c) = {}
  BY <1>1, <1>2, <1>3 DEF Queued, Posted, Called, CallsOf, Relayed, Screen
<1>5. CustomersFirst /\ QueueOrdered /\ PostedOrdered
  BY <1>1 DEF CustomersFirst, QueueOrdered, PostedOrdered
<1>6. HopsOrdered /\ AllPast
  BY <1>4 DEF HopsOrdered, AllPast, AllBefore
<1>7. SenderOrder /\ OneOrder
  BY <1>2 DEF SenderOrder, OneOrder
<1> QED  BY <1>5, <1>6, <1>7 DEF Line

\* Line, the inductive invariant of the order of the relay.
LEMMA LineInvariant == Spec => []Line
<1>1. TypeOK /\ Pipeline /\ Line /\ [Next]_vars => Line'
  BY StepLine
<1> QED  BY LineInit, <1>1, Typed, PipelineInvariant, PTL DEF Spec

\* The live messages of one sender are shown to every client in the order in
\* which he wrote them, whatever happens to others in between.
THEOREM SenderOrderInvariant == Spec => []SenderOrder
<1>1. Line => SenderOrder
  BY DEF Line
<1> QED  BY <1>1, LineInvariant, PTL

\* Two clients of a talk never see two live messages in opposite orders, for any
\* number of writers, of clients and of messages, and whatever channels are full.
THEOREM SameOrderInvariant == Spec => []SameOrder
<1>1. Line => SameOrder
  BY DEF Line, OneOrder, SameOrder
<1> QED  BY <1>1, LineInvariant, PTL

=============================================================================
