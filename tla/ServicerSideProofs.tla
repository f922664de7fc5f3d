------------------------- MODULE ServicerSideProofs -------------------------
(***************************************************************************)
(* Proofs about ServicerSide: TypeOK, ToldIsStored, RegistryExplained,     *)
(* NoGap, AssignmentTold and CloseTold are invariants.                     *)
(*                                                                         *)
(* The first two follow from TypeOK and Pipeline together, which are       *)
(* inductive (a word of a talk has a status only if the talk exists), the  *)
(* third from Registry and the fourth from Complete, each inductive given  *)
(* those before it.  The last two follow from Words, inductive given       *)
(* TypeOK, Pipeline and Registry.                                          *)
(***************************************************************************)
EXTENDS ServicerSide, StoreProofs

-----------------------------------------------------------------------------
(* Channels and responses. *)

\* The only element of a sequence of one.
LEMMA OneToSet == \A e : ToSet(<<e>>) = {e}
BY DEF ToSet

\* Nothing is behind it.
LEMMA OneTail ==
  ASSUME NEW S, NEW q \in Seq(S), Len(q) = 1
  PROVE  ToSet(Tail(q)) = {}
<1>1. q # <<>>
  OBVIOUS
<1>2. DOMAIN Tail(q) = 1..(Len(q) - 1)
  BY <1>1, TailPlaces
<1>3. 1..(Len(q) - 1) = {}
  OBVIOUS
<1> QED  BY <1>2, <1>3 DEF ToSet

\* A send with a default case keeps a channel as it should be, and adds what is
\* sent or nothing.
LEMMA OfferFits ==
  ASSUME NEW S, NEW ch, NEW cap \in Nat, NEW e \in S, Fits(ch, S, cap)
  PROVE  /\ Fits(Offer(ch, cap, e), S, cap)
         /\ ToSet(ch) \subseteq ToSet(Offer(ch, cap, e))
         /\ ToSet(Offer(ch, cap, e)) \subseteq ToSet(ch) \cup {e}
         /\ HasRoom(ch, cap) => e \in ToSet(Offer(ch, cap, e))
<1>1. ch \in Seq(S)
  BY DEF Fits
<1>2. ToSet(Append(ch, e)) = ToSet(ch) \cup {e}
  BY <1>1, AppendToSet
<1>3. HasRoom(ch, cap) => Fits(Append(ch, e), S, cap)
  BY <1>1, SendTyped DEF Fits
<1> QED  BY <1>2, <1>3 DEF Offer

\* A receive takes the first element and leaves the others.
LEMMA ReceiveFits ==
  ASSUME NEW S, NEW ch, NEW cap \in Nat, Fits(ch, S, cap), ch # <<>>
  PROVE  /\ Fits(Tail(ch), S, cap)
         /\ Head(ch) \in S /\ Head(ch) \in ToSet(ch)
         /\ ToSet(Tail(ch)) \subseteq ToSet(ch)
         /\ ToSet(ch) = {Head(ch)} \cup ToSet(Tail(ch))
<1>1. ch \in Seq(S) /\ Len(ch) <= cap
  BY DEF Fits
<1>2. /\ Head(ch) \in ToSet(ch) /\ Head(ch) \in S
      /\ Tail(ch) \in Seq(S) /\ Len(Tail(ch)) < Len(ch)
      /\ ToSet(Tail(ch)) \subseteq ToSet(ch)
  BY <1>1, HeadTailToSet
<1>3. ToSet(ch) = {Head(ch)} \cup ToSet(Tail(ch))
  BY <1>1, HeadOrTail
<1>4. Fits(Tail(ch), S, cap)
  BY <1>1, <1>2 DEF Fits
<1> QED  BY <1>2, <1>3, <1>4

\* What is in a channel is of its kind.
LEMMA FitsToSet ==
  ASSUME NEW S, NEW ch, NEW cap, Fits(ch, S, cap)
  PROVE  ToSet(ch) \subseteq S
BY DEF Fits, ToSet

\* The capacities are numbers.
LEMMA Capacities ==
  /\ MaxServicerCache \in Nat /\ MaxServiceMessages \in Nat /\ ServiceSendCap \in Nat
  /\ MaxServicerCache > 0 /\ MaxServiceMessages > 0 /\ ServiceSendCap > 0
BY ServicerAssumption

\* A response of words and contents.
LEMMA RespondTyped ==
  ASSUME NEW type \in {"talks", "pendingTalks", "attach", "detach", "close", "reload",
                       "message", "messageConfirmed", "notify", "kickOut"},
         NEW words \in SUBSET Word, NEW contents \in SUBSET (Talks \X Message)
  PROVE  Respond(type, words, contents) \in ServiceResponse
BY DEF Respond, ServiceResponse

\* The words and contents of a talk that exists.
LEMMA WordsTyped ==
  ASSUME StoreTypeOK, NEW t \in DOMAIN talks
  PROVE  /\ t \in Talks /\ Contents(t) \subseteq Talks \X Message
         /\ \A user \in Users \cup {NoOne, "untold"} : WordOf(t, user) \in Word
<1>1. t \in Talks /\ talks[t] \in TalkInfo
  BY DEF StoreTypeOK
<1>2. talks[t].status \in {"opened", "closed"} /\ talks[t].messages \in Seq(Message)
  BY <1>1 DEF TalkInfo
<1>3. Stored(t) \subseteq Message
  BY <1>2 DEF Stored, ToSet
<1> QED  BY <1>1, <1>2, <1>3 DEF Contents, WordOf, Word

\* The three answers read from the store.
LEMMA AnswersTyped ==
  ASSUME StoreTypeOK
  PROVE  /\ \A s \in Servicers : \A read \in Readings(s) :
              AttachedTalks(s, read) \in ServiceResponse
         /\ \A s \in Servicers : PendingTalks(s) \in ServiceResponse
         /\ \A t \in DOMAIN talks : Reload(t) \in ServiceResponse
<1>1. ASSUME NEW s \in Servicers, NEW read \in Readings(s)
      PROVE  AttachedTalks(s, read) \in ServiceResponse
  <2>1. Mine(s) \subseteq DOMAIN talks /\ UserOf[s] \in Users
    BY ServicerAssumption DEF Mine, GetServicerTalkInfos
  <2>2. {WordOf(t, UserOf[s]) : t \in Mine(s)} \subseteq Word
    BY <2>1, WordsTyped
  <2>3. AllContents(read) \subseteq Talks \X Message
    BY <2>1, WordsTyped DEF Readings, AllContents
  <2> QED  BY <2>2, <2>3, RespondTyped DEF AttachedTalks
<1>2. ASSUME NEW s \in Servicers  PROVE PendingTalks(s) \in ServiceResponse
  <2>1. GetPendingTalkInfos(ActsOf[s], BizsOf[s]) \subseteq DOMAIN talks
    BY DEF GetPendingTalkInfos
  <2>2. {WordOf(t, NoOne) : t \in GetPendingTalkInfos(ActsOf[s], BizsOf[s])} \subseteq Word
    BY <2>1, WordsTyped
  <2> QED  BY <2>2, RespondTyped DEF PendingTalks
<1>3. ASSUME NEW t \in DOMAIN talks  PROVE Reload(t) \in ServiceResponse
  BY WordsTyped, RespondTyped DEF Reload
<1> QED  BY <1>1, <1>2, <1>3

\* A send to some streams keeps the send channels well-formed.
LEMMA SendToTyped ==
  ASSUME ServiceOutTypeOK, NEW S, NEW resp \in ServiceResponse,
         SendTo(S, resp), UNCHANGED serviceInbox
  PROVE  ServiceOutTypeOK'
<1>1. \A s \in Servicers :
        HasRoom(chServiceSend[s], ServiceSendCap) =>
          /\ Append(chServiceSend[s], resp) \in Seq(ServiceResponse)
          /\ Fits(Append(chServiceSend[s], resp), ServiceResponse, ServiceSendCap)
  BY Capacities, SendTyped DEF ServiceOutTypeOK, Fits
<1>2. \A s \in Servicers :
        \/ chServiceSend'[s] = chServiceSend[s]
        \/ /\ HasRoom(chServiceSend[s], ServiceSendCap)
           /\ chServiceSend'[s] = Append(chServiceSend[s], resp)
  BY DEF SendTo, NoRoom
<1>3. chServiceSend' = [s \in Servicers |-> chServiceSend'[s]]
  BY DEF SendTo
<1> HIDE DEF SendTo
<1>4. \A s \in Servicers :
        /\ chServiceSend'[s] \in Seq(ServiceResponse)
        /\ Fits(chServiceSend'[s], ServiceResponse, ServiceSendCap)
  BY <1>1, <1>2 DEF ServiceOutTypeOK
<1> QED  BY <1>3, <1>4 DEF ServiceOutTypeOK

\* So does one that dismisses who has no room; the registry only loses streams.
LEMMA SendOrDismissTyped ==
  ASSUME ServiceOutTypeOK, ServiceMainTypeOK,
         NEW S \in SUBSET Servicers, NEW resp \in ServiceResponse,
         SendOrDismiss(S, resp), UNCHANGED serviceInbox
  PROVE  /\ ServiceOutTypeOK'
         /\ servicers' \in [Users -> SUBSET Servicers]
         /\ dismissed' \subseteq Servicers
         /\ \A u \in Users : servicers'[u] \subseteq servicers[u]
<1>1. ServiceOutTypeOK'
  BY SendToTyped DEF SendOrDismiss
<1> QED  BY <1>1 DEF SendOrDismiss, NoRoom, ServiceMainTypeOK

\* A post keeps the channel of closures, and what is unheard, well-formed.
LEMMA PostTyped ==
  ASSUME ServiceChanTypeOK, OutsideTypeOK, NEW call \in Call, Post(call),
         UNCHANGED <<serviceChans, written, reopened>>, arriving' \subseteq arriving
  PROVE  ServiceChanTypeOK' /\ OutsideTypeOK'
<1>1. Fits(servicerRunner', Call, MaxServiceMessages)
  BY Capacities, OfferFits DEF Post, ServiceChanTypeOK
<1> QED  BY <1>1 DEF Post, ServiceChanTypeOK, OutsideTypeOK, serviceChans, talkChans,
           restOfLoss

\* The store stays a store through each operation (StoreTyped, one by one):
\* AddTalkMessage,
LEMMA AddTyped ==
  ASSUME StoreTypeOK, NEW t \in Talks, NEW m \in Message, AddTalkMessage(t, m)
  PROVE  StoreTypeOK'
<1>1. t \in DOMAIN talks /\ talks[t] \in TalkInfo
  BY DEF AddTalkMessage, StoreTypeOK
<1>2. talks[t].act \in Acts /\ talks[t].biz \in Bizs
  BY <1>1 DEF TalkInfo
<1> QED  BY <1>2, StoreTyped

\* ... UpdateTalkServiceID,
LEMMA UpdateTyped ==
  ASSUME StoreTypeOK, NEW t \in Talks, NEW acts, NEW bizs,
         NEW user \in Users \cup {NoOne}, UpdateTalkServiceID(acts, bizs, t, user)
  PROVE  StoreTypeOK'
BY DEF UpdateTalkServiceID, InScope, StoreTypeOK, TalkInfo

\* ... and CreateTalk.
LEMMA CreateTyped ==
  ASSUME StoreTypeOK, NEW t \in Talks, NEW act \in Acts, NEW biz \in Bizs,
         CreateTalk(t, act, biz)
  PROVE  StoreTypeOK'
<1> DEFINE new == [ status |-> "opened", act |-> act, biz |-> biz,
                    service |-> NoOne, messages |-> <<>> ]
<1>1. new \in TalkInfo
  BY DEF TalkInfo
<1>2. talks' = [u \in DOMAIN talks \cup {t} |-> IF u = t THEN new ELSE talks[u]]
  BY DEF CreateTalk
<1> HIDE DEF new
<1> QED  BY <1>1, <1>2 DEF StoreTypeOK

\* A message that is added is stored, and no talk or message is lost.
LEMMA AddStores ==
  ASSUME StoreTypeOK, NEW t \in Talks, NEW m \in Message, AddTalkMessage(t, m)
  PROVE  /\ \A u : Stored(u) \subseteq Stored(u)'
         /\ m \in Stored(t)' /\ DOMAIN talks' = DOMAIN talks
<1>1. t \in DOMAIN talks /\ talks[t] \in TalkInfo
  BY DEF AddTalkMessage, StoreTypeOK
<1>2. talks[t].act \in Acts /\ talks[t].biz \in Bizs
  BY <1>1 DEF TalkInfo
<1>3. DOMAIN talks' = DOMAIN talks
  BY DEF AddTalkMessage
<1> QED  BY <1>2, <1>3, StoreGrows

-----------------------------------------------------------------------------
(* TypeOK. *)

\* Parts of TypeOK whose variables a step leaves alone.
LEMMA TypeKept ==
  ASSUME TypeOK
  PROVE  /\ UNCHANGED talks => StoreTypeOK'
         /\ UNCHANGED serviceVars => ServiceTypeOK'
         /\ UNCHANGED <<serviceChans, servicerRunner>> => ServiceChanTypeOK'
         /\ UNCHANGED serviceMain => ServiceMainTypeOK'
         /\ UNCHANGED serviceOut => ServiceOutTypeOK'
         /\ UNCHANGED <<outsideVars, lossVars>> => OutsideTypeOK'
<1> USE DEF TypeOK
<1>1. UNCHANGED talks => StoreTypeOK'
  BY DEF StoreTypeOK
<1>2. UNCHANGED serviceVars => ServiceTypeOK'
  BY DEF ServiceTypeOK, serviceVars
<1>3. UNCHANGED <<serviceChans, servicerRunner>> => ServiceChanTypeOK'
  BY DEF ServiceChanTypeOK, serviceChans, talkChans
<1>4. UNCHANGED serviceMain => ServiceMainTypeOK'
  BY DEF ServiceMainTypeOK, serviceMain
<1>5. UNCHANGED serviceOut => ServiceOutTypeOK'
  BY DEF ServiceOutTypeOK, serviceOut
<1>6. UNCHANGED <<outsideVars, lossVars>> => OutsideTypeOK'
  BY DEF OutsideTypeOK, outsideVars, lossVars, restOfLoss
<1> QED  BY <1>1, <1>2, <1>3, <1>4, <1>5, <1>6

\* The stream handler.
LEMMA ServiceStepTyped ==
  ASSUME TypeOK, NEW s \in Servicers, ServiceStep(s)
  PROVE  TypeOK'
<1> USE DEF TypeOK
<1>1. CASE InstallServicer(s)
  <2>1. ServiceTypeOK'
    BY <1>1 DEF InstallServicer, ServiceTypeOK
  <2>2. Fits(chInstallServicer', Servicers, MaxServicerCache)
    <3>1. Fits(Offer(chInstallServicer, MaxServicerCache, s), Servicers, MaxServicerCache)
      BY Capacities, OfferFits DEF ServiceChanTypeOK
    <3>2. chInstallServicer' \in {chInstallServicer, Offer(chInstallServicer, MaxServicerCache, s)}
      BY <1>1 DEF InstallServicer, Offer
    <3> QED  BY <3>1, <3>2 DEF ServiceChanTypeOK
  <2>3. ServiceChanTypeOK'
    BY <1>1, <2>2 DEF InstallServicer, ServiceChanTypeOK, talkChans
  <2> QED  BY <1>1, <2>1, <2>3, TypeKept DEF InstallServicer
<1>2. CASE ServiceSend(s)
  <2>1. /\ chServiceSend[s] \in Seq(ServiceResponse) /\ chServiceSend[s] # <<>>
        /\ Fits(chServiceSend[s], ServiceResponse, ServiceSendCap)
        /\ serviceInbox[s] \in Seq(ServiceResponse)
    BY <1>2 DEF ServiceSend, ServiceOutTypeOK
  <2>2. /\ Fits(Tail(chServiceSend[s]), ServiceResponse, ServiceSendCap)
        /\ Head(chServiceSend[s]) \in ServiceResponse
    BY <2>1, Capacities, ReceiveFits
  <2>3. Tail(chServiceSend[s]) \in Seq(ServiceResponse)
    BY <2>2 DEF Fits
  <2>4. Append(serviceInbox[s], Head(chServiceSend[s])) \in Seq(ServiceResponse)
    BY <2>1, <2>2
  <2>5. ServiceOutTypeOK'
    BY <1>2, <2>2, <2>3, <2>4 DEF ServiceSend, ServiceOutTypeOK
  <2>6. ServiceTypeOK'
    BY <1>2 DEF ServiceSend, ServiceTypeOK
  <2> QED  BY <1>2, <2>5, <2>6, TypeKept DEF ServiceSend
<1>3. CASE ServiceTerminal(s)
  <2>1. ServiceTypeOK'
    BY <1>3 DEF ServiceTerminal, ServiceTypeOK
  <2> QED  BY <1>3, <2>1, TypeKept DEF ServiceTerminal
<1>4. CASE UninstallServicer(s)
  <2>1. ServiceTypeOK'
    BY <1>4 DEF UninstallServicer, ServiceTypeOK
  <2>2. Fits(chUninstallServicer', Servicers, MaxServicerCache)
    <3>1. Fits(Offer(chUninstallServicer, MaxServicerCache, s), Servicers, MaxServicerCache)
      BY Capacities, OfferFits DEF ServiceChanTypeOK
    <3>2. chUninstallServicer' \in {chUninstallServicer, Offer(chUninstallServicer, MaxServicerCache, s)}
      BY <1>4 DEF UninstallServicer, Offer
    <3> QED  BY <3>1, <3>2 DEF ServiceChanTypeOK
  <2>3. ServiceChanTypeOK'
    BY <1>4, <2>2 DEF UninstallServicer, ServiceChanTypeOK, talkChans
  <2> QED  BY <1>4, <2>1, <2>3, TypeKept DEF UninstallServicer
<1> QED  BY <1>1, <1>2, <1>3, <1>4 DEF ServiceStep

\* The count of requests stays within its bound.
LEMMA CountTyped ==
  ASSUME ServiceTypeOK, NEW s \in Servicers, NEW kind, CountServiceRequest(s, kind)
  PROVE  /\ serviceRequests' \in [Servicers -> Nat]
         /\ \A r \in Servicers : serviceRequests'[r] <= ServiceRequests[r]
<1>1. /\ serviceRequests' = [serviceRequests EXCEPT ![s] = @ + 1]
      /\ serviceRequests[s] < ServiceRequests[s]
      /\ serviceRequests \in [Servicers -> Nat]
      /\ \A r \in Servicers : /\ serviceRequests[r] <= ServiceRequests[r]
                              /\ ServiceRequests[r] \in Nat
  BY ServicerAssumption DEF CountServiceRequest, ServiceTypeOK
<1>2. serviceRequests[s] + 1 \in Nat /\ serviceRequests[s] + 1 <= ServiceRequests[s]
  BY <1>1
<1> QED  BY <1>1, <1>2

\* A message is one of the senders' messages.
LEMMA ServicersSend ==
  ASSUME NEW s \in Servicers, NEW n \in Nat
  PROVE  <<s, n>> \in Message
BY ServicerAssumption DEF Message

\* The receiver.
LEMMA ServiceReceiverTyped ==
  ASSUME TypeOK, Pipeline, NEW s \in Servicers, ServiceReceiverStep(s)
  PROVE  TypeOK'
<1> USE DEF TypeOK
<1>1. ASSUME NEW kind \in {"attachedTalks", "pendingTalks"}, ReceiveQuery(s, kind)
      PROVE  TypeOK'
  <2>1. ServiceTypeOK'
    BY <1>1, CountTyped DEF ReceiveQuery, ServiceTypeOK
  <2>2. ServiceMainTypeOK'
    <3>1. Do(kind, s) \in Operation
      BY <1>1 DEF Do, Operation
    <3>2. <<Do(kind, s)>> \in Seq(Operation)
      BY <3>1
    <3> QED  BY <1>1, <3>2 DEF ReceiveQuery, ServiceMainTypeOK
  <2> QED  BY <1>1, <2>1, <2>2, TypeKept DEF ReceiveQuery
<1>2. ASSUME NEW t \in Talks, ReceiveForTalk(s, t)
      PROVE  TypeOK'
  <2>1. ServiceTypeOK'
    <3>1. PICK kind : CountServiceRequest(s, kind)
      BY <1>2 DEF ReceiveForTalk
    <3> QED  BY <1>2, <3>1, CountTyped DEF ReceiveForTalk, ServiceTypeOK
  <2>2. <<s, t>> \in Servicers \X Talks
    OBVIOUS
  <2>3. /\ Fits(chServicerAttachTalk', Servicers \X Talks, MaxServicerCache)
        /\ Fits(chServicerDetachTalk', Servicers \X Talks, MaxServicerCache)
        /\ Fits(chServicerReloadTalk', Servicers \X Talks, MaxServicerCache)
    <3> HIDE DEF Offer
    <3> QED  BY <1>2, <2>2, Capacities, OfferFits DEF ReceiveForTalk, ServiceChanTypeOK
  <2>4. ServiceChanTypeOK'
    BY <1>2, <2>3 DEF ReceiveForTalk, ServiceChanTypeOK
  <2> QED  BY <1>2, <2>1, <2>4, TypeKept DEF ReceiveForTalk
<1>3. ASSUME NEW t \in Talks, ReceiveServiceMessage(s, t)
      PROVE  TypeOK'
  <2>1. StoreTypeOK'
    <3>1. <<s, serviceRequests[s] + 1>> \in Message
      BY ServicersSend DEF ServiceTypeOK
    <3>2. AddTalkMessage(t, <<s, serviceRequests[s] + 1>>)
      BY <1>3 DEF ReceiveServiceMessage
    <3>3. \A m \in Message : AddTalkMessage(t, m) => StoreTypeOK'
      BY AddTyped
    <3> QED  BY <3>1, <3>2, <3>3
  <2>2. ServiceTypeOK'
    BY <1>3, CountTyped DEF ReceiveServiceMessage, CountServiceRequest, ServiceTypeOK
  <2> QED  BY <1>3, <2>1, <2>2, TypeKept DEF ReceiveServiceMessage
<1>4. ASSUME NEW t \in Talks, ReceiveServiceMessageFails(s, t)
      PROVE  TypeOK'
  <2>1. ServiceTypeOK'
    BY <1>4, CountTyped DEF ReceiveServiceMessageFails, CountServiceRequest, ServiceTypeOK
  <2> QED  BY <1>4, <2>1, TypeKept DEF ReceiveServiceMessageFails
<1>5. CASE ServicerMessageIncoming(s)
  <2> DEFINE m == <<s, serviceRequests[s]>>
             t == serviceTalk[s]
  <2>1. /\ m \in Stored(t) /\ t \in Talks
        /\ <<m, t>> \in (Servicers \X Nat) \X Talks /\ MessageCall(t, m) \in Call
    <3>1. m \in Stored(t) /\ m \in Servicers \X Nat
      BY <1>5 DEF ServicerMessageIncoming, Pipeline, PersistedIsStored, ServiceTypeOK
    <3>2. t \in Talks
      BY <3>1, StoredHasTalk
    <3>3. m \in Message
      BY ServicersSend DEF ServiceTypeOK
    <3> QED  BY <3>1, <3>2, <3>3 DEF MessageCall, Call
  <2>2. /\ chServicerMessage' = Offer(chServicerMessage, MaxServiceMessages, <<m, t>>)
        /\ unheard' \subseteq unheard \cup {MessageCall(t, m)}
    BY <1>5 DEF ServicerMessageIncoming
  <2> HIDE DEF m, t
  <2>3. Fits(chServicerMessage', (Servicers \X Nat) \X Talks, MaxServiceMessages)
    BY <2>1, <2>2, Capacities, OfferFits DEF ServiceChanTypeOK
  <2>4. ServiceChanTypeOK'
    BY <1>5, <2>3 DEF ServicerMessageIncoming, ServiceChanTypeOK, talkChans
  <2>5. OutsideTypeOK'
    BY <1>5, <2>1, <2>2 DEF ServicerMessageIncoming, OutsideTypeOK, outsideVars, restOfLoss
  <2>6. ServiceTypeOK'
    BY <1>5 DEF ServicerMessageIncoming, ServiceTypeOK
  <2> QED  BY <1>5, <2>4, <2>5, <2>6, TypeKept DEF ServicerMessageIncoming
<1>6. CASE ServiceReceiveFails(s)
  <2>1. ServiceTypeOK'
    BY <1>6 DEF ServiceReceiveFails, ServiceTypeOK
  <2> QED  BY <1>6, <2>1, TypeKept DEF ServiceReceiveFails
<1> QED  BY <1>1, <1>2, <1>3, <1>4, <1>5, <1>6 DEF ServiceReceiverStep

\* Within the token of a stream there is a talk, and whom it belongs to.
LEMMA InViewExists ==
  ASSUME StoreTypeOK, NEW s, NEW t, InView(s, t)
  PROVE  t \in DOMAIN talks /\ t \in Talks
BY DEF InView, InScope, StoreTypeOK

\* A short list of operations is a list of operations.
LEMMA TodoTyped ==
  /\ <<>> \in Seq(Operation)
  /\ \A op \in Operation : <<op>> \in Seq(Operation)
  /\ \A o, p \in Operation : <<o, p>> \in Seq(Operation)
OBVIOUS

\* The operations that the cases leave to be done.
LEMMA OperationsTyped ==
  /\ \A s \in Servicers : Do("finishInstall", s) \in Operation
  /\ \A call \in Call : /\ Tell("tellCustomers", call) \in Operation
                        /\ Tell("tellServicers", call) \in Operation
  /\ \A t \in Talks : [op |-> "detached", talk |-> t] \in Operation
  /\ \A t \in Talks, user \in Users :
       [op |-> "reloadUser", talk |-> t, user |-> user] \in Operation
BY DEF Do, Tell, Operation

\* The calls that are made.
LEMMA CallsTyped ==
  /\ \A t \in Talks, m \in Message : MessageCall(t, m) \in Call
  /\ \A t \in Talks, event \in {"create", "close"} : TalkCall(event, t) \in Call
  /\ \A t \in Talks, user \in Users : AttachCall(t, user) \in Call
  /\ \A t \in Talks, word \in Word : DetachCall(t, word) \in Call
BY DEF MessageCall, TalkCall, AttachCall, DetachCall, Call

\* What a list lacks are messages of talks.
LEMMA NotSentTyped ==
  ASSUME StoreTypeOK, NEW s \in Servicers, NEW read
  PROVE  NotSent(s, read) \subseteq Servicers \X (Talks \X Message)
<1>1. Mine(s) \subseteq DOMAIN talks
  BY DEF Mine, GetServicerTalkInfos
<1>2. AllContents(Mine(s) \ read) \subseteq Talks \X Message
  BY <1>1, WordsTyped DEF AllContents
<1> QED  BY <1>2 DEF NotSent

\* The installation and the uninstallation of a stream.
LEMMA HandleStreamTyped ==
  ASSUME TypeOK, HandleInstallServicer \/ HandleUninstallServicer
  PROVE  TypeOK'
<1> USE DEF TypeOK
<1>1. CASE HandleInstallServicer
  <2> DEFINE s == Head(chInstallServicer)
  <2>1. /\ s \in Servicers
        /\ Fits(Tail(chInstallServicer), Servicers, MaxServicerCache)
    BY <1>1, Capacities, ReceiveFits DEF HandleInstallServicer, ServiceChanTypeOK
  <2>2. ServiceChanTypeOK'
    BY <1>1, <2>1 DEF HandleInstallServicer, ServiceChanTypeOK, talkChans
  <2>3. ServiceOutTypeOK'
    <3>1. CASE \E read \in Readings(s) : SendTo({s}, AttachedTalks(s, read))
      BY <1>1, <2>1, <3>1, AnswersTyped, SendToTyped DEF HandleInstallServicer
    <3>2. CASE UNCHANGED chServiceSend
      BY <1>1, <3>2, TypeKept DEF HandleInstallServicer, serviceOut
    <3> QED  BY <1>1, <3>1, <3>2 DEF HandleInstallServicer
  <2>4. ServiceMainTypeOK'
    BY <1>1, <2>1, OperationsTyped, TodoTyped DEF HandleInstallServicer, ServiceMainTypeOK
  <2>5. OutsideTypeOK'
    <3>1. \A read : NotSent(s, read) \subseteq Servicers \X (Talks \X Message)
      BY <2>1, NotSentTyped
    <3>2. PICK read : unlisted' = unlisted \cup NotSent(s, read)
      BY <1>1 DEF HandleInstallServicer
    <3> QED  BY <1>1, <2>1, <3>1, <3>2 DEF HandleInstallServicer, OutsideTypeOK, outsideVars
  <2> QED  BY <1>1, <2>2, <2>3, <2>4, <2>5, TypeKept DEF HandleInstallServicer
<1>2. CASE HandleUninstallServicer
  <2> DEFINE s == Head(chUninstallServicer)
  <2>1. /\ s \in Servicers /\ UserOf[s] \in Users
        /\ Fits(Tail(chUninstallServicer), Servicers, MaxServicerCache)
    BY <1>2, Capacities, ReceiveFits, ServicerAssumption
    DEF HandleUninstallServicer, ServiceChanTypeOK
  <2>2. ServiceChanTypeOK'
    BY <1>2, <2>1 DEF HandleUninstallServicer, ServiceChanTypeOK, talkChans
  <2>3. ServiceMainTypeOK'
    BY <1>2, <2>1 DEF HandleUninstallServicer, ServiceMainTypeOK
  <2>4. OutsideTypeOK'
    BY <1>2, <2>1 DEF HandleUninstallServicer, OutsideTypeOK, outsideVars
  <2> QED  BY <1>2, <2>2, <2>3, <2>4, TypeKept DEF HandleUninstallServicer
<1> QED  BY <1>1, <1>2

\* The requests for a talk.
LEMMA HandleTalkTyped ==
  ASSUME TypeOK, HandleAttach \/ HandleDetach \/ HandleReload
  PROVE  TypeOK'
<1> USE DEF TypeOK
<1>1. ASSUME NEW ch, Fits(ch, Servicers \X Talks, MaxServicerCache), ch # <<>>
      PROVE  /\ Fits(Tail(ch), Servicers \X Talks, MaxServicerCache)
             /\ Head(ch)[1] \in Servicers /\ Head(ch)[2] \in Talks
             /\ UserOf[Head(ch)[1]] \in Users
  <2>1. Fits(Tail(ch), Servicers \X Talks, MaxServicerCache) /\ Head(ch) \in Servicers \X Talks
    BY <1>1, Capacities, ReceiveFits
  <2> QED  BY <2>1, ServicerAssumption
<1>2. CASE HandleAttach
  <2> DEFINE s == Head(chServicerAttachTalk)[1]
             t == Head(chServicerAttachTalk)[2]
  <2>1. /\ Fits(Tail(chServicerAttachTalk), Servicers \X Talks, MaxServicerCache)
        /\ s \in Servicers /\ t \in Talks /\ UserOf[s] \in Users
    BY <1>1, <1>2 DEF HandleAttach, ServiceChanTypeOK
  <2>2. ServiceChanTypeOK'
    BY <1>2, <2>1 DEF HandleAttach, ServiceChanTypeOK
  <2>3. StoreTypeOK'
    <3>1. UpdateTalkServiceID(ActsOf[s], BizsOf[s], t, UserOf[s]) \/ UNCHANGED talks
      BY <1>2 DEF HandleAttach
    <3> QED  BY <2>1, <3>1, UpdateTyped, TypeKept
  <2>4. ServiceMainTypeOK'
    <3>1. \/ servicerTodo' = <<Tell("tellServicers", AttachCall(t, UserOf[s]))>>
          \/ UNCHANGED servicerTodo
      BY <1>2 DEF HandleAttach
    <3>2. servicerTodo' \in Seq(Operation)
      BY <2>1, <3>1, CallsTyped, OperationsTyped, TodoTyped DEF ServiceMainTypeOK
    <3> QED  BY <1>2, <3>2 DEF HandleAttach, ServiceMainTypeOK
  <2>5. OutsideTypeOK'
    <3>1. misled' \subseteq misled \cup {t}
      BY <1>2 DEF HandleAttach
    <3>2. UNCHANGED <<outsideVars, unheard, outpaced, unlisted, early>>
      BY <1>2 DEF HandleAttach
    <3> QED  BY <2>1, <3>1, <3>2 DEF OutsideTypeOK, outsideVars
  <2> QED  BY <1>2, <2>2, <2>3, <2>4, <2>5, TypeKept DEF HandleAttach
<1>3. CASE HandleDetach
  <2> DEFINE s == Head(chServicerDetachTalk)[1]
             t == Head(chServicerDetachTalk)[2]
  <2>1. /\ Fits(Tail(chServicerDetachTalk), Servicers \X Talks, MaxServicerCache)
        /\ s \in Servicers /\ t \in Talks /\ UserOf[s] \in Users
    BY <1>1, <1>3 DEF HandleDetach, ServiceChanTypeOK
  <2>2. ServiceChanTypeOK'
    BY <1>3, <2>1 DEF HandleDetach, ServiceChanTypeOK
  <2>3. StoreTypeOK'
    <3>1. UpdateTalkServiceID(ActsOf[s], BizsOf[s], t, NoOne) \/ UNCHANGED talks
      BY <1>3 DEF HandleDetach
    <3> QED  BY <2>1, <3>1, UpdateTyped, TypeKept
  <2>4. ServiceMainTypeOK'
    <3>1. \/ servicerTodo' = <<[op |-> "detached", talk |-> t]>>
          \/ UNCHANGED servicerTodo
      BY <1>3 DEF HandleDetach
    <3>2. servicerTodo' \in Seq(Operation)
      BY <2>1, <3>1, OperationsTyped, TodoTyped DEF ServiceMainTypeOK
    <3> QED  BY <1>3, <3>2 DEF HandleDetach, ServiceMainTypeOK
  <2>5. ServiceOutTypeOK'
    <3>1. SendTo({s}, Respond("notify", {}, {})) \/ UNCHANGED chServiceSend
      BY <1>3 DEF HandleDetach
    <3>2. Respond("notify", {}, {}) \in ServiceResponse
      BY RespondTyped
    <3> QED  BY <1>3, <3>1, <3>2, SendToTyped, TypeKept DEF HandleDetach, serviceOut
  <2>6. OutsideTypeOK'
    <3>1. misled' \subseteq misled \cup {t}
      BY <1>3 DEF HandleDetach
    <3>2. UNCHANGED <<outsideVars, unheard, outpaced, unlisted, early>>
      BY <1>3 DEF HandleDetach
    <3> QED  BY <2>1, <3>1, <3>2 DEF OutsideTypeOK, outsideVars
  <2> QED  BY <1>3, <2>2, <2>3, <2>4, <2>5, <2>6, TypeKept DEF HandleDetach
<1>4. CASE HandleReload
  <2> DEFINE s == Head(chServicerReloadTalk)[1]
             t == Head(chServicerReloadTalk)[2]
  <2>1. Fits(Tail(chServicerReloadTalk), Servicers \X Talks, MaxServicerCache)
    BY <1>1, <1>4 DEF HandleReload, ServiceChanTypeOK
  <2>2. ServiceChanTypeOK'
    BY <1>4, <2>1 DEF HandleReload, ServiceChanTypeOK
  <2>3. ServiceOutTypeOK'
    <3>1. CASE t \in DOMAIN talks /\ SendTo({s}, Reload(t))
      BY <1>4, <3>1, AnswersTyped, SendToTyped DEF HandleReload
    <3>2. CASE UNCHANGED chServiceSend
      BY <1>4, <3>2, TypeKept DEF HandleReload, serviceOut
    <3> QED  BY <1>4, <3>1, <3>2 DEF HandleReload
  <2> QED  BY <1>4, <2>2, <2>3, TypeKept DEF HandleReload
<1> QED  BY <1>2, <1>3, <1>4

\* The message of a servicer.
LEMMA HandleServiceMessageTyped ==
  ASSUME TypeOK, HandleServiceMessage
  PROVE  TypeOK'
<1> USE DEF TypeOK
<1> DEFINE m == Head(chServicerMessage)[1]
           t == Head(chServicerMessage)[2]
           s == m[1]
           call == MessageCall(t, m)
<1>1. /\ Fits(Tail(chServicerMessage), (Servicers \X Nat) \X Talks, MaxServiceMessages)
      /\ m \in Servicers \X Nat /\ t \in Talks
  <2>1. /\ Fits(Tail(chServicerMessage), (Servicers \X Nat) \X Talks, MaxServiceMessages)
        /\ Head(chServicerMessage) \in (Servicers \X Nat) \X Talks
    BY Capacities, ReceiveFits DEF HandleServiceMessage, ServiceChanTypeOK
  <2> QED  BY <2>1
<1>2. s \in Servicers /\ m \in Message /\ call \in Call
  <2>1. m \in Message
    BY <1>1, ServicersSend
  <2> QED  BY <1>1, <2>1, CallsTyped
<1>3. ServiceChanTypeOK'
  BY <1>1 DEF HandleServiceMessage, ServiceChanTypeOK, talkChans
<1>4. CASE SendOrDismiss({s}, Respond("messageConfirmed", {}, {<<t, m>>}))
  <2>1. Respond("messageConfirmed", {}, {<<t, m>>}) \in ServiceResponse
    BY <1>1, <1>2, RespondTyped
  <2>2. /\ ServiceOutTypeOK'
        /\ servicers' \in [Users -> SUBSET Servicers] /\ dismissed' \subseteq Servicers
    BY <1>2, <1>4, <2>1, SendOrDismissTyped DEF HandleServiceMessage
  <2>3. \/ servicerTodo' = <<Tell("tellCustomers", call), Tell("tellServicers", call)>>
        \/ UNCHANGED servicerTodo
    BY DEF HandleServiceMessage, serviceMain
  <2>4. servicerTodo' \in Seq(Operation)
    <3> HIDE DEF call
    <3> QED  BY <1>2, <2>3, OperationsTyped, TodoTyped DEF ServiceMainTypeOK
  <2>5. ServiceMainTypeOK'
    BY <2>2, <2>4 DEF ServiceMainTypeOK
  <2>6. OutsideTypeOK'
    BY <1>2 DEF HandleServiceMessage, OutsideTypeOK, outsideVars, restOfLoss
  <2> QED  BY <1>3, <2>2, <2>5, <2>6, TypeKept DEF HandleServiceMessage
<1>5. CASE UNCHANGED <<chServiceSend, serviceMain>>
  <2>1. OutsideTypeOK'
    BY <1>2 DEF HandleServiceMessage, OutsideTypeOK, outsideVars, restOfLoss
  <2> QED  BY <1>3, <1>5, <2>1, TypeKept DEF HandleServiceMessage, serviceOut
<1> QED  BY <1>4, <1>5 DEF HandleServiceMessage

\* The closures, when a send is made of them.
LEMMA RunTyped ==
  ASSUME TypeOK, Pipeline, RunPostedCall
  PROVE  TypeOK'
<1> USE DEF TypeOK
<1> DEFINE call == Head(servicerRunner)
<1>1. /\ Fits(Tail(servicerRunner), Call, MaxServiceMessages)
      /\ call \in Call /\ CallStored(call)
  <2>1. call \in ToSet(servicerRunner) /\ call \in Call
        /\ Fits(Tail(servicerRunner), Call, MaxServiceMessages)
    BY Capacities, ReceiveFits DEF RunPostedCall, ServiceChanTypeOK
  <2> QED  BY <2>1 DEF Pipeline, CallsStored
<1>2. call.talk \in DOMAIN talks /\ call.talk \in Talks
  BY <1>1 DEF CallStored, StoreTypeOK
<1>3. ServiceChanTypeOK'
  BY <1>1 DEF RunPostedCall, ServiceChanTypeOK, serviceChans, talkChans
<1>4. ASSUME NEW S \in SUBSET Servicers, NEW resp \in ServiceResponse,
             SendOrDismiss(S, resp), servicerTodo' \in Seq(Operation), UNCHANGED unheard
      PROVE  TypeOK'
  <2>1. /\ ServiceOutTypeOK'
        /\ servicers' \in [Users -> SUBSET Servicers] /\ dismissed' \subseteq Servicers
    BY <1>4, SendOrDismissTyped DEF RunPostedCall
  <2>2. ServiceMainTypeOK'
    BY <1>4, <2>1 DEF ServiceMainTypeOK
  <2>3. OutsideTypeOK'
    BY <1>4, TypeKept DEF RunPostedCall, lossVars
  <2> QED  BY <1>3, <2>1, <2>2, <2>3, TypeKept DEF RunPostedCall
<1>5. AllFor(call.talk) \in SUBSET Servicers
  BY DEF AllFor, Registered, ServiceMainTypeOK
<1>6. \A user \in Users \cup {NoOne, "untold"} : {WordOf(call.talk, user)} \subseteq Word
  BY <1>2, WordsTyped
<1>7. CASE call.event = "message" /\ RunMessage(call) /\ UNCHANGED unheard
  <2> DEFINE user == talks[call.talk].service
             S == IF user = NoOne THEN {} ELSE servicers[user]
             resp == Respond("message", {}, {<<call.talk, call.message>>})
  <2>1. user \in Users \cup {NoOne}
    BY <1>2 DEF StoreTypeOK, TalkInfo
  <2>2. S \in SUBSET Servicers
    BY <2>1 DEF ServiceMainTypeOK
  <2>3. call.message \in Message
    BY <1>1, <1>7 DEF Call
  <2>4. resp \in ServiceResponse
    BY <1>2, <2>3, RespondTyped
  <2>5. SendOrDismiss(S, resp) /\ servicerTodo' \in Seq(Operation)
    BY <1>7 DEF RunMessage, ServiceMainTypeOK
  <2> HIDE DEF S, resp
  <2> QED  BY <1>4, <1>7, <2>2, <2>4, <2>5
<1>8. CASE call.event = "create" /\ RunCreate(call) /\ UNCHANGED unheard
  <2> DEFINE resp == Respond("detach", {WordOf(call.talk, "untold")}, {})
  <2>1. resp \in ServiceResponse
    BY <1>6, RespondTyped
  <2>2. SendOrDismiss(AllFor(call.talk), resp) /\ servicerTodo' \in Seq(Operation)
    BY <1>8 DEF RunCreate, ServiceMainTypeOK
  <2> HIDE DEF resp
  <2> QED  BY <1>4, <1>5, <1>8, <2>1, <2>2
<1>9. CASE call.event = "close" /\ RunClose(call) /\ UNCHANGED unheard
  <2> DEFINE resp == Respond("close", {CloseWord(call.talk)}, {})
  <2>1. CloseWord(call.talk) \in Word
    BY <1>2 DEF CloseWord, Word
  <2>2. resp \in ServiceResponse
    BY <2>1, RespondTyped
  <2>3. SendOrDismiss(AllFor(call.talk), resp) /\ servicerTodo' \in Seq(Operation)
    BY <1>9 DEF RunClose, ServiceMainTypeOK
  <2> HIDE DEF resp
  <2> QED  BY <1>4, <1>5, <1>9, <2>2, <2>3
<1>10. CASE call.event = "attach" /\ RunAttach(call) /\ UNCHANGED unheard
  <2> DEFINE resp == Respond("attach", {WordOf(call.talk, call.user)}, {})
             op == [op |-> "reloadUser", talk |-> call.talk, user |-> call.user]
  <2>1. call.user \in Users
    BY <1>1, <1>10 DEF Call
  <2>2. resp \in ServiceResponse
    BY <1>6, <2>1, RespondTyped
  <2>3. op \in Operation
    BY <1>2, <2>1, OperationsTyped
  <2>4. SendOrDismiss(AllFor(call.talk), resp) /\ servicerTodo' = <<op>>
    BY <1>10 DEF RunAttach
  <2> HIDE DEF resp, op
  <2>5. servicerTodo' \in Seq(Operation)
    BY <2>3, <2>4, TodoTyped
  <2> QED  BY <1>4, <1>5, <1>10, <2>2, <2>4, <2>5
<1>11. CASE call.event = "detach" /\ RunDetach(call) /\ UNCHANGED unheard
  <2> DEFINE resp == Respond("detach", {call.word}, {})
  <2>1. call.word \in Word
    BY <1>1, <1>11 DEF Call
  <2>2. resp \in ServiceResponse
    BY <2>1, RespondTyped
  <2>3. SendOrDismiss(AllFor(call.talk), resp) /\ servicerTodo' \in Seq(Operation)
    BY <1>11 DEF RunDetach, ServiceMainTypeOK
  <2> HIDE DEF resp
  <2> QED  BY <1>4, <1>5, <1>11, <2>2, <2>3
<1>12. CASE /\ unheard' = unheard \cup {call}
            /\ UNCHANGED <<chServiceSend, serviceMain>>
  <2>1. OutsideTypeOK'
    BY <1>1, <1>12 DEF RunPostedCall, OutsideTypeOK, outsideVars, restOfLoss
  <2> QED  BY <1>3, <1>12, <2>1, TypeKept DEF RunPostedCall, serviceOut
<1> QED  BY <1>7, <1>8, <1>9, <1>10, <1>11, <1>12 DEF RunPostedCall, RunCall

\* The next operation of a case is an operation, and so are those after it.
LEMMA NextTyped ==
  ASSUME TypeOK, NEW op, NextOperation(op, <<>>)
  PROVE  /\ Head(servicerTodo) \in Operation /\ Head(servicerTodo).op = op
         /\ Head(servicerTodo) \in ToSet(servicerTodo)
         /\ servicerTodo' = Tail(servicerTodo) /\ servicerTodo' \in Seq(Operation)
         /\ ToSet(servicerTodo) = {Head(servicerTodo)} \cup ToSet(servicerTodo')
<1>1. /\ servicerTodo \in Seq(Operation) /\ servicerTodo # <<>>
      /\ servicerTodo' = <<>> \o Tail(servicerTodo)
      /\ Head(servicerTodo).op = op
  BY DEF NextOperation, TypeOK, ServiceMainTypeOK
<1>2. /\ Head(servicerTodo) \in Operation /\ Tail(servicerTodo) \in Seq(Operation)
      /\ Head(servicerTodo) \in ToSet(servicerTodo)
  BY <1>1, HeadTailToSet
<1>3. servicerTodo' = Tail(servicerTodo)
  BY <1>1, <1>2
<1>4. ToSet(servicerTodo) = {Head(servicerTodo)} \cup ToSet(Tail(servicerTodo))
  BY <1>1, HeadOrTail
<1> QED  BY <1>1, <1>2, <1>3, <1>4

\* What an operation holds, by its kind.
LEMMA OperationParts ==
  ASSUME NEW o \in Operation
  PROVE  /\ o.op \in {"attachedTalks", "pendingTalks", "finishInstall"} =>
              o.stream \in Servicers
         /\ o.op = "reloadUser" => o.talk \in Talks /\ o.user \in Users
         /\ o.op = "detached" => o.talk \in Talks
         /\ o.op \in {"tellCustomers", "tellServicers"} => o.call \in Call
BY DEF Operation

\* The answers to a stream.
LEMMA AnswerTyped ==
  ASSUME TypeOK, AnswerAttachedTalks \/ AnswerPendingTalks \/ FinishInstall
  PROVE  TypeOK'
<1> USE DEF TypeOK
<1> DEFINE s == Head(servicerTodo).stream
<1>1. s \in Servicers /\ UserOf[s] \in Users /\ servicerTodo' \in Seq(Operation)
  <2>1. PICK op \in {"attachedTalks", "pendingTalks", "finishInstall"} :
          NextOperation(op, <<>>)
    BY DEF AnswerAttachedTalks, AnswerPendingTalks, FinishInstall
  <2>2. /\ Head(servicerTodo) \in Operation /\ Head(servicerTodo).op = op
        /\ servicerTodo' \in Seq(Operation)
    BY <2>1, NextTyped
  <2> QED  BY <2>2, OperationParts, ServicerAssumption
<1>2. ServiceOutTypeOK'
  <2>1. \/ \E read \in Readings(s) : SendTo({s}, AttachedTalks(s, read))
        \/ SendTo({s}, PendingTalks(s))
        \/ UNCHANGED chServiceSend
    BY DEF AnswerAttachedTalks, AnswerPendingTalks, FinishInstall
  <2>2. UNCHANGED serviceInbox
    BY DEF AnswerAttachedTalks, AnswerPendingTalks, FinishInstall
  <2> HIDE DEF s
  <2> QED  BY <1>1, <2>1, <2>2, AnswersTyped, SendToTyped, TypeKept DEF serviceOut
<1>3. ServiceMainTypeOK'
  BY <1>1 DEF AnswerAttachedTalks, AnswerPendingTalks, FinishInstall, ServiceMainTypeOK
<1>4. UNCHANGED <<talks, serviceVars, serviceChans, servicerRunner, outsideVars, lossVars>>
  BY DEF AnswerAttachedTalks, AnswerPendingTalks, FinishInstall
<1> QED  BY <1>2, <1>3, <1>4, TypeKept

\* The reload that follows an attach.
LEMMA ReloadTyped ==
  ASSUME TypeOK, Pipeline, ReloadUser
  PROVE  TypeOK'
<1> USE DEF TypeOK
<1> DEFINE o == Head(servicerTodo)
<1>1. /\ o.talk \in DOMAIN talks /\ o.talk \in Talks /\ o.user \in Users
      /\ servicerTodo' \in Seq(Operation)
  <2>1. o \in Operation /\ o.op = "reloadUser" /\ o \in ToSet(servicerTodo)
        /\ servicerTodo' \in Seq(Operation)
    BY NextTyped DEF ReloadUser
  <2> QED  BY <2>1, OperationParts DEF Pipeline, TodoStored
<1>2. CASE SendOrDismiss(servicers[o.user], Reload(o.talk)) /\ UNCHANGED unheard
  <2>1. servicers[o.user] \in SUBSET Servicers /\ Reload(o.talk) \in ServiceResponse
    BY <1>1, AnswersTyped DEF ServiceMainTypeOK
  <2>2. /\ ServiceOutTypeOK'
        /\ servicers' \in [Users -> SUBSET Servicers] /\ dismissed' \subseteq Servicers
    BY <1>2, <2>1, SendOrDismissTyped DEF ReloadUser
  <2>3. ServiceMainTypeOK'
    BY <1>1, <2>2 DEF ServiceMainTypeOK
  <2> QED  BY <1>2, <2>2, <2>3, TypeKept DEF ReloadUser, lossVars
<1>3. CASE /\ unheard' = unheard \cup {AttachCall(o.talk, o.user)}
           /\ UNCHANGED <<chServiceSend, servicers, dismissed>>
  <2>1. AttachCall(o.talk, o.user) \in Call
    BY <1>1, CallsTyped
  <2>2. OutsideTypeOK'
    BY <1>3, <2>1 DEF ReloadUser, OutsideTypeOK, outsideVars, restOfLoss
  <2>3. ServiceMainTypeOK'
    BY <1>1, <1>3 DEF ServiceMainTypeOK
  <2> QED  BY <1>3, <2>2, <2>3, TypeKept DEF ReloadUser, serviceOut
<1> QED  BY <1>2, <1>3 DEF ReloadUser

\* The calls of the observers, and a dismissal.
LEMMA TellTyped ==
  ASSUME TypeOK, Pipeline,
         \/ ReadDetached \/ TellServicers \/ TellCustomers
         \/ \E s \in Servicers : Dismiss(s)
  PROVE  TypeOK'
<1> USE DEF TypeOK
<1>1. CASE ReadDetached
  <2> DEFINE o == Head(servicerTodo)
             more == <<Tell("tellServicers", DetachCall(o.talk, WordOf(o.talk, NoOne)))>>
  <2>1. /\ servicerTodo \in Seq(Operation) /\ servicerTodo # <<>> /\ o.op = "detached"
        /\ servicerTodo' = more \o Tail(servicerTodo) \/ servicerTodo' = <<>> \o Tail(servicerTodo)
    BY <1>1 DEF ReadDetached, NextOperation, ServiceMainTypeOK
  <2>2. o \in ToSet(servicerTodo) /\ Tail(servicerTodo) \in Seq(Operation)
    BY <2>1, HeadTailToSet
  <2>3. o.talk \in DOMAIN talks
    BY <2>1, <2>2 DEF Pipeline, TodoStored
  <2>4. DetachCall(o.talk, WordOf(o.talk, NoOne)) \in Call
    BY <2>3, WordsTyped, CallsTyped
  <2>5. more \in Seq(Operation)
    BY <2>4, OperationsTyped, TodoTyped
  <2>6. servicerTodo' \in Seq(Operation)
    <3> HIDE DEF more
    <3>1. \A u, v \in Seq(Operation) : u \o v \in Seq(Operation)
      OBVIOUS
    <3> QED  BY <2>1, <2>2, <2>5, <3>1, TodoTyped
  <2>7. ServiceMainTypeOK'
    BY <1>1, <2>6 DEF ReadDetached, ServiceMainTypeOK
  <2>8. OutsideTypeOK'
    <3>1. unheard' \subseteq unheard \cup {DetachCall(o.talk, WordOf(o.talk, NoOne))}
      BY <1>1 DEF ReadDetached
    <3>2. UNCHANGED <<outsideVars, restOfLoss>>
      BY <1>1 DEF ReadDetached
    <3> QED  BY <2>4, <3>1, <3>2 DEF OutsideTypeOK, outsideVars, restOfLoss
  <2> QED  BY <1>1, <2>7, <2>8, TypeKept DEF ReadDetached
<1>2. CASE TellServicers
  <2> DEFINE o == Head(servicerTodo)
  <2>1. o.call \in Call /\ servicerTodo' \in Seq(Operation)
    BY <1>2, NextTyped, OperationParts DEF TellServicers
  <2>2. ServiceChanTypeOK' /\ OutsideTypeOK'
    BY <1>2, <2>1, PostTyped DEF TellServicers, outsideVars
  <2>3. ServiceMainTypeOK'
    BY <1>2, <2>1 DEF TellServicers, ServiceMainTypeOK
  <2> QED  BY <1>2, <2>2, <2>3, TypeKept DEF TellServicers
<1>3. CASE TellCustomers
  <2>1. servicerTodo' \in Seq(Operation)
    BY <1>3, NextTyped DEF TellCustomers
  <2>2. ServiceMainTypeOK'
    BY <1>3, <2>1 DEF TellCustomers, ServiceMainTypeOK
  <2> QED  BY <1>3, <2>2, TypeKept DEF TellCustomers
<1>4. ASSUME NEW s \in Servicers, Dismiss(s)
      PROVE  TypeOK'
  <2>1. Respond("kickOut", {}, {}) \in ServiceResponse
    BY RespondTyped
  <2>2. ServiceOutTypeOK'
    BY <1>4, <2>1, SendToTyped DEF Dismiss
  <2>3. ServiceMainTypeOK'
    BY <1>4 DEF Dismiss, ServiceMainTypeOK
  <2> QED  BY <1>4, <2>2, <2>3, TypeKept DEF Dismiss
<1> QED  BY <1>1, <1>2, <1>3, <1>4

\* The customers' half: what it does to the store, and its calls.
LEMMA CustomersTyped ==
  ASSUME TypeOK, CustomerStep \/ CallStep
  PROVE  TypeOK'
<1> USE DEF TypeOK
<1>1. ASSUME NEW t \in Talks, NEW act \in Acts, NEW biz \in Bizs,
             CustomerCreates(t, act, biz), CustomerStep
      PROVE  TypeOK'
  <2>1. StoreTypeOK'
    BY <1>1, CreateTyped DEF CustomerCreates
  <2>2. OutsideTypeOK'
    BY <1>1, CallsTyped DEF CustomerCreates, CustomerStep, OutsideTypeOK, lossVars, restOfLoss
  <2> QED  BY <1>1, <2>1, <2>2, TypeKept DEF CustomerStep
<1>2. ASSUME NEW w \in Writers, NEW t \in Talks, CustomerWrites(w, t), CustomerStep
      PROVE  TypeOK'
  <2>1. PICK n \in (written[w] + 1)..MaxWrites :
          /\ AddTalkMessage(t, <<w, n>>)
          /\ arriving' = arriving \cup {MessageCall(t, <<w, n>>)}
          /\ written' = [written EXCEPT ![w] = n]
    BY <1>2 DEF CustomerWrites
  <2>2. n \in 0..MaxWrites /\ n \in Nat
    BY ServicerAssumption DEF OutsideTypeOK
  <2>3. <<w, n>> \in Message
    BY <2>2, ServicerAssumption DEF Message
  <2>4. StoreTypeOK'
    BY <2>1, <2>3, AddTyped
  <2>5. OutsideTypeOK'
    BY <1>2, <2>1, <2>2, <2>3, CallsTyped
    DEF CustomerWrites, CustomerStep, OutsideTypeOK, lossVars, restOfLoss
  <2> QED  BY <1>2, <2>4, <2>5, TypeKept DEF CustomerStep
<1>3. ASSUME NEW t \in Talks, CustomerCloses(t) \/ CustomerReopens(t), CustomerStep
      PROVE  TypeOK'
  <2>1. StoreTypeOK'
    BY <1>3, StatusTyped DEF CustomerCloses, CustomerReopens
  <2>2. OutsideTypeOK'
    BY <1>3, CallsTyped
    DEF CustomerCloses, CustomerReopens, CustomerStep, OutsideTypeOK, lossVars, restOfLoss
  <2> QED  BY <1>3, <2>1, <2>2, TypeKept DEF CustomerStep
<1>4. CASE CustomerStep
  BY <1>1, <1>2, <1>3, <1>4 DEF CustomerStep
<1>5. ASSUME NEW call \in arriving, Arrive(call)
      PROVE  TypeOK'
  <2>1. call \in Call
    BY DEF OutsideTypeOK
  <2>2. ServiceChanTypeOK' /\ OutsideTypeOK'
    BY <1>5, <2>1, PostTyped DEF Arrive
  <2> QED  BY <1>5, <2>2, TypeKept DEF Arrive
<1>6. ASSUME NEW call \in arriving, Lose(call)
      PROVE  TypeOK'
  <2>1. OutsideTypeOK'
    BY <1>6 DEF Lose, OutsideTypeOK, restOfLoss
  <2> QED  BY <1>6, <2>1, TypeKept DEF Lose
<1> QED  BY <1>4, <1>5, <1>6 DEF CallStep

\* Every step keeps the state well-formed.
LEMMA StepTyped ==
  ASSUME TypeOK, Pipeline, [Next]_serviceSideVars
  PROVE  TypeOK'
<1>1. CASE \E s \in Servicers : ServiceStep(s) \/ ServiceReceiverStep(s)
  BY <1>1, ServiceStepTyped, ServiceReceiverTyped
<1>2. CASE ServicerMainStep
  BY <1>2, HandleStreamTyped, HandleTalkTyped, HandleServiceMessageTyped, RunTyped,
     AnswerTyped, ReloadTyped, TellTyped DEF ServicerMainStep, ServicerMainAlone
<1>3. CASE CustomerStep \/ CallStep
  BY <1>3, CustomersTyped
<1>4. CASE UNCHANGED serviceSideVars
  <2>1. UNCHANGED <<talks, serviceVars, serviceChans, servicerRunner, serviceMain,
                    serviceOut, outsideVars, lossVars>>
    BY <1>4 DEF serviceSideVars, servicerVars
  <2> QED  BY <2>1, TypeKept DEF TypeOK
<1> QED  BY <1>1, <1>2, <1>3, <1>4 DEF Next

-----------------------------------------------------------------------------
(* Pipeline. *)

\* No step takes a message, or a talk, out of the store.
LEMMA StoreOnlyGrows ==
  ASSUME TypeOK, [Next]_serviceSideVars
  PROVE  /\ \A u : Stored(u) \subseteq Stored(u)'
         /\ DOMAIN talks \subseteq DOMAIN talks'
<1> USE DEF TypeOK
<1>1. CASE UNCHANGED talks
  BY <1>1 DEF Stored
<1>2. ASSUME NEW t \in Talks, NEW m \in Message, AddTalkMessage(t, m)
      PROVE  /\ \A u : Stored(u) \subseteq Stored(u)'
             /\ DOMAIN talks \subseteq DOMAIN talks'
  BY <1>2, AddStores
<1>3. ASSUME NEW acts, NEW bizs, NEW act, NEW biz, NEW t, NEW user,
             \/ CreateTalk(t, act, biz) \/ OpenTalk(acts, bizs, t)
             \/ CloseTalk(acts, bizs, t) \/ UpdateTalkServiceID(acts, bizs, t, user)
      PROVE  /\ \A u : Stored(u) \subseteq Stored(u)'
             /\ DOMAIN talks \subseteq DOMAIN talks'
  <2>1. \A u : Stored(u)' = Stored(u)
    BY <1>3, NothingStored
  <2>2. DOMAIN talks \subseteq DOMAIN talks'
    BY <1>3 DEF CreateTalk, OpenTalk, CloseTalk, UpdateTalkServiceID
  <2> QED  BY <2>1, <2>2
<1>4. CASE \E s \in Servicers : ServiceStep(s) \/ ServiceReceiverStep(s)
  <2>1. PICK s \in Servicers : ServiceStep(s) \/ ServiceReceiverStep(s)
    BY <1>4
  <2>2. ASSUME NEW t \in Talks, ReceiveServiceMessage(s, t)
        PROVE  /\ \A u : Stored(u) \subseteq Stored(u)'
               /\ DOMAIN talks \subseteq DOMAIN talks'
    <3>1. <<s, serviceRequests[s] + 1>> \in Message
      BY ServicersSend DEF ServiceTypeOK
    <3> QED  BY <1>2, <2>2, <3>1 DEF ReceiveServiceMessage
  <2>3. CASE ~ \E t \in Talks : ReceiveServiceMessage(s, t)
    <3>1. UNCHANGED talks
      BY <2>1, <2>3 DEF ServiceStep, InstallServicer, ServiceSend, ServiceTerminal,
         UninstallServicer, ServiceReceiverStep, ReceiveQuery, ReceiveForTalk,
         ReceiveServiceMessageFails, ServicerMessageIncoming, ServiceReceiveFails
    <3> QED  BY <1>1, <3>1
  <2> QED  BY <2>2, <2>3
<1>5. CASE HandleAttach \/ HandleDetach
  <2>1. \/ \E acts, bizs, t, user : UpdateTalkServiceID(acts, bizs, t, user)
        \/ UNCHANGED talks
    BY <1>5 DEF HandleAttach, HandleDetach
  <2> QED  BY <1>1, <1>3, <2>1
<1>6. CASE ServicerMainStep /\ ~HandleAttach /\ ~HandleDetach
  <2>1. UNCHANGED talks
    BY <1>6 DEF ServicerMainStep, ServicerMainAlone, HandleInstallServicer,
       HandleUninstallServicer, HandleReload, HandleServiceMessage, RunPostedCall,
       AnswerAttachedTalks, AnswerPendingTalks, FinishInstall, ReloadUser, ReadDetached,
       TellServicers, TellCustomers, Dismiss
  <2> QED  BY <1>1, <2>1
<1>7. CASE CustomerStep
  <2>1. PICK t \in Talks :
          \/ \E act \in Acts, biz \in Bizs : CustomerCreates(t, act, biz)
          \/ \E w \in Writers : CustomerWrites(w, t)
          \/ CustomerCloses(t) \/ CustomerReopens(t)
    BY <1>7 DEF CustomerStep
  <2>2. CASE \E w \in Writers : CustomerWrites(w, t)
    <3>1. PICK w \in Writers : CustomerWrites(w, t)
      BY <2>2
    <3>2. PICK n \in (written[w] + 1)..MaxWrites : AddTalkMessage(t, <<w, n>>)
      BY <3>1 DEF CustomerWrites
    <3>3. <<w, n>> \in Message
      BY ServicerAssumption DEF OutsideTypeOK, Message
    <3> QED  BY <1>2, <3>2, <3>3
  <2>3. CASE ~ \E w \in Writers : CustomerWrites(w, t)
    BY <1>3, <2>1, <2>3 DEF CustomerCreates, CustomerCloses, CustomerReopens
  <2> QED  BY <2>2, <2>3
<1>8. CASE CallStep
  BY <1>1, <1>8 DEF CallStep, Arrive, Lose
<1>9. CASE UNCHANGED serviceSideVars
  BY <1>1, <1>9 DEF serviceSideVars
<1> QED  BY <1>4, <1>5, <1>6, <1>7, <1>8, <1>9 DEF Next

\* What a step does to the store: it forgets nothing.
Grows == /\ \A u : Stored(u) \subseteq Stored(u)'
         /\ DOMAIN talks \subseteq DOMAIN talks'

\* Parts of Pipeline that a step adds nothing to.
LEMMA PipelineKept ==
  ASSUME Pipeline, Grows
  PROVE  /\ UNCHANGED <<serviceReceiver, serviceRequests, serviceTalk>> =>
              PersistedIsStored'
         /\ ToSet(chServicerMessage') \subseteq ToSet(chServicerMessage) =>
              QueuedIsStored'
         /\ arriving' \cup ToSet(servicerRunner') \subseteq
              arriving \cup ToSet(servicerRunner) => CallsStored'
         /\ ToSet(servicerTodo') \subseteq ToSet(servicerTodo) => TodoStored'
         /\ UNCHANGED serviceOut => SentIsStored'
<1> USE DEF Pipeline, Grows
<1>1. UNCHANGED <<serviceReceiver, serviceRequests, serviceTalk>> => PersistedIsStored'
  BY DEF PersistedIsStored
<1>2. ToSet(chServicerMessage') \subseteq ToSet(chServicerMessage) => QueuedIsStored'
  BY DEF QueuedIsStored
<1>3. \A call : CallStored(call) => CallStored(call)'
  BY DEF CallStored
<1>4. arriving' \cup ToSet(servicerRunner') \subseteq arriving \cup ToSet(servicerRunner)
        => CallsStored'
  BY <1>3 DEF CallsStored
<1>5. ToSet(servicerTodo') \subseteq ToSet(servicerTodo) => TodoStored'
  <2>1. \A op : CallStored(op.call) => CallStored(op.call)'
    BY DEF CallStored
  <2> QED  BY <2>1 DEF TodoStored
<1>6. UNCHANGED serviceOut => SentIsStored'
  BY DEF SentIsStored, ResponseStored, serviceOut
<1> QED  BY <1>1, <1>2, <1>4, <1>5, <1>6

\* A response whose contents are stored is sent to some streams.
LEMMA SentKept ==
  ASSUME TypeOK, Pipeline, Grows, UNCHANGED serviceInbox, NEW S, NEW resp,
         SendTo(S, resp), ResponseStored(resp)
  PROVE  SentIsStored'
<1>1. \A s \in Servicers : chServiceSend[s] \in Seq(ServiceResponse)
  BY DEF TypeOK, ServiceOutTypeOK
<1>2. \A s \in Servicers :
        ToSet(Append(chServiceSend[s], resp)) = ToSet(chServiceSend[s]) \cup {resp}
  BY <1>1, AppendToSet
<1>3. \A s \in Servicers : ToSet(chServiceSend'[s]) \subseteq ToSet(chServiceSend[s]) \cup {resp}
  BY <1>2 DEF SendTo
<1>4. \A r : ResponseStored(r) => ResponseStored(r)'
  BY DEF ResponseStored, Grows
<1> QED  BY <1>3, <1>4 DEF Pipeline, SentIsStored

\* What the store holds of a talk is stored; the answers say no more.
LEMMA AnswersStored ==
  /\ \A s, read : ResponseStored(AttachedTalks(s, read))
  /\ \A s : ResponseStored(PendingTalks(s))
  /\ \A t : ResponseStored(Reload(t))
  /\ \A type, words : ResponseStored(Respond(type, words, {}))
  /\ \A type, words, t, m :
       m \in Stored(t) => ResponseStored(Respond(type, words, {<<t, m>>}))
BY DEF ResponseStored, AttachedTalks, AllContents, PendingTalks, Reload, Respond, Contents

\* A post adds its call and no other.
LEMMA PostAdds ==
  ASSUME TypeOK, NEW call \in Call, Post(call)
  PROVE  ToSet(servicerRunner') \subseteq ToSet(servicerRunner) \cup {call}
BY Capacities, OfferFits DEF Post, TypeOK, ServiceChanTypeOK

\* The stream handler.
LEMMA ServiceStepKept ==
  ASSUME TypeOK, Pipeline, Grows, NEW s \in Servicers, ServiceStep(s)
  PROVE  Pipeline'
<1>1. CASE InstallServicer(s)
  <2>1. PersistedIsStored'
    BY <1>1 DEF InstallServicer, Pipeline, PersistedIsStored, Grows, TypeOK, ServiceTypeOK
  <2> QED  BY <1>1, <2>1, PipelineKept DEF InstallServicer, Pipeline, serviceMain, outsideVars
<1>2. CASE ServiceSend(s)
  <2>1. /\ chServiceSend[s] \in Seq(ServiceResponse) /\ chServiceSend[s] # <<>>
        /\ serviceInbox[s] \in Seq(ServiceResponse)
    BY <1>2 DEF ServiceSend, TypeOK, ServiceOutTypeOK
  <2>2. /\ ToSet(Tail(chServiceSend[s])) \subseteq ToSet(chServiceSend[s])
        /\ Head(chServiceSend[s]) \in ToSet(chServiceSend[s])
    BY <2>1, HeadTailToSet
  <2>3. ToSet(Append(serviceInbox[s], Head(chServiceSend[s])))
          = ToSet(serviceInbox[s]) \cup {Head(chServiceSend[s])}
    BY <2>1, AppendToSet
  <2>4. \A r \in Servicers :
          ToSet(serviceInbox'[r]) \cup ToSet(chServiceSend'[r])
            \subseteq ToSet(serviceInbox[r]) \cup ToSet(chServiceSend[r])
    BY <1>2, <2>2, <2>3 DEF ServiceSend, TypeOK, ServiceOutTypeOK
  <2>5. \A r : ResponseStored(r) => ResponseStored(r)'
    BY DEF ResponseStored, Grows
  <2>6. SentIsStored'
    BY <2>4, <2>5 DEF Pipeline, SentIsStored
  <2> QED  BY <1>2, <2>6, PipelineKept
           DEF ServiceSend, Pipeline, serviceChans, serviceMain, outsideVars
<1>3. CASE ServiceTerminal(s) \/ UninstallServicer(s)
  BY <1>3, PipelineKept
  DEF ServiceTerminal, UninstallServicer, Pipeline, serviceChans, serviceMain, outsideVars
<1> QED  BY <1>1, <1>2, <1>3 DEF ServiceStep

\* The receiver.
LEMMA ServiceReceiverKept ==
  ASSUME TypeOK, Pipeline, Grows, NEW s \in Servicers, ServiceReceiverStep(s)
  PROVE  Pipeline'
<1>1. ASSUME NEW kind \in {"attachedTalks", "pendingTalks"}, ReceiveQuery(s, kind)
      PROVE  Pipeline'
  <2>1. PersistedIsStored'
    BY <1>1 DEF ReceiveQuery, CountServiceRequest, Pipeline, PersistedIsStored, Grows,
               TypeOK, ServiceTypeOK
  <2>2. TodoStored'
    <3>1. CASE servicerTodo' = <<Do(kind, s)>>
      <4>1. \A op \in ToSet(servicerTodo') : op = Do(kind, s)
        BY <3>1 DEF ToSet
      <4> QED  BY <1>1, <4>1 DEF TodoStored, Do
    <3>2. CASE UNCHANGED servicerTodo
      BY <3>2, PipelineKept
    <3> QED  BY <1>1, <3>1, <3>2 DEF ReceiveQuery
  <2> QED  BY <1>1, <2>1, <2>2, PipelineKept
           DEF ReceiveQuery, Pipeline, serviceChans, outsideVars
<1>2. ASSUME NEW t \in Talks, ReceiveForTalk(s, t)
      PROVE  Pipeline'
  <2>1. PersistedIsStored'
    BY <1>2 DEF ReceiveForTalk, CountServiceRequest, Pipeline, PersistedIsStored, Grows,
               TypeOK, ServiceTypeOK
  <2> QED  BY <1>2, <2>1, PipelineKept DEF ReceiveForTalk, Pipeline, serviceMain, outsideVars
<1>3. ASSUME NEW t \in Talks, ReceiveServiceMessage(s, t)
      PROVE  Pipeline'
  <2>1. <<s, serviceRequests[s] + 1>> \in Stored(t)'
    <3>1. <<s, serviceRequests[s] + 1>> \in Message
      BY ServicersSend DEF TypeOK, ServiceTypeOK
    <3> QED  BY <1>3, <3>1, AddStores DEF ReceiveServiceMessage, TypeOK
  <2>2. PersistedIsStored'
    <3>1. SUFFICES ASSUME NEW r \in Servicers, serviceReceiver'[r] = "persisted"
                   PROVE  (<<r, serviceRequests[r]>> \in Stored(serviceTalk[r]))'
      BY DEF PersistedIsStored
    <3>2. CASE r = s
      BY <1>3, <2>1, <3>2 DEF ReceiveServiceMessage, CountServiceRequest, TypeOK, ServiceTypeOK
    <3>3. CASE r # s
      <4>1. /\ serviceReceiver[r] = "persisted" /\ serviceTalk'[r] = serviceTalk[r]
            /\ serviceRequests'[r] = serviceRequests[r]
        BY <1>3, <3>1, <3>3
        DEF ReceiveServiceMessage, CountServiceRequest, TypeOK, ServiceTypeOK
      <4> QED  BY <4>1 DEF Pipeline, PersistedIsStored, Grows
    <3> QED  BY <3>2, <3>3
  <2> QED  BY <1>3, <2>2, PipelineKept
           DEF ReceiveServiceMessage, Pipeline, serviceChans, serviceMain, outsideVars
<1>4. CASE \/ \E t \in Talks : ReceiveServiceMessageFails(s, t)
           \/ ServiceReceiveFails(s)
  <2>1. PersistedIsStored'
    BY <1>4 DEF ReceiveServiceMessageFails, ServiceReceiveFails, CountServiceRequest,
               Pipeline, PersistedIsStored, Grows, TypeOK, ServiceTypeOK
  <2> QED  BY <1>4, <2>1, PipelineKept
           DEF ReceiveServiceMessageFails, ServiceReceiveFails, Pipeline, serviceChans,
               serviceMain, outsideVars
<1>5. CASE ServicerMessageIncoming(s)
  <2> DEFINE m == <<s, serviceRequests[s]>>
             t == serviceTalk[s]
  <2>1. m \in Stored(t) /\ <<m, t>> \in (Servicers \X Nat) \X Talks
    <3>1. m \in Stored(t) /\ m \in Servicers \X Nat
      BY <1>5 DEF ServicerMessageIncoming, Pipeline, PersistedIsStored, TypeOK, ServiceTypeOK
    <3>2. t \in Talks
      BY <3>1, StoredHasTalk DEF TypeOK
    <3> QED  BY <3>1, <3>2
  <2>2. chServicerMessage' = Offer(chServicerMessage, MaxServiceMessages, <<m, t>>)
    BY <1>5 DEF ServicerMessageIncoming
  <2>3. ToSet(chServicerMessage') \subseteq ToSet(chServicerMessage) \cup {<<m, t>>}
    <3> HIDE DEF m, t
    <3> QED  BY <2>1, <2>2, Capacities, OfferFits DEF TypeOK, ServiceChanTypeOK
  <2>4. QueuedIsStored'
    BY <2>1, <2>3 DEF Pipeline, QueuedIsStored, Grows
  <2>5. PersistedIsStored'
    BY <1>5 DEF ServicerMessageIncoming, Pipeline, PersistedIsStored, Grows,
               TypeOK, ServiceTypeOK
  <2> QED  BY <1>5, <2>4, <2>5, PipelineKept
           DEF ServicerMessageIncoming, Pipeline, serviceMain, outsideVars
<1> QED  BY <1>1, <1>2, <1>3, <1>4, <1>5 DEF ServiceReceiverStep

\* The cases of the select but the closures.
LEMMA HandleKept ==
  ASSUME TypeOK, Pipeline, Grows,
         \/ HandleInstallServicer \/ HandleUninstallServicer
         \/ HandleAttach \/ HandleDetach \/ HandleReload \/ HandleServiceMessage
  PROVE  Pipeline'
<1>1. CASE HandleInstallServicer
  <2> DEFINE s == Head(chInstallServicer)
  <2>1. SentIsStored'
    <3>1. CASE \E read : SendTo({s}, AttachedTalks(s, read))
      BY <1>1, <3>1, AnswersStored, SentKept DEF HandleInstallServicer
    <3>2. CASE UNCHANGED chServiceSend
      BY <1>1, <3>2, PipelineKept DEF HandleInstallServicer, serviceOut
    <3> QED  BY <1>1, <3>1, <3>2 DEF HandleInstallServicer
  <2>2. TodoStored'
    <3>1. \A op \in ToSet(servicerTodo') : op.op = "finishInstall"
      BY <1>1 DEF HandleInstallServicer, Do, ToSet
    <3> QED  BY <3>1 DEF TodoStored
  <2> QED  BY <1>1, <2>1, <2>2, PipelineKept
           DEF HandleInstallServicer, Pipeline, serviceVars, outsideVars
<1>2. CASE HandleUninstallServicer
  BY <1>2, PipelineKept
  DEF HandleUninstallServicer, Pipeline, serviceVars, outsideVars
<1>3. CASE HandleAttach
  <2> DEFINE s == Head(chServicerAttachTalk)[1]
             t == Head(chServicerAttachTalk)[2]
  <2>1. TodoStored'
    <3>1. CASE UNCHANGED servicerTodo
      BY <3>1, PipelineKept
    <3>2. CASE /\ InView(s, t)
               /\ servicerTodo' = <<Tell("tellServicers", AttachCall(t, UserOf[s]))>>
      <4>1. PICK call : call = AttachCall(t, UserOf[s])
        OBVIOUS
      <4>2. t \in DOMAIN talks /\ call.talk = t /\ call.event = "attach"
        BY <3>2, <4>1, InViewExists DEF TypeOK, AttachCall
      <4>3. CallStored(call)'
        BY <4>2 DEF CallStored, Grows
      <4>4. \A op \in ToSet(servicerTodo') : op.op = "tellServicers" /\ op.call = call
        BY <3>2, <4>1 DEF Tell, ToSet
      <4> QED  BY <4>3, <4>4 DEF TodoStored
    <3> QED  BY <1>3, <3>1, <3>2 DEF HandleAttach
  <2> QED  BY <1>3, <2>1, PipelineKept DEF HandleAttach, Pipeline, serviceVars, outsideVars
<1>4. CASE HandleDetach
  <2> DEFINE s == Head(chServicerDetachTalk)[1]
             t == Head(chServicerDetachTalk)[2]
  <2>1. TodoStored'
    <3>1. CASE UNCHANGED servicerTodo
      BY <3>1, PipelineKept
    <3>2. CASE IsHis(s, t) /\ servicerTodo' = <<[op |-> "detached", talk |-> t]>>
      <4>1. t \in DOMAIN talks'
        BY <3>2, InViewExists DEF IsHis, TypeOK, Grows
      <4>2. \A op \in ToSet(servicerTodo') : op.op = "detached" /\ op.talk = t
        BY <3>2 DEF ToSet
      <4> QED  BY <4>1, <4>2 DEF TodoStored
    <3> QED  BY <1>4, <3>1, <3>2 DEF HandleDetach
  <2>2. SentIsStored'
    <3>1. CASE SendTo({s}, Respond("notify", {}, {}))
      BY <1>4, <3>1, AnswersStored, SentKept DEF HandleDetach
    <3>2. CASE UNCHANGED chServiceSend
      BY <1>4, <3>2, PipelineKept DEF HandleDetach, serviceOut
    <3> QED  BY <1>4, <3>1, <3>2 DEF HandleDetach
  <2> QED  BY <1>4, <2>1, <2>2, PipelineKept
           DEF HandleDetach, Pipeline, serviceVars, outsideVars
<1>5. CASE HandleReload
  <2> DEFINE s == Head(chServicerReloadTalk)[1]
             t == Head(chServicerReloadTalk)[2]
  <2>1. SentIsStored'
    <3>1. CASE SendTo({s}, Reload(t))
      BY <1>5, <3>1, AnswersStored, SentKept DEF HandleReload
    <3>2. CASE UNCHANGED chServiceSend
      BY <1>5, <3>2, PipelineKept DEF HandleReload, serviceOut
    <3> QED  BY <1>5, <3>1, <3>2 DEF HandleReload
  <2> QED  BY <1>5, <2>1, PipelineKept
           DEF HandleReload, Pipeline, serviceVars, serviceMain, outsideVars
<1>6. CASE HandleServiceMessage
  <2> DEFINE q == Head(chServicerMessage)
             m == q[1]
             t == q[2]
             resp == Respond("messageConfirmed", {}, {<<t, m>>})
  <2>0. PICK call : call = MessageCall(t, m)
    OBVIOUS
  <2>1. /\ q \in ToSet(chServicerMessage)
        /\ ToSet(chServicerMessage') \subseteq ToSet(chServicerMessage)
    BY <1>6, Capacities, ReceiveFits DEF HandleServiceMessage, TypeOK, ServiceChanTypeOK
  <2>2. m \in Stored(t) /\ t \in DOMAIN talks
    BY <2>1, StoredHasTalk DEF Pipeline, QueuedIsStored, TypeOK
  <2>3. CallStored(call)'
    <3>1. call.talk = t /\ call.message = m
      BY <2>0 DEF MessageCall
    <3>2. call.talk \in DOMAIN talks /\ call.message \in Stored(call.talk)
      BY <2>2, <3>1
    <3> QED  BY <3>2 DEF CallStored, Grows
  <2>4. CASE /\ SendOrDismiss({m[1]}, resp)
             /\ servicerTodo' = <<Tell("tellCustomers", call), Tell("tellServicers", call)>>
    <3>1. SentIsStored'
      BY <1>6, <2>2, <2>4, AnswersStored, SentKept DEF HandleServiceMessage, SendOrDismiss
    <3>2. \A op \in ToSet(servicerTodo') :
            op.op \in {"tellCustomers", "tellServicers"} /\ op.call = call
      BY <2>4 DEF Tell, ToSet
    <3>3. TodoStored'
      BY <2>3, <3>2 DEF TodoStored
    <3> QED  BY <1>6, <2>1, <3>1, <3>3, PipelineKept
             DEF HandleServiceMessage, Pipeline, serviceVars, outsideVars
  <2>5. CASE UNCHANGED <<chServiceSend, serviceMain>>
    BY <1>6, <2>1, <2>5, PipelineKept
    DEF HandleServiceMessage, Pipeline, serviceVars, serviceMain, serviceOut, outsideVars
  <2> QED  BY <1>6, <2>0, <2>4, <2>5 DEF HandleServiceMessage
<1> QED  BY <1>1, <1>2, <1>3, <1>4, <1>5, <1>6

\* The closures.
LEMMA RunKept ==
  ASSUME TypeOK, Pipeline, Grows, RunPostedCall
  PROVE  Pipeline'
<1> DEFINE call == Head(servicerRunner)
<1>1. /\ call \in ToSet(servicerRunner)
      /\ ToSet(servicerRunner') \subseteq ToSet(servicerRunner)
  BY Capacities, ReceiveFits DEF RunPostedCall, TypeOK, ServiceChanTypeOK
<1>2. CallStored(call)
  BY <1>1 DEF Pipeline, CallsStored
<1>3. SentIsStored'
  <2>1. ASSUME NEW S, NEW resp, SendOrDismiss(S, resp), ResponseStored(resp)
        PROVE  SentIsStored'
    BY <2>1, SentKept DEF SendOrDismiss, RunPostedCall
  <2>2. CASE UNCHANGED chServiceSend
    BY <2>2, PipelineKept DEF RunPostedCall, serviceOut
  <2>3. CASE call.event = "message" /\ RunMessage(call)
    <3>1. ResponseStored(Respond("message", {}, {<<call.talk, call.message>>}))
      BY <1>2, <2>3, AnswersStored DEF CallStored
    <3> QED  BY <2>1, <2>3, <3>1 DEF RunMessage
  <2>4. CASE RunCreate(call)
    BY <2>1, <2>4, AnswersStored DEF RunCreate
  <2>5. CASE RunClose(call)
    BY <2>1, <2>5, AnswersStored DEF RunClose
  <2>6. CASE RunAttach(call)
    BY <2>1, <2>6, AnswersStored DEF RunAttach
  <2>7. CASE RunDetach(call)
    BY <2>1, <2>7, AnswersStored DEF RunDetach
  <2> QED  BY <2>2, <2>3, <2>4, <2>5, <2>6, <2>7 DEF RunPostedCall, RunCall
<1>4. TodoStored'
  <2>1. CASE RunAttach(call)
    <3>1. \A op \in ToSet(servicerTodo') : op.op = "reloadUser" /\ op.talk = call.talk
      BY <2>1 DEF RunAttach, ToSet
    <3>2. call.talk \in DOMAIN talks'
      BY <1>2 DEF CallStored, Grows
    <3> QED  BY <3>1, <3>2 DEF TodoStored
  <2>2. CASE UNCHANGED servicerTodo
    BY <2>2, PipelineKept
  <2> QED  BY <2>1, <2>2 DEF RunPostedCall, RunCall, RunMessage, RunCreate, RunClose,
           RunDetach, serviceMain
<1> QED  BY <1>1, <1>3, <1>4, PipelineKept
         DEF RunPostedCall, Pipeline, serviceVars, serviceChans, outsideVars

\* The rest of a case.
LEMMA RestKept ==
  ASSUME TypeOK, Pipeline, Grows,
         \/ AnswerAttachedTalks \/ AnswerPendingTalks \/ FinishInstall
         \/ ReloadUser \/ ReadDetached \/ TellServicers \/ TellCustomers
         \/ \E s \in Servicers : Dismiss(s)
  PROVE  Pipeline'
<1> DEFINE o == Head(servicerTodo)
<1>1. ASSUME NEW op, NextOperation(op, <<>>)
      PROVE  /\ o \in ToSet(servicerTodo) /\ o \in Operation /\ o.op = op
             /\ TodoStored'
  <2>1. /\ o \in ToSet(servicerTodo) /\ o \in Operation /\ o.op = op
        /\ ToSet(servicerTodo') \subseteq ToSet(servicerTodo)
    BY <1>1, NextTyped
  <2> QED  BY <2>1, PipelineKept
<1>2. CASE AnswerAttachedTalks \/ AnswerPendingTalks \/ FinishInstall
  <2>1. TodoStored'
    BY <1>1, <1>2 DEF AnswerAttachedTalks, AnswerPendingTalks, FinishInstall
  <2>2. SentIsStored'
    <3>1. \/ \E read : SendTo({o.stream}, AttachedTalks(o.stream, read))
          \/ SendTo({o.stream}, PendingTalks(o.stream))
          \/ UNCHANGED chServiceSend
      BY <1>2 DEF AnswerAttachedTalks, AnswerPendingTalks, FinishInstall
    <3>2. UNCHANGED serviceInbox
      BY <1>2 DEF AnswerAttachedTalks, AnswerPendingTalks, FinishInstall
    <3> QED  BY <3>1, <3>2, AnswersStored, SentKept, PipelineKept DEF serviceOut
  <2> QED  BY <1>2, <2>1, <2>2, PipelineKept
           DEF AnswerAttachedTalks, AnswerPendingTalks, FinishInstall, Pipeline,
               serviceVars, serviceChans, outsideVars
<1>3. CASE ReloadUser
  <2>1. TodoStored'
    BY <1>1, <1>3 DEF ReloadUser
  <2>2. SentIsStored'
    <3>1. CASE SendOrDismiss(servicers[o.user], Reload(o.talk))
      BY <1>3, <3>1, AnswersStored, SentKept DEF ReloadUser, SendOrDismiss
    <3>2. CASE UNCHANGED chServiceSend
      BY <1>3, <3>2, PipelineKept DEF ReloadUser, serviceOut
    <3> QED  BY <1>3, <3>1, <3>2 DEF ReloadUser
  <2> QED  BY <1>3, <2>1, <2>2, PipelineKept
           DEF ReloadUser, Pipeline, serviceVars, serviceChans, outsideVars
<1>4. CASE ReadDetached
  <2> DEFINE call == DetachCall(o.talk, WordOf(o.talk, NoOne))
             tell == Tell("tellServicers", call)
  <2>1. /\ servicerTodo \in Seq(Operation) /\ servicerTodo # <<>> /\ o.op = "detached"
        /\ servicerTodo' = <<tell>> \o Tail(servicerTodo)
           \/ servicerTodo' = <<>> \o Tail(servicerTodo)
    BY <1>4 DEF ReadDetached, NextOperation, TypeOK, ServiceMainTypeOK
  <2>2. /\ o \in ToSet(servicerTodo) /\ Tail(servicerTodo) \in Seq(Operation)
        /\ ToSet(Tail(servicerTodo)) \subseteq ToSet(servicerTodo)
    BY <2>1, HeadTailToSet
  <2>3. o.talk \in DOMAIN talks
    BY <2>1, <2>2 DEF Pipeline, TodoStored
  <2>4. CallStored(call) /\ call \in Call
    <3>1. call.talk = o.talk /\ call.event = "detach"
      BY DEF DetachCall
    <3>2. call \in Call
      BY <2>3, WordsTyped, CallsTyped DEF TypeOK
    <3> QED  BY <2>3, <3>1, <3>2 DEF CallStored
  <2>5. ToSet(servicerTodo') \subseteq ToSet(servicerTodo) \cup {tell}
    <3>1. tell \in Operation
      BY <2>4, OperationsTyped
    <3> HIDE DEF tell
    <3>2. PICK first : first = <<tell>>
      OBVIOUS
    <3>3. PICK rest : rest = Tail(servicerTodo)
      OBVIOUS
    <3>4. first \in Seq(Operation) /\ ToSet(first) = {tell}
      BY <3>1, <3>2, OneToSet
    <3>5. rest \in Seq(Operation) /\ ToSet(rest) \subseteq ToSet(servicerTodo)
      BY <2>2, <3>3
    <3>6. ToSet(first \o rest) = ToSet(first) \cup ToSet(rest)
      BY <3>4, <3>5, ConcatToSet
    <3>7. <<>> \o rest = rest
      BY <3>5
    <3>8. servicerTodo' = first \o rest \/ servicerTodo' = rest
      BY <2>1, <3>2, <3>3, <3>7
    <3> QED  BY <3>4, <3>5, <3>6, <3>8
  <2>6. tell.op = "tellServicers" /\ tell.call = call
    BY DEF Tell
  <2>7. TodoStored'
    <3> HIDE DEF tell, call
    <3>1. \A c : CallStored(c) => CallStored(c)'
      BY DEF CallStored, Grows
    <3> QED  BY <2>4, <2>5, <2>6, <3>1 DEF Pipeline, TodoStored, Grows
  <2> QED  BY <1>4, <2>7, PipelineKept
           DEF ReadDetached, Pipeline, serviceVars, serviceChans, outsideVars
<1>5. CASE TellServicers
  <2>1. /\ o \in ToSet(servicerTodo) /\ o \in Operation /\ o.op = "tellServicers"
        /\ TodoStored'
    BY <1>1, <1>5 DEF TellServicers
  <2>2. o.call \in Call /\ CallStored(o.call)
    BY <2>1, OperationParts DEF Pipeline, TodoStored
  <2>3. ToSet(servicerRunner') \subseteq ToSet(servicerRunner) \cup {o.call}
    BY <1>5, <2>2, PostAdds DEF TellServicers
  <2>4. CallsStored'
    <3>1. \A c : CallStored(c) => CallStored(c)'
      BY DEF CallStored, Grows
    <3> QED  BY <1>5, <2>2, <2>3, <3>1 DEF TellServicers, outsideVars, Pipeline, CallsStored
  <2> QED  BY <1>5, <2>1, <2>4, PipelineKept
           DEF TellServicers, Pipeline, serviceVars, serviceChans
<1>6. CASE TellCustomers
  <2>1. TodoStored'
    BY <1>1, <1>6 DEF TellCustomers
  <2> QED  BY <1>6, <2>1, PipelineKept
           DEF TellCustomers, Pipeline, serviceVars, serviceChans, outsideVars
<1>7. ASSUME NEW s \in Servicers, Dismiss(s)
      PROVE  Pipeline'
  <2>1. SentIsStored'
    BY <1>7, AnswersStored, SentKept DEF Dismiss
  <2> QED  BY <1>7, <2>1, PipelineKept
           DEF Dismiss, Pipeline, serviceVars, serviceChans, outsideVars
<1> QED  BY <1>2, <1>3, <1>4, <1>5, <1>6, <1>7

\* The customers' half.
LEMMA CustomersKept ==
  ASSUME TypeOK, Pipeline, Grows, CustomerStep \/ CallStep
  PROVE  Pipeline'
<1>1. ASSUME NEW call, arriving' \subseteq arriving \cup {call}, CallStored(call)',
             UNCHANGED servicerRunner
      PROVE  CallsStored'
  <2>1. \A c : CallStored(c) => CallStored(c)'
    BY DEF CallStored, Grows
  <2> QED  BY <1>1, <2>1 DEF Pipeline, CallsStored
<1>2. CASE CustomerStep
  <2>1. PICK t \in Talks :
          \/ \E act \in Acts, biz \in Bizs : CustomerCreates(t, act, biz)
          \/ \E w \in Writers : CustomerWrites(w, t)
          \/ CustomerCloses(t) \/ CustomerReopens(t)
    BY <1>2 DEF CustomerStep
  <2>2. UNCHANGED servicerRunner
    BY <1>2 DEF CustomerStep
  <2>3. CallsStored'
    <3>1. CASE \E act \in Acts, biz \in Bizs : CustomerCreates(t, act, biz)
      <4>1. t \in DOMAIN talks' /\ arriving' = arriving \cup {TalkCall("create", t)}
        BY <3>1 DEF CustomerCreates, CreateTalk
      <4>2. CallStored(TalkCall("create", t))'
        BY <4>1 DEF CallStored, TalkCall
      <4> QED  BY <1>1, <2>2, <4>1, <4>2
    <3>2. CASE \E w \in Writers : CustomerWrites(w, t)
      <4>1. PICK w \in Writers : CustomerWrites(w, t)
        BY <3>2
      <4>2. PICK n \in (written[w] + 1)..MaxWrites :
              /\ AddTalkMessage(t, <<w, n>>)
              /\ arriving' = arriving \cup {MessageCall(t, <<w, n>>)}
        BY <4>1 DEF CustomerWrites
      <4> DEFINE m == <<w, n>>
      <4>3. m \in Message
        BY ServicerAssumption DEF TypeOK, OutsideTypeOK, Message
      <4>4. m \in Stored(t)' /\ t \in DOMAIN talks'
        BY <4>2, <4>3, AddStores DEF TypeOK, AddTalkMessage
      <4>5. CallStored(MessageCall(t, m))'
        <5> HIDE DEF m
        <5> QED  BY <4>4 DEF CallStored, MessageCall
      <4> QED  BY <1>1, <2>2, <4>2, <4>5
    <3>3. CASE CustomerCloses(t)
      <4>1. t \in DOMAIN talks' /\ arriving' = arriving \cup {TalkCall("close", t)}
        BY <3>3 DEF CustomerCloses, CloseTalk, InScope
      <4>2. CallStored(TalkCall("close", t))'
        BY <4>1 DEF CallStored, TalkCall
      <4> QED  BY <1>1, <2>2, <4>1, <4>2
    <3>4. CASE CustomerReopens(t)
      BY <2>2, <3>4, PipelineKept DEF CustomerReopens
    <3> QED  BY <2>1, <3>1, <3>2, <3>3, <3>4
  <2> QED  BY <1>2, <2>3, PipelineKept
           DEF CustomerStep, Pipeline, serviceVars, serviceChans, serviceMain
<1>3. ASSUME NEW call \in arriving, Arrive(call)
      PROVE  Pipeline'
  <2>1. ToSet(servicerRunner') \subseteq ToSet(servicerRunner) \cup {call}
    BY <1>3, PostAdds DEF Arrive, TypeOK, OutsideTypeOK
  <2>2. arriving' \cup ToSet(servicerRunner') \subseteq arriving \cup ToSet(servicerRunner)
    BY <1>3, <2>1 DEF Arrive
  <2> QED  BY <1>3, <2>2, PipelineKept
           DEF Arrive, Pipeline, serviceVars, serviceChans, serviceMain
<1>4. ASSUME NEW call \in arriving, Lose(call)
      PROVE  Pipeline'
  BY <1>4, PipelineKept DEF Lose, Pipeline, serviceVars, serviceChans, serviceMain
<1> QED  BY <1>2, <1>3, <1>4 DEF CallStep

\* Every step keeps each message on its way stored.
LEMMA StepKept ==
  ASSUME TypeOK, Pipeline, [Next]_serviceSideVars
  PROVE  Pipeline'
<1>1. Grows
  BY StoreOnlyGrows DEF Grows
<1>2. CASE \E s \in Servicers : ServiceStep(s) \/ ServiceReceiverStep(s)
  BY <1>1, <1>2, ServiceStepKept, ServiceReceiverKept
<1>3. CASE ServicerMainStep
  BY <1>1, <1>3, HandleKept, RunKept, RestKept DEF ServicerMainStep, ServicerMainAlone
<1>4. CASE CustomerStep \/ CallStep
  BY <1>1, <1>4, CustomersKept
<1>5. CASE UNCHANGED serviceSideVars
  <2>1. UNCHANGED <<serviceVars, serviceChans, servicerRunner, serviceMain, serviceOut,
                    outsideVars>>
    BY <1>5 DEF serviceSideVars, servicerVars
  <2> QED  BY <1>1, <2>1, PipelineKept
           DEF Pipeline, serviceVars, serviceChans, serviceMain, outsideVars
<1> QED  BY <1>2, <1>3, <1>4, <1>5 DEF Next

-----------------------------------------------------------------------------
(* The theorems that follow from the two. *)

\* At first every variable has its type and nothing is on its way.
LEMMA InitOK == Init => TypeOK /\ Pipeline
<1> SUFFICES ASSUME Init PROVE TypeOK /\ Pipeline
  OBVIOUS
<1> USE DEF Init, StoreInit, ServicerInit
<1>1. /\ \A S : <<>> \in Seq(S)
      /\ ToSet(<<>>) = {} /\ Len(<<>>) = 0
  BY DEF ToSet
<1>2. \A S, cap : cap \in Nat => Fits(<<>>, S, cap)
  BY <1>1 DEF Fits
<1>3. StoreTypeOK
  BY DEF StoreTypeOK
<1>4. ServiceTypeOK
  BY ServicerAssumption DEF ServiceTypeOK
<1>5. ServiceChanTypeOK
  BY <1>2, Capacities DEF ServiceChanTypeOK
<1>6. ServiceMainTypeOK
  BY <1>1 DEF ServiceMainTypeOK
<1>7. ServiceOutTypeOK
  BY <1>1, <1>2, Capacities DEF ServiceOutTypeOK
<1>8. OutsideTypeOK
  BY ServicerAssumption DEF OutsideTypeOK
<1>9. Pipeline
  BY <1>1 DEF Pipeline, PersistedIsStored, QueuedIsStored, CallsStored, TodoStored,
              SentIsStored
<1> QED  BY <1>3, <1>4, <1>5, <1>6, <1>7, <1>8, <1>9 DEF TypeOK

\* The state of the servicers' half is always well-formed; in particular none of
\* its channels ever holds more than its capacity, whatever the number of streams
\* and the sizes of the channels, and no word is ever said of a talk that the store
\* does not know.
THEOREM Typed == Spec => []TypeOK
<1>1. TypeOK /\ Pipeline /\ [Next]_serviceSideVars => (TypeOK /\ Pipeline)'
  BY StepTyped, StepKept
<1> QED  BY InitOK, <1>1, PTL DEF Spec

\* Pipeline, the inductive invariant of what is said of talks.
THEOREM PipelineInvariant == Spec => []Pipeline
<1>1. TypeOK /\ Pipeline /\ [Next]_serviceSideVars => (TypeOK /\ Pipeline)'
  BY StepTyped, StepKept
<1> QED  BY InitOK, <1>1, PTL DEF Spec

\* No servicer is ever shown, confirmed or replayed a message that the store does
\* not hold for the very talk it is shown under, however talks change hands and
\* whatever the store refuses.
THEOREM ToldIsStoredInvariant == Spec => []ToldIsStored
<1>1. TypeOK /\ Pipeline => ToldIsStored
  <2> SUFFICES ASSUME TypeOK, Pipeline, NEW s \in Servicers, NEW c \in ContentsTold(s)
               PROVE  c[2] \in Stored(c[1])
    BY DEF ToldIsStored
  <2>1. serviceInbox[s] \in Seq(ServiceResponse) /\ chServiceSend[s] \in Seq(ServiceResponse)
    BY DEF TypeOK, ServiceOutTypeOK
  <2>2. ToSet(ToldServicer(s)) = ToSet(serviceInbox[s]) \cup ToSet(chServiceSend[s])
    BY <2>1, ConcatToSet DEF ToldServicer
  <2>3. PICK r \in ToSet(ToldServicer(s)) : c \in r.contents
    BY DEF ContentsTold
  <2> QED  BY <2>2, <2>3 DEF Pipeline, SentIsStored, ResponseStored
<1> QED  BY <1>1, Typed, PipelineInvariant, PTL

-----------------------------------------------------------------------------
(* Registry. *)

\* A case without a finishInstall among its operations installs nobody,
LEMMA NoneInstalling ==
  /\ (\A o \in ToSet(servicerTodo) : o.op # "finishInstall") =>
       Installing = {} /\ InstallAlone
  /\ (\A o \in ToSet(servicerTodo') : o.op # "finishInstall") =>
       Installing' = {} /\ InstallAlone'
BY DEF Installing, InstallAlone

\* ... and a finishInstall alone installs its stream.
LEMMA OneInstalling ==
  ASSUME NEW s, ToSet(servicerTodo') = {Do("finishInstall", s)}
  PROVE  Installing' = {s}
<1>1. Do("finishInstall", s).op = "finishInstall" /\ Do("finishInstall", s).stream = s
  BY DEF Do
<1>2. {o \in ToSet(servicerTodo') : o.op = "finishInstall"} = {Do("finishInstall", s)}
  BY <1>1
<1> QED  BY <1>1, <1>2 DEF Installing

\* An operation before others.
LEMMA FirstThenRest ==
  ASSUME NEW op, NEW rest \in Seq(Operation)
  PROVE  ToSet(<<op>> \o rest) = {op} \cup ToSet(rest)
<1> DEFINE S == {op} \cup Operation
<1>1. rest \in Seq(S)
  OBVIOUS
<1>2. PICK first : first = <<op>>
  OBVIOUS
<1>3. first \in Seq(S)
  BY <1>2
<1> HIDE DEF S
<1>4. ToSet(first \o rest) = ToSet(first) \cup ToSet(rest)
  BY <1>1, <1>3, ConcatToSet
<1> QED  BY <1>2, <1>4, OneToSet

\* At the select nobody is between the halves of his installation.
LEMMA SelectInstalls ==
  /\ servicerTodo = <<>> => Installing = {} /\ InstallAlone
  /\ servicerTodo' = <<>> => Installing' = {} /\ InstallAlone'
<1>1. ToSet(<<>>) = {}
  BY DEF ToSet
<1> QED  BY <1>1, NoneInstalling

\* Next to a finishInstall there is no other operation: whatever the next operation
\* is, nobody is installing once it is done.
LEMMA NextInstalls ==
  ASSUME TypeOK, Registry, NEW op, NextOperation(op, <<>>)
  PROVE  /\ Installing' = {} /\ InstallAlone'
         /\ op # "finishInstall" => Installing = {}
<1>1. /\ servicerTodo' = Tail(servicerTodo) /\ servicerTodo \in Seq(Operation)
      /\ Head(servicerTodo).op = op /\ servicerTodo # <<>>
  BY NextTyped DEF NextOperation, TypeOK, ServiceMainTypeOK
<1>2. ToSet(servicerTodo) = {Head(servicerTodo)} \cup ToSet(Tail(servicerTodo))
  BY <1>1, HeadOrTail
<1>3. CASE Len(servicerTodo) = 1
  <2>1. ToSet(Tail(servicerTodo)) = {}
    BY <1>1, <1>3, OneTail
  <2> QED  BY <1>1, <1>2, <2>1, NoneInstalling
<1>4. CASE Len(servicerTodo) # 1
  <2>1. Installing = {}
    BY <1>4 DEF Registry, InstallAlone
  <2>2. \A o \in ToSet(servicerTodo') : o.op # "finishInstall"
    BY <1>1, <1>2, <2>1 DEF Installing
  <2> QED  BY <2>1, <2>2, NoneInstalling
<1> QED  BY <1>3, <1>4

\* The notice of a detach, made before it is posted, installs nobody either.
LEMMA ReadDetachedInstalls ==
  ASSUME TypeOK, Registry, ReadDetached
  PROVE  InstallAlone' /\ Installing' \subseteq Installing
<1>1. CASE NextOperation("detached", <<>>)
  BY <1>1, NextInstalls
<1>2. ASSUME NEW call, NextOperation("detached", <<Tell("tellServicers", call)>>)
      PROVE  \A o \in ToSet(servicerTodo') : o.op # "finishInstall"
  <2>1. /\ servicerTodo \in Seq(Operation) /\ servicerTodo # <<>>
        /\ Head(servicerTodo).op = "detached"
        /\ servicerTodo' = <<Tell("tellServicers", call)>> \o Tail(servicerTodo)
    BY <1>2 DEF NextOperation, TypeOK, ServiceMainTypeOK
  <2>2. /\ Tail(servicerTodo) \in Seq(Operation)
        /\ ToSet(servicerTodo) = {Head(servicerTodo)} \cup ToSet(Tail(servicerTodo))
    BY <2>1, HeadTailToSet, HeadOrTail
  <2>3. ToSet(servicerTodo') =
          {Tell("tellServicers", call)} \cup ToSet(Tail(servicerTodo))
    BY <2>1, <2>2, FirstThenRest
  <2>4. \A o \in ToSet(servicerTodo) : o.op # "finishInstall"
    <3>1. CASE Len(servicerTodo) = 1
      <4>1. ToSet(Tail(servicerTodo)) = {}
        BY <2>1, <3>1, OneTail
      <4> QED  BY <2>1, <2>2, <4>1
    <3>2. CASE Len(servicerTodo) # 1
      BY <3>2 DEF Registry, InstallAlone, Installing
    <3> QED  BY <3>1, <3>2
  <2>5. Tell("tellServicers", call).op # "finishInstall"
    BY DEF Tell
  <2> QED  BY <2>2, <2>3, <2>4, <2>5
<1> QED  BY <1>1, <1>2, NoneInstalling DEF ReadDetached

\* A step that brings no stream nearer to the registry, ends none and takes no
\* uninstallation from its channel keeps Registry.
LEMMA RegistryKept ==
  ASSUME Registry, InstallAlone', Installing' \subseteq Installing,
         servicers' \in [Users -> SUBSET Servicers],
         \A u \in Users : servicers'[u] \subseteq servicers[u],
         UNCHANGED <<service, chInstallServicer, chUninstallServicer, outpaced>>
  PROVE  Registry'
<1>1. Registered' \subseteq Registered
  BY DEF Registered
<1>2. Sorted'
  BY DEF Registry, Sorted
<1>3. OverExplained' /\ Entered'
  BY <1>1 DEF Registry, OverExplained, Entered
<1> QED  BY <1>2, <1>3 DEF Registry

\* What waits to enter the registry, or is in it, is a stream.
LEMMA EntrantsTyped ==
  ASSUME TypeOK
  PROVE  Registered \cup Installing \cup ToSet(chInstallServicer) \subseteq Servicers
<1>1. Registered \subseteq Servicers
  BY DEF Registered, TypeOK, ServiceMainTypeOK
<1>2. Installing \subseteq Servicers
  BY OperationParts DEF Installing, TypeOK, ServiceMainTypeOK, ToSet
<1>3. ToSet(chInstallServicer) \subseteq Servicers
  BY FitsToSet DEF TypeOK, ServiceChanTypeOK
<1> QED  BY <1>1, <1>2, <1>3

\* The stream handler and the receiver.
LEMMA StreamRegistry ==
  ASSUME TypeOK, Registry, NEW s \in Servicers, ServiceStep(s) \/ ServiceReceiverStep(s)
  PROVE  Registry'
<1> USE DEF TypeOK
<1>1. CASE UNCHANGED <<service, chInstallServicer, chUninstallServicer, outpaced>>
  <2>1. /\ servicerTodo' = servicerTodo
           \/ \E kind \in {"attachedTalks", "pendingTalks"} : servicerTodo' = <<Do(kind, s)>>
        /\ UNCHANGED servicers
    BY DEF ServiceStep, InstallServicer, ServiceSend, ServiceTerminal, UninstallServicer,
       ServiceReceiverStep, ReceiveQuery, ReceiveForTalk, ReceiveServiceMessage,
       ReceiveServiceMessageFails, ServicerMessageIncoming, ServiceReceiveFails, serviceMain
  <2>2. InstallAlone' /\ Installing' \subseteq Installing
    <3>1. CASE servicerTodo' = servicerTodo
      BY <3>1 DEF Registry, InstallAlone, Installing
    <3>2. CASE servicerTodo' # servicerTodo
      <4>1. PICK kind \in {"attachedTalks", "pendingTalks"} : servicerTodo' = <<Do(kind, s)>>
        BY <2>1, <3>2
      <4>2. ToSet(servicerTodo') = {Do(kind, s)} /\ Do(kind, s).op # "finishInstall"
        BY <4>1, OneToSet DEF Do
      <4> QED  BY <4>2, NoneInstalling
    <3> QED  BY <3>1, <3>2
  <2> QED  BY <1>1, <2>1, <2>2, RegistryKept DEF ServiceMainTypeOK
<1>2. ASSUME UNCHANGED <<servicers, servicerTodo>>
      PROVE  /\ Registered' = Registered /\ Installing' = Installing
             /\ Sorted' /\ InstallAlone'
  BY <1>2 DEF Registered, Registry, Installing, Sorted, InstallAlone
<1>3. CASE InstallServicer(s)
  <2>1. \/ UNCHANGED chInstallServicer
        \/ ToSet(chInstallServicer') = ToSet(chInstallServicer) \cup {s}
    BY <1>3, AppendToSet DEF InstallServicer, ServiceChanTypeOK, Fits
  <2>2. CASE UNCHANGED chInstallServicer
    <3>1. service' = [service EXCEPT ![s] = "refused"] \/ service' = [service EXCEPT ![s] = "serving"]
      BY <1>3 DEF InstallServicer
    <3>2. UNCHANGED <<servicers, servicerTodo, chUninstallServicer, outpaced>>
      BY <1>3 DEF InstallServicer, serviceMain, lossVars, restOfLoss
    <3>3. OverExplained' /\ Entered'
      BY <1>2, <2>2, <3>1, <3>2, EntrantsTyped
         DEF Registry, OverExplained, Entered, ServiceTypeOK
    <3> QED  BY <1>2, <3>2, <3>3 DEF Registry
  <2>3. CASE ToSet(chInstallServicer') = ToSet(chInstallServicer) \cup {s}
    <3>1. service' = [service EXCEPT ![s] = "refused"] \/ service' = [service EXCEPT ![s] = "serving"]
      BY <1>3 DEF InstallServicer
    <3>2. UNCHANGED <<servicers, servicerTodo, chUninstallServicer, outpaced>>
      BY <1>3 DEF InstallServicer, serviceMain, lossVars, restOfLoss
    <3>3. OverExplained' /\ Entered'
      BY <1>2, <2>3, <3>1, <3>2, EntrantsTyped
         DEF Registry, OverExplained, Entered, ServiceTypeOK
    <3> QED  BY <1>2, <3>2, <3>3 DEF Registry
  <2> QED  BY <2>1, <2>2, <2>3
<1>4. CASE ServiceSend(s) \/ ServiceTerminal(s)
  <2>1. /\ service' = [service EXCEPT ![s] = "leaving"] \/ service' = service
        /\ UNCHANGED <<servicers, servicerTodo, chInstallServicer, chUninstallServicer,
                       outpaced>>
    BY <1>4 DEF ServiceSend, ServiceTerminal, serviceMain, serviceChans, lossVars, restOfLoss
  <2>2. OverExplained' /\ Entered'
    BY <1>2, <2>1, EntrantsTyped
         DEF Registry, OverExplained, Entered, ServiceTypeOK
  <2> QED  BY <1>2, <2>1, <2>2 DEF Registry
<1>5. CASE UninstallServicer(s)
  <2>1. UNCHANGED <<servicers, servicerTodo, chInstallServicer, outpaced>>
    BY <1>5 DEF UninstallServicer, serviceMain, lossVars, restOfLoss
  <2>2. \/ /\ service' = [service EXCEPT ![s] = "gone"]
           /\ ToSet(chUninstallServicer') = ToSet(chUninstallServicer) \cup {s}
        \/ /\ service' = [service EXCEPT ![s] = "uninstallFailed"]
           /\ UNCHANGED chUninstallServicer
    BY <1>5, AppendToSet DEF UninstallServicer, ServiceChanTypeOK, Fits
  <2>3. OverExplained' /\ Entered'
    BY <1>2, <2>1, <2>2, EntrantsTyped
         DEF Registry, OverExplained, Entered, ServiceTypeOK
  <2> QED  BY <1>2, <2>1, <2>3 DEF Registry
<1>6. CASE ServiceReceiverStep(s)
  <2>1. UNCHANGED <<service, chInstallServicer, chUninstallServicer, outpaced>>
    BY <1>6 DEF ServiceReceiverStep, ReceiveQuery, ReceiveForTalk, ReceiveServiceMessage,
       ReceiveServiceMessageFails, ServicerMessageIncoming, ServiceReceiveFails,
       serviceChans, lossVars, restOfLoss
  <2> QED  BY <1>1, <2>1
<1> QED  BY <1>3, <1>4, <1>5, <1>6 DEF ServiceStep

\* The cases of the select.
LEMMA HandleRegistry ==
  ASSUME TypeOK, Registry,
         \/ HandleInstallServicer \/ HandleUninstallServicer
         \/ HandleAttach \/ HandleDetach \/ HandleReload \/ HandleServiceMessage
         \/ RunPostedCall
  PROVE  Registry'
<1> USE DEF TypeOK
<1>1. Installing = {}
  BY SelectInstalls DEF HandleInstallServicer, HandleUninstallServicer, HandleAttach,
     HandleDetach, HandleReload, HandleServiceMessage, RunPostedCall, AtSelect
<1>2. CASE HandleInstallServicer
  <2>1. PICK s : s = Head(chInstallServicer)
    OBVIOUS
  <2>2. /\ s \in Servicers /\ s \in ToSet(chInstallServicer)
        /\ ToSet(chInstallServicer') \subseteq ToSet(chInstallServicer)
    BY <1>2, <2>1, Capacities, ReceiveFits DEF HandleInstallServicer, ServiceChanTypeOK
  <2>3. ToSet(servicerTodo') = {Do("finishInstall", s)} /\ Len(servicerTodo') = 1
    BY <1>2, <2>1, OneToSet DEF HandleInstallServicer
  <2>4. Installing' = {s} /\ InstallAlone'
    BY <2>3, OneInstalling DEF InstallAlone
  <2>5. UNCHANGED <<service, servicers, chUninstallServicer, outpaced>>
    BY <1>2 DEF HandleInstallServicer, serviceVars
  <2>6. Sorted' /\ Registered' = Registered
    BY <2>5 DEF Registry, Sorted, Registered
  <2>7. OverExplained' /\ Entered'
    BY <2>2, <2>4, <2>5, <2>6 DEF Registry, OverExplained, Entered
  <2> QED  BY <2>4, <2>6, <2>7 DEF Registry
<1>3. CASE HandleUninstallServicer
  <2>1. PICK s : s = Head(chUninstallServicer)
    OBVIOUS
  <2>2. s \in Servicers /\ ToSet(chUninstallServicer) = {s} \cup ToSet(chUninstallServicer')
    BY <1>3, <2>1, Capacities, ReceiveFits DEF HandleUninstallServicer, ServiceChanTypeOK
  <2>3. /\ servicers' = [servicers EXCEPT ![UserOf[s]] = @ \ {s}]
        /\ outpaced' = outpaced \cup ({s} \cap ToSet(chInstallServicer))
        /\ UNCHANGED <<service, servicerTodo, chInstallServicer>>
    BY <1>3, <2>1 DEF HandleUninstallServicer, serviceVars
  <2>4. UserOf[s] \in Users
    BY <2>2, ServicerAssumption
  <2>5. Sorted' /\ Registered' \subseteq Registered \ {s}
    BY <2>3, <2>4 DEF Registry, Sorted, Registered, ServiceMainTypeOK
  <2>6. Installing' = {} /\ InstallAlone'
    BY <1>1, <2>3 DEF Registry, Installing, InstallAlone
  <2>7. OverExplained' /\ Entered'
    BY <2>2, <2>3, <2>5, <2>6 DEF Registry, OverExplained, Entered
  <2> QED  BY <2>5, <2>6, <2>7 DEF Registry
<1>4. ASSUME UNCHANGED <<service, chInstallServicer, chUninstallServicer, outpaced>>,
             \A o \in ToSet(servicerTodo') : o.op # "finishInstall",
             \/ UNCHANGED servicers
             \/ \E S, resp : SendOrDismiss(S, resp)
      PROVE  Registry'
  <2>1. /\ servicers' \in [Users -> SUBSET Servicers]
        /\ \A u \in Users : servicers'[u] \subseteq servicers[u]
    BY <1>4 DEF SendOrDismiss, ServiceMainTypeOK
  <2>2. Installing' = {} /\ InstallAlone'
    BY <1>4, NoneInstalling
  <2> QED  BY <1>4, <2>1, <2>2, RegistryKept
<1>5. ASSUME UNCHANGED servicerTodo
      PROVE  \A o \in ToSet(servicerTodo') : o.op # "finishInstall"
  BY <1>1, <1>5 DEF Installing
<1>6. CASE HandleAttach \/ HandleDetach \/ HandleReload
  <2>1. UNCHANGED <<service, chInstallServicer, chUninstallServicer, outpaced, servicers>>
    BY <1>6 DEF HandleAttach, HandleDetach, HandleReload, serviceVars, serviceMain,
       lossVars, restOfLoss
  <2>2. \/ UNCHANGED servicerTodo
        \/ \E call : servicerTodo' = <<Tell("tellServicers", call)>>
        \/ \E t : servicerTodo' = <<[op |-> "detached", talk |-> t]>>
    BY <1>6 DEF HandleAttach, HandleDetach, HandleReload, serviceMain
  <2>3. \A o \in ToSet(servicerTodo') : o.op # "finishInstall"
    BY <1>5, <2>2, OneToSet DEF Tell
  <2> QED  BY <1>4, <2>1, <2>3
<1>7. CASE HandleServiceMessage
  <2>1. UNCHANGED <<service, chInstallServicer, chUninstallServicer, outpaced>>
    BY <1>7 DEF HandleServiceMessage, serviceVars, restOfLoss
  <2>2. \/ UNCHANGED <<servicerTodo, servicers>>
        \/ /\ \E S, resp : SendOrDismiss(S, resp)
           /\ \E call : servicerTodo' = <<Tell("tellCustomers", call),
                                          Tell("tellServicers", call)>>
    BY <1>7 DEF HandleServiceMessage, serviceMain
  <2>3. \A o \in ToSet(servicerTodo') : o.op # "finishInstall"
    <3>1. \A call : ToSet(<<Tell("tellCustomers", call), Tell("tellServicers", call)>>)
                      = {Tell("tellCustomers", call), Tell("tellServicers", call)}
      BY DEF ToSet
    <3> QED  BY <1>5, <2>2, <3>1 DEF Tell
  <2> QED  BY <1>4, <2>1, <2>2, <2>3
<1>8. CASE RunPostedCall
  <2>1. UNCHANGED <<service, chInstallServicer, chUninstallServicer, outpaced>>
    BY <1>8 DEF RunPostedCall, serviceVars, serviceChans, restOfLoss
  <2>2. /\ \/ UNCHANGED servicerTodo
           \/ \E t, user : servicerTodo' = <<[op |-> "reloadUser", talk |-> t, user |-> user]>>
        /\ \/ UNCHANGED servicers
           \/ \E S, resp : SendOrDismiss(S, resp)
    BY <1>8 DEF RunPostedCall, RunCall, RunMessage, RunCreate, RunClose, RunAttach,
       RunDetach, serviceMain
  <2>3. \A o \in ToSet(servicerTodo') : o.op # "finishInstall"
    BY <1>5, <2>2, OneToSet
  <2> QED  BY <1>4, <2>1, <2>2, <2>3
<1> QED  BY <1>2, <1>3, <1>6, <1>7, <1>8

\* The operations of a case.
LEMMA RestRegistry ==
  ASSUME TypeOK, Registry,
         \/ AnswerAttachedTalks \/ AnswerPendingTalks \/ FinishInstall
         \/ ReloadUser \/ ReadDetached \/ TellServicers \/ TellCustomers
         \/ \E s \in Servicers : Dismiss(s)
  PROVE  Registry'
<1> USE DEF TypeOK
<1>1. UNCHANGED <<service, chInstallServicer, chUninstallServicer, outpaced>>
  BY DEF AnswerAttachedTalks, AnswerPendingTalks, FinishInstall, ReloadUser, ReadDetached,
     TellServicers, Post, TellCustomers, Dismiss, serviceVars, serviceChans, lossVars, restOfLoss
<1>2. CASE FinishInstall
  <2>1. PICK s : s = Head(servicerTodo).stream
    OBVIOUS
  <2>2. /\ Head(servicerTodo) \in Operation /\ Head(servicerTodo).op = "finishInstall"
        /\ Head(servicerTodo) \in ToSet(servicerTodo)
    BY <1>2, NextTyped DEF FinishInstall
  <2>3. s \in Servicers /\ s \in Installing /\ UserOf[s] \in Users
    BY <2>1, <2>2, OperationParts, ServicerAssumption DEF Installing
  <2>4. servicers' = [servicers EXCEPT ![UserOf[s]] = @ \cup {s}]
    BY <1>2, <2>1 DEF FinishInstall
  <2>5. Sorted' /\ Registered' = Registered \cup {s}
    BY <2>3, <2>4 DEF Registry, Sorted, Registered, ServiceMainTypeOK
  <2>6. Installing' = {} /\ InstallAlone'
    BY <1>2, NextInstalls DEF FinishInstall
  <2>7. OverExplained' /\ Entered'
    BY <1>1, <2>3, <2>5, <2>6 DEF Registry, OverExplained, Entered
  <2> QED  BY <2>5, <2>6, <2>7 DEF Registry
<1>3. ASSUME UNCHANGED servicers \/ \E S, resp : SendOrDismiss(S, resp),
             InstallAlone', Installing' \subseteq Installing
      PROVE  Registry'
  <2>1. /\ servicers' \in [Users -> SUBSET Servicers]
        /\ \A u \in Users : servicers'[u] \subseteq servicers[u]
    BY <1>3 DEF SendOrDismiss, ServiceMainTypeOK
  <2> QED  BY <1>1, <1>3, <2>1, RegistryKept
<1>4. CASE \/ AnswerAttachedTalks \/ AnswerPendingTalks \/ ReloadUser
           \/ TellServicers \/ TellCustomers
  <2>1. UNCHANGED servicers \/ \E S, resp : SendOrDismiss(S, resp)
    BY <1>4 DEF AnswerAttachedTalks, AnswerPendingTalks, ReloadUser, TellServicers,
       TellCustomers
  <2>2. \E op : NextOperation(op, <<>>)
    BY <1>4 DEF AnswerAttachedTalks, AnswerPendingTalks, ReloadUser, TellServicers,
       TellCustomers
  <2> QED  BY <1>3, <2>1, <2>2, NextInstalls
<1>5. CASE ReadDetached
  <2>1. UNCHANGED servicers
    BY <1>5 DEF ReadDetached
  <2> QED  BY <1>3, <1>5, <2>1, ReadDetachedInstalls
<1>6. CASE \E s \in Servicers : Dismiss(s)
  <2>1. UNCHANGED <<servicers, servicerTodo>>
    BY <1>6 DEF Dismiss
  <2>2. InstallAlone' /\ Installing' = Installing
    BY <2>1 DEF Registry, InstallAlone, Installing
  <2> QED  BY <1>3, <2>1, <2>2
<1> QED  BY <1>2, <1>4, <1>5, <1>6

\* The customers' half.
LEMMA CustomersRegistry ==
  ASSUME Registry, CustomerStep \/ CallStep
  PROVE  Registry'
<1>1. UNCHANGED <<service, chInstallServicer, chUninstallServicer, outpaced, servicers,
                  servicerTodo>>
  BY DEF CustomerStep, CallStep, Arrive, Lose, Post, serviceVars, serviceChans, serviceMain,
     lossVars, restOfLoss
<1> QED  BY <1>1 DEF Registry, Sorted, InstallAlone, OverExplained, Entered, Registered,
            Installing

\* At first nobody is registered.
LEMMA RegistryInit == Init => Registry
<1>1. ASSUME Init  PROVE Registry
  <2>1. Registered = {} /\ ToSet(chInstallServicer) = {}
    BY <1>1 DEF Init, ServicerInit, Registered, ToSet
  <2>2. Installing = {} /\ InstallAlone
    BY <1>1, SelectInstalls DEF Init, ServicerInit
  <2>3. Sorted
    BY <1>1 DEF Init, ServicerInit, Sorted
  <2> QED  BY <2>1, <2>2, <2>3 DEF Registry, OverExplained, Entered
<1> QED  BY <1>1

\* Every step.
LEMMA RegistryStep ==
  ASSUME TypeOK, Registry, [Next]_serviceSideVars
  PROVE  Registry'
<1>1. CASE UNCHANGED serviceSideVars
  <2>1. UNCHANGED <<service, chInstallServicer, chUninstallServicer, outpaced, servicers,
                    servicerTodo>>
    BY <1>1 DEF serviceSideVars, servicerVars, serviceVars, serviceChans, serviceMain,
       lossVars, restOfLoss
  <2> QED  BY <2>1 DEF Registry, Sorted, InstallAlone, OverExplained, Entered, Registered,
              Installing
<1> QED  BY <1>1, StreamRegistry, HandleRegistry, RestRegistry, CustomersRegistry
         DEF Next, ServicerMainStep, ServicerMainAlone

\* The registry, and what waits to enter it, are as they should be in every state.
THEOREM RegistryInvariant == Spec => []Registry
<1> QED  BY RegistryInit, RegistryStep, Typed, PTL DEF Spec

\* A stream that is over stays in the registry only while its uninstallation is
\* queued, or when the select took it before the installation.
THEOREM RegistryExplainedInvariant == Spec => []RegistryExplained
<1>1. Registry => RegistryExplained
  BY DEF Registry, OverExplained, RegistryExplained
<1> QED  BY <1>1, RegistryInvariant, PTL

-----------------------------------------------------------------------------
(* Complete. *)

\* A response that was sent to a stream, or is waiting for it, is heard.
LEMMA HeardMember ==
  ASSUME ServiceOutTypeOK, NEW s \in Servicers, NEW t
  PROVE  /\ \A r \in ToSet(serviceInbox[s]) \cup ToSet(chServiceSend[s]) :
              r.type # "messageConfirmed" =>
                \A d \in r.contents : d[1] = t => d[2] \in HeardOf(s, t)
         /\ \A m \in HeardOf(s, t) :
              \E r \in ToSet(serviceInbox[s]) \cup ToSet(chServiceSend[s]) :
                /\ r.type # "messageConfirmed"
                /\ \E d \in r.contents : d[1] = t /\ d[2] = m
<1>1. serviceInbox[s] \in Seq(ServiceResponse) /\ chServiceSend[s] \in Seq(ServiceResponse)
  BY DEF ServiceOutTypeOK
<1>2. ToSet(ToldServicer(s)) = ToSet(serviceInbox[s]) \cup ToSet(chServiceSend[s])
  BY <1>1, ConcatToSet DEF ToldServicer
<1> QED  BY <1>2 DEF HeardOf

\* ... in the next state as well.
LEMMA HeardNext ==
  ASSUME ServiceOutTypeOK', NEW s \in Servicers, NEW t
  PROVE  \A r \in ToSet(serviceInbox'[s]) \cup ToSet(chServiceSend'[s]) :
           r.type # "messageConfirmed" =>
             \A d \in r.contents : d[1] = t => d[2] \in HeardOf(s, t)'
<1>1. serviceInbox'[s] \in Seq(ServiceResponse) /\ chServiceSend'[s] \in Seq(ServiceResponse)
  BY DEF ServiceOutTypeOK
<1>2. ToSet(serviceInbox'[s] \o chServiceSend'[s])
        = ToSet(serviceInbox'[s]) \cup ToSet(chServiceSend'[s])
  BY <1>1, ConcatToSet
<1>3. ToSet(ToldServicer(s))' = ToSet(serviceInbox'[s]) \cup ToSet(chServiceSend'[s])
  BY <1>2 DEF ToldServicer
<1> QED  BY <1>3 DEF HeardOf

\* As long as no response is lost a stream has heard no less.
LEMMA HeardGrows ==
  ASSUME TypeOK, TypeOK', NEW s \in Servicers, NEW t,
         ToSet(serviceInbox[s]) \cup ToSet(chServiceSend[s])
           \subseteq ToSet(serviceInbox'[s]) \cup ToSet(chServiceSend'[s])
  PROVE  HeardOf(s, t) \subseteq HeardOf(s, t)'
<1>1. ServiceOutTypeOK /\ ServiceOutTypeOK'
  BY DEF TypeOK
<1> QED  BY <1>1, HeardMember, HeardNext

\* A send adds its response for those who have room, and loses none.
LEMMA SendHeard ==
  ASSUME TypeOK, TypeOK', NEW S, NEW resp, SendTo(S, resp), UNCHANGED serviceInbox,
         NEW s \in Servicers, NEW t
  PROVE  /\ HeardOf(s, t) \subseteq HeardOf(s, t)'
         /\ s \in S \ NoRoom(S) /\ resp.type # "messageConfirmed" =>
              \A d \in resp.contents : d[1] = t => d[2] \in HeardOf(s, t)'
<1>1. chServiceSend[s] \in Seq(ServiceResponse)
  BY DEF TypeOK, ServiceOutTypeOK
<1>2. ToSet(Append(chServiceSend[s], resp)) = ToSet(chServiceSend[s]) \cup {resp}
  BY <1>1, AppendToSet
<1>3. chServiceSend'[s] = IF s \in S \ NoRoom(S) THEN Append(chServiceSend[s], resp)
                          ELSE chServiceSend[s]
  BY DEF SendTo
<1> HIDE DEF SendTo
<1>4. HeardOf(s, t) \subseteq HeardOf(s, t)'
  <2>1. ToSet(chServiceSend[s]) \subseteq ToSet(chServiceSend'[s])
    BY <1>2, <1>3
  <2> QED  BY <2>1, HeardGrows
<1>5. CASE s \in S \ NoRoom(S)
  <2>1. resp \in ToSet(chServiceSend'[s])
    BY <1>2, <1>3, <1>5
  <2>2. ServiceOutTypeOK'
    BY DEF TypeOK
  <2> QED  BY <1>4, <2>1, <2>2, HeardNext
<1> QED  BY <1>4, <1>5

\* The three places of a message that is still to be relayed.
LEMMA ComingParts ==
  /\ UNCHANGED <<serviceReceiver, serviceRequests, serviceTalk>> =>
       \A t : InHand(t)' = InHand(t)
  /\ ToSet(chServicerMessage) \subseteq ToSet(chServicerMessage') =>
       \A t : Queued(t) \subseteq Queued(t)'
  /\ CallsPending \cup unheard \subseteq CallsPending' \cup unheard' =>
       \A t : Called(t) \subseteq Called(t)'
  /\ \A call \in CallsPending' \cup unheard' :
       call.event = "message" => call.message \in Called(call.talk)'
  /\ \A q \in ToSet(chServicerMessage') : q[1] \in Queued(q[2])'
<1>1. UNCHANGED <<serviceReceiver, serviceRequests, serviceTalk>> =>
        \A t : InHand(t)' = InHand(t)
  BY DEF InHand
<1>2. ToSet(chServicerMessage) \subseteq ToSet(chServicerMessage') =>
        \A t : Queued(t) \subseteq Queued(t)'
  BY DEF Queued
<1>3. CallsPending \cup unheard \subseteq CallsPending' \cup unheard' =>
        \A t : Called(t) \subseteq Called(t)'
  BY DEF Called
<1>4. \A call \in CallsPending' \cup unheard' :
        call.event = "message" => call.message \in Called(call.talk)'
  BY DEF Called
<1>5. \A q \in ToSet(chServicerMessage') : q[1] \in Queued(q[2])'
  BY DEF Queued
<1> QED  BY <1>1, <1>2, <1>3, <1>4, <1>5

\* What the lists lacked is noted, and remembered.
LEMMA LackNoted ==
  \A s, t, m : <<s, <<t, m>>>> \in unlisted' => m \in Unlisted(s, t)'
<1> SUFFICES ASSUME NEW s, NEW t, NEW m, <<s, <<t, m>>>> \in unlisted'
             PROVE  m \in Unlisted(s, t)'
  OBVIOUS
<1>1. PICK v : v = <<s, <<t, m>>>>
  OBVIOUS
<1>2. v \in unlisted' /\ v[1] = s /\ v[2][1] = t /\ v[2][2] = m
  BY <1>1
<1> QED  BY <1>2 DEF Unlisted

LEMMA LackGrows ==
  ASSUME unlisted \subseteq unlisted'
  PROVE  \A s, t : Unlisted(s, t) \subseteq Unlisted(s, t)'
BY DEF Unlisted

\* A pair that a step leaves supplied: nothing is stored, heard things stay heard,
\* what was coming still is or is heard now, and so is a talk to be sent again.
LEMMA StaysSupplied ==
  ASSUME NEW s, NEW t, Supplied(s, t), unlisted \subseteq unlisted',
         Stored(t)' \subseteq Stored(t) \cup MessagesComing(t)',
         HeardOf(s, t) \subseteq HeardOf(s, t)',
         MessagesComing(t) \subseteq HeardOf(s, t)' \cup MessagesComing(t)',
         Resending(s, t) => Supplied(s, t)'
  PROVE  Supplied(s, t)'
BY LackGrows DEF Supplied

\* With the store, the calls and the operations unchanged, or more of them.
LEMMA StillSupplied ==
  ASSUME NEW s, NEW t, Supplied(s, t), unlisted \subseteq unlisted',
         InHand(t) \subseteq InHand(t)',
         Stored(t)' \subseteq Stored(t) \cup MessagesComing(t)',
         HeardOf(s, t) \subseteq HeardOf(s, t)',
         ToSet(chServicerMessage) \subseteq ToSet(chServicerMessage'),
         CallsPending \cup unheard \subseteq CallsPending' \cup unheard',
         \A op \in ToSet(servicerTodo) : op.op = "reloadUser" => op \in ToSet(servicerTodo')
  PROVE  Supplied(s, t)'
<1>1. MessagesComing(t) \subseteq MessagesComing(t)'
  BY ComingParts DEF MessagesComing
<1>2. Resending(s, t) => Resending(s, t)'
  BY DEF Resending
<1> QED  BY <1>1, <1>2, LackGrows DEF Supplied

\* Who awaits a talk after a step did so before it, unless the step starts his
\* stream, gives him the talk, or opens it.
LEMMA AwaitsKept ==
  ASSUME NEW s, NEW t \in DOMAIN talks, Awaits(s, t)',
         talks'[t].act = talks[t].act, talks'[t].biz = talks[t].biz,
         talks'[t].service = talks[t].service, talks'[t].status = talks[t].status,
         service'[s] = "serving" => service[s] = "serving",
         reopened \subseteq reopened'
  PROVE  Awaits(s, t)
BY DEF Awaits, IsHis, InView, InScope

\* The stream handler.
LEMMA ServiceStepComplete ==
  ASSUME TypeOK, TypeOK', Registry, Complete, NEW z \in Servicers, ServiceStep(z)
  PROVE  Complete'
<1> SUFFICES ASSUME NEW s \in Registered' \cup Installing', NEW t \in DOMAIN talks',
                    Awaits(s, t)'
             PROVE  Supplied(s, t)'
  BY DEF Complete
<1>1. UNCHANGED <<talks, servicers, servicerTodo, reopened, unlisted, arriving, servicerRunner,
                  unheard, chServicerMessage, serviceRequests, serviceTalk>>
  BY DEF ServiceStep, InstallServicer, ServiceSend, ServiceTerminal, UninstallServicer,
     serviceChans, serviceMain, outsideVars, lossVars, restOfLoss
<1>2. Registered' = Registered /\ Installing' = Installing /\ CallsPending' = CallsPending
  BY <1>1 DEF Registered, Installing, CallsPending
<1>3. s \in Servicers /\ service[s] # "idle"
  BY <1>2, EntrantsTyped DEF Registry, Entered
<1>4. service'[s] = "serving" => service[s] = "serving"
  BY <1>3 DEF ServiceStep, InstallServicer, ServiceSend, ServiceTerminal, UninstallServicer,
     TypeOK, ServiceTypeOK
<1>5. Supplied(s, t)
  BY <1>1, <1>2, <1>4, AwaitsKept DEF Complete
<1>6. InHand(t) \subseteq InHand(t)'
  <2>1. \A r \in Servicers : serviceReceiver[r] = "persisted" => serviceReceiver'[r] = "persisted"
    BY DEF ServiceStep, InstallServicer, ServiceSend, ServiceTerminal, UninstallServicer,
       TypeOK, ServiceTypeOK, serviceVars
  <2> QED  BY <1>1, <2>1 DEF InHand
<1>7. HeardOf(s, t) \subseteq HeardOf(s, t)'
  <2>1. CASE UNCHANGED <<serviceInbox[s], chServiceSend[s]>>
    BY <1>3, <2>1, HeardGrows
  <2>2. CASE ServiceSend(z) /\ z = s
    <3>1. /\ chServiceSend[s] \in Seq(ServiceResponse) /\ chServiceSend[s] # <<>>
          /\ serviceInbox[s] \in Seq(ServiceResponse)
          /\ chServiceSend'[s] = Tail(chServiceSend[s])
      BY <2>2 DEF ServiceSend, TypeOK, ServiceOutTypeOK
    <3>2. serviceInbox'[s] = Append(serviceInbox[s], Head(chServiceSend[s]))
      <4>1. service'[s] = "serving"
        BY DEF Awaits
      <4> QED  BY <2>2, <4>1 DEF ServiceSend, TypeOK, ServiceOutTypeOK, ServiceTypeOK
    <3>3. ToSet(chServiceSend[s]) = {Head(chServiceSend[s])} \cup ToSet(chServiceSend'[s])
      BY <3>1, HeadOrTail
    <3>4. ToSet(serviceInbox'[s]) = ToSet(serviceInbox[s]) \cup {Head(chServiceSend[s])}
      BY <3>1, <3>2, AppendToSet
    <3> QED  BY <1>3, <3>3, <3>4, HeardGrows
  <2>3. UNCHANGED <<serviceInbox[s], chServiceSend[s]>> \/ (ServiceSend(z) /\ z = s)
    BY <1>3 DEF ServiceStep, InstallServicer, ServiceSend, ServiceTerminal, UninstallServicer,
       TypeOK, ServiceOutTypeOK, serviceOut
  <2> QED  BY <2>1, <2>2, <2>3
<1>8. Stored(t)' = Stored(t)
  BY <1>1 DEF Stored
<1> QED  BY <1>1, <1>2, <1>5, <1>6, <1>7, <1>8, StillSupplied

\* The receiver.
LEMMA ServiceReceiverComplete ==
  ASSUME TypeOK, TypeOK', Registry, Complete, NEW z \in Servicers, ServiceReceiverStep(z)
  PROVE  Complete'
<1> SUFFICES ASSUME NEW s \in Registered' \cup Installing', NEW t \in DOMAIN talks',
                    Awaits(s, t)'
             PROVE  Supplied(s, t)'
  BY DEF Complete
<1>1. /\ UNCHANGED <<service, servicers, reopened, unlisted, arriving, servicerRunner,
                     serviceOut>>
      /\ unheard \subseteq unheard'
  BY DEF ServiceReceiverStep, ReceiveQuery, ReceiveForTalk, ReceiveServiceMessage,
     ReceiveServiceMessageFails, ServicerMessageIncoming, ServiceReceiveFails,
     serviceMain, outsideVars, lossVars, restOfLoss
<1>2. \/ UNCHANGED servicerTodo
      \/ /\ servicerTodo = <<>>
         /\ \E kind \in {"attachedTalks", "pendingTalks"} : servicerTodo' = <<Do(kind, z)>>
  BY DEF ServiceReceiverStep, ReceiveQuery, ReceiveForTalk, ReceiveServiceMessage,
     ReceiveServiceMessageFails, ServicerMessageIncoming, ServiceReceiveFails, serviceMain,
     Parked, AtSelect
<1>3. /\ Registered' = Registered /\ Installing' \subseteq Installing
      /\ ToSet(servicerTodo) \subseteq ToSet(servicerTodo')
  <2>1. CASE UNCHANGED servicerTodo
    BY <1>1, <2>1 DEF Registered, Installing
  <2>2. CASE ~UNCHANGED servicerTodo
    <3>1. PICK kind \in {"attachedTalks", "pendingTalks"} : servicerTodo' = <<Do(kind, z)>>
      BY <1>2, <2>2
    <3>2. ToSet(servicerTodo') = {Do(kind, z)} /\ Do(kind, z).op # "finishInstall"
      BY <3>1, OneToSet DEF Do
    <3>3. servicerTodo = <<>> /\ ToSet(<<>>) = {}
      BY <1>2, <2>2 DEF ToSet
    <3> QED  BY <1>1, <3>2, <3>3, NoneInstalling DEF Registered
  <2> QED  BY <2>1, <2>2
<1>4. CallsPending \cup unheard \subseteq CallsPending' \cup unheard'
  BY <1>1, <1>3 DEF CallsPending
<1>5. s \in Servicers /\ HeardOf(s, t) \subseteq HeardOf(s, t)'
  BY <1>1, <1>3, EntrantsTyped, HeardGrows DEF serviceOut
<1>6. ASSUME t \in DOMAIN talks,
             talks'[t].act = talks[t].act, talks'[t].biz = talks[t].biz,
             talks'[t].service = talks[t].service, talks'[t].status = talks[t].status,
             MessagesComing(t) \subseteq MessagesComing(t)',
             Stored(t)' \subseteq Stored(t) \cup MessagesComing(t)'
      PROVE  Supplied(s, t)'
  <2>1. Supplied(s, t)
    BY <1>1, <1>3, <1>6, AwaitsKept DEF Complete
  <2>2. Resending(s, t) => Resending(s, t)'
    BY <1>3, <1>4 DEF Resending
  <2> QED  BY <1>1, <1>5, <1>6, <2>1, <2>2, LackGrows DEF Supplied
<1>7. ASSUME UNCHANGED talks, MessagesComing(t) \subseteq MessagesComing(t)'
      PROVE  Supplied(s, t)'
  BY <1>6, <1>7 DEF Stored
<1>8. ASSUME InHand(t) \subseteq InHand(t)',
             ToSet(chServicerMessage) \subseteq ToSet(chServicerMessage')
      PROVE  MessagesComing(t) \subseteq MessagesComing(t)'
  BY <1>4, <1>8, ComingParts DEF MessagesComing
<1>9. ASSUME serviceReceiver[z] = "receiving",
             \A r \in Servicers \ {z} :
               UNCHANGED <<serviceReceiver[r], serviceRequests[r], serviceTalk[r]>>
      PROVE  InHand(t) \subseteq InHand(t)'
  BY <1>9 DEF InHand
<1>10. CASE \/ \E kind \in {"attachedTalks", "pendingTalks"} : ReceiveQuery(z, kind)
            \/ \E u \in Talks : ReceiveForTalk(z, u) \/ ReceiveServiceMessageFails(z, u)
            \/ ServiceReceiveFails(z)
  <2>1. /\ serviceReceiver[z] = "receiving" /\ UNCHANGED <<talks, chServicerMessage>>
        /\ \A r \in Servicers \ {z} :
               UNCHANGED <<serviceReceiver[r], serviceRequests[r], serviceTalk[r]>>
    BY <1>10 DEF ReceiveQuery, ReceiveForTalk, ReceiveServiceMessageFails, ServiceReceiveFails,
       CountServiceRequest, serviceChans, TypeOK, ServiceTypeOK
  <2> QED  BY <1>7, <1>8, <1>9, <2>1
<1>11. CASE \E u \in Talks : ReceiveServiceMessage(z, u)
  <2>1. PICK u \in Talks : ReceiveServiceMessage(z, u)
    BY <1>11
  <2>2. PICK m : m = <<z, serviceRequests[z] + 1>>
    OBVIOUS
  <2>3. /\ serviceReceiver[z] = "receiving" /\ UNCHANGED chServicerMessage
        /\ \A r \in Servicers \ {z} :
               UNCHANGED <<serviceReceiver[r], serviceRequests[r], serviceTalk[r]>>
        /\ serviceReceiver'[z] = "persisted" /\ serviceTalk'[z] = u
        /\ serviceRequests'[z] = serviceRequests[z] + 1
        /\ AddTalkMessage(u, m)
    BY <2>1, <2>2 DEF ReceiveServiceMessage, CountServiceRequest, serviceChans,
       TypeOK, ServiceTypeOK
  <2>4. MessagesComing(t) \subseteq MessagesComing(t)'
    BY <1>8, <1>9, <2>3
  <2>5. m \in MessagesComing(u)'
    BY <2>2, <2>3 DEF MessagesComing, InHand
  <2>6. /\ DOMAIN talks' = DOMAIN talks /\ Stored(u)' = Stored(u) \cup {m}
        /\ \A v : v # u => Stored(v)' = Stored(v)
        /\ talks'[t].act = talks[t].act /\ talks'[t].biz = talks[t].biz
        /\ talks'[t].service = talks[t].service /\ talks'[t].status = talks[t].status
    BY <2>3, AddsOne DEF TypeOK
  <2>7. Stored(t)' \subseteq Stored(t) \cup MessagesComing(t)'
    BY <2>5, <2>6
  <2> QED  BY <1>6, <2>4, <2>6, <2>7
<1>12. CASE ServicerMessageIncoming(z)
  <2>1. PICK m : m = <<z, serviceRequests[z]>>
    OBVIOUS
  <2>2. PICK u : u = serviceTalk[z]
    OBVIOUS
  <2>3. /\ \A r \in Servicers \ {z} :
             UNCHANGED <<serviceReceiver[r], serviceRequests[r], serviceTalk[r]>>
        /\ UNCHANGED talks
        /\ chServicerMessage' = Offer(chServicerMessage, MaxServiceMessages, <<m, u>>)
        /\ unheard' = IF HasRoom(chServicerMessage, MaxServiceMessages) THEN unheard
                      ELSE unheard \cup {MessageCall(u, m)}
    BY <1>12, <2>1, <2>2 DEF ServicerMessageIncoming, TypeOK, ServiceTypeOK
  <2>4. \A v : InHand(v) \subseteq InHand(v)' \cup {m} /\ (v # u => InHand(v) \subseteq InHand(v)')
    BY <2>1, <2>2, <2>3 DEF InHand
  <2>5. \A v : Queued(v) \subseteq Queued(v)'
    <3>1. chServicerMessage \in Seq((Servicers \X Nat) \X Talks)
      BY DEF TypeOK, ServiceChanTypeOK, Fits
    <3>2. ToSet(chServicerMessage) \subseteq ToSet(chServicerMessage')
      BY <2>3, <3>1, AppendToSet DEF Offer
    <3> QED  BY <3>2, ComingParts
  <2>6. m \in Queued(u)' \cup Called(u)'
    <3>1. CASE HasRoom(chServicerMessage, MaxServiceMessages)
      <4>1. chServicerMessage \in Seq((Servicers \X Nat) \X Talks)
        BY DEF TypeOK, ServiceChanTypeOK, Fits
      <4>2. <<m, u>> \in ToSet(chServicerMessage')
        BY <2>3, <3>1, <4>1, AppendToSet DEF Offer
      <4> QED  BY <4>2 DEF Queued
    <3>2. CASE ~HasRoom(chServicerMessage, MaxServiceMessages)
      <4>1. MessageCall(u, m) \in unheard'
        BY <2>3, <3>2
      <4>2. /\ MessageCall(u, m).event = "message" /\ MessageCall(u, m).talk = u
            /\ MessageCall(u, m).message = m
        BY DEF MessageCall
      <4> QED  BY <4>1, <4>2, ComingParts
    <3> QED  BY <3>1, <3>2
  <2>7. \A v : Called(v) \subseteq Called(v)'
    BY <1>4, ComingParts
  <2>8. MessagesComing(t) \subseteq MessagesComing(t)'
    BY <2>4, <2>5, <2>6, <2>7 DEF MessagesComing
  <2> QED  BY <1>7, <2>3, <2>8
<1> QED  BY <1>10, <1>11, <1>12 DEF ServiceReceiverStep

\* At the select no operation is left, and only posted calls and those still to come
\* are pending.
LEMMA SelectCalls ==
  ASSUME servicerTodo = <<>>
  PROVE  ToSet(servicerTodo) = {} /\ CallsPending = arriving \cup ToSet(servicerRunner)
<1>1. ToSet(<<>>) = {}
  BY DEF ToSet
<1> QED  BY <1>1 DEF CallsPending

\* A case of the select that leaves the receivers and the calls as they are keeps every
\* pair supplied: what it leaves to be done only adds to it.
LEMMA SelectSupplied ==
  ASSUME servicerTodo = <<>>, NEW s, NEW t, Supplied(s, t),
         UNCHANGED <<serviceReceiver, serviceRequests, serviceTalk, arriving, servicerRunner>>,
         unheard \subseteq unheard', unlisted \subseteq unlisted',
         ToSet(chServicerMessage) \subseteq ToSet(chServicerMessage'),
         Stored(t)' = Stored(t), HeardOf(s, t) \subseteq HeardOf(s, t)'
  PROVE  Supplied(s, t)'
<1>1. /\ InHand(t)' = InHand(t)
      /\ CallsPending \cup unheard \subseteq CallsPending' \cup unheard'
  BY SelectCalls, ComingParts DEF CallsPending
<1>2. \A op : op \notin ToSet(servicerTodo)
  BY SelectCalls
<1> QED  BY <1>1, <1>2, StillSupplied

\* The installation of a stream: he is sent the messages of his talks, or it is noted which he
\* was not sent.
LEMMA HandleInstallComplete ==
  ASSUME TypeOK, TypeOK', Complete, HandleInstallServicer
  PROVE  Complete'
<1> SUFFICES ASSUME NEW s \in Registered' \cup Installing', NEW t \in DOMAIN talks',
                    Awaits(s, t)'
             PROVE  Supplied(s, t)'
  BY DEF Complete
<1>1. PICK z : z = Head(chInstallServicer)
  OBVIOUS
<1>2. /\ servicerTodo = <<>> /\ servicerTodo' = <<Do("finishInstall", z)>>
      /\ UNCHANGED <<talks, service, serviceReceiver, serviceRequests, serviceTalk,
                     arriving, servicerRunner, unheard, reopened, chServicerMessage, servicers,
                     serviceInbox>>
  BY <1>1 DEF HandleInstallServicer, AtSelect, serviceVars, outsideVars
<1>3. PICK read : /\ unlisted' = unlisted \cup NotSent(z, read)
                  /\ \/ read = {} /\ UNCHANGED chServiceSend
                     \/ read = {} /\ \E some : SendTo({z}, AttachedTalks(z, some))
                     \/ z \notin NoRoom({z}) /\ SendTo({z}, AttachedTalks(z, read))
  BY <1>1 DEF HandleInstallServicer
<1>4. Registered' = Registered /\ Installing' = {z}
  BY <1>2, OneToSet, OneInstalling DEF Registered
<1>5. s \in Servicers
  BY EntrantsTyped, <1>1, <1>4, Capacities, ReceiveFits
  DEF HandleInstallServicer, TypeOK, ServiceChanTypeOK
<1>6. Awaits(s, t)
  BY <1>2, <1>3, AwaitsKept
<1>7. Stored(t)' = Stored(t)
  BY <1>2 DEF Stored
<1>8. HeardOf(s, t) \subseteq HeardOf(s, t)'
  BY <1>2, <1>3, <1>5, SendHeard, HeardGrows
<1>9. CASE s # z
  <2>1. Supplied(s, t)
    BY <1>2, <1>4, <1>6, <1>9 DEF Complete
  <2>2. unlisted \subseteq unlisted'
    BY <1>3
  <2> QED  BY <1>2, <1>7, <1>8, <2>1, <2>2, SelectSupplied
<1>10. CASE s = z
  <2>1. t \in Mine(s)
    BY <1>2, <1>6 DEF Awaits, IsHis, InView, Mine, GetServicerTalkInfos
  <2>2. CASE t \in read
    <3>1. PICK resp : resp = AttachedTalks(s, read)
      OBVIOUS
    <3>2. /\ resp.type # "messageConfirmed"
          /\ \A m \in Stored(t) : <<t, m>> \in resp.contents
      BY <2>2, <3>1 DEF AttachedTalks, AllContents, Respond, Contents
    <3>3. SendTo({s}, resp) /\ s \in {s} \ NoRoom({s})
      BY <1>3, <1>10, <2>2, <3>1
    <3>4. \A d \in resp.contents : d[1] = t => d[2] \in HeardOf(s, t)'
      BY <1>2, <1>5, <3>2, <3>3, SendHeard
    <3>5. Stored(t) \subseteq HeardOf(s, t)'
      BY <3>2, <3>4
    <3> QED  BY <1>7, <3>5 DEF Supplied
  <2>3. CASE t \notin read
    <3>1. \A m \in Stored(t) : <<s, <<t, m>>>> \in unlisted'
      BY <1>3, <1>10, <2>1, <2>3 DEF NotSent, AllContents, Contents
    <3>2. Stored(t) \subseteq Unlisted(s, t)'
      BY <3>1, LackNoted
    <3> QED  BY <1>7, <3>2 DEF Supplied
  <2> QED  BY <2>2, <2>3
<1> QED  BY <1>9, <1>10

\* The other cases of the select but those of messages and of posted closures.
LEMMA HandleOthersComplete ==
  ASSUME TypeOK, TypeOK', Complete,
         HandleUninstallServicer \/ HandleAttach \/ HandleDetach \/ HandleReload
  PROVE  Complete'
<1> SUFFICES ASSUME NEW s \in Registered' \cup Installing', NEW t \in DOMAIN talks',
                    Awaits(s, t)'
             PROVE  Supplied(s, t)'
  BY DEF Complete
<1>1. /\ servicerTodo = <<>>
      /\ UNCHANGED <<service, serviceReceiver, serviceRequests, serviceTalk, arriving,
                     servicerRunner, unheard, unlisted, reopened, chServicerMessage,
                     serviceInbox>>
  BY DEF HandleUninstallServicer, HandleAttach, HandleDetach, HandleReload, AtSelect,
     serviceVars, serviceOut, outsideVars, lossVars, restOfLoss
<1>2. Registered' \subseteq Registered /\ Installing' = {}
  <2>1. CASE HandleUninstallServicer
    <3>1. Installing' = {}
      BY <1>1, <2>1, SelectInstalls DEF HandleUninstallServicer
    <3>2. \A u \in Users : servicers'[u] \subseteq servicers[u]
      BY <2>1 DEF HandleUninstallServicer, TypeOK, ServiceMainTypeOK
    <3> QED  BY <3>1, <3>2 DEF Registered
  <2>2. CASE HandleAttach \/ HandleDetach \/ HandleReload
    <3>1. UNCHANGED servicers
      BY <2>2 DEF HandleAttach, HandleDetach, HandleReload, serviceMain
    <3>2. \/ UNCHANGED servicerTodo
          \/ \E call : servicerTodo' = <<Tell("tellServicers", call)>>
          \/ \E u : servicerTodo' = <<[op |-> "detached", talk |-> u]>>
      BY <2>2 DEF HandleAttach, HandleDetach, HandleReload, serviceMain
    <3>3. UNCHANGED servicerTodo \/ \A o \in ToSet(servicerTodo') : o.op # "finishInstall"
      BY <3>2, OneToSet DEF Tell
    <3> QED  BY <1>1, <3>1, <3>3, NoneInstalling, SelectInstalls DEF Registered
  <2> QED  BY <2>1, <2>2
<1>3. s \in Registered /\ s \in Servicers
  BY <1>2, EntrantsTyped
<1>4. HeardOf(s, t) \subseteq HeardOf(s, t)'
  <2>1. UNCHANGED chServiceSend \/ \E S, resp : SendTo(S, resp)
    BY DEF HandleUninstallServicer, HandleAttach, HandleDetach, HandleReload, serviceOut
  <2> QED  BY <1>1, <1>3, <2>1, SendHeard, HeardGrows
<1>5. ASSUME t \in DOMAIN talks, Stored(t)' = Stored(t),
             talks'[t].act = talks[t].act, talks'[t].biz = talks[t].biz,
             talks'[t].service = talks[t].service, talks'[t].status = talks[t].status
      PROVE  Supplied(s, t)'
  <2>1. Supplied(s, t)
    BY <1>1, <1>3, <1>5, AwaitsKept DEF Complete
  <2> QED  BY <1>1, <1>4, <1>5, <2>1, SelectSupplied
<1>6. CASE UNCHANGED talks
  BY <1>5, <1>6 DEF Stored
<1>7. CASE \E acts, bizs, y, user : UpdateTalkServiceID(acts, bizs, y, user) /\ y # t
  <2>1. PICK acts, bizs, y, user : UpdateTalkServiceID(acts, bizs, y, user) /\ y # t
    BY <1>7
  <2>2. Stored(t)' = Stored(t)
    BY <2>1, NothingStored DEF TypeOK
  <2>3. DOMAIN talks' = DOMAIN talks /\ talks'[t] = talks[t]
    BY <2>1 DEF UpdateTalkServiceID
  <2> QED  BY <1>5, <2>2, <2>3
<1>8. ASSUME NEW acts, NEW bizs, NEW user, UpdateTalkServiceID(acts, bizs, t, user)
      PROVE  UserOf[s] = user
  <2>1. talks[t] \in TalkInfo /\ talks'[t] = [talks[t] EXCEPT !.service = user]
    BY <1>8 DEF UpdateTalkServiceID, InScope, TypeOK, StoreTypeOK
  <2>2. talks'[t].service = user
    BY <2>1 DEF TalkInfo
  <2> QED  BY <2>2 DEF Awaits, IsHis
<1>9. CASE HandleAttach
  <2>1. PICK y, u : \/ UNCHANGED talks
                   \/ /\ \E acts, bizs : UpdateTalkServiceID(acts, bizs, y, u)
                      /\ servicerTodo' = <<Tell("tellServicers", AttachCall(y, u))>>
    BY <1>9 DEF HandleAttach
  <2>2. ASSUME NEW acts, NEW bizs, UpdateTalkServiceID(acts, bizs, t, u), y = t,
               servicerTodo' = <<Tell("tellServicers", AttachCall(y, u))>>
        PROVE  Supplied(s, t)'
    <3>1. PICK call : call = AttachCall(t, UserOf[s])
      OBVIOUS
    <3>2. servicerTodo' = <<Tell("tellServicers", call)>>
      BY <1>8, <2>2, <3>1
    <3>3. /\ Tell("tellServicers", call) \in ToSet(servicerTodo')
          /\ Tell("tellServicers", call).op = "tellServicers"
          /\ Tell("tellServicers", call).call = call
      BY <3>2, OneToSet DEF Tell
    <3>4. call \in CallsPending'
      BY <3>3 DEF CallsPending
    <3> QED  BY <3>1, <3>4 DEF Supplied, Resending
  <2> QED  BY <1>6, <1>7, <2>1, <2>2
<1>10. CASE HandleDetach
  <2>1. \/ UNCHANGED talks
        \/ \E acts, bizs, y : UpdateTalkServiceID(acts, bizs, y, NoOne)
    BY <1>10 DEF HandleDetach
  <2>2. UserOf[s] # NoOne
    BY <1>3, ServicerAssumption, NoOneAssumption
  <2> QED  BY <1>6, <1>7, <1>8, <2>1, <2>2
<1>11. CASE HandleUninstallServicer \/ HandleReload
  BY <1>6, <1>11 DEF HandleUninstallServicer, HandleReload
<1> QED  BY <1>9, <1>10, <1>11

\* A message of a servicer: it is passed on, or the call it would have made is lost.
LEMMA HandleMessageComplete ==
  ASSUME TypeOK, TypeOK', Complete, HandleServiceMessage
  PROVE  Complete'
<1> SUFFICES ASSUME NEW s \in Registered' \cup Installing', NEW t \in DOMAIN talks',
                    Awaits(s, t)'
             PROVE  Supplied(s, t)'
  BY DEF Complete
<1>1. PICK q : q = Head(chServicerMessage)
  OBVIOUS
<1>2. PICK call : call = MessageCall(q[2], q[1])
  OBVIOUS
<1>3. /\ servicerTodo = <<>> /\ chServicerMessage # <<>>
      /\ chServicerMessage' = Tail(chServicerMessage)
      /\ UNCHANGED <<talks, service, serviceReceiver, serviceRequests, serviceTalk, arriving,
                     servicerRunner, unlisted, reopened, serviceInbox>>
  BY DEF HandleServiceMessage, AtSelect, serviceVars, outsideVars, restOfLoss
<1>4. \/ /\ \E S, resp : SendOrDismiss(S, resp)
         /\ servicerTodo' = <<Tell("tellCustomers", call), Tell("tellServicers", call)>>
         /\ UNCHANGED unheard
      \/ /\ unheard' = unheard \cup {call}
         /\ UNCHANGED <<chServiceSend, servicerTodo, servicers>>
  BY <1>1, <1>2 DEF HandleServiceMessage, serviceMain
<1>5. ToSet(chServicerMessage) = {q} \cup ToSet(chServicerMessage')
  BY <1>1, <1>3, Capacities, ReceiveFits DEF TypeOK, ServiceChanTypeOK
<1>6. call \in CallsPending' \cup unheard' /\ Installing' = {}
  <2>1. CASE servicerTodo' = <<Tell("tellCustomers", call), Tell("tellServicers", call)>>
    <3>1. ToSet(servicerTodo') = {Tell("tellCustomers", call), Tell("tellServicers", call)}
      BY <2>1 DEF ToSet
    <3>2. /\ Tell("tellServicers", call).op = "tellServicers"
          /\ Tell("tellCustomers", call).op = "tellCustomers"
          /\ Tell("tellServicers", call).call = call
      BY DEF Tell
    <3> QED  BY <3>1, <3>2, NoneInstalling DEF CallsPending
  <2>2. CASE unheard' = unheard \cup {call} /\ UNCHANGED servicerTodo
    BY <1>3, <2>2, SelectInstalls
  <2> QED  BY <1>4, <2>1, <2>2
<1>7. Registered' \subseteq Registered /\ s \in Registered /\ s \in Servicers
  BY <1>4, <1>6, EntrantsTyped DEF SendOrDismiss, Registered, TypeOK, ServiceMainTypeOK
<1>8. HeardOf(s, t) \subseteq HeardOf(s, t)'
  BY <1>3, <1>4, <1>7, SendHeard, HeardGrows DEF SendOrDismiss
<1>9. CallsPending \cup unheard \subseteq CallsPending' \cup unheard'
  BY <1>3, <1>4, SelectCalls DEF CallsPending
<1>10. MessagesComing(t) \subseteq MessagesComing(t)'
  <2>1. InHand(t)' = InHand(t) /\ Called(t) \subseteq Called(t)'
    BY <1>3, <1>9, ComingParts
  <2>2. q[1] \in Called(q[2])'
    <3>1. call.event = "message" /\ call.talk = q[2] /\ call.message = q[1]
      BY <1>2 DEF MessageCall
    <3> QED  BY <1>6, <3>1, ComingParts
  <2>3. Queued(t) \subseteq Queued(t)' \cup Called(t)'
    BY <1>5, <2>2 DEF Queued
  <2> QED  BY <2>1, <2>3 DEF MessagesComing
<1>11. Supplied(s, t)
  BY <1>3, <1>7, AwaitsKept DEF Complete
<1>12. Resending(s, t) => Resending(s, t)'
  BY <1>3, <1>9, SelectCalls DEF Resending
<1>13. Stored(t)' = Stored(t)
  BY <1>3 DEF Stored
<1> QED  BY <1>3, <1>8, <1>10, <1>11, <1>12, <1>13, LackGrows DEF Supplied

\* A posted closure: a message goes to whoever serves the talk, an attach leaves a
\* reload to be done, the others carry no message.
LEMMA RunComplete ==
  ASSUME TypeOK, TypeOK', Registry', Complete, RunPostedCall
  PROVE  Complete'
<1> SUFFICES ASSUME NEW s \in Registered' \cup Installing', NEW t \in DOMAIN talks',
                    Awaits(s, t)'
             PROVE  Supplied(s, t)'
  BY DEF Complete
<1>1. PICK call : call = Head(servicerRunner)
  OBVIOUS
<1>2. /\ servicerTodo = <<>> /\ RunCall(call)
      /\ UNCHANGED <<talks, service, serviceReceiver, serviceRequests, serviceTalk, arriving,
                     chServicerMessage, unlisted, reopened, serviceInbox>>
  BY <1>1 DEF RunPostedCall, AtSelect, serviceVars, serviceChans, outsideVars, restOfLoss
<1>3. call \in Call /\ ToSet(servicerRunner) = {call} \cup ToSet(servicerRunner')
  BY <1>1, Capacities, ReceiveFits DEF RunPostedCall, TypeOK, ServiceChanTypeOK
<1>4. /\ UNCHANGED <<servicers, chServiceSend>> \/ \E S, resp : SendOrDismiss(S, resp)
      /\ unheard \subseteq unheard'
      /\ \/ UNCHANGED servicerTodo
         \/ servicerTodo' = <<[op |-> "reloadUser", talk |-> call.talk, user |-> call.user]>>
  BY <1>2 DEF RunCall, RunMessage, RunCreate, RunClose, RunAttach, RunDetach, serviceMain
<1>5. Installing' = {}
  <2>1. CASE UNCHANGED servicerTodo
    BY <1>2, <2>1, SelectInstalls
  <2>2. CASE servicerTodo' = <<[op |-> "reloadUser", talk |-> call.talk, user |-> call.user]>>
    BY <2>2, OneToSet, NoneInstalling
  <2> QED  BY <1>4, <2>1, <2>2
<1>6. s \in Registered' /\ s \in Registered /\ s \in Servicers
  BY <1>4, <1>5, EntrantsTyped DEF SendOrDismiss, Registered, TypeOK, ServiceMainTypeOK
<1>7. HeardOf(s, t) \subseteq HeardOf(s, t)'
  BY <1>2, <1>4, <1>6, SendHeard, HeardGrows DEF SendOrDismiss
<1>8. CallsPending \cup unheard \subseteq CallsPending' \cup unheard' \cup {call}
  BY <1>2, <1>3, <1>4, SelectCalls DEF CallsPending
<1>9. Supplied(s, t) /\ Awaits(s, t)
  BY <1>2, <1>6, AwaitsKept DEF Complete
<1>10. InHand(t)' = InHand(t) /\ Queued(t)' = Queued(t) /\ Stored(t)' = Stored(t)
  BY <1>2 DEF InHand, Queued, Stored
<1>11. \A op : op \notin ToSet(servicerTodo)
  BY <1>2, SelectCalls
<1>12. unlisted \subseteq unlisted'
  BY <1>2
<1>13. CASE call \in unheard'
  BY <1>2, <1>7, <1>8, <1>9, <1>10, <1>11, <1>13, StillSupplied
<1>14. CASE call \notin unheard' /\ call.event = "attach"
  <2>1. Called(t) \subseteq Called(t)'
    BY <1>8, <1>14 DEF Called
  <2>2. servicerTodo' = <<[op |-> "reloadUser", talk |-> call.talk, user |-> call.user]>>
    BY <1>2, <1>14 DEF RunCall, RunAttach
  <2>3. AttachCall(t, UserOf[s]) = call => Resending(s, t)'
    <3>1. [op |-> "reloadUser", talk |-> call.talk, user |-> call.user] \in ToSet(servicerTodo')
      BY <2>2, OneToSet
    <3> QED  BY <3>1 DEF Resending, AttachCall
  <2>4. Resending(s, t) => Resending(s, t)'
    BY <1>8, <1>11, <2>3 DEF Resending
  <2> QED  BY <1>7, <1>9, <1>10, <1>12, <2>1, <2>4, LackGrows
           DEF Supplied, MessagesComing
<1>15. ASSUME call \notin unheard', call.event # "attach"
       PROVE  Resending(s, t) => Resending(s, t)'
  <2>1. AttachCall(t, UserOf[s]) # call
    BY <1>15 DEF AttachCall
  <2> QED  BY <1>8, <1>11, <2>1 DEF Resending
<1>16. CASE call \notin unheard' /\ call.event \in {"create", "close", "detach"}
  <2>1. Called(t) \subseteq Called(t)'
    BY <1>8, <1>16 DEF Called
  <2> QED  BY <1>7, <1>9, <1>10, <1>15, <1>12, <1>16, <2>1, LackGrows
           DEF Supplied, MessagesComing
<1>17. CASE call \notin unheard' /\ call.event = "message"
  <2>1. Called(t) \subseteq Called(t)' \cup {m \in {call.message} : call.talk = t}
    BY <1>8 DEF Called
  <2>2. call.talk = t => call.message \in HeardOf(s, t)'
    <3>1. SUFFICES ASSUME call.talk = t  PROVE call.message \in HeardOf(s, t)'
      OBVIOUS
    <3>2. PICK resp : resp = Respond("message", {}, {<<t, call.message>>})
      OBVIOUS
    <3>3. talks[t].service = UserOf[s] /\ UserOf[s] \in Users /\ UserOf[s] # NoOne
      BY <1>6, <1>9, ServicerAssumption, NoOneAssumption DEF Awaits, IsHis
    <3>4. SendOrDismiss(servicers[UserOf[s]], resp)
      BY <1>2, <1>17, <3>1, <3>2, <3>3 DEF RunCall, RunMessage
    <3>5. s \in servicers'[UserOf[s]]
      BY <1>6 DEF Registered, Registry, Sorted
    <3>6. s \in servicers[UserOf[s]] \ NoRoom(servicers[UserOf[s]])
      BY <3>3, <3>4, <3>5 DEF SendOrDismiss, TypeOK, ServiceMainTypeOK
    <3>7. resp.type # "messageConfirmed" /\ resp.contents = {<<t, call.message>>}
      BY <3>2 DEF Respond
    <3>8. \A d \in resp.contents : d[1] = t => d[2] \in HeardOf(s, t)'
      BY <1>2, <1>6, <3>4, <3>6, <3>7, SendHeard DEF SendOrDismiss
    <3> QED  BY <3>7, <3>8
  <2>3. MessagesComing(t) \subseteq HeardOf(s, t)' \cup MessagesComing(t)'
    BY <1>10, <2>1, <2>2 DEF MessagesComing
  <2> QED  BY <1>7, <1>9, <1>10, <1>15, <1>12, <1>17, <2>3, LackGrows DEF Supplied
<1> QED  BY <1>3, <1>13, <1>14, <1>16, <1>17 DEF Call

\* A post loses no call that is pending, and what it cannot post is unheard.
LEMMA PostKeeps ==
  ASSUME TypeOK, NEW call \in Call, Post(call)
  PROVE  /\ ToSet(servicerRunner) \subseteq ToSet(servicerRunner')
         /\ call \in ToSet(servicerRunner') \cup unheard'
         /\ unheard \subseteq unheard'
BY Capacities, OfferFits DEF Post, TypeOK, ServiceChanTypeOK

\* The streams of the next registry, and the one being installed, are streams.
LEMMA EntrantsNext ==
  ASSUME TypeOK'
  PROVE  Registered' \cup Installing' \subseteq Servicers
<1>1. Registered' \subseteq Servicers
  BY DEF Registered, TypeOK, ServiceMainTypeOK
<1>2. ToSet(servicerTodo') \subseteq Operation
  BY DEF TypeOK, ServiceMainTypeOK, ToSet
<1>3. Installing' \subseteq Servicers
  BY <1>2, OperationParts DEF Installing
<1> QED  BY <1>1, <1>3

\* The operations of a case.
LEMMA RestComplete ==
  ASSUME TypeOK, TypeOK', Registry, Registry', Complete,
         \/ AnswerAttachedTalks \/ AnswerPendingTalks \/ FinishInstall
         \/ ReloadUser \/ ReadDetached \/ TellServicers \/ TellCustomers
         \/ \E z \in Servicers : Dismiss(z)
  PROVE  Complete'
<1> SUFFICES ASSUME NEW s \in Registered' \cup Installing', NEW t \in DOMAIN talks',
                    Awaits(s, t)'
             PROVE  Supplied(s, t)'
  BY DEF Complete
<1>1. /\ UNCHANGED <<talks, service, serviceReceiver, serviceRequests, serviceTalk, arriving,
                     chServicerMessage, unlisted, reopened, serviceInbox>>
      /\ unheard \subseteq unheard'
  BY DEF AnswerAttachedTalks, AnswerPendingTalks, FinishInstall, ReloadUser, ReadDetached,
     TellServicers, Post, TellCustomers, Dismiss, serviceVars, serviceChans, serviceOut,
     outsideVars, lossVars, restOfLoss
<1>2. ASSUME s \in Registered \cup Installing
      PROVE  Supplied(s, t) /\ Awaits(s, t)
  BY <1>1, <1>2, AwaitsKept DEF Complete
<1>3. s \in Servicers
  BY EntrantsNext
<1>4. HeardOf(s, t) \subseteq HeardOf(s, t)'
  <2>1. UNCHANGED chServiceSend \/ \E S, resp : SendTo(S, resp)
    BY DEF AnswerAttachedTalks, AnswerPendingTalks, FinishInstall, ReloadUser, ReadDetached,
       TellServicers, TellCustomers, Dismiss, SendOrDismiss, serviceOut
  <2> QED  BY <1>1, <1>3, <2>1, SendHeard, HeardGrows
<1>5. Stored(t)' = Stored(t) /\ InHand(t)' = InHand(t) /\ Queued(t)' = Queued(t)
  BY <1>1 DEF Stored, InHand, Queued
<1>6. PICK o : o = Head(servicerTodo)
  OBVIOUS
<1>7. ASSUME NEW op, NextOperation(op, <<>>)
      PROVE  /\ o.op = op /\ o \in Operation /\ Installing' = {}
             /\ ToSet(servicerTodo) = {o} \cup ToSet(servicerTodo')
  BY <1>6, <1>7, NextTyped, NextInstalls
<1>8. ASSUME s \in Registered \cup Installing,
             CallsPending \cup unheard \subseteq CallsPending' \cup unheard',
             \A op \in ToSet(servicerTodo) : op.op = "reloadUser" => op \in ToSet(servicerTodo')
      PROVE  Supplied(s, t)'
  BY <1>1, <1>2, <1>4, <1>5, <1>8, StillSupplied
<1>9. CASE AnswerAttachedTalks \/ AnswerPendingTalks \/ FinishInstall \/ TellCustomers
  <2>1. PICK op \in {"attachedTalks", "pendingTalks", "finishInstall", "tellCustomers"} :
          NextOperation(op, <<>>)
    BY <1>9 DEF AnswerAttachedTalks, AnswerPendingTalks, FinishInstall, TellCustomers
  <2>2. UNCHANGED <<arriving, servicerRunner, unheard>>
    BY <1>9 DEF AnswerAttachedTalks, AnswerPendingTalks, FinishInstall, TellCustomers,
       outsideVars, lossVars
  <2>3. CallsPending \cup unheard \subseteq CallsPending' \cup unheard'
    BY <1>7, <2>1, <2>2 DEF CallsPending
  <2>4. s \in Registered \cup Installing
    <3>1. CASE UNCHANGED servicers
      BY <1>7, <2>1, <3>1 DEF Registered
    <3>2. CASE FinishInstall
      <4>1. o.stream \in Installing
        BY <1>7, <3>2 DEF FinishInstall, Installing
      <4>2. servicers' = [servicers EXCEPT ![UserOf[o.stream]] = @ \cup {o.stream}]
        BY <1>6, <3>2 DEF FinishInstall
      <4>3. Registered' \subseteq Registered \cup {o.stream}
        BY <4>2 DEF Registered, TypeOK, ServiceMainTypeOK
      <4> QED  BY <1>7, <2>1, <4>1, <4>3
    <3> QED  BY <1>9, <3>1, <3>2 DEF AnswerAttachedTalks, AnswerPendingTalks, TellCustomers
  <2> QED  BY <1>7, <1>8, <2>1, <2>3, <2>4
<1>10. CASE \E z \in Servicers : Dismiss(z)
  <2>1. UNCHANGED <<servicers, servicerTodo, arriving, servicerRunner, unheard>>
    BY <1>10 DEF Dismiss, outsideVars, lossVars
  <2> QED  BY <1>8, <2>1 DEF Registered, Installing, CallsPending
<1>11. CASE ReloadUser
  <2>1. /\ NextOperation("reloadUser", <<>>) /\ UNCHANGED <<arriving, servicerRunner>>
        /\ \/ SendOrDismiss(servicers[o.user], Reload(o.talk))
           \/ /\ unheard' = unheard \cup {AttachCall(o.talk, o.user)}
              /\ UNCHANGED servicers
    BY <1>6, <1>11 DEF ReloadUser, outsideVars
  <2>2. /\ o.op = "reloadUser" /\ o \in Operation /\ Installing' = {}
        /\ ToSet(servicerTodo) = {o} \cup ToSet(servicerTodo')
    BY <1>7, <2>1
  <2>3. s \in Registered /\ s \in Registered'
    BY <2>1, <2>2 DEF SendOrDismiss, Registered, TypeOK, ServiceMainTypeOK
  <2>4. CallsPending \cup unheard \subseteq CallsPending' \cup unheard'
    BY <1>1, <2>1, <2>2 DEF CallsPending
  <2>5. CASE o.talk = t /\ o.user = UserOf[s]
    <3>1. CASE unheard' = unheard \cup {AttachCall(o.talk, o.user)}
      BY <2>5, <3>1 DEF Supplied, Resending
    <3>2. CASE SendOrDismiss(servicers[o.user], Reload(o.talk))
      <4>1. PICK resp : resp = Reload(t)
        OBVIOUS
      <4>2. SendOrDismiss(servicers[UserOf[s]], resp)
        BY <2>5, <3>2, <4>1
      <4>3. s \in servicers'[UserOf[s]] /\ UserOf[s] \in Users
        BY <2>3, <1>3, ServicerAssumption DEF Registered, Registry, Sorted
      <4>4. s \in servicers[UserOf[s]] \ NoRoom(servicers[UserOf[s]])
        BY <4>2, <4>3 DEF SendOrDismiss, TypeOK, ServiceMainTypeOK
      <4>5. resp.type # "messageConfirmed" /\ \A m \in Stored(t) : <<t, m>> \in resp.contents
        BY <4>1 DEF Reload, Respond, Contents
      <4>6. \A d \in resp.contents : d[1] = t => d[2] \in HeardOf(s, t)'
        BY <1>1, <1>3, <4>2, <4>4, <4>5, SendHeard DEF SendOrDismiss
      <4>7. Stored(t) \subseteq HeardOf(s, t)'
        BY <4>5, <4>6
      <4> QED  BY <1>5, <4>7 DEF Supplied
    <3> QED  BY <2>1, <3>1, <3>2
  <2>6. CASE ~(o.talk = t /\ o.user = UserOf[s])
    <3>1. Resending(s, t) => Resending(s, t)'
      BY <2>2, <2>4, <2>6 DEF Resending
    <3>2. Called(t) \subseteq Called(t)'
      BY <2>4, ComingParts
    <3> QED  BY <1>1, <1>2, <1>4, <1>5, <2>3, <3>1, <3>2, LackGrows
             DEF Supplied, MessagesComing
  <2> QED  BY <2>5, <2>6
<1>12. CASE ReadDetached
  <2>1. /\ UNCHANGED <<arriving, servicerRunner, servicers>> /\ unheard \subseteq unheard'
        /\ \/ NextOperation("detached", <<>>)
           \/ \E call : NextOperation("detached", <<Tell("tellServicers", call)>>)
    BY <1>12 DEF ReadDetached, outsideVars
  <2>2. /\ servicerTodo \in Seq(Operation) /\ servicerTodo # <<>>
        /\ o.op = "detached"
        /\ ToSet(servicerTodo) = {o} \cup ToSet(Tail(servicerTodo))
        /\ Tail(servicerTodo) \in Seq(Operation)
    BY <1>6, <2>1, HeadOrTail, HeadTailToSet DEF NextOperation, TypeOK, ServiceMainTypeOK
  <2>3. ToSet(Tail(servicerTodo)) \subseteq ToSet(servicerTodo')
    <3>1. CASE NextOperation("detached", <<>>)
      BY <3>1, NextTyped
    <3>2. CASE \E call : NextOperation("detached", <<Tell("tellServicers", call)>>)
      <4>1. PICK call : NextOperation("detached", <<Tell("tellServicers", call)>>)
        BY <3>2
      <4>2. PICK op : op = Tell("tellServicers", call)
        OBVIOUS
      <4>3. servicerTodo' = <<op>> \o Tail(servicerTodo)
        BY <4>1, <4>2 DEF NextOperation
      <4>4. ToSet(<<op>> \o Tail(servicerTodo)) = {op} \cup ToSet(Tail(servicerTodo))
        BY <2>2, FirstThenRest
      <4> QED  BY <4>3, <4>4
    <3> QED  BY <2>1, <3>1, <3>2
  <2>4. CallsPending \cup unheard \subseteq CallsPending' \cup unheard'
    BY <2>1, <2>2, <2>3 DEF CallsPending
  <2>5. s \in Registered \cup Installing
    <3>1. Installing' \subseteq Installing
      BY <1>12, ReadDetachedInstalls
    <3> QED  BY <2>1, <3>1 DEF Registered
  <2> QED  BY <1>8, <2>2, <2>3, <2>4, <2>5
<1>13. CASE TellServicers
  <2>1. /\ NextOperation("tellServicers", <<>>) /\ Post(o.call)
        /\ UNCHANGED <<arriving, servicers>>
    BY <1>6, <1>13 DEF TellServicers, outsideVars
  <2>2. /\ o.op = "tellServicers" /\ o \in Operation /\ Installing' = {}
        /\ ToSet(servicerTodo) = {o} \cup ToSet(servicerTodo')
    BY <1>7, <2>1
  <2>3. o.call \in Call
    BY <2>2, OperationParts
  <2>4. o.call \in ToSet(servicerRunner') \cup unheard'
        /\ ToSet(servicerRunner) \subseteq ToSet(servicerRunner')
    BY <2>1, <2>3, PostKeeps
  <2>5. CallsPending \cup unheard \subseteq CallsPending' \cup unheard'
    BY <1>1, <2>1, <2>2, <2>4 DEF CallsPending
  <2> QED  BY <1>8, <2>1, <2>2, <2>5 DEF Registered
<1> QED  BY <1>9, <1>10, <1>11, <1>12, <1>13

\* The customers' half.
LEMMA CustomersComplete ==
  ASSUME TypeOK, TypeOK', Complete, CustomerStep \/ CallStep
  PROVE  Complete'
<1> SUFFICES ASSUME NEW s \in Registered' \cup Installing', NEW t \in DOMAIN talks',
                    Awaits(s, t)'
             PROVE  Supplied(s, t)'
  BY DEF Complete
<1>1. /\ UNCHANGED <<service, serviceReceiver, serviceRequests, serviceTalk, chServicerMessage,
                     unlisted, serviceInbox, chServiceSend, servicers, servicerTodo>>
      /\ reopened \subseteq reopened'
  BY DEF CustomerStep, CustomerCreates, CustomerWrites, CustomerCloses, CustomerReopens,
     CallStep, Arrive, Lose, Post, serviceVars, serviceChans, serviceMain, serviceOut,
     lossVars, restOfLoss
<1>2. /\ s \in Registered \cup Installing /\ s \in Servicers
      /\ HeardOf(s, t) \subseteq HeardOf(s, t)'
  BY <1>1, EntrantsTyped, HeardGrows DEF Registered, Installing
<1>3. CallsPending \cup unheard \subseteq CallsPending' \cup unheard'
  <2>1. CASE CustomerStep
    <3>1. arriving \subseteq arriving' /\ UNCHANGED <<servicerRunner, unheard>>
      BY <2>1 DEF CustomerStep, CustomerCreates, CustomerWrites, CustomerCloses,
         CustomerReopens, lossVars
    <3> QED  BY <1>1, <3>1 DEF CallsPending
  <2>2. CASE CallStep
    <3>1. PICK call \in arriving : Arrive(call) \/ Lose(call)
      BY <2>2 DEF CallStep
    <3>2. CASE Arrive(call)
      <4>1. /\ ToSet(servicerRunner) \subseteq ToSet(servicerRunner')
            /\ call \in ToSet(servicerRunner') \cup unheard' /\ unheard \subseteq unheard'
        BY <3>1, <3>2, PostKeeps DEF Arrive, TypeOK, OutsideTypeOK
      <4> QED  BY <1>1, <3>2, <4>1 DEF Arrive, CallsPending
    <3>3. CASE Lose(call)
      BY <1>1, <3>3 DEF Lose, CallsPending
    <3> QED  BY <3>1, <3>2, <3>3
  <2> QED  BY <2>1, <2>2
<1>4. ASSUME t \in DOMAIN talks,
             talks'[t].act = talks[t].act, talks'[t].biz = talks[t].biz,
             talks'[t].service = talks[t].service, talks'[t].status = talks[t].status,
             Stored(t)' \subseteq Stored(t) \cup MessagesComing(t)'
      PROVE  Supplied(s, t)'
  <2>1. Supplied(s, t)
    BY <1>1, <1>2, <1>4, AwaitsKept DEF Complete
  <2>2. InHand(t)' = InHand(t)
    BY <1>1 DEF InHand
  <2> QED  BY <1>1, <1>2, <1>3, <1>4, <2>1, <2>2, StillSupplied
<1>5. CASE CallStep
  <2>1. UNCHANGED talks
    BY <1>5 DEF CallStep, Arrive, Lose
  <2> QED  BY <1>4, <2>1 DEF Stored
<1>6. CASE CustomerStep
  <2>1. PICK u \in Talks :
          \/ \E act \in Acts, biz \in Bizs : CustomerCreates(u, act, biz)
          \/ \E w \in Writers : CustomerWrites(w, u)
          \/ CustomerCloses(u) \/ CustomerReopens(u)
    BY <1>6 DEF CustomerStep
  <2>2. CASE \E act \in Acts, biz \in Bizs : CustomerCreates(u, act, biz)
    <3>1. PICK act \in Acts, biz \in Bizs : CreateTalk(u, act, biz)
      BY <2>2 DEF CustomerCreates
    <3>2. /\ talks'[u].service = NoOne /\ DOMAIN talks' = DOMAIN talks \cup {u}
          /\ \A v \in DOMAIN talks : talks'[v] = talks[v]
      BY <3>1 DEF CreateTalk
    <3>3. t # u
      BY <1>2, <3>2, ServicerAssumption, NoOneAssumption DEF Awaits, IsHis
    <3>4. Stored(t)' = Stored(t)
      BY <3>1, NothingStored DEF TypeOK
    <3> QED  BY <1>4, <3>2, <3>3, <3>4
  <2>3. CASE \E w \in Writers : CustomerWrites(w, u)
    <3>1. PICK w, n : /\ AddTalkMessage(u, <<w, n>>)
                      /\ arriving' = arriving \cup {MessageCall(u, <<w, n>>)}
      BY <2>3 DEF CustomerWrites
    <3>2. PICK m : m = <<w, n>>
      OBVIOUS
    <3>3. AddTalkMessage(u, m) /\ MessageCall(u, m) \in CallsPending'
      BY <3>1, <3>2 DEF CallsPending
    <3>4. m \in MessagesComing(u)'
      <4>1. /\ MessageCall(u, m).event = "message" /\ MessageCall(u, m).talk = u
            /\ MessageCall(u, m).message = m
        BY DEF MessageCall
      <4> QED  BY <3>3, <4>1, ComingParts DEF MessagesComing
    <3>5. /\ DOMAIN talks' = DOMAIN talks /\ Stored(u)' = Stored(u) \cup {m}
          /\ \A v : v # u => Stored(v)' = Stored(v)
          /\ talks'[t].act = talks[t].act /\ talks'[t].biz = talks[t].biz
          /\ talks'[t].service = talks[t].service /\ talks'[t].status = talks[t].status
      BY <3>3, AddsOne DEF TypeOK
    <3> QED  BY <1>4, <3>4, <3>5
  <2>4. CASE CustomerCloses(u) \/ CustomerReopens(u)
    <3>1. /\ u \in DOMAIN talks /\ talks[u] \in TalkInfo
          /\ OpenTalk({}, {}, u) \/ CloseTalk({}, {}, u)
      BY <2>4 DEF CustomerCloses, CustomerReopens, OpenTalk, CloseTalk, InScope, TypeOK,
         StoreTypeOK
    <3>2. /\ DOMAIN talks' = DOMAIN talks
          /\ \A v \in DOMAIN talks : v # u => talks'[v] = talks[v]
      BY <3>1 DEF OpenTalk, CloseTalk
    <3>3. t # u
      <4>1. CASE CustomerCloses(u)
        <5>1. talks'[u].status = "closed"
          BY <3>1, <4>1 DEF CustomerCloses, CloseTalk, TalkInfo
        <5> QED  BY <5>1 DEF Awaits
      <4>2. CASE CustomerReopens(u)
        BY <4>2 DEF CustomerReopens, Awaits
      <4> QED  BY <2>4, <4>1, <4>2
    <3>4. Stored(t)' = Stored(t)
      BY <3>1, NothingStored DEF TypeOK
    <3> QED  BY <1>4, <3>2, <3>3, <3>4
  <2> QED  BY <2>1, <2>2, <2>3, <2>4
<1> QED  BY <1>5, <1>6

\* Every step.
LEMMA CompleteStep ==
  ASSUME TypeOK, TypeOK', Registry, Registry', Complete, [Next]_serviceSideVars
  PROVE  Complete'
<1>1. CASE \E s \in Servicers : ServiceStep(s) \/ ServiceReceiverStep(s)
  BY <1>1, ServiceStepComplete, ServiceReceiverComplete
<1>2. CASE ServicerMainStep
  BY <1>2, HandleInstallComplete, HandleOthersComplete, HandleMessageComplete, RunComplete,
     RestComplete DEF ServicerMainStep, ServicerMainAlone
<1>3. CASE CustomerStep \/ CallStep
  BY <1>3, CustomersComplete
<1>4. CASE UNCHANGED serviceSideVars
  <2>1. UNCHANGED <<talks, service, serviceReceiver, serviceRequests, serviceTalk,
                    chServicerMessage, servicerRunner, servicers, servicerTodo, serviceInbox,
                    chServiceSend, arriving, reopened, unheard, unlisted>>
    BY <1>4 DEF serviceSideVars, servicerVars, serviceVars, serviceChans, serviceMain,
       serviceOut, outsideVars, lossVars, restOfLoss
  <2>2. Registered' = Registered /\ Installing' = Installing /\ CallsPending' = CallsPending
    BY <2>1 DEF Registered, Installing, CallsPending
  <2>3. ASSUME NEW s, NEW t
        PROVE  Awaits(s, t)' = Awaits(s, t) /\ Supplied(s, t)' = Supplied(s, t)
    <3>1. Awaits(s, t)' = Awaits(s, t)
      BY <2>1 DEF Awaits, IsHis, InView, InScope
    <3>2. MessagesComing(t)' = MessagesComing(t)
      BY <2>1, <2>2 DEF MessagesComing, InHand, Queued, Called
    <3>3. HeardOf(s, t)' = HeardOf(s, t) /\ Stored(t)' = Stored(t)
      BY <2>1 DEF HeardOf, ToldServicer, Stored
    <3>4. Resending(s, t)' = Resending(s, t)
      BY <2>1, <2>2 DEF Resending
    <3>5. Unlisted(s, t)' = Unlisted(s, t)
      BY <2>1 DEF Unlisted
    <3> QED  BY <3>1, <3>2, <3>3, <3>4, <3>5 DEF Supplied
  <2> QED  BY <2>1, <2>2, <2>3 DEF Complete
<1> QED  BY <1>1, <1>2, <1>3, <1>4 DEF Next

\* Who has been sent the list of his talks is supplied, in every state, with every
\* message of each of his talks that the list did not lack, or the message or the talk
\* is on its way to him.
THEOREM CompleteInvariant == Spec => []Complete
<1>1. Init => Complete
  <2>1. Init => Registered = {} /\ Installing = {}
    BY SelectInstalls DEF Init, ServicerInit, Registered
  <2> QED  BY <2>1 DEF Complete
<1> QED  BY <1>1, CompleteStep, Typed, RegistryInvariant, PTL DEF Spec

\* Who takes a talk, or comes back to one that is his, misses none of its messages,
\* however attaches, messages and installations overtake one another, and whatever the
\* channels lose or the store refuses: what he has not heard of is on its way, or known
\* to be lost on it, or was in the talk when the store failed to give it for his list.
THEOREM NoGapInvariant == Spec => []NoGap
<1>1. Complete => NoGap
  <2> SUFFICES ASSUME Complete, NEW s \in Registered, NEW t \in DOMAIN talks,
                      Awaits(s, t), Settled(t)
               PROVE  Stored(t) \subseteq HeardOf(s, t) \cup MessagesComing(t)
                                          \cup Unlisted(s, t)
    BY DEF NoGap, Awaits
  <2>1. ~Resending(s, t)
    <3>1. AttachCall(t, UserOf[s]).talk = t /\ AttachCall(t, UserOf[s]).event = "attach"
      BY DEF AttachCall
    <3> QED  BY <3>1 DEF Settled, Resending
  <2> QED  BY <2>1 DEF Complete, Supplied
<1> QED  BY <1>1, CompleteInvariant, PTL

-----------------------------------------------------------------------------
(* Words: what was said last. *)

\* A response that says who serves a talk says it last; one that does not leaves what
\* was said before it.
LEMMA AssignsNext ==
  ASSUME NEW S, NEW line \in Seq(S), NEW r, NEW t, NEW user,
         LastAssigns(line, t, user) \/ Assigns(r, t),
         Assigns(r, t) => \A w \in r.words : w.talk = t => w.service = user
  PROVE  LastAssigns(Append(line, r), t, user)
<1> DEFINE next == Append(line, r)
<1>1. SUFFICES ASSUME NEW i \in DOMAIN next, Assigns(next[i], t),
                      \A j \in DOMAIN next : j > i => ~Assigns(next[j], t)
               PROVE  \A w \in next[i].words : w.talk = t => w.service = user
  BY DEF LastAssigns
<1>2. /\ Len(line) \in Nat /\ DOMAIN line = 1..Len(line)
      /\ DOMAIN next = 1..(Len(line) + 1) /\ next[Len(line) + 1] = r
      /\ \A j \in 1..Len(line) : next[j] = line[j]
  BY AppendPlaces
<1> HIDE DEF next
<1>3. CASE i = Len(line) + 1
  BY <1>1, <1>2, <1>3
<1>4. CASE i # Len(line) + 1
  <2>1. i \in 1..Len(line) /\ Len(line) + 1 \in DOMAIN next /\ Len(line) + 1 > i
    BY <1>2, <1>4
  <2>2. ~Assigns(r, t)
    BY <1>1, <1>2, <2>1
  <2>3. \A j \in DOMAIN line : j > i => ~Assigns(line[j], t)
    BY <1>1, <1>2
  <2>4. next[i] = line[i] /\ i \in DOMAIN line
    BY <1>2, <2>1
  <2> QED  BY <1>1, <2>2, <2>3, <2>4 DEF LastAssigns
<1> QED  BY <1>3, <1>4

\* The same of those that mention a talk,
LEMMA MentionsNext ==
  ASSUME NEW S, NEW line \in Seq(S), NEW r, NEW t, NEW status,
         LastMentions(line, t, status) \/ Mentions(r, t),
         r.type = "detach" \/ \A w \in r.words : w.talk = t => w.status = status
  PROVE  LastMentions(Append(line, r), t, status)
<1> DEFINE next == Append(line, r)
<1>1. SUFFICES ASSUME NEW i \in DOMAIN next, Mentions(next[i], t),
                      \A j \in DOMAIN next : j > i => ~Mentions(next[j], t)
               PROVE  \/ next[i].type = "detach"
                      \/ \A w \in next[i].words : w.talk = t => w.status = status
  BY DEF LastMentions
<1>2. /\ Len(line) \in Nat /\ DOMAIN line = 1..Len(line)
      /\ DOMAIN next = 1..(Len(line) + 1) /\ next[Len(line) + 1] = r
      /\ \A j \in 1..Len(line) : next[j] = line[j]
  BY AppendPlaces
<1> HIDE DEF next
<1>3. CASE i = Len(line) + 1
  BY <1>1, <1>2, <1>3
<1>4. CASE i # Len(line) + 1
  <2>1. i \in 1..Len(line) /\ Len(line) + 1 \in DOMAIN next /\ Len(line) + 1 > i
    BY <1>2, <1>4
  <2>2. ~Mentions(r, t)
    BY <1>1, <1>2, <2>1
  <2>3. \A j \in DOMAIN line : j > i => ~Mentions(line[j], t)
    BY <1>1, <1>2
  <2>4. next[i] = line[i] /\ i \in DOMAIN line
    BY <1>2, <2>1
  <2> QED  BY <1>1, <2>2, <2>3, <2>4 DEF LastMentions
<1> QED  BY <1>3, <1>4

\* ... and of the calls that are posted.
LEMMA ReassignsNext ==
  ASSUME NEW S, NEW calls \in Seq(S), NEW c, NEW t, NEW user,
         LastReassigns(calls, t, user) \/ Reassigns(c, t),
         Reassigns(c, t) => Taker(c) = user
  PROVE  LastReassigns(Append(calls, c), t, user)
<1> DEFINE next == Append(calls, c)
<1>1. SUFFICES ASSUME NEW i \in DOMAIN next, Reassigns(next[i], t),
                      \A j \in DOMAIN next : j > i => ~Reassigns(next[j], t)
               PROVE  Taker(next[i]) = user
  BY DEF LastReassigns
<1>2. /\ Len(calls) \in Nat /\ DOMAIN calls = 1..Len(calls)
      /\ DOMAIN next = 1..(Len(calls) + 1) /\ next[Len(calls) + 1] = c
      /\ \A j \in 1..Len(calls) : next[j] = calls[j]
  BY AppendPlaces
<1> HIDE DEF next
<1>3. CASE i = Len(calls) + 1
  BY <1>1, <1>2, <1>3
<1>4. CASE i # Len(calls) + 1
  <2>1. i \in 1..Len(calls) /\ Len(calls) + 1 \in DOMAIN next /\ Len(calls) + 1 > i
    BY <1>2, <1>4
  <2>2. ~Reassigns(c, t)
    BY <1>1, <1>2, <2>1
  <2>3. \A j \in DOMAIN calls : j > i => ~Reassigns(calls[j], t)
    BY <1>1, <1>2
  <2>4. next[i] = calls[i] /\ i \in DOMAIN calls
    BY <1>2, <2>1
  <2> QED  BY <1>1, <2>2, <2>3, <2>4 DEF LastReassigns
<1> QED  BY <1>3, <1>4

\* Taking the first call leaves the last one the last, or was that one.
LEMMA ReassignsTail ==
  ASSUME NEW S, NEW calls \in Seq(S), calls # <<>>, NEW t, NEW user,
         LastReassigns(calls, t, user)
  PROVE  /\ LastReassigns(Tail(calls), t, user)
         /\ Reassigns(Head(calls), t) /\ (\A c \in ToSet(Tail(calls)) : ~Reassigns(c, t))
              => Taker(Head(calls)) = user
<1> DEFINE rest == Tail(calls)
<1>1. /\ Len(calls) \in Nat \ {0} /\ DOMAIN calls = 1..Len(calls) /\ Head(calls) = calls[1]
      /\ DOMAIN rest = 1..(Len(calls) - 1)
      /\ \A i \in 1..(Len(calls) - 1) : i + 1 \in 1..Len(calls) /\ rest[i] = calls[i + 1]
  BY TailPlaces
<1> HIDE DEF rest
<1>2. \A j \in DOMAIN calls : j # 1 => j - 1 \in DOMAIN rest /\ rest[j - 1] = calls[j]
  <2>1. \A j \in 1..Len(calls) : j # 1 => j - 1 \in 1..(Len(calls) - 1) /\ (j - 1) + 1 = j
    BY <1>1
  <2> QED  BY <1>1, <2>1
<1>3. LastReassigns(rest, t, user)
  <2>1. SUFFICES ASSUME NEW i \in DOMAIN rest, Reassigns(rest[i], t),
                        \A j \in DOMAIN rest : j > i => ~Reassigns(rest[j], t)
                 PROVE  Taker(rest[i]) = user
    BY DEF LastReassigns
  <2>2. i + 1 \in DOMAIN calls /\ rest[i] = calls[i + 1] /\ i \in Nat
    BY <1>1
  <2>3. \A j \in DOMAIN calls : j > i + 1 => ~Reassigns(calls[j], t)
    <3>1. SUFFICES ASSUME NEW j \in DOMAIN calls, j > i + 1
                   PROVE  ~Reassigns(calls[j], t)
      OBVIOUS
    <3>2. j \in Nat
      BY <1>1
    <3>3. j # 1 /\ j - 1 > i
      BY <2>2, <3>1, <3>2
    <3> QED  BY <1>2, <2>1, <3>3
  <2> QED  BY <2>1, <2>2, <2>3 DEF LastReassigns
<1>4. ASSUME Reassigns(Head(calls), t), \A c \in ToSet(rest) : ~Reassigns(c, t)
      PROVE  Taker(Head(calls)) = user
  <2>1. \A j \in DOMAIN calls : j > 1 => ~Reassigns(calls[j], t)
    <3>1. \A i \in DOMAIN rest : ~Reassigns(rest[i], t)
      BY <1>4 DEF ToSet
    <3>2. \A j \in DOMAIN calls : j > 1 => j # 1
      BY <1>1
    <3> QED  BY <1>2, <3>1, <3>2
  <2>2. 1 \in DOMAIN calls
    BY <1>1
  <2> QED  BY <1>1, <1>4, <2>1, <2>2 DEF LastReassigns
<1> QED  BY <1>3, <1>4 DEF rest

\* Where nothing is said, anything is said last.
LEMMA NothingSaid ==
  ASSUME NEW line, NEW t
  PROVE  /\ (\A r \in ToSet(line) : ~Assigns(r, t)) => \A user : LastAssigns(line, t, user)
         /\ (\A r \in ToSet(line) : ~Mentions(r, t)) =>
              \A status : LastMentions(line, t, status)
BY DEF LastAssigns, LastMentions, ToSet

-----------------------------------------------------------------------------
(* Words: what a step leaves as it was. *)

\* Who is told what a step says: whoever is, or becomes, one to be told hears resp or
\* nothing; and who becomes one had heard nothing of any talk.
Silent(s) == \A r \in ToSet(ToldServicer(s)) : r.words = {}

Hears(s, resp) ==
  ToldServicer(s)' \in {ToldServicer(s), Append(ToldServicer(s), resp)}

Told(s) == service[s] = "serving" /\ s \notin early

Entrants == Registered \cup Installing

Informs(resp) == \A s \in Entrants' : Told(s)' =>
  /\ s \in Servicers /\ Hears(s, resp)
  /\ (s \in Entrants /\ Told(s)) \/ Silent(s)

\* What a step says of who serves a talk, and of its status.
SaysOwner(resp, t) == Assigns(resp, t) =>
  \A w \in resp.words : w.talk = t => w.service = talks[t].service

SaysStatus(resp, t) ==
  \/ resp.type = "detach"
  \/ \A w \in resp.words : w.talk = t => w.status = talks[t].status

SameScope(t) ==
  /\ t \in DOMAIN talks'
  /\ talks'[t].act = talks[t].act /\ talks'[t].biz = talks[t].biz

SameTalk(t) == SameScope(t) /\ talks'[t].service = talks[t].service

\* The part of Agrees that is about the streams, and that of Closing.
Streams(t) == \A s \in Entrants : StreamAgrees(s, t)

Closes(t) == \A s \in Entrants : StreamCloses(s, t)

\* What was told is a sequence.
LEMMA ToldTyped ==
  ASSUME TypeOK, NEW s \in Servicers
  PROVE  /\ ToldServicer(s) \in Seq(ServiceResponse)
         /\ ToSet(ToldServicer(s)) = ToSet(serviceInbox[s]) \cup ToSet(chServiceSend[s])
<1>1. serviceInbox[s] \in Seq(ServiceResponse) /\ chServiceSend[s] \in Seq(ServiceResponse)
  BY DEF TypeOK, ServiceOutTypeOK
<1> QED  BY <1>1, ConcatToSet, ConcatPlaces DEF ToldServicer

\* What is put into the channel of a stream is said to it last.
LEMMA ToldSend ==
  ASSUME TypeOK, NEW S, NEW resp \in ServiceResponse, SendTo(S, resp), UNCHANGED serviceInbox,
         NEW s \in Servicers
  PROVE  /\ Hears(s, resp)
         /\ s \in S \ NoRoom(S) => ToldServicer(s)' = Append(ToldServicer(s), resp)
         /\ s \notin S => ToldServicer(s)' = ToldServicer(s)
<1>1. serviceInbox[s] \in Seq(ServiceResponse) /\ chServiceSend[s] \in Seq(ServiceResponse)
  BY DEF TypeOK, ServiceOutTypeOK
<1>2. chServiceSend'[s] = IF s \in S \ NoRoom(S) THEN Append(chServiceSend[s], resp)
                          ELSE chServiceSend[s]
  BY DEF SendTo
<1>3. PICK a : a = serviceInbox[s]
  OBVIOUS
<1>4. PICK b : b = chServiceSend[s]
  OBVIOUS
<1>5. a \in Seq(ServiceResponse) /\ b \in Seq(ServiceResponse)
  BY <1>1, <1>3, <1>4
<1>6. a \o Append(b, resp) = Append(a \o b, resp)
  BY <1>5
<1>7. ToldServicer(s) = a \o b /\ ToldServicer(s)' = a \o chServiceSend'[s]
  BY <1>3, <1>4 DEF ToldServicer
<1> QED  BY <1>2, <1>4, <1>6, <1>7 DEF Hears

\* The streams to be told stay told who serves a talk that keeps its servicer,
LEMMA StreamsKept ==
  ASSUME TypeOK, NEW t \in DOMAIN talks, SameTalk(t), Streams(t),
         NEW resp, Informs(resp), SaysOwner(resp, t)
  PROVE  Streams(t)'
<1> SUFFICES ASSUME NEW s \in Entrants', Informed(s, t)'
             PROVE  LastAssigns(ToldServicer(s), t, talks[t].service)'
  BY DEF Streams, StreamAgrees
<1>1. /\ s \in Servicers /\ Hears(s, resp)
      /\ (s \in Entrants /\ Told(s)) \/ Silent(s)
  BY DEF Informed, Told, Informs
<1>2. InView(s, t)
  BY DEF Informed, InView, InScope, SameTalk, SameScope
<1>3. LastAssigns(ToldServicer(s), t, talks[t].service)
  <2>1. CASE s \in Entrants /\ Told(s)
    BY <1>2, <2>1 DEF Streams, StreamAgrees, Informed, Told
  <2>2. CASE Silent(s)
    BY <2>2, NothingSaid DEF Silent, Assigns
  <2> QED  BY <1>1, <2>1, <2>2
<1>4. PICK user : user = talks[t].service
  OBVIOUS
<1>5. PICK line : line = ToldServicer(s)
  OBVIOUS
<1>6. line \in Seq(ServiceResponse)
  BY <1>1, <1>5, ToldTyped
<1>7. LastAssigns(Append(line, resp), t, user)
  BY <1>3, <1>4, <1>5, <1>6, AssignsNext DEF SaysOwner
<1>8. ToldServicer(s)' \in {line, Append(line, resp)} /\ talks'[t].service = user
  BY <1>1, <1>4, <1>5 DEF Hears, SameTalk
<1> QED  BY <1>3, <1>4, <1>5, <1>7, <1>8

\* ... and that it is closed.
LEMMA ClosesKept ==
  ASSUME TypeOK, NEW t \in DOMAIN talks, SameScope(t), Closes(t),
         talks'[t].status = talks[t].status,
         reopened \subseteq reopened', ClosePending(t) => ClosePending(t)',
         NEW resp, Informs(resp), SaysStatus(resp, t) \/ talks[t].status # "closed"
  PROVE  Closes(t)'
<1> SUFFICES ASSUME NEW s \in Entrants', Informed(s, t)', talks'[t].status = "closed",
                    t \notin reopened', ~ClosePending(t)'
             PROVE  LastMentions(ToldServicer(s), t, "closed")'
  BY DEF Closes, StreamCloses
<1>1. /\ s \in Servicers /\ Hears(s, resp)
      /\ (s \in Entrants /\ Told(s)) \/ Silent(s)
  BY DEF Informed, Told, Informs
<1>2. InView(s, t) /\ talks[t].status = "closed" /\ t \notin reopened /\ ~ClosePending(t)
  BY DEF Informed, InView, InScope, SameScope
<1>3. LastMentions(ToldServicer(s), t, "closed")
  <2>1. CASE s \in Entrants /\ Told(s)
    BY <1>2, <2>1 DEF Closes, StreamCloses, Informed, Told
  <2>2. CASE Silent(s)
    BY <2>2, NothingSaid DEF Silent, Mentions
  <2> QED  BY <1>1, <2>1, <2>2
<1>4. PICK line : line = ToldServicer(s)
  OBVIOUS
<1>5. line \in Seq(ServiceResponse)
  BY <1>1, <1>4, ToldTyped
<1>6. LastMentions(Append(line, resp), t, "closed")
  BY <1>2, <1>3, <1>4, <1>5, MentionsNext DEF SaysStatus
<1>7. ToldServicer(s)' \in {line, Append(line, resp)}
  BY <1>1, <1>4 DEF Hears
<1> QED  BY <1>3, <1>4, <1>6, <1>7

\* What a step does to the calls of a case, and to those posted, as far as they say
\* who serves a talk.
OpsKept(t) == \A op : OpReassigns(op, t) =>
  (op \in ToSet(servicerTodo') <=> op \in ToSet(servicerTodo))

CallsKept(t) ==
  \/ UNCHANGED servicerRunner
  \/ \E c \in Call : servicerRunner' = Append(servicerRunner, c) /\ ~Reassigns(c, t)
  \/ /\ servicerRunner # <<>> /\ servicerRunner' = Tail(servicerRunner)
     /\ ~Reassigns(Head(servicerRunner), t)

\* ... and what they leave of the calls says last what was said last.
LEMMA RunnerKept ==
  ASSUME TypeOK, NEW t, NEW user, CallsKept(t)
  PROVE  /\ NoCall(t)' <=> NoCall(t)
         /\ LastReassigns(servicerRunner, t, user) => LastReassigns(servicerRunner', t, user)
<1>1. servicerRunner \in Seq(Call)
  BY DEF TypeOK, ServiceChanTypeOK, Fits
<1>2. CASE UNCHANGED servicerRunner
  BY <1>2 DEF NoCall
<1>3. ASSUME NEW c \in Call, servicerRunner' = Append(servicerRunner, c), ~Reassigns(c, t)
      PROVE  /\ NoCall(t)' <=> NoCall(t)
             /\ LastReassigns(servicerRunner, t, user) => LastReassigns(servicerRunner', t, user)
  <2>1. ToSet(servicerRunner') = ToSet(servicerRunner) \cup {c}
    BY <1>1, <1>3, AppendToSet
  <2> QED  BY <1>1, <1>3, <2>1, ReassignsNext DEF NoCall
<1>4. CASE /\ servicerRunner # <<>> /\ servicerRunner' = Tail(servicerRunner)
           /\ ~Reassigns(Head(servicerRunner), t)
  <2>1. ToSet(servicerRunner) = {Head(servicerRunner)} \cup ToSet(servicerRunner')
    BY <1>1, <1>4, HeadOrTail
  <2> QED  BY <1>1, <1>4, <2>1, ReassignsTail DEF NoCall
<1> QED  BY <1>2, <1>3, <1>4 DEF CallsKept

\* A talk that keeps its servicer, and of which nothing new is called, stays agreed.
LEMMA AgreesKept ==
  ASSUME TypeOK, NEW t \in DOMAIN talks, SameTalk(t), Agrees(t),
         misled \subseteq misled', unheard \subseteq unheard',
         OpsKept(t), CallsKept(t),
         NEW resp, Informs(resp), SaysOwner(resp, t)
  PROVE  Agrees(t)'
<1>1. SUFFICES ASSUME Reliable(t)'
               PROVE  /\ CaseAgrees(t)'
                      /\ NoOp(t)' => LastReassigns(servicerRunner, t, talks[t].service)'
                      /\ NoOp(t)' /\ NoCall(t)' => Streams(t)'
  BY DEF Agrees, Streams, Entrants
<1>2. Reliable(t)
  BY <1>1 DEF Reliable
<1>3. PICK user : user = talks[t].service
  OBVIOUS
<1>4. talks'[t].service = user
  BY <1>3 DEF SameTalk
<1>5. /\ CaseAgrees(t)
      /\ NoOp(t) => LastReassigns(servicerRunner, t, user)
      /\ NoOp(t) /\ NoCall(t) => Streams(t)
  BY <1>2, <1>3 DEF Agrees, Streams, Entrants
<1>6. CaseAgrees(t)' /\ (NoOp(t)' => NoOp(t))
  BY <1>3, <1>4, <1>5 DEF CaseAgrees, NoOp, OpsKept
<1>7. NoCall(t)' <=> NoCall(t)
  BY RunnerKept
<1>8. LastReassigns(servicerRunner, t, user) => LastReassigns(servicerRunner', t, user)
  BY RunnerKept
<1> QED  BY <1>4, <1>5, <1>6, <1>7, <1>8, StreamsKept

\* What is said to any stream, and what it may say: of talks there are, who serves them
\* and how they are.
Utters(resp) == \A s \in Servicers :
  ToSet(ToldServicer(s)') \subseteq ToSet(ToldServicer(s)) \cup {resp}

Faithful(resp) ==
  /\ \A w \in resp.words : w.talk \in DOMAIN talks
  /\ \A t \in DOMAIN talks : SaysOwner(resp, t) /\ SaysStatus(resp, t)

\* The calls that the servicers' observer posts, or has posted.
Announced == ToSet(servicerRunner)
  \cup {op.call : op \in {o \in ToSet(servicerTodo) : o.op = "tellServicers"}}

DetachKnown(call) ==
  call.event = "detach" => call.word.talk = call.talk /\ call.word.service = NoOne

\* Nothing is said of a talk there is not.
LEMMA KnownKept ==
  ASSUME WordsKnown, DOMAIN talks \subseteq DOMAIN talks',
         NEW resp, Utters(resp), \A w \in resp.words : w.talk \in DOMAIN talks',
         \A call \in Announced' : call \in Announced \cup arriving \/ DetachKnown(call),
         \A call \in arriving' : call \in arriving \/ call.event \notin {"attach", "detach"}
  PROVE  WordsKnown'
<1>1. \A s \in Servicers : \A r \in ToSet(ToldServicer(s)') :
        \A w \in r.words : w.talk \in DOMAIN talks'
  BY DEF WordsKnown, Utters
<1>0. \A s : ToSet(ToldServicer(s))' = ToSet(ToldServicer(s)')
  BY DEF ToSet
<1>2. \A call \in Announced' : DetachKnown(call)
  BY DEF WordsKnown, Announced, DetachKnown
<1>3. \A call \in arriving' : call.event \notin {"attach", "detach"}
  BY DEF WordsKnown
<1> QED  BY <1>0, <1>1, <1>2, <1>3 DEF WordsKnown, Announced, DetachKnown

\* A step that leaves the talks, and the calls about who serves them, as they are, and
\* says nothing but what the store holds, keeps Words.
SameStore ==
  /\ DOMAIN talks' = DOMAIN talks
  /\ \A t \in DOMAIN talks : SameTalk(t) /\ talks'[t].status = talks[t].status

LEMMA WordsFrame ==
  ASSUME TypeOK, Words, SameStore, misled \subseteq misled', unheard \subseteq unheard',
         reopened \subseteq reopened',
         \A t \in DOMAIN talks : /\ OpsKept(t) /\ CallsKept(t)
                                 /\ ClosePending(t) => ClosePending(t)',
         NEW resp, Informs(resp), Utters(resp), Faithful(resp),
         \A call \in Announced' : call \in Announced \cup arriving \/ DetachKnown(call),
         \A call \in arriving' : call \in arriving \/ call.event \notin {"attach", "detach"}
  PROVE  Words'
<1>1. WordsKnown'
  BY KnownKept DEF Words, SameStore, Faithful
<1>2. ASSUME NEW t \in DOMAIN talks'
      PROVE  Agrees(t)' /\ Closes(t)'
  <2>1. /\ t \in DOMAIN talks /\ SameTalk(t) /\ talks'[t].status = talks[t].status
        /\ Agrees(t) /\ Closes(t)
    BY <1>2 DEF SameStore, Words, Agreement, Closing, Closes, Entrants
  <2>2. Agrees(t)'
    BY <2>1, AgreesKept DEF Faithful
  <2>3. Closes(t)'
    BY <2>1, ClosesKept DEF Faithful, SameTalk
  <2> QED  BY <2>2, <2>3
<1>3. Agreement'
  BY <1>2 DEF Agreement
<1>4. Closing'
  BY <1>2 DEF Closing, Closes, Entrants
<1> QED  BY <1>1, <1>3, <1>4 DEF Words

\* With the store unchanged it is the same.
LEMMA SameWhenUnchanged ==
  ASSUME UNCHANGED talks
  PROVE  SameStore
BY DEF SameStore, SameTalk, SameScope

\* A response that says nothing of any talk is faithful,
LEMMA NoWordsFaithful ==
  ASSUME NEW resp, resp.words = {}
  PROVE  Faithful(resp)
BY DEF Faithful, SaysOwner, SaysStatus

\* ... and so are the answers read from the store.
LEMMA AnswersFaithful ==
  /\ \A s, read : Faithful(AttachedTalks(s, read))
  /\ \A s : Faithful(PendingTalks(s))
  /\ \A t \in DOMAIN talks : Faithful(Reload(t))
<1>1. ASSUME NEW resp, \A w \in resp.words : \E u \in DOMAIN talks : \E user :
               w = WordOf(u, user) /\ (user = "untold" \/ user = talks[u].service),
             \A v, w \in resp.words : v.talk = w.talk => v.service = w.service
      PROVE  Faithful(resp)
  <2>1. ASSUME NEW w \in resp.words
        PROVE  /\ w.talk \in DOMAIN talks /\ w.status = talks[w.talk].status
               /\ w.service # "untold" => w.service = talks[w.talk].service
    BY <1>1, <2>1 DEF WordOf
  <2>2. \A t \in DOMAIN talks : SaysOwner(resp, t)
    BY <1>1, <2>1 DEF SaysOwner, Assigns
  <2> QED  BY <2>1, <2>2 DEF Faithful, SaysStatus
<1>2. ASSUME NEW s, NEW read  PROVE Faithful(AttachedTalks(s, read))
  <2>1. AttachedTalks(s, read).words = {WordOf(t, UserOf[s]) : t \in Mine(s)}
    BY DEF AttachedTalks, Respond
  <2>2. \A t \in Mine(s) : t \in DOMAIN talks /\ talks[t].service = UserOf[s]
    BY DEF Mine, GetServicerTalkInfos
  <2>3. \A w \in AttachedTalks(s, read).words : w.service = UserOf[s]
    BY <2>1 DEF WordOf
  <2> QED  BY <1>1, <2>1, <2>2, <2>3
<1>3. ASSUME NEW s  PROVE Faithful(PendingTalks(s))
  <2> DEFINE free == GetPendingTalkInfos(ActsOf[s], BizsOf[s])
  <2>1. PendingTalks(s).words = {WordOf(t, NoOne) : t \in free}
    BY DEF PendingTalks, Respond
  <2>2. \A t \in free : t \in DOMAIN talks /\ talks[t].service = NoOne
    BY DEF GetPendingTalkInfos
  <2>3. \A w \in PendingTalks(s).words : w.service = NoOne
    BY <2>1 DEF WordOf
  <2> HIDE DEF free
  <2> QED  BY <1>1, <2>1, <2>2, <2>3
<1>4. ASSUME NEW t \in DOMAIN talks  PROVE Faithful(Reload(t))
  <2>1. Reload(t).words = {WordOf(t, "untold")}
    BY DEF Reload, Respond
  <2> QED  BY <1>1, <2>1
<1> QED  BY <1>2, <1>3, <1>4

\* Who is told what is sent, when nobody new is to be told, and no stream starts.
LEMMA SendInforms ==
  ASSUME TypeOK, TypeOK', NEW S, NEW resp \in ServiceResponse, SendTo(S, resp),
         UNCHANGED <<service, serviceInbox>>, early \subseteq early', Entrants' \subseteq Entrants
  PROVE  Informs(resp) /\ Utters(resp)
<1>1. ASSUME NEW s \in Servicers
      PROVE  Hears(s, resp) /\ ToSet(ToldServicer(s)') \subseteq ToSet(ToldServicer(s)) \cup {resp}
  <2>1. Hears(s, resp)
    BY ToldSend
  <2>2. PICK line : line = ToldServicer(s)
    OBVIOUS
  <2>3. line \in Seq(ServiceResponse)
    BY <2>2, ToldTyped
  <2>4. ToSet(Append(line, resp)) = ToSet(line) \cup {resp}
    BY <2>3, AppendToSet
  <2>5. ToldServicer(s)' = line \/ ToldServicer(s)' = Append(line, resp)
    BY <2>1, <2>2 DEF Hears
  <2> QED  BY <2>1, <2>2, <2>4, <2>5
<1>2. Entrants' \subseteq Servicers
  BY EntrantsNext DEF Entrants
<1>3. \A s \in Servicers : Told(s)' => Told(s)
  BY DEF Told
<1> QED  BY <1>1, <1>2, <1>3 DEF Informs, Utters

\* ... and when nothing is sent.
LEMMA SilenceInforms ==
  ASSUME TypeOK, TypeOK', UNCHANGED serviceOut, early \subseteq early',
         Entrants' \subseteq Entrants,
         \A s \in Entrants : service'[s] = "serving" => service[s] = "serving",
         NEW resp
  PROVE  Informs(resp) /\ Utters(resp)
<1>1. \A s : ToldServicer(s)' = ToldServicer(s)
  BY DEF ToldServicer, serviceOut
<1>2. Entrants' \subseteq Servicers
  BY EntrantsNext DEF Entrants
<1>3. \A s \in Entrants : Told(s)' => Told(s)
  BY DEF Told
<1> QED  BY <1>1, <1>2, <1>3 DEF Informs, Hears, Utters

\* What enters or leaves a case without saying who serves a talk.
Changed == (ToSet(servicerTodo') \ ToSet(servicerTodo))
             \cup (ToSet(servicerTodo) \ ToSet(servicerTodo'))

\* A step after which the rest of the case says no more, and no less, of who serves a
\* talk, that posts nothing, and that says nothing but what the store holds.
LEMMA WordsQuiet ==
  ASSUME TypeOK, Words, SameStore, UNCHANGED servicerRunner, misled \subseteq misled',
         unheard \subseteq unheard', reopened \subseteq reopened', arriving \subseteq arriving',
         \A call \in arriving' : call \in arriving \/ call.event \notin {"attach", "detach"},
         \A op \in Changed : op.op # "detached",
         \A op \in ToSet(servicerTodo') \ ToSet(servicerTodo) :
           op.op = "tellServicers" => op.call.event \notin {"attach", "detach"},
         \A op \in ToSet(servicerTodo) \ ToSet(servicerTodo') : op.op # "tellServicers",
         NEW resp, Informs(resp), Utters(resp), Faithful(resp)
  PROVE  Words'
<1>1. ASSUME NEW t  PROVE OpsKept(t) /\ CallsKept(t)
  <2>1. ASSUME NEW op, OpReassigns(op, t)
        PROVE  op \in ToSet(servicerTodo') <=> op \in ToSet(servicerTodo)
    BY <2>1 DEF OpReassigns, Reassigns, Changed
  <2> QED  BY <2>1 DEF OpsKept, CallsKept
<1>2. ASSUME NEW t  PROVE ClosePending(t) => ClosePending(t)'
  BY DEF ClosePending, CallsPending
<1>3. \A call \in Announced' : call \in Announced \/ DetachKnown(call)
  BY DEF Announced, DetachKnown
<1> QED  BY <1>1, <1>2, <1>3, WordsFrame

\* A response without words.
Nothing == Respond("notify", {}, {})

\* It says nothing of any talk.
LEMMA NothingOK == Nothing \in ServiceResponse /\ Faithful(Nothing) /\ Nothing.words = {}
<1>1. Nothing.words = {}
  BY DEF Nothing, Respond
<1> QED  BY <1>1, RespondTyped, NoWordsFaithful DEF Nothing

\* The stream handler: what it sends out was said before.
LEMMA ServiceStepWords ==
  ASSUME TypeOK, TypeOK', Registry, Words, NEW z \in Servicers, ServiceStep(z)
  PROVE  Words'
<1>1. UNCHANGED <<talks, servicers, servicerTodo, reopened, misled, early, arriving,
                  servicerRunner, unheard>>
  BY DEF ServiceStep, InstallServicer, ServiceSend, ServiceTerminal, UninstallServicer,
     serviceChans, serviceMain, outsideVars, lossVars, restOfLoss
<1>2. Entrants' = Entrants /\ Entrants \subseteq Servicers
  BY <1>1, EntrantsTyped DEF Entrants, Registered, Installing
<1>3. ASSUME NEW s \in Entrants, service'[s] = "serving"
      PROVE  service[s] = "serving"
  <2>1. s \in Servicers /\ service[s] # "idle"
    BY <1>2, <1>3 DEF Entrants, Registry, Entered
  <2> QED  BY <1>3, <2>1 DEF ServiceStep, InstallServicer, ServiceSend, ServiceTerminal,
           UninstallServicer, TypeOK, ServiceTypeOK
<1>4. CASE UNCHANGED serviceOut
  <2>1. Informs(Nothing) /\ Utters(Nothing)
    BY <1>1, <1>2, <1>3, <1>4, SilenceInforms
  <2> QED  BY <1>1, <2>1, SameWhenUnchanged, NothingOK, WordsQuiet DEF Changed
<1>5. CASE ServiceSend(z)
  <2>1. PICK a : a = serviceInbox[z]
    OBVIOUS
  <2>2. PICK b : b = chServiceSend[z]
    OBVIOUS
  <2>3. a \in Seq(ServiceResponse) /\ b \in Seq(ServiceResponse) /\ b # <<>>
    BY <1>5, <2>1, <2>2 DEF ServiceSend, TypeOK, ServiceOutTypeOK
  <2>4. /\ chServiceSend'[z] = Tail(b)
        /\ \/ serviceInbox'[z] = Append(a, Head(b))
           \/ serviceInbox'[z] = a /\ service'[z] # "serving"
        /\ \A s \in Servicers \ {z} : ToldServicer(s)' = ToldServicer(s)
    BY <1>5, <2>1, <2>2 DEF ServiceSend, ToldServicer, TypeOK, ServiceOutTypeOK, ServiceTypeOK
  <2>5. ToldServicer(z) = a \o b
    BY <2>1, <2>2 DEF ToldServicer
  <2>6. CASE serviceInbox'[z] = Append(a, Head(b))
    <3>1. ToldServicer(z)' = a \o b
      BY <2>3, <2>4, <2>6, ConcatMove DEF ToldServicer
    <3>2. \A s \in Servicers : ToldServicer(s)' = ToldServicer(s)
      BY <2>4, <2>5, <3>1
    <3>3. Informs(Nothing) /\ Utters(Nothing)
      BY <1>1, <1>2, <1>3, <3>2 DEF Informs, Utters, Hears, Told
    <3> QED  BY <1>1, <3>3, SameWhenUnchanged, NothingOK, WordsQuiet DEF Changed
  <2>7. CASE serviceInbox'[z] = a /\ service'[z] # "serving"
    <3>1. ToldServicer(z)' = a \o Tail(b)
      BY <2>4, <2>7 DEF ToldServicer
    <3>2. ToSet(a \o Tail(b)) \subseteq ToSet(a \o b)
      <4>1. PICK rest : rest = Tail(b)
        OBVIOUS
      <4>2. rest \in Seq(ServiceResponse) /\ ToSet(rest) \subseteq ToSet(b)
        BY <2>3, <4>1, HeadTailToSet
      <4>3. /\ ToSet(a \o b) = ToSet(a) \cup ToSet(b)
            /\ ToSet(a \o rest) = ToSet(a) \cup ToSet(rest)
        BY <2>3, <4>2, ConcatToSet
      <4> QED  BY <4>1, <4>2, <4>3
    <3>3. \A s \in Servicers : ToSet(ToldServicer(s)') \subseteq ToSet(ToldServicer(s))
      BY <2>4, <2>5, <3>1, <3>2
    <3>4. Utters(Nothing)
      BY <3>3 DEF Utters
    <3>5. Informs(Nothing)
      BY <1>1, <1>2, <1>3, <2>4, <2>7 DEF Informs, Hears, Told
    <3> QED  BY <1>1, <3>4, <3>5, SameWhenUnchanged, NothingOK, WordsQuiet DEF Changed
  <2> QED  BY <2>4, <2>6, <2>7
<1>6. UNCHANGED serviceOut \/ ServiceSend(z)
  BY DEF ServiceStep, InstallServicer, ServiceTerminal, UninstallServicer, serviceOut
<1> QED  BY <1>4, <1>5, <1>6

\* A message that is added leaves who serves the talks, and their status, as they are.
LEMMA AddSameStore ==
  ASSUME TypeOK, NEW t, NEW m, AddTalkMessage(t, m)
  PROVE  SameStore
BY AddsOne DEF TypeOK, SameStore, SameTalk, SameScope

\* The receiver says nothing.
LEMMA ServiceReceiverWords ==
  ASSUME TypeOK, TypeOK', Registry, Words, NEW z \in Servicers, ServiceReceiverStep(z)
  PROVE  Words'
<1>1. /\ UNCHANGED <<service, servicers, reopened, misled, early, arriving, servicerRunner,
                     serviceOut>>
      /\ unheard \subseteq unheard'
  BY DEF ServiceReceiverStep, ReceiveQuery, ReceiveForTalk, ReceiveServiceMessage,
     ReceiveServiceMessageFails, ServicerMessageIncoming, ServiceReceiveFails,
     serviceMain, outsideVars, lossVars, restOfLoss
<1>2. \/ UNCHANGED servicerTodo
      \/ /\ servicerTodo = <<>>
         /\ \E kind \in {"attachedTalks", "pendingTalks"} : servicerTodo' = <<Do(kind, z)>>
  BY DEF ServiceReceiverStep, ReceiveQuery, ReceiveForTalk, ReceiveServiceMessage,
     ReceiveServiceMessageFails, ServicerMessageIncoming, ServiceReceiveFails, serviceMain,
     Parked, AtSelect
<1>3. /\ Entrants' \subseteq Entrants
      /\ \A op \in Changed : op.op \in {"attachedTalks", "pendingTalks"}
      /\ ToSet(servicerTodo) \subseteq ToSet(servicerTodo')
  <2>1. CASE UNCHANGED servicerTodo
    BY <1>1, <2>1 DEF Entrants, Registered, Installing, Changed
  <2>2. CASE ~UNCHANGED servicerTodo
    <3>1. PICK kind \in {"attachedTalks", "pendingTalks"} : servicerTodo' = <<Do(kind, z)>>
      BY <1>2, <2>2
    <3>2. ToSet(servicerTodo') = {Do(kind, z)} /\ Do(kind, z).op = kind
      BY <3>1, OneToSet DEF Do
    <3>3. servicerTodo = <<>> /\ ToSet(<<>>) = {}
      BY <1>2, <2>2 DEF ToSet
    <3>4. Installing' = {}
      BY <3>2, NoneInstalling
    <3> QED  BY <1>1, <3>2, <3>3, <3>4 DEF Entrants, Registered, Changed
  <2> QED  BY <2>1, <2>2
<1>4. SameStore
  <2>1. UNCHANGED talks \/ \E t, m : AddTalkMessage(t, m)
    BY DEF ServiceReceiverStep, ReceiveQuery, ReceiveForTalk, ReceiveServiceMessage,
       ReceiveServiceMessageFails, ServicerMessageIncoming, ServiceReceiveFails
  <2> QED  BY <2>1, AddSameStore, SameWhenUnchanged
<1>5. Informs(Nothing) /\ Utters(Nothing)
  BY <1>1, <1>3, SilenceInforms
<1> QED  BY <1>1, <1>3, <1>4, <1>5, NothingOK, WordsQuiet DEF Changed

\* The installation: the stream that enters is told nothing but the store's, and had
\* heard nothing, or is not promised to be told.
LEMMA HandleInstallWords ==
  ASSUME TypeOK, TypeOK', Words, HandleInstallServicer
  PROVE  Words'
<1>1. PICK z : z = Head(chInstallServicer)
  OBVIOUS
<1>2. /\ servicerTodo = <<>> /\ servicerTodo' = <<Do("finishInstall", z)>>
      /\ UNCHANGED <<talks, service, servicers, arriving, servicerRunner, unheard, reopened,
                     misled, serviceInbox>>
      /\ early' = early \cup {y \in {z} : \E r \in ToSet(ToldServicer(y)) : r.words # {}}
  BY <1>1 DEF HandleInstallServicer, AtSelect, serviceVars, outsideVars
<1>3. Entrants' \subseteq Entrants \cup {z} /\ Entrants' \subseteq Servicers
  <2>1. Installing' = {z}
    BY <1>2, OneToSet, OneInstalling
  <2> QED  BY <1>2, <2>1, EntrantsNext DEF Entrants, Registered
<1>4. PICK resp \in ServiceResponse :
        /\ Faithful(resp)
        /\ SendTo({z}, resp) \/ UNCHANGED chServiceSend
  <2>1. z \in Servicers
    BY <1>1, Capacities, ReceiveFits DEF HandleInstallServicer, TypeOK, ServiceChanTypeOK
  <2>2. \/ \E read \in Readings(z) : SendTo({z}, AttachedTalks(z, read))
        \/ UNCHANGED chServiceSend
    BY <1>1 DEF HandleInstallServicer
  <2>3. /\ \A read \in Readings(z) : /\ AttachedTalks(z, read) \in ServiceResponse
                                    /\ Faithful(AttachedTalks(z, read))
        /\ PendingTalks(z) \in ServiceResponse /\ Faithful(PendingTalks(z))
    BY <2>1, AnswersTyped, AnswersFaithful DEF TypeOK
  <2> QED  BY <2>2, <2>3
<1>5. \A s \in Servicers : Hears(s, resp)
  <2>1. CASE SendTo({z}, resp)
    BY <1>2, <2>1, ToldSend
  <2>2. CASE UNCHANGED chServiceSend
    BY <1>2, <2>2 DEF Hears, ToldServicer
  <2> QED  BY <1>4, <2>1, <2>2
<1>6. Utters(resp)
  <2>1. ASSUME NEW line \in Seq(ServiceResponse)
        PROVE  ToSet(Append(line, resp)) = ToSet(line) \cup {resp}
    BY AppendToSet
  <2>2. ASSUME NEW s \in Servicers
        PROVE  ToSet(ToldServicer(s)') \subseteq ToSet(ToldServicer(s)) \cup {resp}
    <3>1. PICK line : line = ToldServicer(s)
      OBVIOUS
    <3>2. line \in Seq(ServiceResponse)
      BY <3>1, ToldTyped
    <3>3. ToldServicer(s)' = line \/ ToldServicer(s)' = Append(line, resp)
      BY <1>5, <3>1 DEF Hears
    <3> QED  BY <2>1, <3>1, <3>2, <3>3
  <2> QED  BY <2>2 DEF Utters
<1>7. Informs(resp)
  <2>1. SUFFICES ASSUME NEW s \in Entrants', Told(s)'
                 PROVE  (s \in Entrants /\ Told(s)) \/ Silent(s)
    BY <1>3, <1>5 DEF Informs
  <2>2. Told(s)
    BY <1>2, <2>1 DEF Told
  <2>3. CASE s = z
    BY <1>2, <2>1, <2>3 DEF Told, Silent
  <2> QED  BY <1>3, <2>1, <2>2, <2>3
<1>8. \A op \in Changed : op.op = "finishInstall"
  <2>1. ToSet(servicerTodo') = {Do("finishInstall", z)} /\ ToSet(servicerTodo) = {}
    BY <1>2, OneToSet, SelectCalls
  <2> QED  BY <2>1 DEF Changed, Do
<1> QED  BY <1>2, <1>4, <1>6, <1>7, <1>8, SameWhenUnchanged, WordsQuiet DEF Changed

\* A request that changes nothing, or is answered from the store.
LEMMA HandleQuietWords ==
  ASSUME TypeOK, TypeOK', Words, servicerTodo = <<>>,
         UNCHANGED <<talks, service, serviceInbox, servicerRunner, arriving, reopened>>,
         misled \subseteq misled', unheard \subseteq unheard', early \subseteq early',
         Registered' \subseteq Registered,
         \A op \in ToSet(servicerTodo') : /\ op.op \in {"tellCustomers", "tellServicers"}
                                          /\ op.call.event = "message",
         \/ UNCHANGED chServiceSend
         \/ \E S : \E resp \in ServiceResponse : SendTo(S, resp) /\ Faithful(resp)
  PROVE  Words'
<1>1. Installing' = {} /\ ToSet(servicerTodo) = {}
  BY NoneInstalling, SelectCalls
<1>2. Entrants' \subseteq Entrants
  BY <1>1 DEF Entrants
<1>3. ASSUME NEW resp, Faithful(resp), Informs(resp), Utters(resp)
      PROVE  Words'
  <2>1. \A op \in Changed : op.op # "detached"
    BY <1>1 DEF Changed
  <2>2. \A op \in ToSet(servicerTodo') \ ToSet(servicerTodo) :
          op.op = "tellServicers" => op.call.event \notin {"attach", "detach"}
    OBVIOUS
  <2> QED  BY <1>1, <1>3, <2>1, <2>2, SameWhenUnchanged, WordsQuiet
<1>4. CASE UNCHANGED chServiceSend
  BY <1>2, <1>3, <1>4, NothingOK, SilenceInforms DEF serviceOut
<1>5. ASSUME NEW S, NEW resp \in ServiceResponse, SendTo(S, resp), Faithful(resp)
      PROVE  Words'
  BY <1>2, <1>3, <1>5, SendInforms
<1> QED  BY <1>4, <1>5

\* The cases of the select that leave who serves the talks alone.
LEMMA HandleOthersWords ==
  ASSUME TypeOK, TypeOK', Words,
         HandleUninstallServicer \/ HandleReload \/ HandleServiceMessage
  PROVE  Words'
<1>1. /\ servicerTodo = <<>>
      /\ UNCHANGED <<talks, service, serviceInbox, servicerRunner, arriving, reopened, misled,
                     early>>
      /\ unheard \subseteq unheard'
  BY DEF HandleUninstallServicer, HandleReload, HandleServiceMessage, AtSelect,
     serviceVars, serviceOut, outsideVars, lossVars, restOfLoss
<1>2. ToSet(servicerTodo) = {}
  BY <1>1, SelectCalls
<1>3. CASE HandleUninstallServicer
  <2>1. \A u \in Users : servicers'[u] \subseteq servicers[u]
    BY <1>3 DEF HandleUninstallServicer, TypeOK, ServiceMainTypeOK
  <2>2. UNCHANGED <<servicerTodo, chServiceSend>>
    BY <1>3 DEF HandleUninstallServicer, serviceOut
  <2> QED  BY <1>1, <1>2, <2>1, <2>2, HandleQuietWords DEF Registered
<1>4. CASE HandleReload
  <2>1. UNCHANGED <<servicerTodo, servicers>>
    BY <1>4 DEF HandleReload, serviceMain
  <2>2. \/ UNCHANGED chServiceSend
        \/ \E S : \E t \in DOMAIN talks : SendTo(S, Reload(t))
    BY <1>4 DEF HandleReload
  <2>3. \A t \in DOMAIN talks : Reload(t) \in ServiceResponse /\ Faithful(Reload(t))
    BY AnswersTyped, AnswersFaithful DEF TypeOK
  <2> QED  BY <1>1, <1>2, <2>1, <2>2, <2>3, HandleQuietWords DEF Registered
<1>5. CASE HandleServiceMessage
  <2>1. PICK m, t : \/ UNCHANGED <<chServiceSend, servicerTodo, servicers>>
                    \/ /\ SendOrDismiss({m[1]}, Respond("messageConfirmed", {}, {<<t, m>>}))
                       /\ servicerTodo' = <<Tell("tellCustomers", MessageCall(t, m)),
                                            Tell("tellServicers", MessageCall(t, m))>>
                       /\ t \in Talks /\ m \in Message
    <3>1. Head(chServicerMessage) \in (Servicers \X Nat) \X Talks
      BY <1>5, Capacities, ReceiveFits DEF HandleServiceMessage, TypeOK, ServiceChanTypeOK
    <3>2. Head(chServicerMessage)[1] \in Message /\ Head(chServicerMessage)[2] \in Talks
      BY <3>1, ServicersSend
    <3> QED  BY <1>5, <3>2 DEF HandleServiceMessage, serviceMain
  <2>2. CASE UNCHANGED <<chServiceSend, servicerTodo, servicers>>
    BY <1>1, <1>2, <2>2, HandleQuietWords DEF Registered
  <2>3. CASE /\ SendOrDismiss({m[1]}, Respond("messageConfirmed", {}, {<<t, m>>}))
             /\ servicerTodo' = <<Tell("tellCustomers", MessageCall(t, m)),
                                  Tell("tellServicers", MessageCall(t, m))>>
             /\ t \in Talks /\ m \in Message
    <3>0. PICK call : call = MessageCall(t, m)
      OBVIOUS
    <3>1. call = MessageCall(t, m) /\ call.event = "message"
      BY <3>0 DEF MessageCall
    <3>2. PICK resp : resp = Respond("messageConfirmed", {}, {<<t, m>>})
      OBVIOUS
    <3>3. resp \in ServiceResponse /\ Faithful(resp)
      <4>1. resp.words = {}
        BY <3>2 DEF Respond
      <4>2. {} \in SUBSET Word /\ {<<t, m>>} \in SUBSET (Talks \X Message)
        BY <2>3
      <4>3. resp \in ServiceResponse
        BY <3>2, <4>2, RespondTyped
      <4>4. Faithful(resp)
        BY <4>1, NoWordsFaithful
      <4> QED  BY <4>3, <4>4
    <3>4. ToSet(servicerTodo') = {Tell("tellCustomers", call), Tell("tellServicers", call)}
      BY <2>3, <3>1 DEF ToSet
    <3>5. \A op \in ToSet(servicerTodo') : /\ op.op \in {"tellCustomers", "tellServicers"}
                                           /\ op.call.event = "message"
      BY <3>1, <3>4 DEF Tell
    <3>6. SendTo({m[1]}, resp) /\ Registered' \subseteq Registered
      BY <2>3, <3>2 DEF SendOrDismiss, Registered
    <3> QED  BY <1>1, <3>3, <3>5, <3>6, HandleQuietWords
  <2> QED  BY <2>1, <2>2, <2>3
<1> QED  BY <1>3, <1>4, <1>5

\* A talk that changes hands, or that everybody will be told does: what is left of the
\* case says who has it now, or the store did not note it.
LEMMA ChangesHands ==
  ASSUME TypeOK, TypeOK', Words, servicerTodo = <<>>, NEW t0 \in DOMAIN talks,
         NEW op, servicerTodo' = <<op>>, op.op # "finishInstall",
         \A t : OpReassigns(op, t) => t = t0, OpReassigns(op, t0),
         op.op = "tellServicers" => op.call.event # "detach",
         \/ /\ \E acts, bizs : UpdateTalkServiceID(acts, bizs, t0, OpTaker(op))
            /\ UNCHANGED misled
         \/ UNCHANGED talks /\ misled' = misled \cup {t0},
         UNCHANGED <<service, servicers, servicerRunner, serviceOut, arriving, unheard,
                     reopened, early>>
  PROVE  Words'
<1>1. ToSet(servicerTodo) = {} /\ ToSet(servicerTodo') = {op}
  BY OneToSet, SelectCalls
<1>2. Entrants' \subseteq Entrants
  BY <1>1, NoneInstalling DEF Entrants, Registered
<1>3. Informs(Nothing) /\ Utters(Nothing)
  BY <1>2, SilenceInforms
<1>4. /\ DOMAIN talks' = DOMAIN talks
      /\ \A t \in DOMAIN talks : /\ SameScope(t) /\ talks'[t].status = talks[t].status
                                 /\ t # t0 => SameTalk(t)
      /\ t0 \notin misled' => talks'[t0].service = OpTaker(op)
  <2>1. CASE UNCHANGED talks /\ misled' = misled \cup {t0}
    BY <2>1 DEF SameScope, SameTalk
  <2>2. CASE \E acts, bizs : UpdateTalkServiceID(acts, bizs, t0, OpTaker(op))
    <3>1. talks' = [talks EXCEPT ![t0].service = OpTaker(op)]
      BY <2>2 DEF UpdateTalkServiceID
    <3>2. talks \in [DOMAIN talks -> TalkInfo]
      BY DEF TypeOK, StoreTypeOK
    <3>3. talks[t0] \in TalkInfo
      BY <3>2
    <3>4. PICK new : new = [talks[t0] EXCEPT !.service = OpTaker(op)]
      OBVIOUS
    <3>5. /\ new.act = talks[t0].act /\ new.biz = talks[t0].biz
          /\ new.status = talks[t0].status /\ new.service = OpTaker(op)
      BY <3>3, <3>4 DEF TalkInfo
    <3>6. talks' = [talks EXCEPT ![t0] = new]
      BY <3>1, <3>4
    <3>7. DOMAIN talks' = DOMAIN talks /\ \A t \in DOMAIN talks :
            talks'[t] = IF t = t0 THEN new ELSE talks[t]
      BY <3>6
    <3> QED  BY <3>5, <3>7 DEF SameScope, SameTalk
  <2> QED  BY <2>1, <2>2
<1>5. WordsKnown'
  <2>1. \A call \in Announced' : call \in Announced \/ DetachKnown(call)
    BY <1>1 DEF Announced, DetachKnown
  <2>2. WordsKnown /\ \A w \in Nothing.words : w.talk \in DOMAIN talks'
    BY NothingOK DEF Words
  <2>3. \A call \in arriving' : call \in arriving
    OBVIOUS
  <2> QED  BY <1>3, <1>4, <2>1, <2>2, <2>3, KnownKept
<1>6. ASSUME NEW t \in DOMAIN talks  PROVE Agrees(t)'
  <2>1. CASE t = t0
    <3>1. ~NoOp(t0)'
      BY <1>1 DEF NoOp
    <3>2. t0 \notin misled' => CaseAgrees(t0)'
      BY <1>1, <1>4 DEF CaseAgrees
    <3> QED  BY <2>1, <3>1, <3>2 DEF Agrees, Reliable
  <2>2. CASE t # t0
    <3>1. OpsKept(t) /\ CallsKept(t)
      BY <1>1, <2>2 DEF OpsKept, CallsKept
    <3>2. Agrees(t) /\ SaysOwner(Nothing, t) /\ misled \subseteq misled'
      BY <1>6, NothingOK DEF Words, Agreement, Faithful
    <3> QED  BY <1>3, <1>4, <1>6, <2>2, <3>1, <3>2, AgreesKept
  <2> QED  BY <2>1, <2>2
<1>7. ASSUME NEW t \in DOMAIN talks  PROVE Closes(t)'
  <2>1. ClosePending(t) => ClosePending(t)'
    BY <1>1 DEF ClosePending, CallsPending
  <2>2. Closes(t) /\ SaysStatus(Nothing, t)
    BY <1>7, NothingOK DEF Words, Closing, Closes, Entrants, Faithful
  <2> QED  BY <1>3, <1>4, <1>7, <2>1, <2>2, ClosesKept
<1>8. Agreement' /\ Closing'
  BY <1>4, <1>6, <1>7 DEF Agreement, Closing, Closes, Entrants
<1> QED  BY <1>5, <1>8 DEF Words

\* The attach: the talk is taken, or everybody is told so all the same.
LEMMA HandleAttachWords ==
  ASSUME TypeOK, TypeOK', Words, HandleAttach
  PROVE  Words'
<1>1. PICK s : s = Head(chServicerAttachTalk)[1]
  OBVIOUS
<1>2. PICK t : t = Head(chServicerAttachTalk)[2]
  OBVIOUS
<1>3. s \in Servicers /\ t \in Talks
  <2>1. Head(chServicerAttachTalk) \in Servicers \X Talks
    BY Capacities, ReceiveFits DEF HandleAttach, TypeOK, ServiceChanTypeOK
  <2> QED  BY <1>1, <1>2, <2>1
<1>4. /\ servicerTodo = <<>>
      /\ UNCHANGED <<service, servicers, servicerRunner, serviceOut, chServiceSend,
                     serviceInbox, arriving, unheard, reopened, early>>
  BY DEF HandleAttach, AtSelect, serviceVars, serviceOut, outsideVars
<1>5. CASE UNCHANGED <<talks, servicerTodo, misled>>
  <2>1. ToSet(servicerTodo') = {}
    BY <1>4, <1>5, SelectCalls
  <2> QED  BY <1>4, <1>5, <2>1, HandleQuietWords DEF Registered
<1>6. PICK op : op = Tell("tellServicers", AttachCall(t, UserOf[s]))
  OBVIOUS
<1>7. CASE /\ InView(s, t)
           /\ \/ UpdateTalkServiceID(ActsOf[s], BizsOf[s], t, UserOf[s]) /\ UNCHANGED misled
              \/ UNCHANGED talks /\ misled' = misled \cup {t}
           /\ servicerTodo' = <<op>>
  <2>1. /\ op.op = "tellServicers" /\ op.call.event = "attach" /\ op.call.talk = t
        /\ op.call.user = UserOf[s]
    BY <1>6 DEF Tell, AttachCall
  <2>2. /\ \A u : OpReassigns(op, u) => u = t
        /\ OpReassigns(op, t) /\ OpTaker(op) = UserOf[s]
    BY <2>1 DEF OpReassigns, Reassigns, OpTaker, Taker
  <2>3. t \in DOMAIN talks
    BY <1>7, InViewExists DEF TypeOK
  <2> QED  BY <1>4, <1>7, <2>1, <2>2, <2>3, ChangesHands
<1> QED  BY <1>1, <1>2, <1>5, <1>6, <1>7 DEF HandleAttach

\* The detach.
LEMMA HandleDetachWords ==
  ASSUME TypeOK, TypeOK', Words, HandleDetach
  PROVE  Words'
<1>1. PICK s : s = Head(chServicerDetachTalk)[1]
  OBVIOUS
<1>2. PICK t : t = Head(chServicerDetachTalk)[2]
  OBVIOUS
<1>4. /\ servicerTodo = <<>>
      /\ UNCHANGED <<service, servicers, servicerRunner, serviceInbox, arriving, unheard,
                     reopened, early>>
  BY DEF HandleDetach, AtSelect, serviceVars, outsideVars
<1>5. CASE /\ UNCHANGED <<talks, servicerTodo, misled>>
           /\ SendTo({s}, Respond("notify", {}, {})) \/ UNCHANGED chServiceSend
  <2>1. ToSet(servicerTodo') = {}
    BY <1>4, <1>5, SelectCalls
  <2>2. \/ UNCHANGED chServiceSend
        \/ \E S : \E resp \in ServiceResponse : SendTo(S, resp) /\ Faithful(resp)
    BY <1>5, NothingOK DEF Nothing
  <2> QED  BY <1>4, <1>5, <2>1, <2>2, HandleQuietWords DEF Registered
<1>6. PICK op : op = [op |-> "detached", talk |-> t]
  OBVIOUS
<1>7. CASE /\ IsHis(s, t)
           /\ \/ UpdateTalkServiceID(ActsOf[s], BizsOf[s], t, NoOne) /\ UNCHANGED misled
              \/ UNCHANGED talks /\ misled' = misled \cup {t}
           /\ servicerTodo' = <<op>> /\ UNCHANGED chServiceSend
  <2>1. op.op = "detached" /\ op.talk = t
    BY <1>6
  <2>2. /\ \A u : OpReassigns(op, u) => u = t
        /\ OpReassigns(op, t) /\ OpTaker(op) = NoOne
    BY <2>1 DEF OpReassigns, OpTaker
  <2>3. t \in DOMAIN talks
    BY <1>7, InViewExists DEF IsHis, TypeOK
  <2> QED  BY <1>4, <1>7, <2>1, <2>2, <2>3, ChangesHands DEF serviceOut
<1> QED  BY <1>1, <1>2, <1>5, <1>6, <1>7 DEF HandleDetach

\* A response of one word, of a talk there is, that does not say who serves it.
LEMMA UntoldFaithful ==
  ASSUME NEW t \in DOMAIN talks, NEW type, NEW contents
  PROVE  Faithful(Respond(type, {WordOf(t, "untold")}, contents))
<1>1. PICK resp : resp = Respond(type, {WordOf(t, "untold")}, contents)
  OBVIOUS
<1>2. \A w \in resp.words : /\ w.talk = t /\ w.service = "untold"
                            /\ w.status = talks[t].status
  BY <1>1 DEF Respond, WordOf
<1> QED  BY <1>1, <1>2 DEF Faithful, SaysOwner, SaysStatus, Assigns

\* Whoever stays registered when all are told of a talk was told of it, if his token
\* covers it.
LEMMA ToldAll ==
  ASSUME TypeOK, TypeOK', NEW t, NEW resp \in ServiceResponse,
         SendOrDismiss(AllFor(t), resp), UNCHANGED serviceInbox,
         NEW s \in Registered', InView(s, t)
  PROVE  /\ s \in Servicers /\ ToldServicer(s) \in Seq(ServiceResponse)
         /\ ToldServicer(s)' = Append(ToldServicer(s), resp)
<1>1. PICK u \in Users : s \in servicers'[u]
  BY DEF Registered
<1>2. s \in servicers[u] /\ s \notin NoRoom(AllFor(t))
  BY <1>1 DEF SendOrDismiss
<1>3. s \in Servicers /\ s \in AllFor(t) \ NoRoom(AllFor(t))
  <2>1. s \in Registered
    BY <1>2 DEF Registered
  <2>2. s \in Servicers
    BY <2>1, EntrantsTyped
  <2> QED  BY <1>2, <2>1, <2>2 DEF AllFor
<1>4. SendTo(AllFor(t), resp)
  BY DEF SendOrDismiss
<1> QED  BY <1>3, <1>4, ToldSend, ToldTyped

\* What any posted closure leaves as it was: only its own call is gone.
LEMMA RunFrame ==
  ASSUME TypeOK, TypeOK', RunPostedCall, NEW call, call = Head(servicerRunner)
  PROVE  /\ call \in Call /\ call \in ToSet(servicerRunner)
         /\ servicerRunner \in Seq(Call) /\ servicerRunner # <<>>
         /\ servicerRunner' = Tail(servicerRunner)
         /\ servicerTodo = <<>>
         /\ UNCHANGED <<talks, service, serviceInbox, arriving, reopened, misled, early>>
         /\ unheard \subseteq unheard'
         /\ Entrants' \subseteq Registered' /\ Entrants' \subseteq Entrants
         /\ Announced' \subseteq Announced
         /\ \A op \in ToSet(servicerTodo') : op.op = "reloadUser"
         /\ \A t : OpsKept(t) /\ (~Reassigns(call, t) => CallsKept(t))
         /\ \A t : ClosePending(t) /\ (call # TalkCall("close", t) \/ call \in unheard')
                     => ClosePending(t)'
<1>1. /\ servicerTodo = <<>> /\ servicerRunner # <<>>
      /\ servicerRunner' = Tail(servicerRunner)
      /\ UNCHANGED <<talks, service, serviceInbox, arriving, reopened, misled, early>>
  BY DEF RunPostedCall, AtSelect, serviceVars, outsideVars, restOfLoss
<1>2. /\ servicerRunner \in Seq(Call) /\ call \in Call /\ call \in ToSet(servicerRunner)
      /\ ToSet(servicerRunner) = {call} \cup ToSet(servicerRunner')
  BY <1>1, Capacities, ReceiveFits DEF TypeOK, ServiceChanTypeOK, Fits
<1>3. /\ \A op \in ToSet(servicerTodo') : op.op = "reloadUser"
      /\ unheard \subseteq unheard'
      /\ \A u \in Users : servicers'[u] \subseteq servicers[u]
  <2>1. RunCall(call)
    BY DEF RunPostedCall
  <2>2. \/ UNCHANGED servicerTodo
        \/ servicerTodo' = <<[op |-> "reloadUser", talk |-> call.talk, user |-> call.user]>>
    BY <2>1 DEF RunCall, RunMessage, RunCreate, RunClose, RunAttach, RunDetach, serviceMain
  <2>3. \A op \in ToSet(servicerTodo') : op.op = "reloadUser"
    BY <1>1, <2>2, OneToSet, SelectCalls
  <2>4. UNCHANGED servicers \/ \E S, resp : SendOrDismiss(S, resp)
    BY <2>1 DEF RunCall, RunMessage, RunCreate, RunClose, RunAttach, RunDetach, serviceMain
  <2>5. \A u \in Users : servicers'[u] \subseteq servicers[u]
    BY <2>4 DEF SendOrDismiss
  <2>6. unheard \subseteq unheard'
    BY <2>1 DEF RunCall
  <2> QED  BY <2>3, <2>5, <2>6
<1>4. Entrants' \subseteq Registered' /\ Entrants' \subseteq Entrants
  <2>1. Installing' = {}
    BY <1>3, NoneInstalling
  <2> QED  BY <1>3, <2>1 DEF Entrants, Registered
<1>5. ToSet(servicerTodo) = {}
  BY <1>1, SelectCalls
<1>6. Announced' \subseteq Announced
  BY <1>2, <1>3, <1>5 DEF Announced
<1>7. \A t : OpsKept(t) /\ (~Reassigns(call, t) => CallsKept(t))
  BY <1>1, <1>3, <1>5 DEF OpsKept, OpReassigns, CallsKept
<1>8. \A t : ClosePending(t) /\ (call # TalkCall("close", t) \/ call \in unheard')
               => ClosePending(t)'
  BY <1>1, <1>2, <1>3, <1>5 DEF ClosePending, CallsPending
<1> QED  BY <1>1, <1>2, <1>3, <1>4, <1>6, <1>7, <1>8

\* The notice of an attach or a detach: who serves the talk has been told to everybody,
\* unless another notice of it is to come.
LEMMA RunHandsOver ==
  ASSUME TypeOK, TypeOK', Words, RunPostedCall, UNCHANGED unheard,
         NEW call, call = Head(servicerRunner), call.event \in {"attach", "detach"},
         call.talk \in DOMAIN talks, Taker(call) \in Users \cup {NoOne},
         NEW resp \in ServiceResponse, SendOrDismiss(AllFor(call.talk), resp),
         NEW word, resp.words = {word}, word.talk = call.talk, word.service = Taker(call),
         SaysStatus(resp, call.talk)
  PROVE  Words'
<1> DEFINE t0 == call.talk
<1>1. /\ servicerRunner \in Seq(Call) /\ servicerRunner # <<>>
      /\ servicerRunner' = Tail(servicerRunner)
      /\ servicerTodo = <<>>
      /\ UNCHANGED <<talks, service, serviceInbox, arriving, reopened, misled, early>>
      /\ Entrants' \subseteq Registered' /\ Entrants' \subseteq Entrants
      /\ Announced' \subseteq Announced
      /\ \A op \in ToSet(servicerTodo') : op.op = "reloadUser"
      /\ \A t : OpsKept(t) /\ (~Reassigns(call, t) => CallsKept(t))
      /\ \A t : ClosePending(t) /\ call # TalkCall("close", t) => ClosePending(t)'
  BY RunFrame
<1>2. Informs(resp) /\ Utters(resp)
  <2>1. SendTo(AllFor(t0), resp)
    BY DEF SendOrDismiss
  <2> QED  BY <1>1, <2>1, SendInforms
<1>3. WordsKnown'
  BY <1>1, <1>2, KnownKept DEF Words
<1>4. ASSUME NEW t \in DOMAIN talks  PROVE Closes(t)'
  <2>1. Closes(t)
    BY <1>4 DEF Words, Closing, Closes, Entrants
  <2>2. SaysStatus(resp, t)
    BY DEF SaysStatus
  <2>3. SameScope(t) /\ talks'[t].status = talks[t].status
    BY <1>1, <1>4 DEF SameScope
  <2>4. ClosePending(t) => ClosePending(t)'
    <3>1. TalkCall("close", t).event = "close"
      BY DEF TalkCall
    <3>2. call # TalkCall("close", t)
      BY <3>1
    <3> QED  BY <1>1, <3>2
  <2>5. reopened \subseteq reopened' /\ Informs(resp)
    BY <1>1, <1>2
  <2> QED  BY <2>1, <2>2, <2>3, <2>4, <2>5, ClosesKept
<1>5. ASSUME NEW t \in DOMAIN talks  PROVE Agrees(t)'
  <2>1. Agrees(t)
    BY <1>5 DEF Words, Agreement
  <2>2. CASE t # t0
    <3>1. CallsKept(t) /\ OpsKept(t)
      BY <1>1, <2>2 DEF Reassigns
    <3>2. SaysOwner(resp, t) /\ SameTalk(t)
      BY <1>1, <1>5, <2>2 DEF SaysOwner, Assigns, SameTalk, SameScope
    <3> QED  BY <1>1, <1>2, <1>5, <2>1, <3>1, <3>2, AgreesKept
  <2>3. CASE t = t0
    <3>1. SUFFICES ASSUME Reliable(t)'
                   PROVE  /\ CaseAgrees(t)'
                          /\ NoOp(t)' => LastReassigns(servicerRunner, t, talks[t].service)'
                          /\ NoOp(t)' /\ NoCall(t)' => Streams(t)'
      BY DEF Agrees, Streams, Entrants
    <3>2. Reliable(t) /\ NoOp(t)
      <4>1. ToSet(servicerTodo) = {}
        BY <1>1, SelectCalls
      <4> QED  BY <1>1, <3>1, <4>1 DEF Reliable, NoOp
    <3>3. PICK user : user = talks[t].service
      OBVIOUS
    <3>4. LastReassigns(servicerRunner, t, user)
      BY <2>1, <3>2, <3>3 DEF Agrees
    <3>5. /\ LastReassigns(servicerRunner', t, user)
          /\ NoCall(t)' => Taker(call) = user
      <4>1. Reassigns(call, t)
        BY <2>3 DEF Reassigns
      <4> QED  BY <1>1, <3>4, <4>1, ReassignsTail DEF NoCall
    <3>6. CaseAgrees(t)'
      BY <1>1 DEF CaseAgrees, OpReassigns
    <3>7. ASSUME NoCall(t)', NEW s \in Entrants', Informed(s, t)'
          PROVE  LastAssigns(ToldServicer(s)', t, user)
      <4>1. InView(s, t) /\ s \in Registered'
        BY <1>1, <3>7 DEF Informed, InView, InScope
      <4>2. PICK line : line = ToldServicer(s)
        OBVIOUS
      <4>3. line \in Seq(ServiceResponse) /\ ToldServicer(s)' = Append(line, resp)
        BY <1>1, <2>3, <4>1, <4>2, ToldAll
      <4>4. word.service = user /\ word.service # "untold"
        BY <3>5, <3>7, ServicerAssumption DEF ServicerAssumption
      <4>5. Assigns(resp, t) /\ \A w \in resp.words : w.service = user
        BY <2>3, <4>4 DEF Assigns
      <4>6. LastAssigns(Append(line, resp), t, user)
        BY <4>3, <4>5, AssignsNext
      <4> QED  BY <4>3, <4>6
    <3>8. talks'[t].service = user
      BY <1>1, <3>3
    <3>9. NoCall(t)' => Streams(t)'
      BY <3>7, <3>8 DEF Streams, StreamAgrees
    <3> QED  BY <3>5, <3>6, <3>8, <3>9
  <2> QED  BY <2>2, <2>3
<1>6. Agreement' /\ Closing'
  BY <1>1, <1>4, <1>5 DEF Agreement, Closing, Closes, Entrants
<1> QED  BY <1>3, <1>6 DEF Words

\* The notice of a close: who stays registered was told that the talk is closed.
LEMMA RunCloseWords ==
  ASSUME TypeOK, TypeOK', Words, RunPostedCall, UNCHANGED unheard,
         NEW call, call = Head(servicerRunner), call.event = "close",
         call.talk \in DOMAIN talks,
         NEW resp \in ServiceResponse, SendOrDismiss(AllFor(call.talk), resp),
         resp.words = {CloseWord(call.talk)}
  PROVE  Words'
<1> DEFINE t0 == call.talk
<1>1. /\ UNCHANGED <<talks, service, serviceInbox, arriving, reopened, misled, early>>
      /\ Entrants' \subseteq Registered' /\ Entrants' \subseteq Entrants
      /\ Announced' \subseteq Announced
      /\ \A t : OpsKept(t) /\ (~Reassigns(call, t) => CallsKept(t))
      /\ \A t : ClosePending(t) /\ call # TalkCall("close", t) => ClosePending(t)'
  BY RunFrame
<1>2. Informs(resp) /\ Utters(resp)
  <2>1. SendTo(AllFor(t0), resp)
    BY DEF SendOrDismiss
  <2> QED  BY <1>1, <2>1, SendInforms
<1>3. \A w \in resp.words : w.talk = t0 /\ w.service = "untold" /\ w.status = "closed"
  BY DEF CloseWord
<1>4. WordsKnown'
  BY <1>1, <1>2, <1>3, KnownKept DEF Words
<1>5. ASSUME NEW t \in DOMAIN talks  PROVE Agrees(t)'
  <2>1. Agrees(t) /\ SaysOwner(resp, t)
    BY <1>3, <1>5 DEF Words, Agreement, SaysOwner, Assigns
  <2>2. OpsKept(t) /\ CallsKept(t)
    BY <1>1 DEF Reassigns
  <2>3. SameTalk(t) /\ Informs(resp) /\ misled \subseteq misled' /\ unheard \subseteq unheard'
    BY <1>1, <1>2, <1>5 DEF SameTalk, SameScope
  <2> QED  BY <2>1, <2>2, <2>3, AgreesKept
<1>6. ASSUME NEW t \in DOMAIN talks  PROVE Closes(t)'
  <2>1. Closes(t)
    BY <1>6 DEF Words, Closing, Closes, Entrants
  <2>2. SameScope(t) /\ talks'[t].status = talks[t].status
    BY <1>1, <1>6 DEF SameScope
  <2>3. reopened \subseteq reopened' /\ Informs(resp)
    BY <1>1, <1>2
  <2>4. CASE t # t0
    <3>1. SaysStatus(resp, t)
      BY <1>3, <2>4 DEF SaysStatus
    <3>2. ClosePending(t) => ClosePending(t)'
      <4>1. TalkCall("close", t).talk = t
        BY DEF TalkCall
      <4>2. call # TalkCall("close", t)
        BY <2>4, <4>1
      <4> QED  BY <1>1, <4>2
    <3> QED  BY <2>1, <2>2, <2>3, <3>1, <3>2, ClosesKept
  <2>5. CASE t = t0
    <3>1. SUFFICES ASSUME NEW s \in Entrants', Informed(s, t)'
                   PROVE  LastMentions(ToldServicer(s)', t, "closed")
      BY DEF Closes, StreamCloses
    <3>2. InView(s, t) /\ s \in Registered'
      BY <1>1, <3>1 DEF Informed, InView, InScope
    <3>3. PICK line : line = ToldServicer(s)
      OBVIOUS
    <3>4. line \in Seq(ServiceResponse) /\ ToldServicer(s)' = Append(line, resp)
      BY <1>1, <2>5, <3>2, <3>3, ToldAll
    <3>5. Mentions(resp, t) /\ \A w \in resp.words : w.status = "closed"
      BY <1>3, <2>5 DEF Mentions
    <3>6. LastMentions(Append(line, resp), t, "closed")
      BY <3>4, <3>5, MentionsNext
    <3> QED  BY <3>4, <3>6
  <2> QED  BY <2>4, <2>5
<1>7. Agreement' /\ Closing'
  BY <1>1, <1>5, <1>6 DEF Agreement, Closing, Closes, Entrants
<1> QED  BY <1>4, <1>7 DEF Words

\* The posted closures.
LEMMA RunWords ==
  ASSUME TypeOK, TypeOK', Pipeline, Words, RunPostedCall
  PROVE  Words'
<1>1. PICK call : call = Head(servicerRunner)
  OBVIOUS
<1>2. /\ call \in Call /\ call \in ToSet(servicerRunner)
      /\ UNCHANGED <<talks, service, serviceInbox, arriving, reopened, misled, early>>
      /\ unheard \subseteq unheard'
      /\ Entrants' \subseteq Entrants /\ Announced' \subseteq Announced
      /\ \A t : OpsKept(t) /\ (~Reassigns(call, t) => CallsKept(t))
      /\ \A t : ClosePending(t) /\ (call # TalkCall("close", t) \/ call \in unheard')
                  => ClosePending(t)'
  BY <1>1, RunFrame
<1>3. call.talk \in DOMAIN talks /\ call.talk \in Talks
  BY <1>2, WordsTyped DEF Pipeline, CallsStored, CallStored, TypeOK
<1>4. ASSUME NEW S, NEW resp \in ServiceResponse, SendOrDismiss(S, resp)
      PROVE  Informs(resp) /\ Utters(resp)
  <2>1. SendTo(S, resp)
    BY <1>4 DEF SendOrDismiss
  <2> QED  BY <1>2, <1>4, <2>1, SendInforms
<1>5. ASSUME call.event \in {"message", "create"},
             NEW resp, Informs(resp), Utters(resp), Faithful(resp)
      PROVE  Words'
  <2>1. ASSUME NEW t \in DOMAIN talks
        PROVE  OpsKept(t) /\ CallsKept(t) /\ (ClosePending(t) => ClosePending(t)')
    BY <1>2, <1>5 DEF Reassigns, TalkCall
  <2>2. SameStore
    BY <1>2, SameWhenUnchanged
  <2> QED  BY <1>2, <1>5, <2>1, <2>2, WordsFrame
<1>6. CASE call.event = "message" /\ RunMessage(call)
  <2>1. PICK S, resp : resp = Respond("message", {}, {<<call.talk, call.message>>})
                       /\ SendOrDismiss(S, resp)
    BY <1>6 DEF RunMessage
  <2>2. {} \in SUBSET Word /\ {<<call.talk, call.message>>} \in SUBSET (Talks \X Message)
    BY <1>2, <1>3, <1>6 DEF Call
  <2>3. resp \in ServiceResponse
    BY <2>1, <2>2, RespondTyped
  <2>4. Faithful(resp)
    <3>1. resp.words = {}
      BY <2>1 DEF Respond
    <3> QED  BY <3>1, NoWordsFaithful
  <2> QED  BY <1>4, <1>5, <1>6, <2>1, <2>3, <2>4
<1>7. CASE call.event = "create" /\ RunCreate(call)
  <2>1. PICK resp : resp = Respond("detach", {WordOf(call.talk, "untold")}, {})
    OBVIOUS
  <2>2. {WordOf(call.talk, "untold")} \in SUBSET Word
    BY <1>3, WordsTyped DEF TypeOK
  <2>3. resp \in ServiceResponse /\ Faithful(resp)
    BY <1>3, <2>1, <2>2, RespondTyped, UntoldFaithful
  <2> QED  BY <1>4, <1>5, <1>7, <2>1, <2>3 DEF RunCreate
<1>8. CASE call.event = "close" /\ RunClose(call) /\ UNCHANGED unheard
  <2>1. PICK resp : resp = Respond("close", {CloseWord(call.talk)}, {})
    OBVIOUS
  <2>2. {CloseWord(call.talk)} \in SUBSET Word
    BY <1>3 DEF CloseWord, Word
  <2>3. resp \in ServiceResponse
    BY <2>1, <2>2, RespondTyped
  <2>4. resp.words = {CloseWord(call.talk)}
    BY <2>1 DEF Respond
  <2>5. SendOrDismiss(AllFor(call.talk), resp)
    BY <1>8, <2>1 DEF RunClose
  <2> QED  BY <1>1, <1>3, <1>8, <2>3, <2>4, <2>5, RunCloseWords
<1>9. CASE call.event = "attach" /\ RunAttach(call) /\ UNCHANGED unheard
  <2>1. PICK word : word = WordOf(call.talk, call.user)
    OBVIOUS
  <2>2. PICK resp : resp = Respond("attach", {word}, {})
    OBVIOUS
  <2>3. call.user \in Users /\ Taker(call) = call.user
    BY <1>2, <1>9 DEF Call, Taker
  <2>4. /\ word \in Word /\ word.talk = call.talk /\ word.service = Taker(call)
        /\ word.status = talks[call.talk].status
    <3>1. word \in Word
      BY <1>3, <2>1, <2>3, WordsTyped DEF TypeOK
    <3> QED  BY <2>1, <2>3, <3>1 DEF WordOf
  <2>5. resp \in ServiceResponse /\ resp.words = {word}
    <3>1. {word} \in SUBSET Word
      BY <2>4
    <3> QED  BY <2>2, <3>1, RespondTyped DEF Respond
  <2>6. SaysStatus(resp, call.talk)
    BY <2>4, <2>5 DEF SaysStatus
  <2>7. SendOrDismiss(AllFor(call.talk), resp)
    BY <1>9, <2>1, <2>2 DEF RunAttach
  <2>8. call.event \in {"attach", "detach"} /\ Taker(call) \in Users \cup {NoOne}
    BY <1>9, <2>3
  <2> QED  BY <1>1, <1>3, <1>9, <2>4, <2>5, <2>6, <2>7, <2>8, RunHandsOver
<1>10. CASE call.event = "detach" /\ RunDetach(call) /\ UNCHANGED unheard
  <2>1. PICK word : word = call.word
    OBVIOUS
  <2>2. PICK resp : resp = Respond("detach", {word}, {})
    OBVIOUS
  <2>3. Taker(call) = NoOne
    BY <1>10 DEF Taker
  <2>4. word \in Word
    BY <1>2, <1>10, <2>1 DEF Call
  <2>5. word.talk = call.talk /\ word.service = Taker(call)
    BY <1>2, <1>10, <2>1, <2>3 DEF Words, WordsKnown
  <2>6. resp \in ServiceResponse /\ resp.words = {word}
    <3>1. {word} \in SUBSET Word
      BY <2>4
    <3> QED  BY <2>2, <3>1, RespondTyped DEF Respond
  <2>7. SaysStatus(resp, call.talk)
    BY <2>2 DEF SaysStatus, Respond
  <2>8. SendOrDismiss(AllFor(call.talk), resp)
    BY <1>10, <2>1, <2>2 DEF RunDetach
  <2>9. call.event \in {"attach", "detach"} /\ Taker(call) \in Users \cup {NoOne}
    BY <1>10, <2>3
  <2> QED  BY <1>1, <1>3, <1>10, <2>5, <2>6, <2>7, <2>8, <2>9, RunHandsOver
<1>11. CASE unheard' = unheard \cup {call} /\ UNCHANGED <<chServiceSend, serviceMain>>
  <2>1. Informs(Nothing) /\ Utters(Nothing)
    BY <1>2, <1>11, SilenceInforms DEF serviceOut
  <2>2. WordsKnown'
    BY <1>2, <2>1, NothingOK, KnownKept DEF Words
  <2>3. ASSUME NEW t \in DOMAIN talks  PROVE Agrees(t)' /\ Closes(t)'
    <3>1. /\ Agrees(t) /\ Closes(t) /\ SaysOwner(Nothing, t) /\ SaysStatus(Nothing, t)
      BY <2>3, NothingOK DEF Words, Agreement, Closing, Closes, Entrants, Faithful
    <3>2. SameTalk(t) /\ SameScope(t) /\ talks'[t].status = talks[t].status
      BY <1>2, <2>3 DEF SameTalk, SameScope
    <3>3. ClosePending(t) => ClosePending(t)'
      BY <1>2, <1>11
    <3>4. Closes(t)'
      BY <1>2, <2>1, <3>1, <3>2, <3>3, ClosesKept
    <3>5. CASE Reassigns(call, t)
      <4>1. ~Reliable(t)'
        BY <1>11, <3>5 DEF Reliable
      <4> QED  BY <3>4, <4>1 DEF Agrees
    <3>6. CASE ~Reassigns(call, t)
      <4>1. OpsKept(t) /\ CallsKept(t)
        BY <1>2, <3>6
      <4> QED  BY <1>2, <2>1, <3>1, <3>2, <3>4, <4>1, AgreesKept
    <3> QED  BY <3>5, <3>6
  <2>4. Agreement' /\ Closing'
    BY <1>2, <2>3 DEF Agreement, Closing, Closes, Entrants
  <2> QED  BY <2>2, <2>4 DEF Words
<1>12. RunCall(call)
  BY <1>1 DEF RunPostedCall
<1> QED  BY <1>6, <1>7, <1>8, <1>9, <1>10, <1>11, <1>12 DEF RunCall

\* The operations of a case that say nothing of who serves a talk, or say it as the
\* store has it.
LEMMA NextWords ==
  ASSUME TypeOK, TypeOK', Registry, Words,
         NEW op \in {"attachedTalks", "pendingTalks", "finishInstall", "reloadUser",
                     "tellCustomers"},
         NextOperation(op, <<>>),
         UNCHANGED <<talks, service, serviceInbox, servicerRunner, arriving, reopened,
                     misled, early>>,
         unheard \subseteq unheard', Registered' \subseteq Entrants,
         \/ UNCHANGED chServiceSend
         \/ \E S : \E resp \in ServiceResponse : SendTo(S, resp) /\ Faithful(resp)
  PROVE  Words'
<1>1. /\ Head(servicerTodo).op = op
      /\ ToSet(servicerTodo) = {Head(servicerTodo)} \cup ToSet(servicerTodo')
  BY NextTyped
<1>2. Entrants' \subseteq Entrants
  BY NextInstalls DEF Entrants
<1>3. ASSUME NEW resp, Faithful(resp), Informs(resp), Utters(resp)
      PROVE  Words'
  <2>1. /\ \A o \in Changed : o.op # "detached"
        /\ ToSet(servicerTodo') \ ToSet(servicerTodo) = {}
        /\ \A o \in ToSet(servicerTodo) \ ToSet(servicerTodo') : o.op # "tellServicers"
    BY <1>1 DEF Changed
  <2> QED  BY <1>3, <2>1, SameWhenUnchanged, WordsQuiet
<1>4. CASE UNCHANGED chServiceSend
  BY <1>2, <1>3, <1>4, NothingOK, SilenceInforms DEF serviceOut
<1>5. ASSUME NEW S, NEW resp \in ServiceResponse, SendTo(S, resp), Faithful(resp)
      PROVE  Words'
  BY <1>2, <1>3, <1>5, SendInforms
<1> QED  BY <1>4, <1>5

\* The answers, the second half of an installation, the reload after an attach.
LEMMA AnswersWords ==
  ASSUME TypeOK, TypeOK', Pipeline, Registry, Words,
         \/ AnswerAttachedTalks \/ AnswerPendingTalks \/ FinishInstall \/ ReloadUser
         \/ TellCustomers
  PROVE  Words'
<1>1. /\ UNCHANGED <<talks, service, serviceInbox, servicerRunner, arriving, reopened,
                     misled, early>>
      /\ unheard \subseteq unheard'
  BY DEF AnswerAttachedTalks, AnswerPendingTalks, FinishInstall, ReloadUser, TellCustomers,
     serviceVars, serviceOut, outsideVars, lossVars, restOfLoss
<1>2. ASSUME NEW s \in Servicers
      PROVE  /\ \A read \in Readings(s) : /\ AttachedTalks(s, read) \in ServiceResponse
                                         /\ Faithful(AttachedTalks(s, read))
             /\ PendingTalks(s) \in ServiceResponse /\ Faithful(PendingTalks(s))
  BY AnswersTyped, AnswersFaithful DEF TypeOK
<1>3. CASE AnswerAttachedTalks \/ AnswerPendingTalks
  <2>1. PICK op \in {"attachedTalks", "pendingTalks"} : NextOperation(op, <<>>)
    BY <1>3 DEF AnswerAttachedTalks, AnswerPendingTalks
  <2>2. Head(servicerTodo).stream \in Servicers
    BY <2>1, NextTyped, OperationParts
  <2>3. UNCHANGED servicers
    BY <1>3 DEF AnswerAttachedTalks, AnswerPendingTalks
  <2>4. \/ UNCHANGED chServiceSend
        \/ \E S : \E resp \in ServiceResponse : SendTo(S, resp) /\ Faithful(resp)
    BY <1>2, <1>3, <2>2 DEF AnswerAttachedTalks, AnswerPendingTalks
  <2> QED  BY <1>1, <2>1, <2>3, <2>4, NextWords DEF Registered, Entrants
<1>4. CASE FinishInstall
  <2>1. PICK s : s = Head(servicerTodo).stream
    OBVIOUS
  <2>2. NextOperation("finishInstall", <<>>)
    BY <1>4 DEF FinishInstall
  <2>3. s \in Servicers /\ s \in Installing
    BY <2>1, <2>2, NextTyped, OperationParts DEF Installing
  <2>4. \A u \in Users : servicers'[u] \subseteq servicers[u] \cup {s}
    BY <1>4, <2>1 DEF FinishInstall, TypeOK, ServiceMainTypeOK
  <2>5. Registered' \subseteq Entrants
    BY <2>3, <2>4 DEF Registered, Entrants
  <2>6. \/ UNCHANGED chServiceSend
        \/ \E S : \E resp \in ServiceResponse : SendTo(S, resp) /\ Faithful(resp)
    BY <1>2, <1>4, <2>1, <2>3 DEF FinishInstall
  <2> QED  BY <1>1, <2>2, <2>5, <2>6, NextWords
<1>5. CASE ReloadUser
  <2>1. PICK t : t = Head(servicerTodo).talk
    OBVIOUS
  <2>2. NextOperation("reloadUser", <<>>)
    BY <1>5 DEF ReloadUser
  <2>3. t \in DOMAIN talks
    BY <2>1, <2>2, NextTyped DEF Pipeline, TodoStored
  <2>4. Reload(t) \in ServiceResponse /\ Faithful(Reload(t))
    BY <2>3, AnswersTyped, AnswersFaithful DEF TypeOK
  <2>5. UNCHANGED <<chServiceSend, servicers>> \/ \E S : SendOrDismiss(S, Reload(t))
    BY <1>5, <2>1 DEF ReloadUser
  <2>6. Registered' \subseteq Registered
    BY <2>5 DEF SendOrDismiss, Registered
  <2>7. UNCHANGED chServiceSend \/ \E S : SendTo(S, Reload(t))
    BY <2>5 DEF SendOrDismiss
  <2> QED  BY <1>1, <2>2, <2>4, <2>6, <2>7, NextWords DEF Entrants
<1>6. CASE TellCustomers
  <2>1. NextOperation("tellCustomers", <<>>) /\ UNCHANGED <<servicers, chServiceSend>>
    BY <1>6 DEF TellCustomers, serviceOut
  <2> QED  BY <1>1, <2>1, NextWords DEF Registered, Entrants
<1> QED  BY <1>3, <1>4, <1>5, <1>6

\* A kick-out says nothing of any talk.
LEMMA DismissWords ==
  ASSUME TypeOK, TypeOK', Words, NEW s \in Servicers, Dismiss(s)
  PROVE  Words'
<1>1. PICK resp : resp = Respond("kickOut", {}, {})
  OBVIOUS
<1>2. /\ SendTo({s}, resp)
      /\ UNCHANGED <<talks, service, serviceInbox, servicerRunner, servicers, servicerTodo,
                     arriving, reopened, misled, early, unheard>>
  BY <1>1 DEF Dismiss, serviceVars, outsideVars, lossVars, restOfLoss
<1>3. resp \in ServiceResponse /\ Faithful(resp)
  <2>1. resp.words = {}
    BY <1>1 DEF Respond
  <2>2. resp \in ServiceResponse
    BY <1>1, RespondTyped
  <2> QED  BY <2>1, <2>2, NoWordsFaithful
<1>4. Entrants' \subseteq Entrants
  BY <1>2 DEF Entrants, Registered, Installing
<1>5. Informs(resp) /\ Utters(resp)
  BY <1>2, <1>3, <1>4, SendInforms
<1>6. ToSet(servicerTodo') = ToSet(servicerTodo) /\ Changed = {}
  BY <1>2 DEF Changed
<1> QED  BY <1>2, <1>3, <1>5, <1>6, SameWhenUnchanged, WordsQuiet

\* The call that the servicers' observer makes: it becomes the last of the posted ones,
\* or is lost.
LEMMA TellServicersWords ==
  ASSUME TypeOK, TypeOK', Registry, Words, TellServicers
  PROVE  Words'
<1>1. PICK op : op = Head(servicerTodo)
  OBVIOUS
<1>2. PICK call : call = op.call
  OBVIOUS
<1>3. /\ NextOperation("tellServicers", <<>>) /\ Post(call)
      /\ UNCHANGED <<talks, service, servicers, serviceOut, arriving, reopened, misled, early>>
  BY <1>1, <1>2 DEF TellServicers, Post, serviceVars, outsideVars, restOfLoss
<1>4. /\ op.op = "tellServicers" /\ op \in ToSet(servicerTodo) /\ call \in Call
      /\ ToSet(servicerTodo) = {op} \cup ToSet(servicerTodo')
  BY <1>1, <1>2, <1>3, NextTyped, OperationParts
<1>5. /\ ToSet(servicerRunner) \subseteq ToSet(servicerRunner')
      /\ ToSet(servicerRunner') \subseteq ToSet(servicerRunner) \cup {call}
      /\ call \in ToSet(servicerRunner') \cup unheard' /\ unheard \subseteq unheard'
  BY <1>3, <1>4, PostKeeps, PostAdds
<1>6. Entrants' \subseteq Entrants
  BY <1>3, NextInstalls DEF Entrants, Registered
<1>7. Informs(Nothing) /\ Utters(Nothing)
  BY <1>3, <1>6, SilenceInforms
<1>8. WordsKnown'
  <2>1. Announced' \subseteq Announced
    BY <1>2, <1>4, <1>5 DEF Announced
  <2> QED  BY <1>3, <1>7, <2>1, NothingOK, KnownKept DEF Words
<1>9. ASSUME NEW t \in DOMAIN talks
      PROVE  /\ SameTalk(t) /\ SameScope(t) /\ talks'[t].status = talks[t].status
             /\ misled \subseteq misled' /\ reopened \subseteq reopened'
             /\ Agrees(t) /\ Closes(t) /\ SaysOwner(Nothing, t) /\ SaysStatus(Nothing, t)
  BY <1>3, <1>9, NothingOK DEF SameTalk, SameScope, Words, Agreement, Closing, Closes,
     Entrants, Faithful
<1>10. ASSUME NEW t \in DOMAIN talks  PROVE Closes(t)'
  <2>1. ClosePending(t) => ClosePending(t)'
    BY <1>2, <1>3, <1>4, <1>5 DEF ClosePending, CallsPending
  <2> QED  BY <1>7, <1>9, <2>1, ClosesKept
<1>11. ASSUME NEW t \in DOMAIN talks  PROVE Agrees(t)'
  <2>1. CASE ~Reassigns(call, t)
    <3>1. OpsKept(t)
      BY <1>2, <1>4, <2>1 DEF OpsKept, OpReassigns
    <3>2. CallsKept(t)
      BY <1>3, <1>4, <2>1 DEF CallsKept, Post, Offer
    <3> QED  BY <1>5, <1>7, <1>9, <3>1, <3>2, AgreesKept
  <2>2. CASE Reassigns(call, t)
    <3>1. SUFFICES ASSUME Reliable(t)'
                   PROVE  /\ CaseAgrees(t)'
                          /\ NoOp(t)' => LastReassigns(servicerRunner, t, talks[t].service)'
                          /\ ~NoCall(t)'
      BY DEF Agrees
    <3>2. Reliable(t) /\ call \notin unheard'
      BY <1>3, <1>5, <2>2, <3>1 DEF Reliable
    <3>3. PICK user : user = talks[t].service
      OBVIOUS
    <3>4. CaseAgrees(t)
      BY <1>9, <3>2 DEF Agrees
    <3>5. Taker(call) = user
      BY <1>2, <1>4, <2>2, <3>3, <3>4 DEF CaseAgrees, OpReassigns, OpTaker
    <3>6. CaseAgrees(t)'
      BY <1>3, <1>4, <3>4 DEF CaseAgrees
    <3>7. servicerRunner \in Seq(Call) /\ servicerRunner' = Append(servicerRunner, call)
      BY <1>3, <3>2 DEF Post, Offer, TypeOK, ServiceChanTypeOK, Fits
    <3>8. LastReassigns(servicerRunner', t, user) /\ call \in ToSet(servicerRunner')
      BY <1>4, <1>5, <2>2, <3>2, <3>5, <3>7, ReassignsNext
    <3> QED  BY <1>3, <2>2, <3>3, <3>6, <3>8 DEF NoCall
  <2> QED  BY <2>1, <2>2
<1>12. Agreement' /\ Closing'
  BY <1>3, <1>10, <1>11 DEF Agreement, Closing, Closes, Entrants
<1> QED  BY <1>8, <1>12 DEF Words

\* The word of a detach: nobody serves the talk.  Without it the call is lost.
LEMMA ReadDetachedWords ==
  ASSUME TypeOK, TypeOK', Pipeline, Registry, Words, ReadDetached
  PROVE  Words'
<1>1. PICK op : op = Head(servicerTodo)
  OBVIOUS
<1>2. PICK t0 : t0 = op.talk
  OBVIOUS
<1>3. PICK call : call = DetachCall(t0, WordOf(t0, NoOne))
  OBVIOUS
<1>4. PICK tell : tell = Tell("tellServicers", call)
  OBVIOUS
<1>5. /\ UNCHANGED <<talks, service, servicers, serviceOut, servicerRunner, arriving,
                     reopened, misled, early>>
      /\ \/ NextOperation("detached", <<tell>>) /\ UNCHANGED unheard
         \/ NextOperation("detached", <<>>) /\ unheard' = unheard \cup {call}
  BY <1>1, <1>2, <1>3, <1>4 DEF ReadDetached, serviceVars, serviceOut, outsideVars, restOfLoss
<1>6. PICK rest : rest = Tail(servicerTodo)
  OBVIOUS
<1>7. /\ op.op = "detached" /\ op \in ToSet(servicerTodo)
      /\ ToSet(servicerTodo) = {op} \cup ToSet(rest)
      /\ \/ ToSet(servicerTodo') = {tell} \cup ToSet(rest) /\ UNCHANGED unheard
         \/ ToSet(servicerTodo') = ToSet(rest) /\ unheard' = unheard \cup {call}
  <2>1. servicerTodo \in Seq(Operation) /\ servicerTodo # <<>> /\ op.op = "detached"
    BY <1>1, <1>5 DEF NextOperation, TypeOK, ServiceMainTypeOK
  <2>2. /\ rest \in Seq(Operation) /\ op \in ToSet(servicerTodo)
        /\ ToSet(servicerTodo) = {op} \cup ToSet(rest)
    BY <1>1, <1>6, <2>1, HeadTailToSet, HeadOrTail
  <2>3. ToSet(<<tell>> \o rest) = {tell} \cup ToSet(rest) /\ <<>> \o rest = rest
    BY <2>2, FirstThenRest
  <2> QED  BY <1>5, <1>6, <2>1, <2>2, <2>3 DEF NextOperation
<1>8. t0 \in DOMAIN talks
  BY <1>2, <1>7 DEF Pipeline, TodoStored
<1>9. /\ tell.op = "tellServicers" /\ tell.call = call
      /\ call.event = "detach" /\ call.talk = t0 /\ DetachKnown(call) /\ Taker(call) = NoOne
  BY <1>3, <1>4 DEF Tell, DetachCall, DetachKnown, WordOf, Taker
<1>10. Entrants' \subseteq Entrants
  BY <1>5, ReadDetachedInstalls DEF Entrants, Registered
<1>11. Informs(Nothing) /\ Utters(Nothing)
  BY <1>5, <1>10, SilenceInforms
<1>12. WordsKnown'
  <2>1. \A c \in Announced' : c \in Announced \/ DetachKnown(c)
    BY <1>5, <1>7, <1>9 DEF Announced
  <2> QED  BY <1>5, <1>11, <2>1, NothingOK, KnownKept DEF Words
<1>13. ASSUME NEW t \in DOMAIN talks
      PROVE  /\ SameTalk(t) /\ SameScope(t) /\ talks'[t].status = talks[t].status
             /\ misled \subseteq misled' /\ reopened \subseteq reopened'
             /\ unheard \subseteq unheard'
             /\ Agrees(t) /\ Closes(t) /\ SaysOwner(Nothing, t) /\ SaysStatus(Nothing, t)
  BY <1>5, <1>13, NothingOK DEF SameTalk, SameScope, Words, Agreement, Closing, Closes,
     Entrants, Faithful
<1>14. ASSUME NEW t \in DOMAIN talks  PROVE Closes(t)'
  <2>1. ClosePending(t) => ClosePending(t)'
    BY <1>5, <1>7, <1>9 DEF ClosePending, CallsPending
  <2> QED  BY <1>11, <1>13, <2>1, ClosesKept
<1>15. ASSUME NEW t \in DOMAIN talks  PROVE Agrees(t)'
  <2>1. CASE t # t0
    <3>1. ~OpReassigns(op, t) /\ ~OpReassigns(tell, t)
      BY <1>2, <1>7, <1>9, <2>1 DEF OpReassigns, Reassigns
    <3>2. OpsKept(t)
      BY <1>7, <3>1 DEF OpsKept
    <3>3. CallsKept(t)
      BY <1>5 DEF CallsKept
    <3> QED  BY <1>11, <1>13, <3>2, <3>3, AgreesKept
  <2>2. CASE t = t0
    <3>1. SUFFICES ASSUME Reliable(t)'
                   PROVE  CaseAgrees(t)' /\ ~NoOp(t)'
      BY DEF Agrees
    <3>2. Reliable(t) /\ ToSet(servicerTodo') = {tell} \cup ToSet(rest)
      BY <1>5, <1>7, <1>9, <2>2, <3>1 DEF Reliable, Reassigns
    <3>3. CaseAgrees(t)
      BY <1>13, <3>2 DEF Agrees
    <3>4. talks[t].service = NoOne
      BY <1>2, <1>7, <2>2, <3>3 DEF CaseAgrees, OpReassigns, OpTaker
    <3>5. OpReassigns(tell, t) /\ OpTaker(tell) = NoOne
      BY <1>9, <2>2 DEF OpReassigns, OpTaker, Reassigns
    <3> QED  BY <1>5, <1>7, <3>2, <3>3, <3>4, <3>5 DEF CaseAgrees, NoOp
  <2> QED  BY <2>1, <2>2
<1>16. Agreement' /\ Closing'
  BY <1>5, <1>14, <1>15 DEF Agreement, Closing, Closes, Entrants
<1> QED  BY <1>12, <1>16 DEF Words

\* The calls of the customers' half say nothing of who serves a talk.
LEMMA CallWords ==
  ASSUME TypeOK, TypeOK', Words, CallStep
  PROVE  Words'
<1>1. PICK call \in arriving : Arrive(call) \/ Lose(call)
  BY DEF CallStep
<1>2. /\ UNCHANGED <<talks, service, servicers, servicerTodo, serviceOut, reopened, misled,
                     early>>
      /\ arriving' = arriving \ {call} /\ unheard \subseteq unheard'
  BY <1>1 DEF Arrive, Lose, Post, serviceVars, serviceMain, restOfLoss
<1>3. call \in Call /\ call.event \notin {"attach", "detach"}
  BY DEF TypeOK, OutsideTypeOK, Words, WordsKnown
<1>4. /\ ToSet(servicerRunner) \subseteq ToSet(servicerRunner')
      /\ ToSet(servicerRunner') \subseteq ToSet(servicerRunner) \cup {call}
      /\ call \in ToSet(servicerRunner') \cup unheard'
      /\ UNCHANGED servicerRunner \/ servicerRunner' = Append(servicerRunner, call)
  <2>1. CASE Arrive(call)
    <3>1. Post(call)
      BY <2>1 DEF Arrive
    <3> QED  BY <1>3, <3>1, PostKeeps, PostAdds DEF Post, Offer
  <2>2. CASE Lose(call)
    BY <2>2 DEF Lose
  <2> QED  BY <1>1, <2>1, <2>2
<1>5. ToSet(servicerTodo') = ToSet(servicerTodo) /\ Installing' = Installing
  BY <1>2 DEF Installing
<1>6. Entrants' \subseteq Entrants
  BY <1>2, <1>5 DEF Entrants, Registered
<1>7. Informs(Nothing) /\ Utters(Nothing)
  BY <1>2, <1>6, SilenceInforms
<1>8. ASSUME NEW t
      PROVE  OpsKept(t) /\ CallsKept(t) /\ (ClosePending(t) => ClosePending(t)')
  <2>1. OpsKept(t)
    BY <1>5 DEF OpsKept
  <2>2. CallsKept(t)
    BY <1>3, <1>4 DEF CallsKept, Reassigns
  <2>3. ClosePending(t) => ClosePending(t)'
    BY <1>2, <1>4, <1>5 DEF ClosePending, CallsPending
  <2> QED  BY <2>1, <2>2, <2>3
<1>9. \A c \in Announced' : c \in Announced \cup arriving
  BY <1>4, <1>5 DEF Announced
<1>10. SameStore
  BY <1>2, SameWhenUnchanged
<1>11. \A c \in arriving' : c \in arriving
  BY <1>2
<1>12. misled \subseteq misled' /\ unheard \subseteq unheard' /\ reopened \subseteq reopened'
  BY <1>2
<1> QED  BY <1>7, <1>8, <1>9, <1>10, <1>11, <1>12, NothingOK, WordsFrame

\* What a customer does to the store.  Of a talk that is new nothing has been said; the
\* notice of a close is on its way; of a talk that is opened again none is promised.
LEMMA CustomerWords ==
  ASSUME TypeOK, TypeOK', Pipeline, Words, CustomerStep
  PROVE  Words'
<1>1. /\ UNCHANGED <<service, servicers, servicerTodo, servicerRunner, serviceOut, misled,
                     early, unheard>>
      /\ arriving \subseteq arriving' /\ reopened \subseteq reopened'
      /\ \A call \in arriving' : call \in arriving \/ call.event \notin {"attach", "detach"}
  <2>1. /\ \A t, m : MessageCall(t, m).event = "message"
        /\ \A event, t : TalkCall(event, t).event = event
    BY DEF MessageCall, TalkCall
  <2>2. \/ UNCHANGED arriving
        \/ \E t, m : arriving' = arriving \cup {MessageCall(t, m)}
        \/ \E t : \E event \in {"create", "close"} :
             arriving' = arriving \cup {TalkCall(event, t)}
    BY DEF CustomerStep, CustomerCreates, CustomerWrites, CustomerCloses, CustomerReopens
  <2>3. /\ arriving \subseteq arriving'
        /\ \A call \in arriving' : call \in arriving \/ call.event \notin {"attach", "detach"}
    BY <2>1, <2>2
  <2>4. reopened \subseteq reopened'
    BY DEF CustomerStep, CustomerCreates, CustomerWrites, CustomerCloses, CustomerReopens
  <2> QED  BY <2>3, <2>4 DEF CustomerStep, serviceVars, serviceMain, lossVars, restOfLoss
<1>2. /\ ToSet(servicerTodo') = ToSet(servicerTodo) /\ Announced' = Announced
      /\ Installing' = Installing /\ Changed = {}
  BY <1>1 DEF Installing, Announced, Changed
<1>3. Entrants' = Entrants
  BY <1>1, <1>2 DEF Entrants, Registered
<1>4. Informs(Nothing) /\ Utters(Nothing)
  BY <1>1, <1>3, SilenceInforms
<1>5. ASSUME DOMAIN talks \subseteq DOMAIN talks'
      PROVE  WordsKnown'
  BY <1>1, <1>2, <1>4, <1>5, NothingOK, KnownKept DEF Words
<1>6. ASSUME NEW t \in DOMAIN talks, SameTalk(t)
      PROVE  /\ Agrees(t)'
             /\ talks'[t].status = talks[t].status => Closes(t)'
  <2>1. OpsKept(t) /\ CallsKept(t) /\ (ClosePending(t) => ClosePending(t)')
    BY <1>1, <1>2 DEF OpsKept, CallsKept, ClosePending, CallsPending
  <2>2. Agrees(t) /\ Closes(t) /\ SaysOwner(Nothing, t) /\ SaysStatus(Nothing, t)
    BY <1>6, NothingOK DEF Words, Agreement, Closing, Closes, Entrants, Faithful
  <2>3. /\ misled \subseteq misled' /\ unheard \subseteq unheard'
        /\ reopened \subseteq reopened' /\ SameScope(t)
    BY <1>1, <1>6 DEF SameTalk
  <2>4. Agrees(t)'
    BY <1>4, <1>6, <2>1, <2>2, <2>3, AgreesKept
  <2>5. talks'[t].status = talks[t].status => Closes(t)'
    BY <1>4, <1>6, <2>1, <2>2, <2>3, ClosesKept
  <2> QED  BY <2>4, <2>5
<1>7. ASSUME DOMAIN talks \subseteq DOMAIN talks',
             \A t \in DOMAIN talks' : Agrees(t)' /\ Closes(t)'
      PROVE  Words'
  BY <1>5, <1>7 DEF Words, Agreement, Closing, Closes, Entrants
<1>8. ASSUME NEW t0 \in Talks, NEW act \in Acts, NEW biz \in Bizs, CreateTalk(t0, act, biz)
      PROVE  Words'
  <2>1. /\ t0 \notin DOMAIN talks /\ DOMAIN talks' = DOMAIN talks \cup {t0}
        /\ talks'[t0].status = "opened"
        /\ \A t \in DOMAIN talks : talks'[t] = talks[t]
    BY <1>8 DEF CreateTalk
  <2>2. Closes(t0)'
    BY <2>1 DEF Closes, StreamCloses
  <2>3. Agrees(t0)'
    <3>1. \A op \in ToSet(servicerTodo') : ~OpReassigns(op, t0)
      BY <1>2, <2>1 DEF Pipeline, TodoStored, CallStored, OpReassigns, Reassigns
    <3>2. \A call \in ToSet(servicerRunner) : ~Reassigns(call, t0)
      BY <2>1 DEF Pipeline, CallsStored, CallStored, Reassigns
    <3>3. \A user : LastReassigns(servicerRunner', t0, user)
      <4>1. \A i \in DOMAIN servicerRunner' : ~Reassigns(servicerRunner'[i], t0)
        BY <1>1, <3>2 DEF ToSet
      <4> QED  BY <4>1 DEF LastReassigns
    <3>4. ASSUME NEW s \in Entrants'
          PROVE  \A user : LastAssigns(ToldServicer(s)', t0, user)
      <4>1. s \in Servicers
        BY <1>3, <3>4, EntrantsTyped DEF Entrants
      <4>2. \A r \in ToSet(ToldServicer(s)) : ~Assigns(r, t0)
        BY <2>1, <4>1 DEF Words, WordsKnown, Assigns
      <4>3. ToldServicer(s)' = ToldServicer(s)
        BY <1>1 DEF ToldServicer, serviceOut
      <4> QED  BY <4>2, <4>3, NothingSaid
    <3> QED  BY <3>1, <3>3, <3>4 DEF Agrees, CaseAgrees, StreamAgrees, Entrants
  <2>4. ASSUME NEW t \in DOMAIN talks  PROVE Agrees(t)' /\ Closes(t)'
    <3>1. SameTalk(t) /\ talks'[t].status = talks[t].status
      BY <2>1, <2>4 DEF SameTalk, SameScope
    <3> QED  BY <1>6, <3>1
  <2> QED  BY <1>7, <2>1, <2>2, <2>3, <2>4
<1>9. ASSUME NEW t0, NEW m, AddTalkMessage(t0, m)
      PROVE  Words'
  <2>1. SameStore
    BY <1>9, AddSameStore
  <2>2. ASSUME NEW t \in DOMAIN talks  PROVE Agrees(t)' /\ Closes(t)'
    BY <1>6, <2>1 DEF SameStore
  <2> QED  BY <1>7, <2>1, <2>2 DEF SameStore
<1>10. ASSUME NEW t0, NEW to, t0 \in DOMAIN talks,
              talks' = [talks EXCEPT ![t0].status = to], Closes(t0)'
       PROVE  Words'
  <2>1. talks[t0] \in TalkInfo
    BY <1>10 DEF TypeOK, StoreTypeOK
  <2>2. PICK new : new = [talks[t0] EXCEPT !.status = to]
    OBVIOUS
  <2>3. new.act = talks[t0].act /\ new.biz = talks[t0].biz /\ new.service = talks[t0].service
    BY <2>1, <2>2 DEF TalkInfo
  <2>4. talks' = [talks EXCEPT ![t0] = new]
    BY <1>10, <2>2
  <2>5. /\ DOMAIN talks' = DOMAIN talks
        /\ \A t \in DOMAIN talks : talks'[t] = IF t = t0 THEN new ELSE talks[t]
    BY <1>10, <2>4
  <2>6. ASSUME NEW t \in DOMAIN talks  PROVE Agrees(t)' /\ Closes(t)'
    <3>1. SameTalk(t) /\ (t # t0 => talks'[t].status = talks[t].status)
      BY <2>3, <2>5, <2>6 DEF SameTalk, SameScope
    <3> QED  BY <1>6, <1>10, <3>1
  <2> QED  BY <1>7, <2>5, <2>6
<1>11. ASSUME NEW t0, CustomerCloses(t0)
       PROVE  Words'
  <2>1. ClosePending(t0)'
    BY <1>11 DEF CustomerCloses, ClosePending, CallsPending
  <2>2. Closes(t0)'
    BY <2>1 DEF Closes, StreamCloses
  <2> QED  BY <1>10, <1>11, <2>2 DEF CustomerCloses, CloseTalk, InScope
<1>12. ASSUME NEW t0, CustomerReopens(t0)
       PROVE  Words'
  <2>1. t0 \in reopened'
    BY <1>12 DEF CustomerReopens
  <2>2. Closes(t0)'
    BY <2>1 DEF Closes, StreamCloses
  <2> QED  BY <1>10, <1>12, <2>2 DEF CustomerReopens, OpenTalk, InScope
<1> QED  BY <1>8, <1>9, <1>11, <1>12 DEF CustomerStep, CustomerCreates, CustomerWrites

\* Every step; a step that stutters included.
LEMMA WordsStep ==
  ASSUME TypeOK, TypeOK', Pipeline, Registry, Words, [Next]_serviceSideVars
  PROVE  Words'
<1>1. CASE UNCHANGED serviceSideVars
  <2>1. /\ UNCHANGED <<talks, service, servicers, servicerTodo, servicerRunner, serviceOut,
                       arriving, reopened, misled, early, unheard>>
    BY <1>1 DEF serviceSideVars, servicerVars, serviceVars, serviceMain, outsideVars,
       lossVars, restOfLoss
  <2>2. /\ ToSet(servicerTodo') = ToSet(servicerTodo) /\ Changed = {}
        /\ Entrants' = Entrants
    BY <2>1 DEF Changed, Entrants, Registered, Installing
  <2>3. Informs(Nothing) /\ Utters(Nothing)
    BY <2>1, <2>2, SilenceInforms
  <2> QED  BY <2>1, <2>2, <2>3, SameWhenUnchanged, NothingOK, WordsQuiet
<1>2. ASSUME NEW s \in Servicers, ServiceStep(s) \/ ServiceReceiverStep(s)
      PROVE  Words'
  BY <1>2, ServiceStepWords, ServiceReceiverWords
<1>3. CASE ServicerMainStep
  <2>1. CASE \/ HandleInstallServicer \/ HandleUninstallServicer \/ HandleReload
             \/ HandleServiceMessage
    BY <2>1, HandleInstallWords, HandleOthersWords
  <2>2. CASE HandleAttach \/ HandleDetach
    BY <2>2, HandleAttachWords, HandleDetachWords
  <2>3. CASE RunPostedCall
    BY <2>3, RunWords
  <2>4. CASE \/ AnswerAttachedTalks \/ AnswerPendingTalks \/ FinishInstall \/ ReloadUser
             \/ TellCustomers
    BY <2>4, AnswersWords
  <2>5. CASE ReadDetached \/ TellServicers
    BY <2>5, ReadDetachedWords, TellServicersWords
  <2>6. ASSUME NEW s \in Servicers, Dismiss(s)
        PROVE  Words'
    BY <2>6, DismissWords
  <2> QED  BY <1>3, <2>1, <2>2, <2>3, <2>4, <2>5, <2>6 DEF ServicerMainStep, ServicerMainAlone
<1>4. CASE CustomerStep
  BY <1>4, CustomerWords
<1>5. CASE CallStep
  BY <1>5, CallWords
<1> QED  BY <1>1, <1>2, <1>3, <1>4, <1>5 DEF Next

\* At first nothing is said of any talk, and there is none.
LEMMA WordsInit == Init => Words
<1>1. SUFFICES ASSUME Init
               PROVE  Words
  OBVIOUS
<1>2. DOMAIN talks = {}
  BY <1>1 DEF Init, StoreInit
<1>3. ToSet(<<>>) = {}
  BY DEF ToSet
<1>4. \A s \in Servicers : ToldServicer(s) = <<>>
  BY <1>1 DEF Init, ServicerInit, ToldServicer
<1>5. servicerRunner = <<>> /\ servicerTodo = <<>> /\ arriving = {}
  BY <1>1 DEF Init, ServicerInit
<1>6. WordsKnown
  BY <1>3, <1>4, <1>5 DEF WordsKnown
<1>7. Agreement /\ Closing
  BY <1>2 DEF Agreement, Closing
<1> QED  BY <1>6, <1>7 DEF Words

\* In every state the last that is said of who serves a talk, in the case that runs, in
\* the calls posted or in what each registered stream was told, is what the store says;
\* and who was told of a close was told it last, or will be.
THEOREM WordsInvariant == Spec => []Words
<1>1. Init => Words
  BY WordsInit
<1>2. TypeOK /\ TypeOK' /\ Pipeline /\ Registry /\ Words /\ [Next]_serviceSideVars => Words'
  BY WordsStep
<1> QED  BY <1>1, <1>2, Typed, PipelineInvariant, RegistryInvariant, PTL DEF Spec

\* However the attaches and detaches of several servicers race, and whatever the channels
\* lose and the store refuses: once the notices about a talk are out, what a servicer was
\* told last about who serves it is what the store says - unless the store failed to note
\* a change that was announced, or a notice was lost.
THEOREM AssignmentToldInvariant == Spec => []AssignmentTold
<1>1. ASSUME Words  PROVE AssignmentTold
  <2>1. SUFFICES ASSUME NEW s \in Registered, NEW t \in DOMAIN talks,
                        Informed(s, t), Settled(t), t \notin misled
                 PROVE  LastAssigns(ToldServicer(s), t, talks[t].service)
    BY DEF AssignmentTold
  <2>2. Reliable(t) /\ NoCall(t)
    BY <2>1 DEF Settled, Reliable, NoCall, Reassigns, CallsPending
  <2>3. NoOp(t)
    BY <2>1 DEF Settled, NoOp, OpReassigns, Reassigns, CallsPending
  <2>4. Agrees(t)
    BY <1>1 DEF Words, Agreement
  <2> QED  BY <2>1, <2>2, <2>3, <2>4 DEF Agrees, StreamAgrees
<1> QED  BY <1>1, WordsInvariant, PTL

\* Every registered servicer who was told of a talk that is closed was told last that it
\* is, unless the notice is on its way or was lost, or a detach, whose word was read
\* before the close, came after it.
THEOREM CloseToldInvariant == Spec => []CloseTold
<1>1. Words => CloseTold
  BY DEF Words, Closing, StreamCloses, CloseTold, ClosePending
<1> QED  BY <1>1, WordsInvariant, PTL

-----------------------------------------------------------------------------
(* What the customers' half relies on. *)

\* A step of the servicers' half that tells the customers' observer nothing.
ServicersStep ==
  (\E s \in Servicers : ServiceStep(s) \/ ServiceReceiverStep(s)) \/ ServicerMainAlone

\* What a step of the servicers' half does to the store: a receiver adds a message with
\* its next number, and has it in hand, or no message is stored.
LEMMA ServicersStore ==
  ASSUME TypeOK, ServicersStep \/ TellCustomers
  PROVE  /\ DOMAIN talks' = DOMAIN talks
         /\ \A s \in Servicers : serviceRequests[s] <= serviceRequests'[s]
         /\ \/ \A u : Stored(u)' = Stored(u)
            \/ \E s \in Servicers, t \in DOMAIN talks :
                 /\ serviceRequests'[s] = serviceRequests[s] + 1
                 /\ serviceReceiver'[s] = "persisted" /\ serviceTalk'[s] = t
                 /\ Stored(t)' = Stored(t) \cup {<<s, serviceRequests'[s]>>}
                 /\ \A u : u # t => Stored(u)' = Stored(u)
<1>1. \A s \in Servicers : serviceRequests[s] \in Nat
  BY DEF TypeOK, ServiceTypeOK
<1>2. CASE \E s \in Servicers, t \in Talks : ReceiveServiceMessage(s, t)
  <2>1. PICK s \in Servicers, t \in Talks : ReceiveServiceMessage(s, t)
    BY <1>2
  <2>2. /\ serviceRequests' = [serviceRequests EXCEPT ![s] = @ + 1]
        /\ AddTalkMessage(t, <<s, serviceRequests[s] + 1>>)
        /\ serviceReceiver'[s] = "persisted" /\ serviceTalk'[s] = t
    BY <2>1 DEF ReceiveServiceMessage, CountServiceRequest, TypeOK, ServiceTypeOK
  <2>3. /\ serviceRequests'[s] = serviceRequests[s] + 1
        /\ \A r \in Servicers : serviceRequests[r] <= serviceRequests'[r]
    BY <1>1, <2>2 DEF TypeOK, ServiceTypeOK
  <2>4. /\ t \in DOMAIN talks /\ DOMAIN talks' = DOMAIN talks
        /\ Stored(t)' = Stored(t) \cup {<<s, serviceRequests[s] + 1>>}
        /\ \A u : u # t => Stored(u)' = Stored(u)
    BY <2>2, AddsOne DEF TypeOK
  <2> QED  BY <2>2, <2>3, <2>4
<1>3. CASE ~ \E s \in Servicers, t \in Talks : ReceiveServiceMessage(s, t)
  <2>1. CASE \E s \in Servicers : ServiceStep(s) \/ ServiceReceiverStep(s)
    <3>1. PICK s \in Servicers : ServiceStep(s) \/ ServiceReceiverStep(s)
      BY <2>1
    <3>2. UNCHANGED talks
      BY <1>3, <3>1 DEF ServiceStep, InstallServicer, ServiceSend, ServiceTerminal,
         UninstallServicer, ServiceReceiverStep, ReceiveQuery, ReceiveForTalk,
         ReceiveServiceMessageFails, ServicerMessageIncoming, ServiceReceiveFails
    <3>3. \/ UNCHANGED serviceRequests
          \/ serviceRequests' = [serviceRequests EXCEPT ![s] = @ + 1]
      BY <1>3, <3>1 DEF ServiceStep, InstallServicer, ServiceSend, ServiceTerminal,
         UninstallServicer, ServiceReceiverStep, ReceiveQuery, ReceiveForTalk,
         ReceiveServiceMessageFails, ServicerMessageIncoming, ServiceReceiveFails,
         CountServiceRequest
    <3>4. \A r \in Servicers : serviceRequests[r] <= serviceRequests'[r]
      BY <1>1, <3>3 DEF TypeOK, ServiceTypeOK
    <3> QED  BY <3>2, <3>4 DEF Stored
  <2>2. CASE ServicerMainAlone \/ TellCustomers
    <3>1. UNCHANGED serviceVars
      BY <2>2 DEF ServicerMainAlone, HandleInstallServicer, HandleUninstallServicer,
         HandleAttach, HandleDetach, HandleReload, HandleServiceMessage, RunPostedCall,
         AnswerAttachedTalks, AnswerPendingTalks, FinishInstall, ReloadUser, ReadDetached,
         TellServicers, TellCustomers, Dismiss
    <3>2. \/ \E acts, bizs, t, user : UpdateTalkServiceID(acts, bizs, t, user)
          \/ UNCHANGED talks
      BY <2>2 DEF ServicerMainAlone, HandleInstallServicer, HandleUninstallServicer,
         HandleAttach, HandleDetach, HandleReload, HandleServiceMessage, RunPostedCall,
         AnswerAttachedTalks, AnswerPendingTalks, FinishInstall, ReloadUser, ReadDetached,
         TellServicers, TellCustomers, Dismiss
    <3>3. \A r \in Servicers : serviceRequests[r] <= serviceRequests'[r]
      BY <1>1, <3>1 DEF serviceVars
    <3>4. CASE UNCHANGED talks
      BY <3>3, <3>4 DEF Stored
    <3>5. CASE \E acts, bizs, t, user : UpdateTalkServiceID(acts, bizs, t, user)
      <4>1. \A u : Stored(u)' = Stored(u)
        BY <3>5, NothingStored DEF TypeOK
      <4>2. DOMAIN talks' = DOMAIN talks
        BY <3>5 DEF UpdateTalkServiceID
      <4> QED  BY <3>3, <4>1, <4>2
    <3> QED  BY <3>2, <3>4, <3>5
  <2> QED  BY <2>1, <2>2 DEF ServicersStep
<1> QED  BY <1>2, <1>3

\* What is on its way to the customers stays on its way if the receivers, the channel
\* and the operations are as they were.
LEMMA ElsewhereKept ==
  ASSUME UNCHANGED <<serviceReceiver, serviceRequests, serviceTalk>>,
         ToSet(chServicerMessage) \subseteq ToSet(chServicerMessage'),
         \A op \in ToSet(servicerTodo) :
           op.op = "tellCustomers" => op \in ToSet(servicerTodo'),
         unheard \subseteq unheard'
  PROVE  \A t : Elsewhere(t) \subseteq Elsewhere(t)'
<1> SUFFICES ASSUME NEW t  PROVE Elsewhere(t) \subseteq Elsewhere(t)'
  OBVIOUS
<1>1. InHand(t)' = InHand(t) /\ Queued(t) \subseteq Queued(t)'
  BY ComingParts
<1>2. Withheld \subseteq Withheld'
  BY DEF Withheld
<1> QED  BY <1>1, <1>2 DEF Elsewhere, ForCustomers

\* A receiver: what it stores it has in hand; and what it had it queued, or withholds.
LEMMA ServiceReceiverElsewhere ==
  ASSUME TypeOK, NEW z \in Servicers, ServiceReceiverStep(z)
  PROVE  /\ \A t : Elsewhere(t) \subseteq Elsewhere(t)'
         /\ OnlyRelays => OnlyRelays'
<1>1. /\ unheard \subseteq unheard'
      /\ \/ UNCHANGED servicerTodo
         \/ servicerTodo = <<>> /\ \E kind : /\ kind \in {"attachedTalks", "pendingTalks"}
                                             /\ servicerTodo' = <<Do(kind, z)>>
  BY DEF ServiceReceiverStep, ReceiveQuery, ReceiveForTalk, ReceiveServiceMessage,
     ReceiveServiceMessageFails, ServicerMessageIncoming, ServiceReceiveFails, lossVars,
     serviceMain, Parked, AtSelect
<1>2. /\ \A op \in ToSet(servicerTodo) : op \in ToSet(servicerTodo')
      /\ \A op \in ToSet(servicerTodo') :
           op \in ToSet(servicerTodo) \/ op.op # "tellCustomers"
  BY <1>1, OneToSet, SelectCalls DEF Do
<1>3. (OnlyRelays => OnlyRelays') /\ Withheld \subseteq Withheld'
  BY <1>1, <1>2 DEF OnlyRelays, Withheld
<1>4. \A r \in Servicers \ {z} :
        UNCHANGED <<serviceReceiver[r], serviceRequests[r], serviceTalk[r]>>
  BY DEF ServiceReceiverStep, ReceiveQuery, ReceiveForTalk, ReceiveServiceMessage,
     ReceiveServiceMessageFails, ServicerMessageIncoming, ServiceReceiveFails,
     CountServiceRequest, TypeOK, ServiceTypeOK
<1>5. CASE ServicerMessageIncoming(z)
  <2>1. PICK m : m = <<z, serviceRequests[z]>>
    OBVIOUS
  <2>2. PICK u : u = serviceTalk[z]
    OBVIOUS
  <2>3. /\ chServicerMessage' = Offer(chServicerMessage, MaxServiceMessages, <<m, u>>)
        /\ unheard' = IF HasRoom(chServicerMessage, MaxServiceMessages) THEN unheard
                      ELSE unheard \cup {MessageCall(u, m)}
    BY <1>5, <2>1, <2>2 DEF ServicerMessageIncoming
  <2>4. \A t : InHand(t) \subseteq InHand(t)' \cup {m} /\ (t # u => InHand(t) \subseteq InHand(t)')
    BY <1>4, <2>1, <2>2 DEF InHand
  <2>5. chServicerMessage \in Seq((Servicers \X Nat) \X Talks)
    BY DEF TypeOK, ServiceChanTypeOK, Fits
  <2>6. ToSet(chServicerMessage) \subseteq ToSet(chServicerMessage')
    BY <2>3, <2>5, AppendToSet DEF Offer
  <2>7. m \in Queued(u)' \cup Withheld'
    <3>1. CASE HasRoom(chServicerMessage, MaxServiceMessages)
      <4>1. <<m, u>> \in ToSet(chServicerMessage')
        BY <2>3, <2>5, <3>1, AppendToSet DEF Offer
      <4> QED  BY <4>1 DEF Queued
    <3>2. CASE ~HasRoom(chServicerMessage, MaxServiceMessages)
      <4>1. /\ MessageCall(u, m) \in unheard' /\ MessageCall(u, m).event = "message"
            /\ MessageCall(u, m).message = m
        BY <2>3, <3>2 DEF MessageCall
      <4> QED  BY <4>1 DEF Withheld
    <3> QED  BY <3>1, <3>2
  <2>8. \A t : Queued(t) \subseteq Queued(t)'
    BY <2>6, ComingParts
  <2> QED  BY <1>2, <1>3, <2>4, <2>7, <2>8 DEF Elsewhere, ForCustomers
<1>6. CASE ~ServicerMessageIncoming(z)
  <2>1. serviceReceiver[z] = "receiving" /\ UNCHANGED chServicerMessage
    BY <1>6 DEF ServiceReceiverStep, ReceiveQuery, ReceiveForTalk, ReceiveServiceMessage,
       ReceiveServiceMessageFails, ServiceReceiveFails, CountServiceRequest, serviceChans
  <2>2. \A t : InHand(t) \subseteq InHand(t)' /\ Queued(t)' = Queued(t)
    BY <1>4, <2>1 DEF InHand, Queued
  <2> QED  BY <1>2, <1>3, <2>2 DEF Elsewhere, ForCustomers
<1> QED  BY <1>5, <1>6

\* The main routine: a message leaves the channel for a call to the customers, or is
\* withheld.
LEMMA ServicerMainElsewhere ==
  ASSUME TypeOK, ServicerMainAlone
  PROVE  /\ \A t : Elsewhere(t) \subseteq Elsewhere(t)'
         /\ OnlyRelays => OnlyRelays'
<1>1. /\ unheard \subseteq unheard'
      /\ UNCHANGED <<serviceReceiver, serviceRequests, serviceTalk>>
  BY DEF ServicerMainAlone, HandleInstallServicer, HandleUninstallServicer,
     HandleAttach, HandleDetach, HandleReload, HandleServiceMessage, RunPostedCall,
     RunCall, RunMessage, RunCreate, RunClose, RunAttach, RunDetach, Post,
     AnswerAttachedTalks, AnswerPendingTalks, FinishInstall, ReloadUser, ReadDetached,
     TellServicers, Dismiss, serviceVars, lossVars
<1>2. CASE HandleServiceMessage
  <2>1. PICK q : q = Head(chServicerMessage)
    OBVIOUS
  <2>2. PICK call : call = MessageCall(q[2], q[1])
    OBVIOUS
  <2>3. /\ servicerTodo = <<>> /\ chServicerMessage # <<>>
        /\ chServicerMessage' = Tail(chServicerMessage)
        /\ \/ servicerTodo' = <<Tell("tellCustomers", call), Tell("tellServicers", call)>>
           \/ unheard' = unheard \cup {call} /\ UNCHANGED servicerTodo
    BY <1>2, <2>1, <2>2 DEF HandleServiceMessage, AtSelect, serviceMain
  <2>4. call.event = "message" /\ call.message = q[1]
    BY <2>2 DEF MessageCall
  <2>5. ToSet(chServicerMessage) = {q} \cup ToSet(chServicerMessage')
    BY <2>1, <2>3, Capacities, ReceiveFits DEF TypeOK, ServiceChanTypeOK
  <2>6. \A t : InHand(t)' = InHand(t) /\ Withheld \subseteq Withheld'
    BY <1>1 DEF InHand, Withheld
  <2>7. \A t : Queued(t) \subseteq Queued(t)' \cup {q[1]}
    BY <2>5 DEF Queued
  <2>8. ToSet(servicerTodo) = {}
    BY <2>3, SelectCalls
  <2>9. CASE servicerTodo' = <<Tell("tellCustomers", call), Tell("tellServicers", call)>>
    <3>1. ToSet(servicerTodo') = {Tell("tellCustomers", call), Tell("tellServicers", call)}
      BY <2>9 DEF ToSet
    <3>2. /\ Tell("tellServicers", call).op = "tellServicers"
          /\ Tell("tellCustomers", call).op = "tellCustomers"
          /\ Tell("tellCustomers", call).call = call
      BY DEF Tell
    <3>3. OnlyRelays' /\ \A t : q[1] \in ForCustomers(t)'
      BY <2>4, <3>1, <3>2 DEF OnlyRelays, ForCustomers
    <3> QED  BY <2>6, <2>7, <2>8, <3>3 DEF Elsewhere, ForCustomers
  <2>10. CASE unheard' = unheard \cup {call} /\ UNCHANGED servicerTodo
    <3>1. q[1] \in Withheld'
      BY <2>4, <2>10 DEF Withheld
    <3> QED  BY <2>6, <2>7, <2>10, <3>1 DEF Elsewhere, ForCustomers, OnlyRelays
  <2> QED  BY <2>3, <2>9, <2>10
<1>3. ASSUME UNCHANGED chServicerMessage,
             \A op \in ToSet(servicerTodo) :
               op.op = "tellCustomers" => op \in ToSet(servicerTodo'),
             \A op \in ToSet(servicerTodo') :
               op \in ToSet(servicerTodo) \/ op.op # "tellCustomers"
      PROVE  /\ \A t : Elsewhere(t) \subseteq Elsewhere(t)'
             /\ OnlyRelays => OnlyRelays'
  BY <1>1, <1>3, ElsewhereKept DEF OnlyRelays
<1>4. CASE \/ HandleInstallServicer \/ HandleUninstallServicer
           \/ HandleAttach \/ HandleDetach \/ HandleReload \/ RunPostedCall
  <2>1. /\ UNCHANGED chServicerMessage /\ servicerTodo = <<>>
        /\ \/ UNCHANGED servicerTodo
           \/ \E op : op.op # "tellCustomers" /\ servicerTodo' = <<op>>
    BY <1>4 DEF HandleInstallServicer, HandleUninstallServicer,
       HandleAttach, HandleDetach, HandleReload, RunPostedCall,
       RunCall, RunMessage, RunCreate, RunClose, RunAttach, RunDetach,
       AtSelect, Do, Tell, serviceChans, serviceMain
  <2> QED  BY <1>3, <2>1, SelectCalls, OneToSet
<1>5. CASE \/ AnswerAttachedTalks \/ AnswerPendingTalks \/ FinishInstall \/ ReloadUser
           \/ TellServicers
  <2>1. PICK op : op # "tellCustomers" /\ NextOperation(op, <<>>)
    BY <1>5 DEF AnswerAttachedTalks, AnswerPendingTalks, FinishInstall, ReloadUser,
       TellServicers
  <2>2. /\ Head(servicerTodo).op = op
        /\ ToSet(servicerTodo) = {Head(servicerTodo)} \cup ToSet(servicerTodo')
    BY <2>1, NextTyped
  <2>3. UNCHANGED chServicerMessage
    BY <1>5 DEF AnswerAttachedTalks, AnswerPendingTalks, FinishInstall, ReloadUser,
       TellServicers, serviceChans
  <2> QED  BY <1>3, <2>1, <2>2, <2>3
<1>6. CASE ReadDetached
  <2>1. PICK call : \/ NextOperation("detached", <<Tell("tellServicers", call)>>)
                    \/ NextOperation("detached", <<>>)
    BY <1>6 DEF ReadDetached
  <2>2. /\ servicerTodo \in Seq(Operation) /\ servicerTodo # <<>>
        /\ Head(servicerTodo).op = "detached"
    BY <2>1 DEF NextOperation, TypeOK, ServiceMainTypeOK
  <2>3. /\ ToSet(servicerTodo) = {Head(servicerTodo)} \cup ToSet(Tail(servicerTodo))
        /\ Tail(servicerTodo) \in Seq(Operation)
    BY <2>2, HeadOrTail, HeadTailToSet
  <2>4. ToSet(servicerTodo') \in {ToSet(Tail(servicerTodo)),
                                  {Tell("tellServicers", call)} \cup ToSet(Tail(servicerTodo))}
    <3>1. CASE NextOperation("detached", <<>>)
      BY <2>3, <3>1 DEF NextOperation
    <3>2. CASE NextOperation("detached", <<Tell("tellServicers", call)>>)
      BY <2>3, <3>2, FirstThenRest DEF NextOperation
    <3> QED  BY <2>1, <3>1, <3>2
  <2>5. Tell("tellServicers", call).op = "tellServicers" /\ UNCHANGED chServicerMessage
    BY <1>6 DEF Tell, ReadDetached, serviceChans
  <2> QED  BY <1>3, <2>2, <2>3, <2>4, <2>5
<1>7. CASE \E s \in Servicers : Dismiss(s)
  BY <1>3, <1>7 DEF Dismiss, serviceChans
<1> QED  BY <1>2, <1>4, <1>5, <1>6, <1>7 DEF ServicerMainAlone

\* What is on its way to the customers stays on its way until they are told, or is
\* withheld; and what a servicer stores is on its way.
LEMMA ServicersOwe ==
  ASSUME TypeOK, ServicersStep
  PROVE  /\ \A t : Elsewhere(t) \subseteq Elsewhere(t)'
         /\ \A t : Stored(t)' \subseteq Stored(t) \cup Elsewhere(t)'
         /\ OnlyRelays => OnlyRelays'
<1>1. CASE \E s \in Servicers : ServiceStep(s)
  <2>1. /\ UNCHANGED <<serviceRequests, serviceTalk, chServicerMessage, servicerTodo, unheard>>
        /\ \/ UNCHANGED serviceReceiver
           \/ \E s \in Servicers : InstallServicer(s)
    BY <1>1 DEF ServiceStep, InstallServicer, ServiceSend, ServiceTerminal, UninstallServicer,
       serviceChans, serviceMain, lossVars
  <2>2. \A t : InHand(t) \subseteq InHand(t)'
    <3>1. CASE \E s \in Servicers : InstallServicer(s)
      <4>1. PICK s \in Servicers : InstallServicer(s)
        BY <3>1
      <4>2. serviceReceiver[s] = "off" /\ UNCHANGED <<serviceRequests, serviceTalk>>
        BY <4>1 DEF InstallServicer, TypeOK, ServiceTypeOK
      <4>3. \A r \in Servicers \ {s} : serviceReceiver'[r] = serviceReceiver[r]
        BY <4>1 DEF InstallServicer, TypeOK, ServiceTypeOK
      <4> QED  BY <4>2, <4>3 DEF InHand
    <3> QED  BY <2>1, <3>1 DEF InHand
  <2>3. \A t : Elsewhere(t) \subseteq Elsewhere(t)'
    BY <2>1, <2>2 DEF Elsewhere, ForCustomers, Queued, Withheld
  <2>4. OnlyRelays => OnlyRelays'
    BY <2>1 DEF OnlyRelays
  <2>5. UNCHANGED talks
    BY <1>1 DEF ServiceStep, InstallServicer, ServiceSend, ServiceTerminal, UninstallServicer
  <2> QED  BY <2>3, <2>4, <2>5 DEF Stored
<1>2. \A t : Stored(t)' \subseteq Stored(t) \cup Elsewhere(t)'
  <2>1. \A s \in Servicers : \A t : serviceReceiver'[s] = "persisted" /\ serviceTalk'[s] = t =>
          <<s, serviceRequests'[s]>> \in Elsewhere(t)'
    BY DEF Elsewhere, ForCustomers, InHand
  <2> QED  BY <2>1, ServicersStore
<1> QED  BY <1>1, <1>2, ServiceReceiverElsewhere, ServicerMainElsewhere DEF ServicersStep

\* What the customers are told of is stored, and on its way no more.
LEMMA ServicersTell ==
  ASSUME TypeOK, Pipeline, OnlyRelays, TellCustomers,
         NEW call, call = Head(servicerTodo).call
  PROVE  /\ call \in Call /\ call.event = "message"
         /\ call.talk \in DOMAIN talks /\ call.message \in Stored(call.talk)
         /\ \A t : Elsewhere(t) \subseteq Elsewhere(t)' \cup {call.message}
         /\ OnlyRelays'
<1>1. /\ Head(servicerTodo) \in Operation /\ Head(servicerTodo).op = "tellCustomers"
      /\ Head(servicerTodo) \in ToSet(servicerTodo)
      /\ ToSet(servicerTodo) = {Head(servicerTodo)} \cup ToSet(servicerTodo')
  BY NextTyped DEF TellCustomers
<1>2. call \in Call /\ call.event = "message"
  BY <1>1, OperationParts DEF OnlyRelays
<1>3. call.talk \in DOMAIN talks /\ call.message \in Stored(call.talk)
  BY <1>1, <1>2 DEF Pipeline, TodoStored, CallStored
<1>4. UNCHANGED <<serviceReceiver, serviceRequests, serviceTalk, chServicerMessage, unheard>>
  BY DEF TellCustomers, serviceVars, serviceChans, lossVars
<1>5. \A t : Elsewhere(t) \subseteq Elsewhere(t)' \cup {call.message}
  BY <1>1, <1>4 DEF Elsewhere, ForCustomers, InHand, Queued, Withheld
<1>6. OnlyRelays'
  BY <1>1 DEF OnlyRelays
<1> QED  BY <1>2, <1>3, <1>5, <1>6
=============================================================================
