--------------------------- MODULE AllInOneProofs ---------------------------
(***************************************************************************)
(* Proofs about AllInOne.  The customers' half keeps its invariants        *)
(* TypeOK, Pipeline, Registry and Orderly in company of the servicers'     *)
(* half, and each of its steps is one of ServicerSide's or none; so what   *)
(* is proved of ServicerSide holds in the one process.  Joint relates the  *)
(* halves, and NobodyMisses follows.                                       *)
(***************************************************************************)
EXTENDS AllInOne, CustomerSideProofs

\* What ServicerSide assumes of its constants holds of those it is given here.
LEMMA ServicersAssumed == SSide!ServicerAssumption /\ SSide!NoOneAssumption
BY CustomerAssumption, NoOneAssumption, AllInOneAssumption
   DEF SSide!ServicerAssumption, SSide!NoOneAssumption

\* The halves mean the same by the store.
LEMMA SameStore ==
  /\ SSide!StoreTypeOK <=> StoreTypeOK
  /\ \A t : SSide!Stored(t) = Stored(t)
<1>1. SSide!StoreTypeOK <=> StoreTypeOK
  BY DEF SSide!StoreTypeOK, StoreTypeOK, SSide!TalkInfo, TalkInfo, SSide!Message, Message
<1>2. \A t : SSide!Stored(t) = Stored(t)
  BY DEF SSide!Stored, Stored, SSide!ToSet, ToSet
<1> QED  BY <1>1, <1>2

Halves == TypeOK /\ Pipeline /\ Registry /\ Orderly /\ SSide!TypeOK /\ SSide!Pipeline

\* A step of the customers' half is one of CustomerSide.
LEMMA CustomersStep ==
  ASSUME CustomersAlone \/ CustomersCall
  PROVE  Next /\ UNCHANGED servicerRest
BY DEF CustomersAlone, CustomersCall, Noted, Next, MainStep

\* And a step of the servicers' half is one of ServicerSide.
LEMMA ServicersStep ==
  ASSUME ServicersAlone \/ ServicersCall
  PROVE  /\ SSide!Next /\ UNCHANGED <<customerRest, reopened>>
         /\ \/ SSide!ServicersStep /\ UNCHANGED <<customerRunner, dropped>>
            \/ SSide!TellCustomers
<1>1. CASE ServicersAlone
  <2>1. \/ \E s \in Servicers : SSide!ServiceStep(s) \/ SSide!ServiceReceiverStep(s)
        \/ SSide!ServicerMainAlone
    BY <1>1 DEF ServicersAlone
  <2> QED
    BY <1>1, <2>1 DEF ServicersAlone, SSide!Next, SSide!ServicersStep, SSide!ServicerMainStep
<1>2. CASE ServicersCall
  BY <1>2 DEF ServicersCall, SSide!Next, SSide!ServicerMainStep
<1> QED  BY <1>1, <1>2

-----------------------------------------------------------------------------
(* The numbers of the messages a customer has written. *)

\* The numbers of a customer are those of his stored messages, and 0.
LEMMA NumberIn ==
  ASSUME NEW c, NEW k
  PROVE  /\ k \in NumbersOf(c) <=>
              k = 0 \/ \E t : \E m \in Stored(t) : m[1] = c /\ m[2] = k
         /\ k \in NumbersOf(c)' <=>
              k = 0 \/ \E t : \E m \in Stored(t)' : m[1] = c /\ m[2] = k
<1>1. /\ \A t, m : m \in Stored(t) => t \in DOMAIN talks
      /\ \A t, m : m \in Stored(t)' => t \in DOMAIN talks'
  BY DEF Stored
<1> QED  BY <1>1 DEF NumbersOf

\* They are natural numbers,
LEMMA NumbersTyped ==
  ASSUME TypeOK, NEW c
  PROVE  NumbersOf(c) \subseteq Nat
<1> SUFFICES ASSUME NEW t, NEW m \in Stored(t)  PROVE m[2] \in Nat
  BY NumberIn
<1>1. m \in Message
  BY DEF Stored, TypeOK, StoreTypeOK, TalkInfo, ToSet
<1> QED  BY <1>1 DEF Message

\* The greatest of some numbers, when there is one.
LEMMA MaxIs ==
  ASSUME NEW S \in SUBSET Nat, NEW n \in S, \A k \in S : n >= k
  PROVE  Max(S) = n
<1>1. \A x \in S : (\A y \in S : x >= y) => x = n
  OBVIOUS
<1> QED  BY <1>1 DEF Max

\* and the last message written is one of them.
LEMMA WrittenIs ==
  ASSUME TypeOK, LastWritten, NEW c \in Customers
  PROVE  Written[c] \in NumbersOf(c) /\ \A k \in NumbersOf(c) : Written[c] >= k
<1>1. PICK n \in NumbersOf(c) : \A k \in NumbersOf(c) : n >= k
  BY DEF LastWritten
<1>2. Max(NumbersOf(c)) = n
  BY <1>1, NumbersTyped, MaxIs
<1> QED  BY <1>1, <1>2 DEF Written

\* They change only with what is stored.
LEMMA NumbersSame ==
  ASSUME \A u : Stored(u)' = Stored(u)
  PROVE  /\ \A c : NumbersOf(c)' = NumbersOf(c)
         /\ Written' = Written /\ (LastWritten => LastWritten')
<1>1. ASSUME NEW c, NEW k  PROVE k \in NumbersOf(c)' <=> k \in NumbersOf(c)
  BY NumberIn
<1>2. \A c : NumbersOf(c)' = NumbersOf(c)
  BY <1>1
<1> QED  BY <1>2 DEF Written, LastWritten

\* A stored message adds its number to its sender's, and to nobody else's.
LEMMA NumbersMore ==
  ASSUME NEW u, NEW c, NEW n, Stored(u)' = Stored(u) \cup {<<c, n>>},
         \A t : t # u => Stored(t)' = Stored(t)
  PROVE  /\ NumbersOf(c)' = NumbersOf(c) \cup {n}
         /\ \A d : d # c => NumbersOf(d)' = NumbersOf(d)
<1>1. \A d, k : (\E t : \E m \in Stored(t)' : m[1] = d /\ m[2] = k)
                 <=> \/ \E t : \E m \in Stored(t) : m[1] = d /\ m[2] = k
                     \/ d = c /\ k = n
  <2>1. \A t : \A m \in Stored(t)' : m \in Stored(t) \/ m = <<c, n>>
    OBVIOUS
  <2>2. <<c, n>> \in Stored(u)' /\ \A t : Stored(t) \subseteq Stored(t)'
    OBVIOUS
  <2>3. <<c, n>>[1] = c /\ <<c, n>>[2] = n
    OBVIOUS
  <2> QED  BY <2>1, <2>2, <2>3
<1>2. ASSUME NEW k  PROVE k \in NumbersOf(c)' <=> k \in NumbersOf(c) \cup {n}
  BY <1>1, NumberIn
<1>3. ASSUME NEW d, d # c, NEW k  PROVE k \in NumbersOf(d)' <=> k \in NumbersOf(d)
  BY <1>1, <1>3, NumberIn
<1>4. \A d : d # c => NumbersOf(d)' = NumbersOf(d)
  <2> SUFFICES ASSUME NEW d, d # c  PROVE NumbersOf(d)' = NumbersOf(d)
    OBVIOUS
  <2> QED  BY <1>3
<1> QED  BY <1>2, <1>4

-----------------------------------------------------------------------------
(* What the customers' half has still to tell the servicers. *)

\* What is to be announced stays so while those who announce it stay as they are:
\* the streams that wait for their installation,
LEMMA CreationsKept ==
  ASSUME UNCHANGED <<talkOf, creates>>, \A c \in Customers : Announcing(c)' <=> Announcing(c)
  PROVE  Creations' = Creations
BY DEF Creations

\* the receivers and the channel of messages,
LEMMA WritingsKept ==
  ASSUME UNCHANGED <<talkOf, chCustomerMessage>>,
         \A c \in Customers :
           /\ receiver'[c] = "persisted" <=> receiver[c] = "persisted"
           /\ receiver[c] = "persisted" => requests'[c] = requests[c]
  PROVE  Writings' = Writings
BY DEF Writings, Queued, Current

\* and the calls of the main routine.
LEMMA CallsKept ==
  /\ UNCHANGED customerTodo => Calls' = Calls
  /\ customerTodo = <<>> => Calls = {}
  /\ customerTodo' = <<>> => Calls' = {}
<1>1. \A x : x \notin ToSet(<<>>)
  BY DEF ToSet
<1> QED  BY <1>1 DEF Calls

\* The servicers' half does not see a step that leaves the store and the announcements
\* as they were,
LEMMA StepUnseen ==
  ASSUME Noted, UNCHANGED talks, Arriving' = Arriving
  PROVE  UNCHANGED SSide!serviceSideVars
<1>1. Written' = Written
  BY NumbersSame DEF Stored
<1>2. unheard' = unheard /\ reopened' = reopened
  BY DEF Noted
<1> QED
  BY <1>1, <1>2 DEF Noted, servicerRest, SSide!serviceSideVars, SSide!servicerVars,
     SSide!serviceVars, SSide!serviceChans, SSide!talkChans, SSide!serviceMain,
     SSide!serviceOut, SSide!outsideVars, SSide!lossVars, SSide!restOfLoss

\* and sees one that loses an announcement as Lose.
LEMMA StepLoses ==
  ASSUME Noted, UNCHANGED talks, NEW x, x.event \in {"message", "create"},
         Arriving \ {x} \subseteq Arriving', Arriving' \subseteq Arriving
  PROVE  [SSide!Next]_(SSide!serviceSideVars)
<1>1. CASE x \in Arriving /\ x \notin Arriving'
  <2>1. Written' = Written
    BY NumbersSame DEF Stored
  <2>2. /\ unheard' = unheard \cup {x} /\ reopened' = reopened
        /\ Arriving' = Arriving \ {x}
    BY <1>1 DEF Noted
  <2>3. SSide!Lose(x)
    BY <1>1, <2>1, <2>2 DEF Noted, servicerRest, SSide!Lose, SSide!serviceVars,
       SSide!serviceChans, SSide!talkChans, SSide!serviceMain, SSide!serviceOut,
       SSide!restOfLoss
  <2> QED  BY <1>1, <2>3 DEF SSide!Next, SSide!CallStep
<1>2. CASE Arriving' = Arriving
  BY <1>2, StepUnseen
<1> QED  BY <1>1, <1>2

-----------------------------------------------------------------------------
(* The steps of the customers' half, as the servicers' half sees them. *)

\* Nobody has written who has no talk.
LEMMA NoTalkYet ==
  ASSUME Halves, NEW c \in Customers, stream[c] = "idle"
  PROVE  /\ ~Announcing(c) /\ ~Listening(c) /\ receiver[c] = "off"
         /\ \A m \in Queued : m \in Customers \X Nat /\ m[1] # c
<1>1. talkOf[c] = NoTalk /\ receiver[c] = "off" /\ c \notin ToSet(chInstallCustomer)
  BY DEF Halves, Pipeline, IdleHasNoTalk, Orderly, NotYetServed
<1>2. \A m \in Queued : m \in Customers \X Nat /\ talkOf[m[1]] \in Talks
  <2>1. chCustomerMessage \in Seq(Customers \X Nat)
    BY DEF Halves, TypeOK, ChannelTypeOK
  <2>2. \A m \in Queued : m \in Customers \X Nat
    BY <2>1 DEF Queued, ToSet
  <2> QED  BY <2>2, SenderHasTalk DEF Halves, Queued
<1> QED  BY <1>1, <1>2, CustomerAssumption DEF Announcing, Listening

\* A stream that starts has a creation to announce if it created its talk.
LEMMA StartSeen ==
  ASSUME Halves, NEW c \in Customers, NEW t, NEW create \in BOOLEAN, Start(c, t, create)
  PROVE  /\ Arriving' = IF create THEN Arriving \cup {SSide!TalkCall("create", t)} ELSE Arriving
         /\ \A d \in Customers : d # c => /\ talkOf'[d] = talkOf[d] /\ creates'[d] = creates[d]
                                          /\ Announcing(d)' <=> Announcing(d)
         /\ Announcing(c)' <=> create
         /\ talkOf'[c] = t /\ creates'[c] = create
<1>1. /\ stream[c] = "idle" /\ stream'[c] = "started"
      /\ talkOf'[c] = t /\ creates'[c] = create
      /\ \A d \in Customers : d # c => /\ stream'[d] = stream[d]
                                       /\ talkOf'[d] = talkOf[d] /\ creates'[d] = creates[d]
      /\ UNCHANGED <<receiver, requests, chCustomerMessage, chInstallCustomer, customerTodo>>
  BY DEF Start, Halves, TypeOK, StreamTypeOK, receiverVars, installVars, requestVars, mdVars
<1>2. /\ ~Announcing(c) /\ receiver[c] = "off"
      /\ \A m \in Queued : m \in Customers \X Nat /\ m[1] # c
  BY <1>1, NoTalkYet
<1>3. /\ \A d \in Customers : d # c => (Announcing(d)' <=> Announcing(d))
      /\ Announcing(c)' <=> create
  BY <1>1 DEF Announcing
<1>4. Creations' = IF create THEN Creations \cup {SSide!TalkCall("create", t)} ELSE Creations
  BY <1>1, <1>2, <1>3 DEF Creations, SSide!TalkCall
<1>5. Writings' = Writings
  <2> DEFINE M == Queued \cup {Current(d) : d \in {e \in Customers : receiver[e] = "persisted"}}
  <2>1. M' = M
    BY <1>1 DEF Queued, Current
  <2>2. \A m \in M : talkOf'[m[1]] = talkOf[m[1]]
    BY <1>1, <1>2 DEF Current
  <2> QED  BY <2>1, <2>2 DEF Writings
<1> QED  BY <1>1, <1>3, <1>4, <1>5, CallsKept DEF Arriving

\* To the servicers a stream creates a talk, opens one again, loses its creation with
\* a full channel, or does nothing.
LEMMA StreamSeen ==
  ASSUME Halves, Noted, NEW c \in Customers, StreamStep(c)
  PROVE  [SSide!Next]_(SSide!serviceSideVars)
<1>1. ASSUME NEW t \in Talks, TalkStartCreate(c, t)
      PROVE  SSide!Next
  <2>1. /\ Arriving' = Arriving \cup {SSide!TalkCall("create", t)}
        /\ CreateTalk(t, ActOf[c], BizOf[c])
    BY <1>1, StartSeen DEF TalkStartCreate
  <2>2. Written' = Written
    BY <2>1, NothingStored, NumbersSame DEF Halves, TypeOK
  <2>3. unheard' = unheard /\ reopened' = reopened
    BY <2>1 DEF Noted, CreateTalk
  <2>4. ActOf[c] \in Acts /\ BizOf[c] \in Bizs
    BY CustomerAssumption
  <2>5. SSide!CustomerCreates(t, ActOf[c], BizOf[c])
    BY <2>1, <2>2, <2>3 DEF SSide!CustomerCreates, SSide!CreateTalk, CreateTalk
  <2>6. SSide!CustomerStep
    BY <2>3, <2>4, <2>5 DEF SSide!CustomerStep, Noted, servicerRest,
     SSide!serviceVars, SSide!serviceChans, SSide!talkChans, SSide!serviceMain,
     SSide!serviceOut, SSide!lossVars, SSide!restOfLoss
  <2> QED  BY <2>6 DEF SSide!Next
<1>2. ASSUME NEW t \in Talks, TalkStartOpen(c, t)
      PROVE  [SSide!Next]_(SSide!serviceSideVars)
  <2>1. Arriving' = Arriving /\ OpenTalk({ActOf[c]}, {BizOf[c]}, t)
    BY <1>2, StartSeen DEF TalkStartOpen
  <2>2. t \in DOMAIN talks /\ talks' = [talks EXCEPT ![t].status = "opened"]
    BY <2>1 DEF OpenTalk, InScope
  <2>3. talks \in [DOMAIN talks -> TalkInfo] /\ talks[t] \in TalkInfo
    BY <2>2 DEF Halves, TypeOK, StoreTypeOK
  <2>4. CASE talks[t].status = "opened"
    <3>1. [talks[t] EXCEPT !.status = "opened"] = talks[t]
      BY <2>3, <2>4 DEF TalkInfo
    <3>2. talks' = talks
      BY <2>2, <2>3, <3>1
    <3> QED  BY <2>1, <3>2, StepUnseen
  <2>5. CASE talks[t].status = "closed"
    <3>1. Written' = Written
      BY <2>1, NothingStored, NumbersSame DEF Halves, TypeOK
    <3>2. unheard' = unheard /\ reopened' = reopened \cup {t}
      BY <2>1, <2>2, <2>3, <2>5 DEF Noted, TalkInfo
    <3>3. SSide!CustomerReopens(t)
      BY <2>1, <2>2, <2>5, <3>1, <3>2 DEF SSide!CustomerReopens, SSide!OpenTalk,
         SSide!InScope, SSide!Passes
    <3>4. SSide!CustomerStep
      BY <3>2, <3>3 DEF SSide!CustomerStep, Noted, servicerRest,
         SSide!serviceVars, SSide!serviceChans, SSide!talkChans, SSide!serviceMain,
         SSide!serviceOut, SSide!lossVars, SSide!restOfLoss
    <3> QED  BY <3>4 DEF SSide!Next
  <2> QED  BY <2>3, <2>4, <2>5 DEF TalkInfo
<1>3. ASSUME InstallCustomer(c)
      PROVE  [SSide!Next]_(SSide!serviceSideVars)
  <2>1. /\ stream[c] = "started" /\ c \notin ToSet(chInstallCustomer) /\ receiver[c] = "off"
        /\ UNCHANGED <<talks, talkOf, creates, requests, chCustomerMessage, customerTodo>>
    BY <1>3 DEF InstallCustomer, Halves, Orderly, NotYetServed, requestVars, mdVars
  <2>2. \A d \in Customers : receiver'[d] = "persisted" <=> receiver[d] = "persisted"
    BY <1>3, <2>1 DEF InstallCustomer, Halves, TypeOK, StreamTypeOK
  <2>3. Writings' = Writings /\ Calls' = Calls
    BY <2>1, <2>2, WritingsKept, CallsKept
  <2>4. chInstallCustomer \in Seq(Customers)
    BY DEF Halves, TypeOK, ChannelTypeOK
  <2>5. stream \in [Customers -> {"idle", "started", "serving", "leaving",
                                  "gone", "uninstallFailed", "refused"}]
    BY DEF Halves, TypeOK, StreamTypeOK
  <2>6. CASE HasRoom(chInstallCustomer, MaxCache)
    <3>1. /\ stream' = [stream EXCEPT ![c] = "serving"]
          /\ ToSet(chInstallCustomer)' = ToSet(chInstallCustomer) \cup {c}
      BY <1>3, <2>4, <2>6, AppendToSet DEF InstallCustomer
    <3>2. \A d \in Customers : Announcing(d)' <=> Announcing(d)
      BY <2>1, <2>5, <3>1 DEF Announcing
    <3>3. Creations' = Creations
      BY <2>1, <3>2, CreationsKept
    <3> QED  BY <2>1, <2>3, <3>3, StepUnseen DEF Arriving
  <2>7. CASE ~HasRoom(chInstallCustomer, MaxCache)
    <3> DEFINE x == SSide!TalkCall("create", talkOf[c])
    <3>1. stream' = [stream EXCEPT ![c] = "refused"] /\ UNCHANGED chInstallCustomer
      BY <1>3, <2>7 DEF InstallCustomer
    <3>2. \A d \in Customers : /\ Announcing(d)' => Announcing(d)
                               /\ d # c => (Announcing(d)' <=> Announcing(d))
      BY <2>1, <2>5, <3>1 DEF Announcing
    <3>3. Creations' \subseteq Creations /\ Creations \ {x} \subseteq Creations'
      BY <2>1, <3>2 DEF Creations, SSide!TalkCall
    <3>4. Arriving' \subseteq Arriving /\ Arriving \ {x} \subseteq Arriving'
      BY <2>3, <3>3 DEF Arriving
    <3>5. x.event \in {"message", "create"}
      BY DEF SSide!TalkCall
    <3> QED  BY <2>1, <3>4, <3>5, StepLoses
  <2> QED  BY <2>6, <2>7
<1>4. ASSUME \/ TalkStartRefused(c) \/ StreamSend(c) \/ StreamBroken(c)
             \/ StreamTerminal(c) \/ UninstallCustomer(c)
      PROVE  UNCHANGED SSide!serviceSideVars
  <2>1. UNCHANGED <<talks, talkOf, creates, receiver, requests, chInstallCustomer,
                    chCustomerMessage, customerTodo>>
    BY <1>4 DEF TalkStartRefused, StreamSend, StreamBroken, StreamTerminal,
       UninstallCustomer, streamVars, receiverVars, installVars, requestVars, mdVars
  <2>2. \A d \in Customers : stream'[d] = "started" <=> stream[d] = "started"
    BY <1>4 DEF TalkStartRefused, StreamSend, StreamBroken, StreamTerminal,
       UninstallCustomer, Halves, TypeOK, StreamTypeOK
  <2>3. Creations' = Creations /\ Writings' = Writings /\ Calls' = Calls
    BY <2>1, <2>2, CreationsKept, WritingsKept, CallsKept DEF Announcing
  <2> QED  BY <2>1, <2>3, StepUnseen DEF Arriving
<1> QED  BY <1>1, <1>2, <1>3, <1>4 DEF StreamStep

\* The next message of a customer is the greatest in number.
LEMMA WritesNext ==
  ASSUME TypeOK, Numbered, LastWritten, NEW c \in Customers, ReceiveMessage(c)
  PROVE  /\ requests[c] \in Nat /\ requests' = [requests EXCEPT ![c] = @ + 1]
         /\ talkOf[c] \in DOMAIN talks
         /\ Stored(talkOf[c])' = Stored(talkOf[c]) \cup {<<c, requests[c] + 1>>}
         /\ \A u : u # talkOf[c] => Stored(u)' = Stored(u)
         /\ \A u : <<c, requests[c] + 1>> \notin Stored(u)
         /\ Written[c] \in 0..requests[c]
         /\ Written' = [Written EXCEPT ![c] = requests[c] + 1] /\ LastWritten'
<1> PICK n : n = requests[c] + 1
  OBVIOUS
<1> PICK t : t = talkOf[c]
  OBVIOUS
<1>1. /\ requests[c] \in Nat /\ requests' = [requests EXCEPT ![c] = @ + 1]
      /\ AddTalkMessage(t, <<c, n>>) /\ UNCHANGED talkOf
  BY DEF ReceiveMessage, CountRequest, TypeOK, StreamTypeOK, streamVars
<1>2. /\ t \in DOMAIN talks
      /\ Stored(t)' = Stored(t) \cup {<<c, n>>}
      /\ \A u : u # t => Stored(u)' = Stored(u)
  BY <1>1, AddsOne DEF TypeOK
<1>3. \A u : \A m \in Stored(u) : m[1] = c => m[2] <= requests[c]
  <2>1. \A u : \A m \in Stored(u) : u \in DOMAIN talks
    BY DEF Stored
  <2> QED  BY <2>1, AllInOneAssumption DEF Numbered
<1>4. \A u : <<c, n>> \notin Stored(u)
  BY <1>1, <1>3
<1>5. NumbersOf(c) \subseteq 0..requests[c]
  BY <1>1, <1>3, NumberIn, NumbersTyped
<1>6. NumbersOf(c)' = NumbersOf(c) \cup {n} /\ \A d : d # c => NumbersOf(d)' = NumbersOf(d)
  BY <1>2, NumbersMore
<1>7. NumbersOf(c)' \subseteq Nat /\ n \in NumbersOf(c)' /\ \A k \in NumbersOf(c)' : n >= k
  BY <1>1, <1>5, <1>6
<1>8. Max(NumbersOf(c)') = n
  BY <1>7, MaxIs
<1>9. Written' = [Written EXCEPT ![c] = n]
  BY <1>6, <1>8 DEF Written
<1>10. Written[c] \in 0..requests[c]
  BY <1>5, WrittenIs
<1>11. LastWritten'
  BY <1>6, <1>7 DEF LastWritten
<1> QED  BY <1>1, <1>2, <1>4, <1>9, <1>10, <1>11

\* A step of a stream's goroutines or of the main routine that does not concern the
\* servicers.
LEMMA QuietSeen ==
  ASSUME Noted,
         UNCHANGED <<talks, talkOf, creates, stream, chInstallCustomer, chCustomerMessage,
                     customerTodo>>,
         \A c \in Customers :
           /\ receiver'[c] = "persisted" <=> receiver[c] = "persisted"
           /\ receiver[c] = "persisted" => requests'[c] = requests[c]
  PROVE  UNCHANGED SSide!serviceSideVars
<1>1. Creations' = Creations
  BY CreationsKept DEF Announcing
<1>2. Writings' = Writings /\ Calls' = Calls
  BY WritingsKept, CallsKept
<1> QED  BY <1>1, <1>2, StepUnseen DEF Arriving

\* A receiver writes a message, loses one with a full channel, or does nothing.
LEMMA ReceiverSeen ==
  ASSUME Halves, Numbered, LastWritten, Noted, NEW c \in Customers, ReceiverStep(c)
  PROVE  [SSide!Next]_(SSide!serviceSideVars)
<1>1. /\ receiver \in [Customers -> {"off", "receiving", "persisted", "done"}]
      /\ requests \in [Customers -> Nat]
  BY DEF Halves, TypeOK, StreamTypeOK
<1>2. /\ UNCHANGED <<talkOf, creates, stream, chInstallCustomer, customerTodo>>
      /\ Creations' = Creations /\ Calls' = Calls
  <2>1. UNCHANGED <<talkOf, creates, stream, chInstallCustomer, customerTodo>>
    BY DEF ReceiverStep, ReceiveMessage, ReceiveMessageFails, CustomerMessageIncoming,
       ReceiveClose, ReceiveFails, streamVars, installVars, mdVars
  <2> QED  BY <2>1, CreationsKept, CallsKept DEF Announcing
<1>3. CASE ReceiveMessage(c)
  <2> PICK n : n = requests[c] + 1
    OBVIOUS
  <2> PICK t : t = talkOf[c]
    OBVIOUS
  <2> DEFINE call == SSide!MessageCall(t, <<c, n>>)
  <2>1. /\ AddTalkMessage(t, <<c, n>>) /\ UNCHANGED chCustomerMessage
        /\ receiver[c] = "receiving" /\ receiver'[c] = "persisted"
        /\ n \in 1..MaxRequests[c] /\ requests'[c] = n
        /\ \A d \in Customers : d # c => /\ receiver'[d] = receiver[d]
                                       /\ requests'[d] = requests[d]
    <3>1. /\ requests[c] \in Nat /\ MaxRequests[c] \in Nat
          /\ receiver[c] = "receiving" /\ requests[c] < MaxRequests[c]
          /\ requests' = [requests EXCEPT ![c] = @ + 1]
          /\ receiver' = [receiver EXCEPT ![c] = "persisted"]
      BY <1>1, <1>3, CustomerAssumption DEF ReceiveMessage, CountRequest
    <3>2. AddTalkMessage(t, <<c, n>>) /\ UNCHANGED chCustomerMessage
      BY <1>3 DEF ReceiveMessage, requestVars
    <3> QED  BY <1>1, <3>1, <3>2
  <2>2. /\ t \in DOMAIN talks /\ t \in Talks
        /\ n \in (Written[c] + 1)..MaxWrites /\ Written' = [Written EXCEPT ![c] = n]
    <3>1. t \in DOMAIN talks /\ Written[c] \in 0..requests[c]
          /\ Written' = [Written EXCEPT ![c] = n]
      BY <1>3, WritesNext DEF Halves
    <3>2. MaxRequests[c] \in Nat /\ MaxRequests[c] <= MaxWrites /\ MaxWrites \in Nat
      BY CustomerAssumption, AllInOneAssumption
    <3>3. n \in (Written[c] + 1)..MaxWrites
      BY <1>1, <2>1, <3>1, <3>2
    <3> QED  BY <3>1, <3>3 DEF Halves, TypeOK, StoreTypeOK
  <2>3. Writings' = Writings \cup {call}
    <3> DEFINE M == Queued \cup {Current(d) : d \in {e \in Customers : receiver[e] = "persisted"}}
    <3>1. M' = M \cup {<<c, n>>}
      BY <2>1 DEF Queued, Current
    <3> QED  BY <1>2, <3>1 DEF Writings, SSide!MessageCall
  <2>4. Arriving' = Arriving \cup {call}
    BY <1>2, <2>3 DEF Arriving
  <2>5. \A u \in DOMAIN talks : talks'[u].status = talks[u].status
    BY <2>1, AddsOne DEF Halves, TypeOK
  <2>6. unheard' = unheard /\ reopened' = reopened
    BY <2>4, <2>5 DEF Noted
  <2>7. SSide!CustomerWrites(c, t)
    BY <2>1, <2>2, <2>4, <2>6 DEF SSide!CustomerWrites, SSide!AddTalkMessage, AddTalkMessage
  <2>8. SSide!CustomerStep
    BY <2>2, <2>6, <2>7 DEF SSide!CustomerStep, Noted, servicerRest,
     SSide!serviceVars, SSide!serviceChans, SSide!talkChans, SSide!serviceMain,
     SSide!serviceOut, SSide!lossVars, SSide!restOfLoss
  <2> QED  BY <2>8 DEF SSide!Next
<1>4. CASE CustomerMessageIncoming(c)
  <2> DEFINE x == SSide!MessageCall(talkOf[c], Current(c))
             M == {Current(d) : d \in {e \in Customers : receiver[e] = "persisted"}}
  <2>1. /\ receiver[c] = "persisted" /\ receiver'[c] # "persisted"
        /\ \A d \in Customers : d # c => receiver'[d] = receiver[d]
        /\ UNCHANGED <<talks, requests>>
        /\ \/ chCustomerMessage' = Append(chCustomerMessage, Current(c))
           \/ UNCHANGED chCustomerMessage
    BY <1>1, <1>4 DEF CustomerMessageIncoming
  <2>2. M' \subseteq M /\ M \subseteq M' \cup {Current(c)} /\ Current(c) \in M
    BY <2>1 DEF Current
  <2>3. x.event = "message"
    BY DEF SSide!MessageCall
  <2>4. CASE chCustomerMessage' = Append(chCustomerMessage, Current(c))
    <3>1. Queued' = Queued \cup {Current(c)}
      BY <2>4, AppendToSet DEF Queued, Halves, TypeOK, ChannelTypeOK
    <3>2. (Queued \cup M)' = Queued \cup M
      BY <2>2, <3>1
    <3>3. Writings' = Writings
      BY <1>2, <3>2 DEF Writings
    <3> QED  BY <1>2, <2>1, <3>3, StepUnseen DEF Arriving
  <2>5. CASE UNCHANGED chCustomerMessage
    <3>1. (Queued \cup M)' \subseteq Queued \cup M
          /\ Queued \cup M \subseteq (Queued \cup M)' \cup {Current(c)}
      BY <2>2, <2>5 DEF Queued
    <3>2. Writings' \subseteq Writings /\ Writings \ {x} \subseteq Writings'
      BY <1>2, <3>1 DEF Writings, Current, SSide!MessageCall
    <3>3. Arriving' \subseteq Arriving /\ Arriving \ {x} \subseteq Arriving'
      BY <1>2, <3>2 DEF Arriving
    <3> QED  BY <2>1, <2>3, <3>3, StepLoses
  <2> QED  BY <2>1, <2>4, <2>5
<1>5. CASE ReceiveMessageFails(c) \/ ReceiveClose(c) \/ ReceiveFails(c)
  <2>1. /\ UNCHANGED <<talks, chCustomerMessage>>
        /\ receiver[c] = "receiving" /\ receiver'[c] \in {"receiving", "done"}
        /\ \A d \in Customers : d # c => /\ receiver'[d] = receiver[d]
                                       /\ requests'[d] = requests[d]
    BY <1>1, <1>5 DEF ReceiveMessageFails, ReceiveClose, ReceiveFails, CountRequest, requestVars
  <2> QED  BY <1>2, <2>1, QuietSeen
<1> QED  BY <1>3, <1>4, <1>5 DEF ReceiverStep

\* The calls of a customers' main routine at its select, and of one that has a single
\* call to make.
LEMMA OneCall ==
  ASSUME NEW notice
  PROVE  /\ customerTodo' = << [to |-> "servicers", notice |-> notice] >> =>
              Calls' = {CallOf(notice)}
         /\ customerTodo = << [to |-> "servicers", notice |-> notice] >> =>
              Calls = {CallOf(notice)}
<1>1. \A x : ToSet(<<x>>) = {x}
  BY DEF ToSet
<1> QED  BY <1>1 DEF Calls

\* What the main routine has to tell the servicers is the call it just resolved on.
LEMMA BothCalled ==
  ASSUME NEW event, NEW t, NEW ms, customerTodo' = TellBoth(event, t, ms)
  PROVE  Calls' = {CallOf([event |-> event, talk |-> t, messages |-> ms])}
<1> DEFINE n == [event |-> event, talk |-> t, messages |-> ms]
           a == [to |-> "customers", notice |-> n]
           b == [to |-> "servicers", notice |-> n]
<1>1. customerTodo' = <<a, b>>
  BY DEF TellBoth
<1>2. \A x, y : ToSet(<<x, y>>) = {x, y}
  BY DEF ToSet
<1>3. ToSet(customerTodo)' = {a, b}
  BY <1>1, <1>2
<1>4. {d \in {a, b} : d.to = "servicers"} = {b} /\ b.notice = n
  OBVIOUS
<1> HIDE DEF a, b, n
<1>5. Calls' = {CallOf(call.notice) : call \in {d \in {a, b} : d.to = "servicers"}}
  BY <1>3 DEF Calls
<1>6. Calls' = {CallOf(n)}
  BY <1>4, <1>5
<1> QED  BY <1>6 DEF n

\* An installation announces the creation of a talk, at most once.
LEMMA HandleInstallSeen ==
  ASSUME Halves, Creators, Noted, HandleInstall
  PROVE  [SSide!Next]_(SSide!serviceSideVars)
<1> PICK c : c = Head(chInstallCustomer)
  OBVIOUS
<1> PICK t : t = talkOf[c]
  OBVIOUS
<1> DEFINE x == SSide!TalkCall("create", t)
<1>1. /\ customerTodo = <<>> /\ chInstallCustomer # <<>>
      /\ chInstallCustomer' = Tail(chInstallCustomer)
      /\ UNCHANGED <<talks, talkOf, creates, stream, receiver, requests, chCustomerMessage>>
  BY DEF HandleInstall, AtSelect, streamVars, receiverVars, requestVars
<1>2. chInstallCustomer \in Seq(Customers)
  BY DEF Halves, TypeOK, ChannelTypeOK
<1>3. /\ c \in Customers /\ c \in ToSet(chInstallCustomer)
      /\ ToSet(chInstallCustomer) = {c} \cup ToSet(chInstallCustomer')
  BY <1>1, <1>2, HeadTailToSet, HeadOrTail
<1>4. stream[c] # "started"
  BY <1>3 DEF Halves, Orderly, NotYetServed
<1>5. \A d \in Customers : /\ Announcing(d)' => Announcing(d)
                           /\ d # c => (Announcing(d)' <=> Announcing(d))
  BY <1>1, <1>3 DEF Announcing
<1>6. /\ Creations' \subseteq Creations
      /\ Creations \subseteq Creations' \cup (IF creates[c] THEN {x} ELSE {})
      /\ creates[c] => x \in Creations
  BY <1>1, <1>3, <1>5 DEF Creations, Announcing, SSide!TalkCall
<1>7. Writings' = Writings /\ Calls = {}
  BY <1>1, WritingsKept, CallsKept
<1>8. CASE creates[c] /\ customerTodo' # <<>>
  <2>1. customerTodo' = << [to |-> "servicers",
                            notice |-> [event |-> "create", talk |-> t, messages |-> <<>>]] >>
    BY <1>1, <1>8 DEF HandleInstall
  <2>2. Calls' = {x}
    BY <2>1, OneCall DEF CallOf, SSide!TalkCall
  <2>3. Arriving' = Arriving
    BY <1>6, <1>7, <1>8, <2>2 DEF Arriving
  <2> QED  BY <1>1, <2>3, StepUnseen
<1>9. CASE customerTodo' = <<>>
  <2>1. Calls' = {}
    BY <1>9, CallsKept
  <2>2. Arriving' \subseteq Arriving /\ Arriving \ {x} \subseteq Arriving'
    BY <1>6, <1>7, <2>1 DEF Arriving
  <2>3. x.event \in {"message", "create"}
    BY DEF SSide!TalkCall
  <2> QED  BY <1>1, <2>2, <2>3, StepLoses
<1>10. (creates[c] /\ customerTodo' # <<>>) \/ customerTodo' = <<>>
  BY <1>1 DEF HandleInstall
<1> QED  BY <1>8, <1>9, <1>10

\* A message taken from its channel is announced as it was before.
LEMMA HandleMessageSeen ==
  ASSUME Halves, Noted, HandleMessage
  PROVE  UNCHANGED SSide!serviceSideVars
<1> PICK m : m = Head(chCustomerMessage)
  OBVIOUS
<1> PICK t : t = talkOf[m[1]]
  OBVIOUS
<1> DEFINE x == SSide!MessageCall(t, m)
<1>1. /\ customerTodo = <<>> /\ chCustomerMessage # <<>>
      /\ chCustomerMessage' = Tail(chCustomerMessage)
      /\ customerTodo' = TellBoth("message", t, <<m>>)
      /\ UNCHANGED <<talks, talkOf, creates, stream, receiver, requests, chInstallCustomer>>
  BY DEF HandleMessage, AtSelect, streamVars, receiverVars, installVars
<1>2. Queued = {m} \cup Queued'
  BY <1>1, HeadOrTail DEF Halves, TypeOK, ChannelTypeOK, Queued
<1>3. Creations' = Creations
  BY <1>1, CreationsKept DEF Announcing
<1>4. Calls = {} /\ Calls' = {x}
  <2>1. Calls' = {CallOf([event |-> "message", talk |-> t, messages |-> <<m>>])}
    BY <1>1, BothCalled
  <2> QED  BY <1>1, <2>1, CallsKept DEF CallOf, SSide!MessageCall
<1>5. Writings = Writings' \cup {x}
  <2> DEFINE M == {Current(d) : d \in {e \in Customers : receiver[e] = "persisted"}}
  <2>1. M' = M
    BY <1>1 DEF Current
  <2>2. Queued \cup M = (Queued \cup M)' \cup {m}
    BY <1>2, <2>1
  <2> QED  BY <1>1, <2>2 DEF Writings, SSide!MessageCall
<1>6. Arriving' = Arriving
  BY <1>3, <1>4, <1>5 DEF Arriving
<1> QED  BY <1>1, <1>6, StepUnseen

\* A close changes the store and arrives in one step, or changes nothing.
LEMMA HandleCloseSeen ==
  ASSUME Halves, Noted, HandleClose
  PROVE  [SSide!Next]_(SSide!serviceSideVars)
<1> PICK c : c = Head(chCustomerClose)
  OBVIOUS
<1> PICK t : t = talkOf[c]
  OBVIOUS
<1> DEFINE x == SSide!TalkCall("close", t)
<1>1. /\ customerTodo = <<>>
      /\ UNCHANGED <<talkOf, creates, stream, receiver, requests, chInstallCustomer,
                     chCustomerMessage>>
  BY DEF HandleClose, AtSelect, streamVars, receiverVars, installVars
<1>2. Creations' = Creations /\ Writings' = Writings /\ Calls = {}
  BY <1>1, CreationsKept, WritingsKept, CallsKept DEF Announcing
<1>3. CASE UNCHANGED <<talks, customerTodo>>
  BY <1>2, <1>3, CallsKept, StepUnseen DEF Arriving
<1>4. CASE /\ CloseTalk({ActOf[c]}, {BizOf[c]}, t)
           /\ customerTodo' = TellBoth("close", t, <<>>)
  <2>1. Arriving' = Arriving \cup {x}
    <3>1. Calls' = {CallOf([event |-> "close", talk |-> t, messages |-> <<>>])}
      BY <1>4, BothCalled
    <3>2. Calls' = {x}
      BY <3>1 DEF CallOf, SSide!TalkCall
    <3> QED  BY <1>2, <3>2 DEF Arriving
  <2>2. t \in DOMAIN talks /\ talks' = [talks EXCEPT ![t].status = "closed"]
    BY <1>4 DEF CloseTalk, InScope
  <2>3. talks \in [DOMAIN talks -> TalkInfo] /\ t \in Talks
    BY <2>2 DEF Halves, TypeOK, StoreTypeOK
  <2>4. \A u \in DOMAIN talks : ~(talks[u].status = "closed" /\ talks'[u].status = "opened")
    BY <2>2, <2>3 DEF TalkInfo
  <2>5. unheard' = unheard /\ reopened' = reopened
    BY <2>1, <2>4 DEF Noted
  <2>6. Written' = Written
    BY <1>4, NothingStored, NumbersSame DEF Halves, TypeOK
  <2>7. SSide!CustomerCloses(t)
    BY <2>1, <2>2, <2>5, <2>6 DEF SSide!CustomerCloses, SSide!CloseTalk, SSide!InScope,
       SSide!Passes
  <2>8. SSide!CustomerStep
    BY <2>3, <2>5, <2>7 DEF SSide!CustomerStep, Noted, servicerRest,
     SSide!serviceVars, SSide!serviceChans, SSide!talkChans, SSide!serviceMain,
     SSide!serviceOut, SSide!lossVars, SSide!restOfLoss
  <2> QED  BY <2>8 DEF SSide!Next
<1> QED  BY <1>3, <1>4 DEF HandleClose

\* Every step of the customers' half alone is one that ServicerSide allows it, or none.
LEMMA CustomersAloneSeen ==
  ASSUME Halves, Joint, CustomersAlone
  PROVE  [SSide!Next]_(SSide!serviceSideVars)
<1>1. Noted /\ Numbered /\ LastWritten /\ Creators
  BY DEF CustomersAlone, Joint
<1>2. CASE \E c \in Customers : StreamStep(c) \/ ReceiverStep(c)
  BY <1>1, <1>2, StreamSeen, ReceiverSeen
<1>3. CASE HandleInstall \/ HandleMessage \/ HandleClose
  BY <1>1, <1>3, HandleInstallSeen, HandleMessageSeen, HandleCloseSeen
<1>4. CASE \/ \E c \in Customers : LoaderStep(c) \/ KickOut(c)
           \/ HandleUninstall \/ RunPosted
  <2>1. UNCHANGED <<talks, talkOf, creates, stream, receiver, requests, chInstallCustomer,
                    chCustomerMessage, customerTodo>>
    BY <1>4 DEF LoaderStep, LoadHistory, SendHistory, KickOut, HandleUninstall, RunPosted,
       streamVars, receiverVars, installVars, requestVars, mdVars
  <2> QED  BY <1>1, <2>1, QuietSeen
<1>5. CASE NotifyCustomers
  <2>1. /\ UNCHANGED <<talks, talkOf, creates, stream, receiver, requests, chInstallCustomer,
                       chCustomerMessage>>
        /\ customerTodo # <<>> /\ customerTodo' = Tail(customerTodo)
        /\ Head(customerTodo).to = "customers"
    BY <1>5 DEF NotifyCustomers, NextCall, streamVars, receiverVars, installVars, requestVars
  <2>2. ToSet(customerTodo) = {Head(customerTodo)} \cup ToSet(customerTodo')
    BY <2>1, HeadOrTail DEF Halves, TypeOK, MainTypeOK
  <2>3. Calls' = Calls
    BY <2>1, <2>2 DEF Calls
  <2>4. Creations' = Creations /\ Writings' = Writings
    BY <2>1, CreationsKept, WritingsKept DEF Announcing
  <2> QED  BY <1>1, <2>1, <2>3, <2>4, StepUnseen DEF Arriving
<1> QED  BY <1>2, <1>3, <1>4, <1>5 DEF CustomersAlone

\* A call of the servicers' observer is the next of the customer's messages, and
\* announced no more.
LEMMA CustomersCallSeen ==
  ASSUME Halves, Joint, CustomersCall
  PROVE  /\ SSide!Next /\ customerTodo' = <<>>
         /\ UNCHANGED <<talks, talkOf, creates, stream, chInstallCustomer, receiver, requests,
                        chCustomerMessage>>
<1> PICK notice : notice = Head(customerTodo).notice
  OBVIOUS
<1> DEFINE call == CallOf(notice)
<1>1. /\ customerTodo # <<>> /\ customerTodo' = Tail(customerTodo)
      /\ Head(customerTodo).to = "servicers"
      /\ UNCHANGED <<talks, talkOf, creates, stream, chInstallCustomer, receiver, requests,
                     chCustomerMessage, reopened, servicerRest>>
      /\ SSide!Post(call)
  BY DEF CustomersCall, NotifyServicers, NextCall, streamVars, installVars, receiverVars,
     requestVars
<1>2. /\ Head(customerTodo) = customerTodo[1] /\ Len(customerTodo) = 1
      /\ ToldInTurn(customerTodo[1])
  <2>1. Len(customerTodo) \in Nat \ {0} /\ 1 \in DOMAIN customerTodo
        /\ Head(customerTodo) = customerTodo[1]
    BY <1>1, TailPlaces DEF Halves, TypeOK, MainTypeOK
  <2> QED  BY <1>1, <2>1 DEF Joint, CallsInTurn
<1>3. customerTodo' = <<>> /\ ToSet(customerTodo) = {Head(customerTodo)}
  <2>1. customerTodo \in Seq(Call)
    BY DEF Halves, TypeOK, MainTypeOK
  <2>2. Tail(customerTodo) = <<>>
    BY <1>1, <1>2, <2>1
  <2>3. \A x : x \notin ToSet(<<>>)
    BY DEF ToSet
  <2> QED  BY <1>1, <2>2, <2>3, HeadOrTail DEF Halves, TypeOK, MainTypeOK
<1>4. Calls = {call} /\ Calls' = {}
  <2>1. {d \in ToSet(customerTodo) : d.to = "servicers"} = {Head(customerTodo)}
    BY <1>1, <1>3
  <2> QED  BY <1>3, <2>1, CallsKept DEF Calls
<1>5. Creations' = Creations /\ Writings' = Writings /\ Written' = Written
  BY <1>1, CreationsKept, WritingsKept, NumbersSame DEF Announcing, Stored
<1>6. /\ call \notin Creations \cup Writings
      /\ call.event = "message" => \A w \in Writings :
            w.message[1] = call.message[1] => call.message[2] < w.message[2]
  <2>1. CASE notice.event = "close"
    BY <2>1 DEF CallOf, Creations, Writings
  <2>2. CASE /\ notice.event = "create"
             /\ \A c \in Customers : Announcing(c) => talkOf[c] # notice.talk
    BY <2>2 DEF CallOf, Creations, Writings
  <2>3. CASE /\ notice.event = "message"
             /\ Past(notice.messages[1]) /\ AllBefore({notice.messages[1]}, Queued)
    <3> PICK m : m = notice.messages[1]
      OBVIOUS
    <3>1. call.event = "message" /\ call.message = m
      BY <2>3 DEF CallOf
    <3>2. ASSUME NEW w \in Writings, w.message[1] = m[1]
          PROVE  m[2] < w.message[2]
      <4>1. CASE w.message \in Queued
        BY <2>3, <3>2, <4>1 DEF AllBefore, Before
      <4>2. CASE \E c \in Customers : receiver[c] = "persisted" /\ w.message = Current(c)
        BY <2>3, <3>2, <4>2 DEF Past, Current
      <4> QED  BY <4>1, <4>2 DEF Writings
    <3>3. m[2] \in Nat
      BY <2>3 DEF Past
    <3>4. call \notin Writings
      <4> HIDE DEF call
      <4> QED  BY <3>1, <3>2, <3>3
    <3>5. call \notin Creations
      <4>1. \A x \in Creations : x.event = "create"
        BY DEF Creations
      <4> HIDE DEF call
      <4> QED  BY <3>1, <4>1
    <3> QED  BY <3>1, <3>2, <3>4, <3>5
  <2> QED  BY <1>2, <2>1, <2>2, <2>3 DEF ToldInTurn
<1>7. Arriving' = Arriving \ {call} /\ call \in Arriving
  BY <1>4, <1>5, <1>6 DEF Arriving
<1>8. SSide!IsNext(call)
  <2> SUFFICES ASSUME call.event = "message", NEW other \in Arriving,
                      other.event = "message", other.message[1] = call.message[1],
                      other.message[2] < call.message[2]
               PROVE  FALSE
    BY <1>7 DEF SSide!IsNext
  <2>1. other \in Writings \cup Calls
    BY DEF Arriving, Creations
  <2>2. call.message[2] \in Nat
    <3>1. call \in SSide!Call
      BY <1>7 DEF Halves, SSide!TypeOK, SSide!OutsideTypeOK
    <3> QED  BY <3>1 DEF SSide!Call, SSide!Message
  <2>3. other \in Writings => call.message[2] < other.message[2]
    BY <1>6
  <2>4. other.message[2] \in Nat
    <3>1. other \in SSide!Call
      BY DEF Halves, SSide!TypeOK, SSide!OutsideTypeOK
    <3> QED  BY <3>1 DEF SSide!Call, SSide!Message
  <2> QED  BY <1>4, <2>1, <2>2, <2>3, <2>4
<1>9. SSide!Arrive(call)
  BY <1>1, <1>5, <1>7, <1>8 DEF servicerRest, SSide!Arrive, SSide!serviceVars,
     SSide!serviceChans, SSide!talkChans, SSide!serviceMain, SSide!serviceOut
<1> QED  BY <1>1, <1>3, <1>7, <1>9 DEF SSide!Next, SSide!CallStep

-----------------------------------------------------------------------------
(* Each half keeps its invariants in company of the other. *)

\* Every step of the one process is one of ServicerSide, or none.
LEMMA AllSeen ==
  ASSUME Halves, Joint, [AllNext]_allVars
  PROVE  [SSide!Next]_(SSide!serviceSideVars)
<1>1. CASE UNCHANGED allVars
  <2>1. /\ UNCHANGED <<talks, servicerRest, servicerRunner, unheard, misled, outpaced,
                       unlisted, early, reopened>>
        /\ UNCHANGED <<talkOf, creates, stream, receiver, requests, chInstallCustomer,
                       chCustomerMessage, customerTodo>>
    BY <1>1 DEF allVars, customerRest
  <2>2. Creations' = Creations /\ Writings' = Writings /\ Calls' = Calls
    BY <2>1, CreationsKept, WritingsKept, CallsKept DEF Announcing
  <2>3. Written' = Written
    BY <2>1, NumbersSame DEF Stored
  <2> QED
    BY <2>1, <2>2, <2>3 DEF Arriving, servicerRest, SSide!serviceSideVars,
       SSide!servicerVars, SSide!serviceVars, SSide!serviceChans, SSide!talkChans,
       SSide!serviceMain, SSide!serviceOut, SSide!outsideVars, SSide!lossVars,
       SSide!restOfLoss
<1>2. CASE AllNext
  BY <1>2, CustomersAloneSeen, CustomersCallSeen, ServicersStep DEF AllNext
<1> QED  BY <1>1, <1>2

\* So the servicers' half keeps its invariants.
LEMMA ServicersHalfKept ==
  ASSUME Halves, Joint, [AllNext]_allVars
  PROVE  SSide!TypeOK' /\ SSide!Pipeline' /\ StoreTypeOK'
<1>1. SSide!TypeOK' /\ SSide!Pipeline'
  BY AllSeen, ServicersAssumed, SSide!StepTyped, SSide!StepKept DEF Halves
<1>2. SSide!StoreTypeOK' <=> StoreTypeOK'
  BY SameStore, PTL
<1> QED  BY <1>1, <1>2 DEF SSide!TypeOK

\* The customers' half keeps its own in its own steps, and nobody misses more.
LEMMA CustomersKeepHalves ==
  ASSUME Halves, Joint, CustomersAlone \/ CustomersCall
  PROVE  Halves' /\ NoneMissedMore
<1>1. Next /\ TypeOK /\ Pipeline /\ Registry /\ HasTalk /\ Orderly /\ OneTalk
  BY CustomersStep DEF Halves, Joint, Registry
<1>2. TypeOK' /\ Pipeline' /\ Registry'
  BY <1>1, StepTyped, StepKept, StepRegistry
<1>3. Orderly' /\ NoneMissedMore
  BY <1>1, <1>2, StepOrderly
<1> QED  BY <1>2, <1>3, ServicersHalfKept DEF Halves, AllNext

\* What the servicers' half tells the customers' observer.
LEMMA ServicersSay ==
  ASSUME Halves, Joint, ServicersCall
  PROVE  \E t, m : LET notice == [event |-> "message", talk |-> t, messages |-> <<m>>] IN
           /\ Post(notice) /\ notice \in CustomerNotice /\ m \in Stored(t)
           /\ \A u : SSide!Elsewhere(u) \subseteq SSide!Elsewhere(u)' \cup {m}
           /\ SSide!OnlyRelays'
<1> PICK call : call = Head(servicerTodo).call
  OBVIOUS
<1> DEFINE t == call.talk
           m == call.message
           notice == [event |-> "message", talk |-> t, messages |-> <<m>>]
<1>1. Post(notice) /\ SSide!TellCustomers
  BY DEF ServicersCall
<1>2. /\ call.talk \in DOMAIN talks /\ call.message \in SSide!Stored(call.talk)
      /\ \A u : SSide!Elsewhere(u) \subseteq SSide!Elsewhere(u)' \cup {call.message}
      /\ SSide!OnlyRelays'
  BY <1>1, ServicersAssumed, SSide!ServicersTell DEF Halves, Joint
<1>3. m \in Stored(t) /\ t \in Talks /\ m \in Message
  BY <1>2, SameStore, StoredHasTalk DEF Halves, TypeOK, StoreTypeOK, Stored, TalkInfo, ToSet
<1>4. <<m>> \in Seq(Message)
  BY <1>3
<1>5. notice \in CustomerNotice
  BY <1>3, <1>4 DEF CustomerNotice
<1> QED  BY <1>1, <1>2, <1>3, <1>5

\* The servicers' half adds at most one message to the store.
LEMMA ServicersStored ==
  ASSUME Halves, ServicersAlone \/ ServicersCall
  PROVE  /\ DOMAIN talks' = DOMAIN talks
         /\ \A s \in Servicers : serviceRequests[s] <= serviceRequests'[s]
         /\ \/ \A u : Stored(u)' = Stored(u)
            \/ \E s \in Servicers, t \in DOMAIN talks :
                 /\ serviceRequests'[s] = serviceRequests[s] + 1
                 /\ Stored(t)' = Stored(t) \cup {<<s, serviceRequests'[s]>>}
                 /\ \A u : u # t => Stored(u)' = Stored(u)
<1>1. \A t : SSide!Stored(t) = Stored(t) /\ SSide!Stored(t)' = Stored(t)'
  BY DEF SSide!Stored, Stored, SSide!ToSet, ToSet
<1>2. SSide!ServicersStep \/ SSide!TellCustomers
  BY ServicersStep
<1>3. /\ DOMAIN talks' = DOMAIN talks
      /\ \A s \in Servicers : serviceRequests[s] <= serviceRequests'[s]
      /\ \/ \A u : SSide!Stored(u)' = SSide!Stored(u)
         \/ \E s \in Servicers, t \in DOMAIN talks :
              /\ serviceRequests'[s] = serviceRequests[s] + 1
              /\ SSide!Stored(t)' = SSide!Stored(t) \cup {<<s, serviceRequests'[s]>>}
              /\ \A u : u # t => SSide!Stored(u)' = SSide!Stored(u)
  BY <1>2, ServicersAssumed, SSide!ServicersStore DEF Halves
<1> QED  BY <1>1, <1>3

\* In the servicers' steps the customers' half keeps its invariants.
LEMMA ServicersKeepHalves ==
  ASSUME Halves, Joint, ServicersAlone \/ ServicersCall
  PROVE  Halves'
<1>1. SSide!TypeOK' /\ SSide!Pipeline' /\ StoreTypeOK'
  BY ServicersHalfKept DEF AllNext
<1>2. /\ UNCHANGED <<streamVars, receiverVars, installVars, requestVars, mdVars, loaderVars,
                     chSendMessage, inbox, overtaken, kickLost>>
      /\ \/ UNCHANGED <<customerRunner, dropped>>
         \/ ServicersCall
  BY ServicersStep DEF customerRest, streamVars, receiverVars, installVars, requestVars,
     mdVars, loaderVars, ServicersAlone
<1>3. \A u : Stored(u) \subseteq Stored(u)'
  BY ServicersStored
<1>4. TypeOK /\ Pipeline /\ Registry /\ Orderly
  BY DEF Halves
<1>5. /\ ChannelTypeOK' /\ dropped' \subseteq CustomerNotice
      /\ PostedIsStored' /\ OnlyMessages(ToSet(customerRunner))'
  <2>1. CASE UNCHANGED <<customerRunner, dropped>>
    <3>1. ChannelTypeOK' /\ dropped' \subseteq CustomerNotice
      BY <1>2, <1>4, <2>1, TypeKept DEF TypeOK, GhostTypeOK
    <3> QED
      BY <1>2, <1>3, <1>4, <2>1, <3>1, PipelineKept, OrderlyKept DEF streamVars, Orderly
  <2>2. CASE ServicersCall
    <3>1. PICK t, m : LET notice == [event |-> "message", talk |-> t, messages |-> <<m>>] IN
            Post(notice) /\ notice \in CustomerNotice /\ m \in Stored(t)
      BY <2>2, ServicersSay
    <3> DEFINE notice == [event |-> "message", talk |-> t, messages |-> <<m>>]
    <3>2. notice.event = "message" /\ ToSet(notice.messages) \subseteq Stored(notice.talk)'
      BY <1>3, <3>1 DEF ToSet
    <3>3. Post(notice) /\ notice \in CustomerNotice
      BY <3>1
    <3> HIDE DEF notice
    <3>4. /\ HasRoom(customerRunner, MaxMessageCache) =>
               /\ Append(customerRunner, notice) \in Seq(CustomerNotice)
               /\ Len(Append(customerRunner, notice)) <= MaxMessageCache
          /\ customerRunner \in Seq(CustomerNotice)
          /\ dropped \subseteq CustomerNotice
      BY <1>4, <3>3, RunnerTyped DEF TypeOK, ChannelTypeOK, GhostTypeOK
    <3>5. /\ customerRunner' \in Seq(CustomerNotice) /\ Len(customerRunner') <= MaxMessageCache
          /\ dropped' \subseteq CustomerNotice
          /\ ToSet(customerRunner') \subseteq ToSet(customerRunner) \cup {notice}
      <4>1. CASE HasRoom(customerRunner, MaxMessageCache)
        BY <3>3, <3>4, <4>1, AppendToSet DEF Post
      <4>2. CASE ~HasRoom(customerRunner, MaxMessageCache)
        BY <1>4, <3>3, <3>4, <4>2 DEF Post, TypeOK, ChannelTypeOK
      <4> QED  BY <4>1, <4>2
    <3>6. ChannelTypeOK'
      BY <1>2, <1>4, <3>5 DEF TypeOK, ChannelTypeOK, installVars, requestVars
    <3>7. PostedIsStored'
      BY <1>3, <1>4, <3>2, <3>5 DEF Pipeline, PostedIsStored, NoticesStored
    <3>8. OnlyMessages(ToSet(customerRunner))'
      BY <1>4, <3>2, <3>5 DEF Orderly, OnlyMessages
    <3> QED  BY <3>5, <3>6, <3>7, <3>8
  <2> QED  BY <1>2, <2>1, <2>2
<1>6. TypeOK'
  BY <1>1, <1>2, <1>4, <1>5, TypeKept DEF TypeOK, GhostTypeOK
<1>7. Pipeline'
  BY <1>2, <1>3, <1>4, <1>5, PipelineKept DEF Pipeline, streamVars, receiverVars,
     requestVars, mdVars, loaderVars
<1>8. Registry'
  BY <1>2, <1>4, RegistryKept DEF streamVars, installVars, mdVars, KickedOut
<1>9. Orderly'
  BY <1>2, <1>4, <1>5, OrderlyKept DEF Orderly, streamVars, receiverVars, loaderVars,
     installVars, mdVars
<1> QED  BY <1>1, <1>6, <1>7, <1>8, <1>9 DEF Halves

-----------------------------------------------------------------------------
(* Joint is kept by the steps of the servicers' half. *)

\* A message is stored with a number that was not in use.
LEMMA StoredOnce ==
  ASSUME OneTalk, NEW t, NEW m, \A u : m \notin Stored(u),
         Stored(t)' = Stored(t) \cup {m}, \A u : u # t => Stored(u)' = Stored(u)
  PROVE  OneTalk'
<1> SUFFICES ASSUME NEW u \in DOMAIN talks', NEW v \in DOMAIN talks', NEW n,
                    n \in Stored(u)', n \in Stored(v)'
             PROVE  u = v
  BY DEF OneTalk
<1>1. CASE n = m
  BY <1>1
<1>2. CASE n # m
  <2>1. n \in Stored(u) /\ n \in Stored(v)
    BY <1>2
  <2>2. u \in DOMAIN talks /\ v \in DOMAIN talks
    BY <2>1 DEF Stored
  <2> QED  BY <2>1, <2>2 DEF OneTalk
<1> QED  BY <1>1, <1>2

\* A step that stores nothing stores nothing twice.
LEMMA StoreSame ==
  ASSUME \A u : Stored(u)' = Stored(u)
  PROVE  OneTalk => OneTalk'
<1> SUFFICES ASSUME OneTalk, NEW u \in DOMAIN talks', NEW v \in DOMAIN talks', NEW n,
                    n \in Stored(u)', n \in Stored(v)'
             PROVE  u = v
  BY DEF OneTalk
<1>1. n \in Stored(u) /\ n \in Stored(v)
  OBVIOUS
<1>2. u \in DOMAIN talks /\ v \in DOMAIN talks
  BY <1>1 DEF Stored
<1> QED  BY <1>1, <1>2 DEF OneTalk

\* The servicers number their messages as the customers do.
LEMMA ServicersStoreJoint ==
  ASSUME Halves, Joint, ServicersAlone \/ ServicersCall
  PROVE  Numbered' /\ OneTalk' /\ LastWritten'
<1>1. /\ UNCHANGED <<talkOf, requests>> /\ DOMAIN talks' = DOMAIN talks
      /\ serviceRequests \in [Servicers -> Nat] /\ serviceRequests' \in [Servicers -> Nat]
      /\ \A s \in Servicers : serviceRequests[s] <= serviceRequests'[s]
  BY ServicersStep, ServicersStored, ServicersKeepHalves DEF customerRest, Halves,
     SSide!TypeOK, SSide!ServiceTypeOK
<1>2. Numbered /\ OneTalk /\ LastWritten
  BY DEF Joint
<1>3. \A t \in DOMAIN talks : \A m \in Stored(t) :
        \/ m[1] \in Customers /\ talkOf'[m[1]] = t /\ m[2] <= requests'[m[1]]
        \/ m[1] \in Servicers /\ m[2] <= serviceRequests'[m[1]]
  <2> SUFFICES ASSUME NEW t \in DOMAIN talks, NEW m \in Stored(t), m[1] \in Servicers,
                      m[2] <= serviceRequests[m[1]]
               PROVE  m[2] <= serviceRequests'[m[1]]
    BY <1>1, <1>2 DEF Numbered
  <2>1. m \in Message
    BY DEF Halves, TypeOK, StoreTypeOK, TalkInfo, Stored, ToSet
  <2> QED  BY <1>1, <2>1 DEF Message
<1>4. CASE \A u : Stored(u)' = Stored(u)
  <2>1. Numbered'
    BY <1>1, <1>3, <1>4 DEF Numbered
  <2> QED  BY <1>2, <1>4, <2>1, StoreSame, NumbersSame
<1>5. CASE \E s \in Servicers, t \in DOMAIN talks :
              /\ serviceRequests'[s] = serviceRequests[s] + 1
              /\ Stored(t)' = Stored(t) \cup {<<s, serviceRequests'[s]>>}
              /\ \A u : u # t => Stored(u)' = Stored(u)
  <2>1. PICK s \in Servicers, t \in DOMAIN talks :
              /\ serviceRequests'[s] = serviceRequests[s] + 1
              /\ Stored(t)' = Stored(t) \cup {<<s, serviceRequests'[s]>>}
              /\ \A u : u # t => Stored(u)' = Stored(u)
    BY <1>5
  <2> PICK n : n = serviceRequests'[s]
    OBVIOUS
  <2>2. s \notin Customers /\ n \in Nat /\ <<s, n>>[1] = s /\ <<s, n>>[2] = n
    BY <1>1, AllInOneAssumption
  <2>3. \A u : <<s, n>> \notin Stored(u)
    <3> SUFFICES ASSUME NEW u, <<s, n>> \in Stored(u)  PROVE FALSE
      OBVIOUS
    <3>1. u \in DOMAIN talks
      BY DEF Stored
    <3>2. n <= serviceRequests[s]
      BY <1>2, <2>2, <3>1 DEF Numbered
    <3> QED  BY <1>1, <2>1, <3>2
  <2>4. Numbered'
    <3> SUFFICES ASSUME NEW u \in DOMAIN talks, NEW m \in Stored(u)'
                 PROVE  \/ m[1] \in Customers /\ talkOf'[m[1]] = u /\ m[2] <= requests'[m[1]]
                        \/ m[1] \in Servicers /\ m[2] <= serviceRequests'[m[1]]
      BY <1>1 DEF Numbered
    <3>1. CASE m = <<s, n>>
      BY <1>1, <2>2, <3>1
    <3>2. CASE m \in Stored(u)
      BY <1>3, <3>2
    <3> QED  BY <2>1, <3>1, <3>2
  <2>5. OneTalk'
    BY <1>2, <2>1, <2>3, StoredOnce
  <2>6. \A c \in Customers : NumbersOf(c)' = NumbersOf(c)
    BY <2>1, <2>2, NumbersMore
  <2>7. LastWritten'
    BY <1>2, <2>6 DEF LastWritten
  <2> QED  BY <2>4, <2>5, <2>7
<1> QED  BY <1>4, <1>5, ServicersStored

\* What a servicer writes and no customer has heard stays with the servicers' half
\* until their main routine hands it over.
LEMMA ServicersMissed ==
  ASSUME Halves, Joint, ServicersAlone \/ ServicersCall
  PROVE  MissedIsComing' /\ SSide!OnlyRelays'
<1>1. /\ UNCHANGED <<stream, talkOf, receiver, requests, customers, loader, history, inbox,
                     chSendMessage, chCustomerMessage, customerTodo>>
      /\ MissedIsComing /\ SSide!OnlyRelays
  BY ServicersStep DEF customerRest, Joint
<1>2. \A c \in Customers : (Listening(c)' <=> Listening(c)) /\ Known(c)' = Known(c)
  BY <1>1 DEF Listening, Known, Heard, Told, MessagesIn
<1>3. \A t : SSide!Stored(t) = Stored(t) /\ SSide!Stored(t)' = Stored(t)'
  BY DEF SSide!Stored, Stored, SSide!ToSet, ToSet
<1>4. CASE ServicersAlone
  <2>1. SSide!ServicersStep /\ UNCHANGED <<customerRunner, dropped>>
    BY <1>4 DEF ServicersAlone, SSide!ServicersStep
  <2>2. /\ \A t : SSide!Elsewhere(t) \subseteq SSide!Elsewhere(t)'
        /\ \A t : SSide!Stored(t)' \subseteq SSide!Stored(t) \cup SSide!Elsewhere(t)'
        /\ SSide!OnlyRelays'
    BY <1>1, <2>1, ServicersAssumed, SSide!ServicersOwe DEF Halves
  <2>3. Underway' = Underway
    BY <1>1, <2>1, UnderwayKept
  <2>4. ASSUME NEW c \in Customers
        PROVE  Missed(c)' \subseteq SSide!Elsewhere(talkOf[c])'
    <3> PICK t : t = talkOf[c]
      OBVIOUS
    <3>1. Missed(c)' \subseteq Missed(c) \cup SSide!Elsewhere(t)'
      BY <1>1, <1>2, <1>3, <2>2, <2>3 DEF Missed
    <3>2. Missed(c) \subseteq SSide!Elsewhere(t)
      BY <1>1 DEF MissedIsComing
    <3> QED  BY <1>1, <2>2, <3>1, <3>2
  <2> QED  BY <2>2, <2>4 DEF MissedIsComing
<1>5. CASE ServicersCall
  <2>1. PICK t, m : LET notice == [event |-> "message", talk |-> t, messages |-> <<m>>] IN
           /\ Post(notice) /\ notice \in CustomerNotice /\ m \in Stored(t)
           /\ \A u : SSide!Elsewhere(u) \subseteq SSide!Elsewhere(u)' \cup {m}
           /\ SSide!OnlyRelays'
    BY <1>5, ServicersSay
  <2> DEFINE notice == [event |-> "message", talk |-> t, messages |-> <<m>>]
  <2>2. UNCHANGED talks
    BY <1>5 DEF ServicersCall, SSide!TellCustomers
  <2>3. Underway \cup {m} \subseteq Underway'
    <3>1. /\ \/ ToSet(customerRunner') = ToSet(customerRunner) \cup {notice}
             \/ UNCHANGED customerRunner
          /\ ToSet(customerRunner) \cup {notice} \cup dropped
               \subseteq ToSet(customerRunner') \cup dropped'
          /\ dropped \subseteq dropped'
      <4>1. customerRunner \in Seq(CustomerNotice)
        BY DEF Halves, TypeOK, ChannelTypeOK
      <4>2. Post(notice)
        BY <2>1
      <4> HIDE DEF notice
      <4>3. CASE HasRoom(customerRunner, MaxMessageCache)
        BY <4>1, <4>2, <4>3, AppendToSet DEF Post
      <4>4. CASE ~HasRoom(customerRunner, MaxMessageCache)
        BY <4>2, <4>4 DEF Post
      <4> QED  BY <4>3, <4>4
    <3>2. m \in ToSet(notice.messages)
      BY DEF ToSet
    <3> HIDE DEF notice
    <3> DEFINE A == {Current(c) : c \in {d \in Customers : receiver[d] = "persisted"}}
                      \cup ToSet(chCustomerMessage)
                      \cup MessagesIn({call.notice : call \in
                                       {d \in ToSet(customerTodo) : d.to = "customers"}})
    <3>3. A' = A
      BY <1>1 DEF Current, MessagesIn
    <3>4. /\ Underway = A \cup MessagesIn(ToSet(customerRunner)) \cup MessagesIn(dropped)
          /\ Underway' = A' \cup MessagesIn(ToSet(customerRunner')) \cup MessagesIn(dropped')
      BY DEF Underway, InFlight, DroppedMessages, MessagesIn
    <3> HIDE DEF A
    <3>5. MessagesIn(ToSet(customerRunner)) \cup MessagesIn(dropped) \cup {m}
            \subseteq MessagesIn(ToSet(customerRunner')) \cup MessagesIn(dropped')
      BY <3>1, <3>2 DEF MessagesIn
    <3> QED  BY <3>3, <3>4, <3>5
  <2>4. ASSUME NEW c \in Customers
        PROVE  Missed(c)' \subseteq SSide!Elsewhere(talkOf[c])'
    <3> PICK u : u = talkOf[c]
      OBVIOUS
    <3>1. Missed(c)' \subseteq Missed(c) \ {m}
      BY <1>1, <1>2, <2>2, <2>3 DEF Missed, Stored
    <3>2. Missed(c) \subseteq SSide!Elsewhere(u)
      BY <1>1 DEF MissedIsComing
    <3> QED  BY <1>1, <2>1, <3>1, <3>2
  <2> QED  BY <2>1, <2>4 DEF MissedIsComing
<1> QED  BY <1>4, <1>5

\* The servicers' steps keep what relates the halves.
LEMMA ServicersKeepJoint ==
  ASSUME Halves, Joint, ServicersAlone \/ ServicersCall
  PROVE  Joint'
<1>1. /\ UNCHANGED <<stream, talkOf, creates, receiver, requests, chInstallCustomer,
                     chCustomerMessage, customerTodo>>
      /\ DOMAIN talks' = DOMAIN talks
      /\ Creators /\ InTurn /\ CallsInTurn
  BY ServicersStep, ServicersStored DEF customerRest, Joint
<1>2. Creators'
  BY <1>1 DEF Creators
<1>3. InTurn'
  BY <1>1 DEF InTurn, QueueOrdered, Queued, Past
<1>4. CallsInTurn'
  BY <1>1 DEF CallsInTurn, ToldInTurn, Announcing, Past, Queued
<1> QED  BY <1>2, <1>3, <1>4, ServicersStoreJoint, ServicersMissed DEF Joint

-----------------------------------------------------------------------------
(* ... and by the steps of the customers' half. *)

\* The requests of a stream are counted upwards.
LEMMA RequestsGrow ==
  ASSUME TypeOK, [Next]_vars
  PROVE  \A c \in Customers : requests[c] <= requests'[c]
<1>1. requests \in [Customers -> Nat]
  BY DEF TypeOK, StreamTypeOK
<1>2. ASSUME NEW c \in Customers, ReceiverStep(c)
      PROVE  requests' = [requests EXCEPT ![c] = @ + 1] \/ UNCHANGED requests
  BY <1>2 DEF ReceiverStep, ReceiveMessage, ReceiveMessageFails, CustomerMessageIncoming,
     ReceiveClose, ReceiveFails, CountRequest
<1>3. CASE \/ \E c \in Customers : StreamStep(c) \/ LoaderStep(c)
           \/ MainStep
  <2>1. UNCHANGED requests
    BY <1>3 DEF StreamStep, TalkStartCreate, TalkStartOpen, Start, TalkStartRefused,
       InstallCustomer, StreamSend, StreamBroken, StreamTerminal, UninstallCustomer,
       LoaderStep, LoadHistory, SendHistory, MainStep, HandleInstall, HandleUninstall,
       HandleMessage, HandleClose, RunPosted, NotifyCustomers, NotifyServicers, KickOut,
       receiverVars
  <2> QED  BY <1>1, <2>1
<1>4. CASE UNCHANGED vars
  BY <1>1, <1>4 DEF vars, customerVars, receiverVars
<1> QED  BY <1>1, <1>2, <1>3, <1>4 DEF Next

\* The customers number their messages, each in his own talk.
LEMMA CustomersStoreJoint ==
  ASSUME Halves, Joint, CustomersAlone \/ CustomersCall
  PROVE  Numbered' /\ OneTalk' /\ LastWritten'
<1>1. /\ Next /\ TypeOK /\ TypeOK' /\ Pipeline /\ IdleHasNoTalk
      /\ Numbered /\ OneTalk /\ LastWritten /\ UNCHANGED serviceRequests
  BY CustomersStep, CustomersKeepHalves DEF Halves, Joint, Pipeline, servicerRest
<1>2. /\ \A c \in Customers : requests[c] <= requests'[c]
      /\ requests \in [Customers -> Nat] /\ requests' \in [Customers -> Nat]
  BY <1>1, RequestsGrow DEF TypeOK, StreamTypeOK
<1>3. \A t \in DOMAIN talks : \A m \in Stored(t) :
        m[1] \in Customers => talkOf'[m[1]] = talkOf[m[1]]
  <2>1. CASE \E c \in Customers, t \in Talks : TalkStartCreate(c, t) \/ TalkStartOpen(c, t)
    <3>1. PICK c \in Customers, t \in Talks : TalkStartCreate(c, t) \/ TalkStartOpen(c, t)
      BY <2>1
    <3>2. talkOf[c] = NoTalk /\ talkOf' = [talkOf EXCEPT ![c] = t]
      BY <1>1, <3>1 DEF TalkStartCreate, TalkStartOpen, Start, IdleHasNoTalk
    <3>3. \A d \in Customers : talkOf[d] \in Talks => talkOf'[d] = talkOf[d]
      BY <1>1, <3>2, CustomerAssumption DEF TypeOK, StreamTypeOK
    <3> QED  BY <1>1, <3>3, AllInOneAssumption DEF Numbered, TypeOK, StoreTypeOK
  <2>2. CASE UNCHANGED talkOf
    BY <2>2
  <2> QED  BY <1>1, <2>1, <2>2, WhoStarts
<1>4. \A t \in DOMAIN talks : \A m \in Stored(t) :
        \/ m[1] \in Customers /\ talkOf'[m[1]] = t /\ m[2] <= requests'[m[1]]
        \/ m[1] \in Servicers /\ m[2] <= serviceRequests'[m[1]]
  <2> SUFFICES ASSUME NEW t \in DOMAIN talks, NEW m \in Stored(t), m[1] \in Customers,
                      talkOf[m[1]] = t, m[2] <= requests[m[1]]
               PROVE  talkOf'[m[1]] = t /\ m[2] <= requests'[m[1]]
    BY <1>1 DEF Numbered
  <2>1. m \in Message
    BY <1>1 DEF TypeOK, StoreTypeOK, TalkInfo, Stored, ToSet
  <2> QED  BY <1>2, <1>3, <2>1 DEF Message
<1>5. CASE \A u : Stored(u)' = Stored(u)
  <2>1. \A u : \A m \in Stored(u) : u \in DOMAIN talks
    BY DEF Stored
  <2>2. Numbered'
    BY <1>4, <1>5, <2>1 DEF Numbered
  <2> QED  BY <1>1, <1>5, <2>2, StoreSame, NumbersSame
<1>6. ASSUME NEW c \in Customers, ReceiveMessage(c)
      PROVE  Numbered' /\ OneTalk' /\ LastWritten'
  <2> PICK n : n = requests[c] + 1
    OBVIOUS
  <2> PICK t : t = talkOf[c]
    OBVIOUS
  <2>1. /\ t \in DOMAIN talks /\ requests'[c] = n /\ n \in Nat
        /\ Stored(t)' = Stored(t) \cup {<<c, n>>}
        /\ \A u : u # t => Stored(u)' = Stored(u)
        /\ \A u : <<c, n>> \notin Stored(u)
        /\ LastWritten' /\ talkOf'[c] = t
    <3>1. UNCHANGED talkOf
      BY <1>6 DEF ReceiveMessage, streamVars
    <3> QED  BY <1>1, <1>2, <1>6, <3>1, WritesNext
  <2>2. OneTalk'
    BY <1>1, <2>1, StoredOnce
  <2>3. Numbered'
    <3> SUFFICES ASSUME NEW u \in DOMAIN talks', NEW m \in Stored(u)'
                 PROVE  \/ m[1] \in Customers /\ talkOf'[m[1]] = u /\ m[2] <= requests'[m[1]]
                        \/ m[1] \in Servicers /\ m[2] <= serviceRequests'[m[1]]
      BY DEF Numbered
    <3>1. CASE m = <<c, n>>
      <4>1. u = t
        BY <2>1, <3>1
      <4>2. m[1] = c /\ m[2] = n
        BY <3>1
      <4> QED  BY <2>1, <4>1, <4>2
    <3>2. CASE m \in Stored(u)
      <4>1. u \in DOMAIN talks
        BY <3>2 DEF Stored
      <4> QED  BY <1>4, <3>2, <4>1
    <3> QED  BY <2>1, <3>1, <3>2
  <2> QED  BY <2>1, <2>2, <2>3
<1> QED  BY <1>1, <1>5, <1>6, WhoStores

\* Who waits for his installation.
LEMMA WhoInstalls ==
  ASSUME [Next]_vars
  PROVE  \/ UNCHANGED chInstallCustomer
         \/ \E c \in Customers : /\ stream[c] = "started"
                                 /\ chInstallCustomer' = Append(chInstallCustomer, c)
         \/ /\ chInstallCustomer # <<>>
            /\ chInstallCustomer' = Tail(chInstallCustomer)
<1>1. CASE \E c \in Customers : StreamStep(c)
  BY <1>1 DEF StreamStep, TalkStartCreate, TalkStartOpen, Start, TalkStartRefused,
     InstallCustomer, StreamSend, StreamBroken, StreamTerminal, UninstallCustomer, installVars
<1>2. CASE \/ \E c \in Customers : ReceiverStep(c) \/ LoaderStep(c)
           \/ MainStep
  BY <1>2 DEF ReceiverStep, ReceiveMessage, ReceiveMessageFails, CustomerMessageIncoming,
     ReceiveClose, ReceiveFails, LoaderStep, LoadHistory, SendHistory, MainStep,
     HandleInstall, HandleUninstall, HandleMessage, HandleClose, RunPosted,
     NotifyCustomers, NotifyServicers, KickOut, installVars
<1>3. CASE UNCHANGED vars
  BY <1>3 DEF vars, customerVars, installVars
<1> QED  BY <1>1, <1>2, <1>3 DEF Next

\* A talk keeps the one who created it.
LEMMA CustomersCreators ==
  ASSUME Halves, Joint, CustomersAlone \/ CustomersCall
  PROVE  Creators'
<1>1. /\ Next /\ TypeOK /\ Creators /\ chInstallCustomer \in Seq(Customers)
      /\ DOMAIN talks \subseteq DOMAIN talks'
  <2>1. [SSide!Next]_(SSide!serviceSideVars)
    BY AllSeen DEF AllNext
  <2>2. DOMAIN talks \subseteq DOMAIN talks'
    BY <2>1, ServicersAssumed, SSide!StoreOnlyGrows DEF Halves
  <2> QED  BY <2>2, CustomersStep DEF Halves, Joint, TypeOK, ChannelTypeOK
<1>2. /\ \A c \in Customers : creates'[c] => talkOf'[c] \in DOMAIN talks'
      /\ \A c, d \in Customers :
           creates'[c] /\ creates'[d] /\ talkOf'[c] = talkOf'[d] => c = d
  <2>1. CASE UNCHANGED <<talkOf, creates>>
    BY <1>1, <2>1 DEF Creators
  <2>2. ASSUME NEW c \in Customers, NEW t \in Talks, TalkStartCreate(c, t) \/ TalkStartOpen(c, t)
        PROVE  /\ \A e \in Customers : creates'[e] => talkOf'[e] \in DOMAIN talks'
               /\ \A e, d \in Customers :
                    creates'[e] /\ creates'[d] /\ talkOf'[e] = talkOf'[d] => e = d
    <3>1. /\ talkOf' = [talkOf EXCEPT ![c] = t]
          /\ \/ /\ creates' = [creates EXCEPT ![c] = TRUE]
                /\ t \notin DOMAIN talks /\ t \in DOMAIN talks'
             \/ creates' = [creates EXCEPT ![c] = FALSE]
      BY <2>2 DEF TalkStartCreate, TalkStartOpen, Start, CreateTalk
    <3>2. creates \in [Customers -> BOOLEAN] /\ talkOf \in [Customers -> Talks \cup {NoTalk}]
      BY <1>1 DEF TypeOK, StreamTypeOK
    <3> QED  BY <1>1, <3>1, <3>2 DEF Creators
  <2> QED  BY <1>1, <2>1, <2>2, WhoStarts
<1>3. \A i, j \in DOMAIN chInstallCustomer' :
        chInstallCustomer'[i] = chInstallCustomer'[j] => i = j
  <2>1. CASE UNCHANGED chInstallCustomer
    BY <1>1, <2>1 DEF Creators
  <2>2. ASSUME NEW c \in Customers, stream[c] = "started",
               chInstallCustomer' = Append(chInstallCustomer, c)
        PROVE  \A i, j \in DOMAIN chInstallCustomer' :
                 chInstallCustomer'[i] = chInstallCustomer'[j] => i = j
    <3>1. c \notin ToSet(chInstallCustomer)
      BY <2>2 DEF Halves, Orderly, NotYetServed
    <3>2. \A i \in DOMAIN chInstallCustomer : chInstallCustomer[i] # c
      BY <3>1 DEF ToSet
    <3> QED  BY <1>1, <2>2, <3>2, AppendPlaces DEF Creators
  <2>3. CASE chInstallCustomer # <<>> /\ chInstallCustomer' = Tail(chInstallCustomer)
    BY <1>1, <2>3, TailPlaces DEF Creators
  <2> QED  BY <1>1, <2>1, <2>2, <2>3, WhoInstalls
<1> QED  BY <1>2, <1>3 DEF Creators

\* The customers' steps leave nobody with a new gap.
LEMMA CustomersMissed ==
  ASSUME Halves, Joint, CustomersAlone \/ CustomersCall
  PROVE  MissedIsComing' /\ SSide!OnlyRelays'
<1>1. /\ Next /\ UNCHANGED servicerRest /\ unheard \subseteq unheard'
      /\ MissedIsComing /\ SSide!OnlyRelays /\ NoneMissedMore
  BY CustomersStep, CustomersKeepHalves DEF CustomersAlone, CustomersCall, Noted,
     SSide!Post, Joint
<1>2. /\ \A t : SSide!Elsewhere(t) \subseteq SSide!Elsewhere(t)'
      /\ SSide!OnlyRelays'
  BY <1>1 DEF servicerRest, SSide!Elsewhere, SSide!ForCustomers, SSide!InHand,
     SSide!Queued, SSide!Withheld, SSide!OnlyRelays
<1>3. ASSUME NEW c \in Customers
      PROVE  Missed(c)' \subseteq SSide!Elsewhere(talkOf[c])'
  <2> PICK t : t = talkOf[c]
    OBVIOUS
  <2>1. Missed(c) \subseteq SSide!Elsewhere(t) /\ Missed(c)' \subseteq Missed(c)
    BY <1>1 DEF MissedIsComing, NoneMissedMore
  <2>2. CASE talkOf'[c] = talkOf[c]
    BY <1>2, <2>1, <2>2
  <2>3. CASE talkOf'[c] # talkOf[c]
    <3>1. stream[c] = "idle"
      BY <1>1, <2>3, WhoStarts DEF TalkStartCreate, TalkStartOpen, Start, Halves, TypeOK,
         StreamTypeOK
    <3>2. Missed(c) = {}
      BY <3>1 DEF Missed, Listening
    <3> QED  BY <2>1, <3>2
  <2> QED  BY <2>2, <2>3
<1> QED  BY <1>2, <1>3 DEF MissedIsComing

\* What is to be told stays in its turn.
LEMMA TurnKept ==
  ASSUME Halves, Joint, CustomersAlone \/ CustomersCall,
         NEW call \in Calls, NEW told, told.to = "servicers", call = CallOf(told.notice),
         ToldInTurn(told)
  PROVE  ToldInTurn(told)'
<1>1. Next /\ TypeOK /\ InTurn
  BY CustomersStep DEF Halves, Joint
<1>2. CASE told.notice.event = "close"
  BY <1>2 DEF ToldInTurn
<1>3. CASE told.notice.event = "create"
  <2> PICK t : t = told.notice.talk
    OBVIOUS
  <2>1. t \in DOMAIN talks
    <3>1. call \in Arriving /\ call.talk = t
      BY <1>3 DEF Arriving, CallOf
    <3> QED  BY <3>1 DEF Halves, SSide!Pipeline, SSide!CallsStored, SSide!CallStored
  <2>2. \A c \in Customers : Announcing(c) => talkOf[c] # t
    BY <1>3 DEF ToldInTurn
  <2>3. ASSUME NEW c \in Customers, Announcing(c)'
        PROVE  talkOf'[c] # t
    <3>1. CASE UNCHANGED <<talkOf, creates>>
      <4>1. Announcing(c)
        <5>1. c \in ToSet(chInstallCustomer') =>
                c \in ToSet(chInstallCustomer) \/ stream[c] = "started"
          <6>1. chInstallCustomer \in Seq(Customers)
            BY <1>1 DEF TypeOK, ChannelTypeOK
          <6>2. ASSUME NEW d \in Customers, stream[d] = "started",
                       chInstallCustomer' = Append(chInstallCustomer, d)
                PROVE  c \in ToSet(chInstallCustomer') =>
                         c \in ToSet(chInstallCustomer) \/ stream[c] = "started"
            <7>1. ToSet(chInstallCustomer') = ToSet(chInstallCustomer) \cup {d}
              BY <6>1, <6>2, AppendToSet
            <7> QED  BY <6>2, <7>1
          <6>3. chInstallCustomer # <<>> =>
                  ToSet(Tail(chInstallCustomer)) \subseteq ToSet(chInstallCustomer)
            BY <6>1, HeadTailToSet
          <6> QED  BY <1>1, <6>2, <6>3, WhoInstalls
        <5>2. stream'[c] = "started" => stream[c] = "started"
          <6>1. ASSUME NEW d \in Customers, NEW u \in Talks,
                       TalkStartCreate(d, u) \/ TalkStartOpen(d, u)
                PROVE  FALSE
            <7>1. talkOf[d] = NoTalk /\ talkOf'[d] = u
              BY <1>1, <6>1 DEF TalkStartCreate, TalkStartOpen, Start, TypeOK, StreamTypeOK,
                 Halves, Pipeline, IdleHasNoTalk
            <7> QED  BY <3>1, <7>1, CustomerAssumption
          <6>2. CASE \E d \in Customers :
                       \/ TalkStartRefused(d) \/ InstallCustomer(d) \/ StreamSend(d)
                       \/ StreamBroken(d) \/ StreamTerminal(d) \/ UninstallCustomer(d)
            BY <1>1, <6>2 DEF TalkStartRefused, InstallCustomer, StreamSend, StreamBroken,
               StreamTerminal, UninstallCustomer, TypeOK, StreamTypeOK
          <6>3. CASE \/ \E d \in Customers : ReceiverStep(d) \/ LoaderStep(d)
                     \/ MainStep
            BY <6>3 DEF ReceiverStep, ReceiveMessage, ReceiveMessageFails,
               CustomerMessageIncoming, ReceiveClose, ReceiveFails, LoaderStep, LoadHistory,
               SendHistory, MainStep, HandleInstall, HandleUninstall, HandleMessage,
               HandleClose, RunPosted, NotifyCustomers, NotifyServicers, KickOut, streamVars
          <6> QED  BY <1>1, <6>1, <6>2, <6>3 DEF Next, StreamStep
        <5> QED  BY <2>3, <3>1, <5>1, <5>2 DEF Announcing
      <4> QED  BY <2>2, <3>1, <4>1
    <3>2. ASSUME NEW d \in Customers, NEW u \in Talks,
                 TalkStartCreate(d, u) \/ TalkStartOpen(d, u)
          PROVE  talkOf'[c] # t
      <4>1. CASE TalkStartCreate(d, u)
        <5>1. Start(d, u, TRUE) /\ u \notin DOMAIN talks
          BY <4>1 DEF TalkStartCreate, CreateTalk
        <5>2. /\ \A e \in Customers : e # d => /\ talkOf'[e] = talkOf[e]
                                               /\ Announcing(e)' <=> Announcing(e)
              /\ talkOf'[d] = u
          BY <3>2, <5>1, StartSeen
        <5> QED  BY <2>1, <2>2, <2>3, <5>1, <5>2
      <4>2. CASE TalkStartOpen(d, u)
        <5>1. Start(d, u, FALSE)
          BY <4>2 DEF TalkStartOpen
        <5>2. /\ \A e \in Customers : e # d => /\ talkOf'[e] = talkOf[e]
                                               /\ Announcing(e)' <=> Announcing(e)
              /\ Announcing(d)' <=> FALSE
          BY <3>2, <5>1, StartSeen
        <5> QED  BY <2>2, <2>3, <5>2
      <4> QED  BY <3>2, <4>1, <4>2
    <3> QED  BY <1>1, <3>1, <3>2, WhoStarts
  <2> QED  BY <1>3, <2>3 DEF ToldInTurn
<1>4. CASE told.notice.event = "message"
  <2> PICK m : m = told.notice.messages[1]
    OBVIOUS
  <2>1. Past(m) /\ \A n \in Queued : Before(m, n)
    BY <1>4 DEF ToldInTurn, AllBefore
  <2>2. Past(m)' /\ \A n \in Queued' : Before(m, n)
    BY <1>1, <2>1, StepInTurn
  <2> QED  BY <1>4, <2>2 DEF ToldInTurn, AllBefore
<1> QED  BY <1>2, <1>3, <1>4 DEF ToldInTurn

\* A call is added when its message has left the channel, or its creator the queue.
LEMMA CustomersCallsInTurn ==
  ASSUME Halves, Joint, CustomersAlone \/ CustomersCall
  PROVE  CallsInTurn'
<1>1. /\ Next /\ TypeOK /\ Creators /\ InTurn /\ CallsInTurn
      /\ customerTodo \in Seq(Call) /\ chInstallCustomer \in Seq(Customers)
      /\ chCustomerMessage \in Seq(Customers \X Nat)
  BY CustomersStep DEF Halves, Joint, TypeOK, MainTypeOK, ChannelTypeOK
<1>2. ASSUME NEW i \in DOMAIN customerTodo, customerTodo[i].to = "servicers"
      PROVE  i = Len(customerTodo) /\ \E told : told = customerTodo[i] /\ ToldInTurn(told)'
  <2> PICK told : told = customerTodo[i]
    OBVIOUS
  <2>1. i = Len(customerTodo) /\ ToldInTurn(told)
    BY <1>1, <1>2 DEF CallsInTurn
  <2>2. told.to = "servicers" /\ CallOf(told.notice) \in Calls
    BY <1>2 DEF Calls, ToSet
  <2>3. ToldInTurn(told)'
    BY <2>1, <2>2, TurnKept
  <2> QED  BY <2>1, <2>3
<1>3. CASE UNCHANGED customerTodo
  BY <1>2, <1>3 DEF CallsInTurn
<1>4. CASE customerTodo # <<>> /\ customerTodo' = Tail(customerTodo)
  <2> SUFFICES ASSUME NEW i \in DOMAIN customerTodo', customerTodo'[i].to = "servicers"
               PROVE  i = Len(customerTodo') /\ ToldInTurn(customerTodo[i])'
    BY DEF CallsInTurn
  <2>1. /\ i + 1 \in DOMAIN customerTodo /\ customerTodo'[i] = customerTodo[i + 1]
        /\ Len(customerTodo') = Len(customerTodo) - 1 /\ i \in Nat
        /\ Len(customerTodo) \in Nat
    BY <1>1, <1>4, TailPlaces
  <2>2. i + 1 = Len(customerTodo) /\ \E told : told = customerTodo[i + 1] /\ ToldInTurn(told)'
    BY <1>2, <2>1
  <2> QED  BY <2>1, <2>2
<1>5. CASE HandleInstall
  <2> PICK c : c = Head(chInstallCustomer)
    OBVIOUS
  <2> PICK t : t = talkOf[c]
    OBVIOUS
  <2> DEFINE told == [to |-> "servicers",
                      notice |-> [event |-> "create", talk |-> t, messages |-> <<>>]]
  <2>1. /\ c \in Customers /\ stream[c] # "started"
        /\ \A i \in DOMAIN chInstallCustomer' : chInstallCustomer'[i] # c
    <3>1. /\ chInstallCustomer # <<>> /\ chInstallCustomer' = Tail(chInstallCustomer)
      BY <1>5 DEF HandleInstall
    <3>2. c \in Customers /\ c \in ToSet(chInstallCustomer)
      BY <1>1, <3>1, HeadTailToSet
    <3>3. \A i \in DOMAIN chInstallCustomer' : chInstallCustomer'[i] # c
      BY <1>1, <3>1, TailPlaces DEF Creators
    <3> QED  BY <3>2, <3>3 DEF Halves, Orderly, NotYetServed
  <2>2. UNCHANGED <<talkOf, creates, stream>> /\ customerTodo = <<>>
    BY <1>5 DEF HandleInstall, AtSelect, streamVars
  <2>3. ~Announcing(c)'
    BY <2>1, <2>2 DEF Announcing, ToSet
  <2>4. CASE creates[c] /\ customerTodo' = <<told>>
    <3>1. ToldInTurn(told)'
      <4>1. \A d \in Customers : Announcing(d)' => talkOf'[d] # t
        BY <1>1, <2>1, <2>2, <2>3, <2>4 DEF Creators, Announcing
      <4> QED  BY <4>1 DEF ToldInTurn
    <3> HIDE DEF told
    <3> QED  BY <2>4, <3>1 DEF CallsInTurn
  <2>5. CASE customerTodo' = <<>>
    BY <2>5 DEF CallsInTurn
  <2> QED  BY <1>5, <2>2, <2>4, <2>5 DEF HandleInstall
<1>6. ASSUME NEW event, NEW t, NEW ms, customerTodo' = TellBoth(event, t, ms),
             NEW told, told = [to |-> "servicers",
                               notice |-> [event |-> event, talk |-> t, messages |-> ms]],
             ToldInTurn(told)'
      PROVE  CallsInTurn'
  <2> PICK first : first = [to |-> "customers",
                            notice |-> [event |-> event, talk |-> t, messages |-> ms]]
    OBVIOUS
  <2>1. customerTodo' = <<first, told>> /\ first.to # "servicers"
    BY <1>6 DEF TellBoth
  <2>2. \A i \in DOMAIN customerTodo' :
          customerTodo'[i].to = "servicers" => i = Len(customerTodo') /\ customerTodo'[i] = told
    BY <2>1
  <2> QED  BY <1>6, <2>2 DEF CallsInTurn
<1>7. CASE HandleMessage
  <2> PICK m : m = Head(chCustomerMessage)
    OBVIOUS
  <2> PICK t : t = talkOf[m[1]]
    OBVIOUS
  <2> PICK told : told = [to |-> "servicers",
                          notice |-> [event |-> "message", talk |-> t, messages |-> <<m>>]]
    OBVIOUS
  <2>1. /\ customerTodo' = TellBoth("message", t, <<m>>)
        /\ chCustomerMessage # <<>> /\ chCustomerMessage' = Tail(chCustomerMessage)
        /\ UNCHANGED <<receiver, requests>>
    BY <1>7 DEF HandleMessage, receiverVars
  <2>2. Past(m)' /\ AllBefore({m}, Queued)'
    <3>1. m \in Queued /\ \A x \in Queued' : Before(m, x)
      BY <1>1, <2>1, QueueTail DEF InTurn
    <3>2. Past(m)
      BY <1>1, <3>1 DEF InTurn
    <3> QED  BY <2>1, <3>1, <3>2 DEF Past, AllBefore
  <2>3. told.notice.event = "message" /\ told.notice.messages[1] = m
    OBVIOUS
  <2>4. ToldInTurn(told)'
    BY <2>2, <2>3 DEF ToldInTurn
  <2> QED  BY <1>6, <2>1, <2>4
<1>8. CASE HandleClose
  <2> PICK t : t = talkOf[Head(chCustomerClose)]
    OBVIOUS
  <2> PICK told : told = [to |-> "servicers",
                          notice |-> [event |-> "close", talk |-> t, messages |-> <<>>]]
    OBVIOUS
  <2>1. customerTodo' = TellBoth("close", t, <<>>) \/ UNCHANGED customerTodo
    BY <1>8 DEF HandleClose
  <2>2. ToldInTurn(told)'
    BY DEF ToldInTurn
  <2> QED  BY <1>3, <1>6, <2>1, <2>2
<1>9. CASE ~(HandleInstall \/ HandleMessage \/ HandleClose)
  <2>1. \/ UNCHANGED customerTodo
        \/ customerTodo # <<>> /\ customerTodo' = Tail(customerTodo)
    <3>1. CASE \/ \E c \in Customers : StreamStep(c) \/ ReceiverStep(c) \/ LoaderStep(c)
      BY <3>1 DEF StreamStep, TalkStartCreate, TalkStartOpen, Start, TalkStartRefused,
         InstallCustomer, StreamSend, StreamBroken, StreamTerminal, UninstallCustomer,
         ReceiverStep, ReceiveMessage, ReceiveMessageFails,
         CustomerMessageIncoming, ReceiveClose, ReceiveFails, LoaderStep, LoadHistory,
         SendHistory, mdVars
    <3>2. CASE MainStep
      BY <1>9, <3>2 DEF MainStep, HandleUninstall, RunPosted, NotifyCustomers,
         NotifyServicers, NextCall, KickOut, mdVars
    <3> QED  BY <1>1, <3>1, <3>2 DEF Next
  <2> QED  BY <1>3, <1>4, <2>1
<1> QED  BY <1>5, <1>7, <1>8, <1>9

\* The customers' steps keep what relates the halves.
LEMMA CustomersKeepJoint ==
  ASSUME Halves, Joint, CustomersAlone \/ CustomersCall
  PROVE  Joint'
<1>1. InTurn'
  BY CustomersStep, StepInTurn DEF Halves, Joint
<1> QED
  BY <1>1, CustomersStoreJoint, CustomersCreators, CustomersCallsInTurn, CustomersMissed
     DEF Joint

-----------------------------------------------------------------------------
(* The theorems. *)

\* At first there is nothing that the halves could disagree about.
LEMMA AllInitOK == AllInit => Halves /\ Joint /\ SSide!Init
<1> SUFFICES ASSUME AllInit PROVE Halves /\ Joint /\ SSide!Init
  OBVIOUS
<1>1. SSide!Init /\ Init
  BY DEF AllInit, SSide!Init, SSide!StoreInit, Init, StoreInit
<1>2. SSide!TypeOK /\ SSide!Pipeline
  BY <1>1, ServicersAssumed, SSide!InitOK
<1>3. Halves
  BY <1>1, <1>2, InitOK, RegistryInit, CompleteInit DEF Halves, Complete
<1>4. /\ DOMAIN talks = {} /\ customerTodo = <<>> /\ servicerTodo = <<>>
      /\ chInstallCustomer = <<>> /\ chCustomerMessage = <<>>
      /\ \A c \in Customers : ~creates[c] /\ stream[c] = "idle"
      /\ ToSet(<<>>) = {} /\ DOMAIN <<>> = {}
  BY <1>1 DEF Init, StoreInit, CustomerInit, SSide!Init, SSide!ServicerInit, ToSet
<1>5. Numbered /\ OneTalk /\ Creators /\ CallsInTurn /\ InTurn
  BY <1>4 DEF Numbered, OneTalk, Creators, CallsInTurn, InTurn, QueueOrdered, Queued
<1>6. LastWritten
  <2>1. \A c \in Customers : NumbersOf(c) = {0}
    BY <1>4 DEF NumbersOf
  <2> QED  BY <2>1 DEF LastWritten
<1>7. SSide!OnlyRelays
  <2>1. SSide!ToSet(servicerTodo) = {}
    BY <1>4 DEF SSide!ToSet
  <2> QED  BY <2>1 DEF SSide!OnlyRelays
<1>8. MissedIsComing
  BY <1>4 DEF MissedIsComing, Missed, Listening
<1> QED  BY <1>1, <1>3, <1>5, <1>6, <1>7, <1>8 DEF Joint

\* Every step keeps the invariants of the halves and what relates them.
LEMMA AllStep ==
  ASSUME Halves, Joint, [AllNext]_allVars
  PROVE  Halves' /\ Joint'
<1>1. CASE CustomersAlone \/ CustomersCall
  BY <1>1, CustomersKeepHalves, CustomersKeepJoint
<1>2. CASE ServicersAlone \/ ServicersCall
  BY <1>2, ServicersKeepHalves, ServicersKeepJoint
<1>3. CASE UNCHANGED allVars
  <2>1. /\ UNCHANGED vars /\ UNCHANGED <<servicerRest, servicerRunner, unheard>>
    BY <1>3 DEF allVars, customerRest, vars, customerVars, streamVars, receiverVars,
       installVars, requestVars, mdVars, loaderVars, ghostVars
  <2>2. TypeOK' /\ Pipeline' /\ Registry' /\ SSide!TypeOK' /\ SSide!Pipeline'
    BY <2>1, ServicersHalfKept, StepTyped, StepKept, StepRegistry DEF Halves
  <2>3. Orderly'
    BY <2>1 DEF Halves, Orderly, NotYetServed, OnlyMessages, vars, customerVars, streamVars,
       receiverVars, installVars, mdVars, loaderVars
  <2>4. UNCHANGED <<talks, talkOf, creates, stream, receiver, requests, customers,
                    customerTodo, chInstallCustomer, chCustomerMessage, serviceRequests,
                    servicerTodo>>
    BY <1>3 DEF allVars, customerRest, servicerRest
  <2>5. \A t : Stored(t)' = Stored(t)
    BY <2>4 DEF Stored
  <2>6. Numbered' /\ OneTalk' /\ LastWritten' /\ Creators' /\ InTurn' /\ CallsInTurn'
    <3>1. \A c \in Customers : NumbersOf(c)' = NumbersOf(c)
      BY <2>4, <2>5 DEF NumbersOf
    <3> QED
      BY <2>4, <2>5, <3>1 DEF Joint, Numbered, OneTalk, LastWritten, Creators, InTurn,
         QueueOrdered, Queued, Past, CallsInTurn, ToldInTurn, Announcing
  <2>7. SSide!OnlyRelays'
    BY <2>4 DEF Joint, SSide!OnlyRelays
  <2>8. MissedIsComing'
    <3>1. \A c \in Customers : Missed(c)' = Missed(c)
      BY <2>1 DEF Missed, Listening, Known, Heard, Told, Underway, InFlight,
         DroppedMessages, Stored, Current, vars, customerVars, streamVars, receiverVars,
         requestVars, mdVars, loaderVars, ghostVars
    <3>2. \A t : SSide!Elsewhere(t)' = SSide!Elsewhere(t)
      BY <2>1 DEF SSide!Elsewhere, SSide!ForCustomers, SSide!Withheld, SSide!InHand,
         SSide!Queued, servicerRest
    <3> QED  BY <2>4, <3>1, <3>2 DEF Joint, MissedIsComing
  <2> QED  BY <2>2, <2>3, <2>6, <2>7, <2>8 DEF Halves, Joint
<1> QED  BY <1>1, <1>2, <1>3 DEF AllNext

\* Halves and Joint, the inductive invariant of the one process.
THEOREM AllInvariant == AllSpec => [](Halves /\ Joint)
<1>1. Halves /\ Joint /\ [AllNext]_allVars => (Halves /\ Joint)'
  BY AllStep
<1> QED  BY AllInitOK, <1>1, PTL DEF AllSpec

\* The one process implements ServicerSide: whatever the customers' streams, receivers
\* and main routine do, the servicers see the moves ServicerSide allows the outside - the
\* calls after the change of the store they announce, each once, a customer's messages
\* in their order, and no close lost on the way.
THEOREM ImplementsServicerSide == AllSpec => IsServicerSide
<1>1. Halves /\ Joint /\ [AllNext]_allVars => [SSide!Next]_(SSide!serviceSideVars)
  BY AllSeen
<1> QED  BY AllInitOK, <1>1, AllInvariant, PTL DEF AllSpec, IsServicerSide, SSide!Spec

\* Nobody misses what anybody writes in his talk, for any number of customers and
\* servicers and channels of any capacity: a customer who attends has each message, or
\* it is on its way through one of the two main routines, or was dropped with a full
\* channel or withheld because a servicer wrote it who does not serve the talk.
THEOREM NobodyMissesInvariant == AllSpec => []NobodyMisses
<1>1. SSide!Spec => []SSide!NoGap
  BY ServicersAssumed, SSide!NoGapInvariant
<1>2. Joint /\ SSide!NoGap => NobodyMisses
  <2> SUFFICES ASSUME Joint, NEW c \in Customers, Attending(c)
               PROVE  Stored(talkOf[c])
                        \subseteq Heard(c) \cup Underway \cup SSide!Elsewhere(talkOf[c])
    BY DEF NobodyMisses
  <2>1. Listening(c) /\ Known(c) = Heard(c)
    BY DEF Attending, Listening, Known
  <2> QED  BY <2>1 DEF Joint, MissedIsComing, Missed
<1> QED  BY <1>1, <1>2, AllInvariant, ImplementsServicerSide, PTL DEF IsServicerSide

\* What is proved of the servicers' half in any company holds in this one: they are
\* shown only what the store holds, registered only as long as explained, and miss
\* neither a message nor the last word on who serves a talk and whether it is closed.
THEOREM ServicersHalf ==
  AllSpec => [](/\ SSide!ToldIsStored /\ SSide!RegistryExplained /\ SSide!NoGap
                /\ SSide!AssignmentTold /\ SSide!CloseTold)
<1>1. SSide!Spec => [](/\ SSide!ToldIsStored /\ SSide!RegistryExplained /\ SSide!NoGap
                       /\ SSide!AssignmentTold /\ SSide!CloseTold)
  <2>1. SSide!Spec => []SSide!ToldIsStored
    BY ServicersAssumed, SSide!ToldIsStoredInvariant
  <2>2. SSide!Spec => []SSide!RegistryExplained
    BY ServicersAssumed, SSide!RegistryExplainedInvariant
  <2>3. SSide!Spec => []SSide!NoGap
    BY ServicersAssumed, SSide!NoGapInvariant
  <2>4. SSide!Spec => []SSide!AssignmentTold
    BY ServicersAssumed, SSide!AssignmentToldInvariant
  <2>5. SSide!Spec => []SSide!CloseTold
    BY ServicersAssumed, SSide!CloseToldInvariant
  <2> QED  BY <2>1, <2>2, <2>3, <2>4, <2>5, PTL
<1> QED  BY <1>1, ImplementsServicerSide, PTL DEF IsServicerSide

\* And what is proved of the customers' half by itself holds in company of the servicers,
\* who write in its talks: its clients are shown only what the store holds for their
\* talk, registered only as long as explained, and served or kicked out.
THEOREM CustomersHalf == AllSpec => [](ToldIsStored /\ RegistryExplained /\ ServedOrKicked)
<1>1. Halves => ToldIsStored /\ RegistryExplained /\ ServedOrKicked
  BY ToldFollows, ExplainedFollows DEF Halves, Registry
<1> QED  BY <1>1, AllInvariant, PTL
=============================================================================
