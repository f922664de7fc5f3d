------------------------------ MODULE AllInOne ------------------------------
(***************************************************************************)
(* The server of one process: both halves over one store.  allInOneMDIImpl *)
(* is all there is between them: whatever a main routine tells it, it      *)
(* tells the observers of both halves, there and then, and the observers   *)
(* post.  So the halves have the store and two kinds of steps in common:   *)
(* the calls of one main routine that post to the other.                   *)
(***************************************************************************)
EXTENDS CustomerSide

CONSTANTS
  Servicers, UserOf, ActsOf, BizsOf, MaxServicerCache, MaxServiceMessages,
  ServiceSendCap, ServiceRequests, RequestKinds, Quitters, Readers,
  ServiceStoreMayFail,
  MaxWrites   \* bound: no stream of a customer makes more requests

\* What ServicerSide assumes of a servicers' half; and the two kinds of streams are
\* different sessions.
ASSUME AllInOneAssumption ==
  /\ Servicers \subseteq Senders /\ Servicers \cap Customers = {}
  /\ "untold" \notin Users \cup {NoOne}
  /\ UserOf \in [Servicers -> Users]
  /\ ActsOf \in [Servicers -> SUBSET Acts] /\ BizsOf \in [Servicers -> SUBSET Bizs]
  /\ {MaxServicerCache, MaxServiceMessages, ServiceSendCap} \subseteq Nat \ {0}
  /\ ServiceRequests \in [Servicers -> Nat]
  /\ RequestKinds \subseteq {"attachedTalks", "pendingTalks", "reload", "message",
                             "attach", "detach"}
  /\ Quitters \subseteq Servicers /\ Readers \subseteq Servicers
  /\ ServiceStoreMayFail \in BOOLEAN
  /\ MaxWrites \in Nat /\ \A c \in Customers : MaxRequests[c] <= MaxWrites

VARIABLES
  service, serviceReceiver, serviceRequests, serviceTalk, chInstallServicer,
  chUninstallServicer, chServicerAttachTalk, chServicerDetachTalk, chServicerReloadTalk,
  chServicerMessage, servicerRunner, servicers, servicerTodo, dismissed, chServiceSend,
  serviceInbox, unheard, misled, outpaced, unlisted, early,
  reopened   \* the talks a customer has opened again

\* The customers' variables but those the servicers post to, and the reverse.
customerRest ==
  <<stream, talkOf, creates, receiver, requests, chInstallCustomer, chUninstallCustomer,
    chCustomerMessage, chCustomerClose, customers, customerTodo, removing, loader, history,
    chSendMessage, inbox, overtaken, kickLost>>
servicerRest ==
  <<service, serviceReceiver, serviceRequests, serviceTalk, chInstallServicer,
    chUninstallServicer, chServicerAttachTalk, chServicerDetachTalk, chServicerReloadTalk,
    chServicerMessage, servicers, servicerTodo, dismissed, chServiceSend,
    serviceInbox>>
allVars == <<talks, customerRest, customerRunner, dropped, servicerRest, servicerRunner,
             unheard, misled, outpaced, unlisted, early, reopened>>

-----------------------------------------------------------------------------
\* A notice of the customers' half, as a call of the servicers' observer.
CallOf(notice) ==
  IF notice.event = "message"
  THEN [event |-> "message", talk |-> notice.talk, message |-> notice.messages[1]]
  ELSE [event |-> notice.event, talk |-> notice.talk]

\* What the customers' half has done to the store and not yet told the servicers,
\* wherever it is: in a stream, in a receiver, in a channel or with the main routine.
Announcing(c) == creates[c] /\ (stream[c] = "started" \/ c \in ToSet(chInstallCustomer))

Creations ==
  {[event |-> "create", talk |-> talkOf[c]] : c \in {d \in Customers : Announcing(d)}}

Writings ==
  {[event |-> "message", talk |-> talkOf[m[1]], message |-> m] :
     m \in Queued \cup {Current(c) : c \in {d \in Customers : receiver[d] = "persisted"}}}

Calls == {CallOf(call.notice) : call \in {d \in ToSet(customerTodo) : d.to = "servicers"}}

Arriving == Creations \cup Writings \cup Calls

\* The last message of each customer that is stored.
NumbersOf(c) ==
  {0} \cup {m[2] : m \in {n \in UNION {Stored(t) : t \in DOMAIN talks} : n[1] = c}}

Written == [c \in Customers |-> Max(NumbersOf(c))]

\* ServicerSide, with what is proved about it.
SSide == INSTANCE ServicerSideProofs WITH
  arriving <- Arriving, written <- Written, Writers <- Customers,
  CustomerMoves <- {"close", "reopen", "lose", "again"}

AllInit == Init /\ SSide!ServicerInit

-----------------------------------------------------------------------------
\* The customers' half.

\* That a call was lost, and that a talk was opened again, is noted for the properties.
Noted ==
  /\ unheard' = unheard \cup (Arriving \ Arriving')
  /\ reopened' = reopened \cup {t \in DOMAIN talks : /\ talks[t].status = "closed"
                                                     /\ talks'[t].status = "opened"}
  /\ UNCHANGED <<servicerRest, servicerRunner, misled, outpaced, unlisted, early>>

\* What it does without calling the servicers' observer.
CustomersAlone ==
  /\ \/ \E c \in Customers : \/ StreamStep(c) \/ ReceiverStep(c)
                             \/ LoaderStep(c) \/ KickOut(c)
     \/ HandleInstall \/ HandleUninstall \/ HandleMessage
     \/ HandleClose \/ RunPosted \/ NotifyCustomers
  /\ Noted

\* OnMessageIncoming, OnTalkClose or OnTalkCreate of the servicers' observer.
CustomersCall ==
  /\ NotifyServicers
  /\ SSide!Post(CallOf(Head(customerTodo).notice))
  /\ UNCHANGED <<servicerRest, reopened>>

\* The servicers' half.
ServicersAlone ==
  /\ UNCHANGED <<customerRest, customerRunner, dropped, reopened>>
  /\ \/ \E s \in Servicers : SSide!ServiceStep(s) \/ SSide!ServiceReceiverStep(s)
     \/ SSide!ServicerMainAlone

\* OnMessageIncoming of the customers' observer.
ServicersCall ==
  /\ servicerTodo # <<>> /\ Head(servicerTodo).op = "tellCustomers"
  /\ LET call == Head(servicerTodo).call IN
     Post([event |-> "message", talk |-> call.talk, messages |-> <<call.message>>])
  /\ UNCHANGED <<customerRest, reopened>>
  /\ SSide!TellCustomers

AllNext == CustomersAlone \/ CustomersCall \/ ServicersAlone \/ ServicersCall

AllSpec == AllInit /\ [][AllNext]_allVars

-----------------------------------------------------------------------------
(***************************************************************************)
(* Properties.                                                             *)
(***************************************************************************)

\* To the servicers' half the customers' half is what ServicerSide takes it for: it
\* announces what it did to the store after it did it, each thing at most once, the
\* messages of a customer in their order; and what it may lose on the way are
\* messages and creations, never a close.
IsServicerSide == SSide!Spec

\* Nobody misses what is written in his talk by anybody.  A customer who attends has
\* each message in his history, or it was relayed, or is on its way through one of the
\* two main routines - unless a channel was full, or a servicer wrote it who does not
\* serve the talk.  (The servicers: see ServicerSide.)
NobodyMisses ==
  /\ \A c \in Customers : Attending(c) =>
       Stored(talkOf[c]) \subseteq Heard(c) \cup Underway \cup SSide!Elsewhere(talkOf[c])
  /\ SSide!NoGap

-----------------------------------------------------------------------------
(***************************************************************************)
(* The inductive invariant behind IsServicerSide and NobodyMisses, besides *)
(* the invariants of the two halves.                                       *)
(***************************************************************************)

\* A message bears a number its sender has used; a customer's is in his talk.
Numbered == \A t \in DOMAIN talks : \A m \in Stored(t) :
  \/ m[1] \in Customers /\ talkOf[m[1]] = t /\ m[2] <= requests[m[1]]
  \/ m[1] \in Servicers /\ m[2] <= serviceRequests[m[1]]

\* There is a last message of each customer.
LastWritten == \A c \in Customers :
  \E n \in NumbersOf(c) : \A k \in NumbersOf(c) : n >= k

\* A talk is created by one stream, which waits for its installation once.
Creators ==
  /\ \A c \in Customers : creates[c] => talkOf[c] \in DOMAIN talks
  /\ \A c, d \in Customers :
       creates[c] /\ creates[d] /\ talkOf[c] = talkOf[d] => c = d
  /\ \A i, j \in DOMAIN chInstallCustomer :
       chInstallCustomer[i] = chInstallCustomer[j] => i = j

\* What the servicers are told is told them last, and once: who created the talk is
\* not waiting any more, and who wrote the message has written the others later.
ToldInTurn(call) ==
  \/ call.notice.event = "close"
  \/ /\ call.notice.event = "create"
     /\ \A c \in Customers : Announcing(c) => talkOf[c] # call.notice.talk
  \/ /\ call.notice.event = "message"
     /\ Past(call.notice.messages[1]) /\ AllBefore({call.notice.messages[1]}, Queued)

CallsInTurn == \A i \in DOMAIN customerTodo :
  customerTodo[i].to = "servicers" => i = Len(customerTodo) /\ ToldInTurn(customerTodo[i])

\* What a customer misses is still with the servicers' half, or was lost there.
MissedIsComing == \A c \in Customers : Missed(c) \subseteq SSide!Elsewhere(talkOf[c])

Joint == /\ Numbered /\ OneTalk /\ LastWritten /\ Creators /\ InTurn /\ CallsInTurn
         /\ SSide!OnlyRelays /\ MissedIsComing
=============================================================================
