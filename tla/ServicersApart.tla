--------------------------- MODULE ServicersApart ---------------------------
(***************************************************************************)
(* Several servicer processes over one store.  ServicerSide models one of  *)
(* them in full; here is what is different when they are several: the two  *)
(* calls to the store in which a talk is taken or let go, between which    *)
(* another process may change it; the notices, which travel through the    *)
(* broker, in order only if they are of one process; and the messages,     *)
(* which come by another queue than the notices.                           *)
(*                                                                         *)
(* Talks do not depend on each other, so there is one.  Every servicer is  *)
(* a single stream that is registered, in scope, and takes what it is      *)
(* sent; channels have room, and the broker loses nothing (RabbitSend has  *)
(* what it may lose).                                                      *)
(***************************************************************************)
EXTENDS Integers, Sequences

CONSTANTS
  Processes,      \* servicer processes
  Servicers,      \* servicers, each a user with one stream
  ProcessOf,      \* the process a servicer is connected to
  NoOne,          \* service id 0
  MaxAsks,        \* bound: attaches and detaches, for each servicer
  MaxMessages,    \* bound: messages the customer writes
  UpdateMayFail   \* whether UpdateTalkServiceID may return an error

ASSUME ApartAssumption ==
  /\ ProcessOf \in [Servicers -> Processes]
  /\ NoOne \notin Servicers
  /\ MaxAsks \in [Servicers -> Nat]
  /\ MaxMessages \in Nat /\ UpdateMayFail \in BOOLEAN

VARIABLES
  owner,       \* who serves the talk, in the store
  stored,      \* how many messages the store has
  asked,       \* how often each servicer asked
  request,     \* in the hands of each main routine: "read" once GetTalkServicerID has
               \* answered, "written" once UpdateTalkServiceID has
  wire,        \* notices on the way from one process to another, or to itself
  outgoing,    \* messages in the customers' process, stored and not yet published
  relay,       \* messages on the way to each process
  posted,      \* closures each main routine has still to run
  reloading,   \* whom a main routine is about to send the whole talk
  word,        \* who serves the talk, by what each servicer was told last
  shown,       \* the messages each servicer has seen
  crossed,     \* the last update met a notice of another process on the way
  misled       \* the last update failed, and was announced

storeVars == <<owner, stored>>
screens   == <<word, shown>>
history   == <<crossed, misled>>
apartVars == <<storeVars, asked, request, wire, outgoing, relay, posted, reloading, screens, history>>

-----------------------------------------------------------------------------
\* No request is in the hands of a main routine.
Idle == <<>>

\* A notice, as it is announced and as it is posted, and the closure of a message.
TakenBy(s) == [event |-> "attach", user |-> s]
Message(n) == [event |-> "message", n |-> n]

\* All were installed while nobody served the talk.
ApartInit ==
  /\ owner = NoOne /\ stored = 0
  /\ asked = [s \in Servicers |-> 0]
  /\ request = [p \in Processes |-> Idle]
  /\ wire = [p \in Processes |-> [q \in Processes |-> <<>>]]
  /\ outgoing = <<>> /\ relay = [p \in Processes |-> <<>>]
  /\ posted = [p \in Processes |-> <<>>]
  /\ reloading = [p \in Processes |-> NoOne]
  /\ word = [s \in Servicers |-> NoOne]
  /\ shown = [s \in Servicers |-> {}]
  /\ crossed = FALSE /\ misled = FALSE

-----------------------------------------------------------------------------
\* The main routine of a process: a request.

Selects(p) == request[p] = Idle /\ reloading[p] = NoOne

Takes(s, event) ==
  /\ Selects(ProcessOf[s])
  /\ asked[s] < MaxAsks[s] /\ asked' = [asked EXCEPT ![s] = @ + 1]
  /\ request' = [request EXCEPT ![ProcessOf[s]] =
                   <<[notice |-> [event |-> event, user |-> s], at |-> "read"]>>]

Written(p) == request[p] # Idle /\ request[p][1].at = "written"

\* Whoever serves it: the talk is only not taken from oneself.
TakeAttach(s) ==
  /\ owner # s /\ Takes(s, "attach")
  /\ UNCHANGED <<storeVars, wire, outgoing, relay, posted, reloading, screens, history>>

\* Who does not serve the talk is told so, and nothing else happens.
TakeDetach(s) ==
  /\ owner = s /\ Takes(s, "detach")
  /\ UNCHANGED <<storeVars, wire, outgoing, relay, posted, reloading, screens, history>>

\* Notices of other processes that are not yet in every queue of closures.
ForeignNews(p) == \E q \in Processes \ {p} :
  \/ Written(q)
  \/ \E r \in Processes : wire[q][r] # <<>>

\* The store is told, whatever it holds by now; its error is not looked at.
UpdateOwner(p) ==
  /\ request[p] # Idle /\ request[p][1].at = "read"
  /\ LET notice == request[p][1].notice IN
     \/ /\ owner' = IF notice.event = "attach" THEN notice.user ELSE NoOne
        /\ misled' = FALSE
     \/ /\ UpdateMayFail /\ misled' = TRUE
        /\ UNCHANGED owner
  /\ crossed' = ForeignNews(p)
  /\ request' = [request EXCEPT ![p][1].at = "written"]
  /\ UNCHANGED <<stored, asked, wire, outgoing, relay, posted, reloading, screens>>

\* Mutant: only the own process is told, as in the server of one process.
AnnounceAtHome(p) ==
  /\ Written(p)
  /\ wire' = [wire EXCEPT ![p][p] = Append(@, request[p][1].notice)]
  /\ request' = [request EXCEPT ![p] = Idle]
  /\ UNCHANGED <<storeVars, asked, outgoing, relay, posted, reloading, screens, history>>

\* To the exchange "servicerC", from which every process has a queue.
Announce(p) ==
  /\ Written(p)
  /\ wire' = [wire EXCEPT ![p] = [q \in Processes |-> Append(@[q], request[p][1].notice)]]
  /\ request' = [request EXCEPT ![p] = Idle]
  /\ UNCHANGED <<storeVars, asked, outgoing, relay, posted, reloading, screens, history>>

-----------------------------------------------------------------------------
\* The two routines of a process that consume the fixed exchanges.

ReceiveNotice(p, q) ==
  /\ wire[p][q] # <<>>
  /\ wire' = [wire EXCEPT ![p][q] = Tail(@)]
  /\ posted' = [posted EXCEPT ![q] = Append(@, Head(wire[p][q]))]
  /\ UNCHANGED <<storeVars, asked, request, outgoing, relay, reloading, screens, history>>

ReceiveRelay(q) ==
  /\ relay[q] # <<>>
  /\ relay' = [relay EXCEPT ![q] = Tail(@)]
  /\ posted' = [posted EXCEPT ![q] = Append(@, Message(Head(relay[q])))]
  /\ UNCHANGED <<storeVars, asked, request, wire, outgoing, reloading, screens, history>>

-----------------------------------------------------------------------------
\* The main routine of a process: a closure.

Home(p) == {s \in Servicers : ProcessOf[s] = p}

Tell(p, user) == word' = [s \in Servicers |-> IF s \in Home(p) THEN user ELSE word[s]]

RunAttach(p, notice) ==
  /\ notice.event = "attach" /\ Tell(p, notice.user)
  /\ reloading' = [reloading EXCEPT ![p] = IF notice.user \in Home(p) THEN notice.user
                                            ELSE NoOne]
  /\ UNCHANGED shown

RunDetach(p, notice) ==
  /\ notice.event = "detach" /\ Tell(p, NoOne)
  /\ UNCHANGED <<reloading, shown>>

\* Mutant: to whom the servicers here believe to serve the talk.
RunMessageByWord(p, closure) ==
  /\ closure.event = "message"
  /\ shown' = [s \in Servicers |-> IF s \in Home(p) /\ word[s] = s
                                   THEN shown[s] \cup {closure.n} ELSE shown[s]]
  /\ UNCHANGED <<reloading, word>>

\* The store is asked who serves the talk now.
RunMessage(p, closure) ==
  /\ closure.event = "message"
  /\ shown' = [s \in Servicers |-> IF s \in Home(p) /\ owner = s
                                   THEN shown[s] \cup {closure.n} ELSE shown[s]]
  /\ UNCHANGED <<reloading, word>>

RunClosure(p) ==
  /\ Selects(p) /\ posted[p] # <<>>
  /\ LET closure == Head(posted[p]) IN
     RunAttach(p, closure) \/ RunDetach(p, closure) \/ RunMessage(p, closure)
  /\ posted' = [posted EXCEPT ![p] = Tail(@)]
  /\ UNCHANGED <<storeVars, asked, request, wire, outgoing, relay, history>>

\* The rest of the closure of an attach: the messages are read and sent.
Reload(p) ==
  /\ reloading[p] # NoOne
  /\ shown' = [shown EXCEPT ![reloading[p]] = @ \cup 1..stored]
  /\ reloading' = [reloading EXCEPT ![p] = NoOne]
  /\ UNCHANGED <<storeVars, asked, request, wire, outgoing, relay, posted, word, history>>

-----------------------------------------------------------------------------
\* The customers' process: its receiver stores a message, its main routine
\* publishes it to "C".

StoreMessage ==
  /\ stored < MaxMessages /\ stored' = stored + 1
  /\ outgoing' = Append(outgoing, stored + 1)
  /\ UNCHANGED <<owner, asked, request, wire, relay, posted, reloading, screens, history>>

PublishMessage ==
  /\ outgoing # <<>> /\ outgoing' = Tail(outgoing)
  /\ relay' = [q \in Processes |-> Append(relay[q], Head(outgoing))]
  /\ UNCHANGED <<storeVars, asked, request, wire, posted, reloading, screens, history>>

-----------------------------------------------------------------------------
ApartNext ==
  \/ \E s \in Servicers : TakeAttach(s) \/ TakeDetach(s)
  \/ \E p \in Processes : UpdateOwner(p) \/ Announce(p)
  \/ \E p, q \in Processes : ReceiveNotice(p, q)
  \/ \E p \in Processes : ReceiveRelay(p) \/ RunClosure(p) \/ Reload(p)
  \/ StoreMessage \/ PublishMessage

ApartSpec == ApartInit /\ [][ApartNext]_apartVars

-----------------------------------------------------------------------------
(***************************************************************************)
(* Properties.                                                             *)
(***************************************************************************)

\* Nothing is under way that bears on who serves the talk.
NoticesOut ==
  /\ \A p, q \in Processes : wire[p][q] = <<>>
  /\ \A p \in Processes :
       /\ ~Written(p)
       /\ \A i \in DOMAIN posted[p] : posted[p][i].event = "message"

\* Once the notices are out, every servicer of every process was told last what
\* the store says, unless the last update failed, or was made while a notice of
\* another process was on its way: then two servicers may both believe, for good,
\* that they serve the talk.  Races that are over leave no trace.
AgreedUnlessCrossed ==
  NoticesOut /\ ~crossed /\ ~misled => \A s \in Servicers : word[s] = owner

\* However the processes race, and whatever the servicers were told: who serves
\* the talk by the store has seen every message, or it is still on the way to
\* his process, or so is the notice whose closure will show him all.
ServedSeesAll == \A s \in Servicers :
  LET p == ProcessOf[s] IN
  owner = s =>
    \/ \A n \in 1..stored :
         \/ n \in shown[s]
         \/ \E i \in DOMAIN outgoing : outgoing[i] = n
         \/ \E i \in DOMAIN relay[p] : relay[p][i] = n
         \/ \E i \in DOMAIN posted[p] : posted[p][i] = Message(n)
    \/ \E q \in Processes : \E i \in DOMAIN wire[q][p] : wire[q][p][i] = TakenBy(s)
    \/ \E i \in DOMAIN posted[p] : posted[p][i] = TakenBy(s)
    \/ Written(p) /\ request[p][1].notice = TakenBy(s)
    \/ reloading[p] = s
=============================================================================
