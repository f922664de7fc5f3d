------------------------ MODULE ServicersApartProofs ------------------------
(***************************************************************************)
(* Proofs about ServicersApart, for any processes, servicers and requests  *)
(* and any failures of updates: whoever serves the talk sees all of it,    *)
(* and servicers agree on who that is unless two processes have crossed.   *)
(***************************************************************************)
EXTENDS ServicersApart, ChannelProofs

Users    == Servicers \cup {NoOne}
Notices  == [event : {"attach", "detach"}, user : Servicers]
Requests == [notice : Notices, at : {"read", "written"}]
Messages == [event : {"message"}, n : Nat]

\* The values of the variables.
ApartTypeOK ==
  /\ owner \in Users /\ stored \in Nat
  /\ asked \in [Servicers -> Nat]
  /\ request \in [Processes -> Seq(Requests)]
  /\ wire \in [Processes -> [Processes -> Seq(Notices)]]
  /\ outgoing \in Seq(Nat) /\ relay \in [Processes -> Seq(Nat)]
  /\ posted \in [Processes -> Seq(Notices \cup Messages)]
  /\ reloading \in [Processes -> Users]
  /\ word \in [Servicers -> Users] /\ shown \in [Servicers -> SUBSET Nat]
  /\ crossed \in BOOLEAN /\ misled \in BOOLEAN

\* A main routine has the requests of its own servicers in hand, one at a time.
RequestsAreOwn == \A p \in Processes :
  request[p] # Idle =>
    /\ Len(request[p]) = 1
    /\ ProcessOf[request[p][1].notice.user] = p

\* What both invariants are proved from.
ApartTyped == ApartTypeOK /\ RequestsAreOwn

-----------------------------------------------------------------------------
(* Typing. *)

LEMMA HomeProcess ==
  ASSUME NEW s \in Servicers
  PROVE  ProcessOf[s] \in Processes /\ s # NoOne
BY ApartAssumption DEF ApartAssumption

\* A request in hand is one notice.
LEMMA InHand ==
  ASSUME ApartTyped, NEW p \in Processes, request[p] # Idle
  PROVE  /\ request[p][1] \in Requests /\ Len(request[p]) = 1
         /\ request[p][1].notice \in Notices
         /\ request[p][1].notice.user \in Servicers
         /\ ProcessOf[request[p][1].notice.user] = p
<1>1. request[p] \in Seq(Requests) /\ Len(request[p]) = 1
  BY DEF ApartTyped, ApartTypeOK, RequestsAreOwn
<1>2. request[p][1] \in Requests
  BY <1>1
<1> QED  BY <1>1, <1>2 DEF ApartTyped, RequestsAreOwn, Requests, Notices

\* What a request looks like when it has been taken up.
LEMMA TakesUp ==
  ASSUME ApartTyped, NEW s \in Servicers, NEW event \in {"attach", "detach"},
         Takes(s, event)
  PROVE  /\ request' \in [Processes -> Seq(Requests)] /\ RequestsAreOwn'
         /\ asked' \in [Servicers -> Nat]
         /\ \A p \in Processes : Written(p)' <=> Written(p)
         /\ \A p \in Processes : Written(p) => request'[p] = request[p]
<1> DEFINE home == ProcessOf[s]
           new == [notice |-> [event |-> event, user |-> s], at |-> "read"]
<1>1. home \in Processes
  BY HomeProcess
<1>2. new \in Requests /\ new.at = "read" /\ new.notice.user = s
  BY DEF Requests, Notices
<1>3. request' = [request EXCEPT ![home] = <<new>>] /\ request[home] = <<>>
  BY DEF Takes, Selects, Idle
<1> HIDE DEF new
<1>4. <<new>> \in Seq(Requests) /\ <<new>>[1] = new /\ <<new>> # <<>> /\ Len(<<new>>) = 1
  BY <1>2
<1> DEFINE taken == <<new>>
<1>5. taken \in Seq(Requests) /\ taken[1] = new /\ taken # <<>> /\ Len(taken) = 1
  BY <1>4
<1>6. request' = [request EXCEPT ![home] = taken]
  BY <1>3
<1> HIDE DEF taken
<1>7. request \in [Processes -> Seq(Requests)]
  BY DEF ApartTyped, ApartTypeOK
<1>8. request' \in [Processes -> Seq(Requests)]
  BY <1>5, <1>6, <1>7
<1>9. /\ request'[home] = taken
      /\ \A p \in Processes : p # home => request'[p] = request[p]
  BY <1>1, <1>6, <1>7
<1>10. RequestsAreOwn'
  <2> SUFFICES ASSUME NEW p \in Processes, (request[p] # Idle)'
               PROVE  (Len(request[p]) = 1 /\ ProcessOf[request[p][1].notice.user] = p)'
    BY DEF RequestsAreOwn
  <2>1. CASE p = home
    BY <1>2, <1>5, <1>9, <2>1
  <2>2. CASE p # home
    BY <1>9, <2>2 DEF ApartTyped, RequestsAreOwn, Idle
  <2> QED  BY <2>1, <2>2
<1>11. asked' \in [Servicers -> Nat]
  BY DEF Takes, ApartTyped, ApartTypeOK
<1>12. \A p \in Processes : Written(p)' <=> Written(p)
  <2> TAKE p \in Processes
  <2>1. CASE p = home
    BY <1>2, <1>3, <1>5, <1>9, <2>1 DEF Written, Idle
  <2>2. CASE p # home
    BY <1>9, <2>2 DEF Written, Idle
  <2> QED  BY <2>1, <2>2
<1>13. \A p \in Processes : Written(p) => request'[p] = request[p]
  BY <1>3, <1>9 DEF Written, Idle
<1> QED  BY <1>8, <1>10, <1>11, <1>12, <1>13

\* The store is told of the notice in hand, which is then written.
LEMMA UpdatesOwner ==
  ASSUME ApartTyped, NEW p \in Processes, UpdateOwner(p)
  PROVE  /\ ~Written(p) /\ Written(p)' /\ request[p] # Idle
         /\ request'[p][1].notice = request[p][1].notice
         /\ \A q \in Processes : q # p => request'[q] = request[q]
         /\ request' \in [Processes -> Seq(Requests)] /\ RequestsAreOwn'
<1>1. request \in [Processes -> Seq(Requests)] /\ request[p] # Idle
  BY DEF UpdateOwner, ApartTyped, ApartTypeOK
<1>2. /\ request[p][1] \in Requests /\ Len(request[p]) = 1 /\ request[p][1].at = "read"
      /\ ProcessOf[request[p][1].notice.user] = p
  BY <1>1, InHand DEF UpdateOwner
<1> DEFINE old == request[p]
           new == [old EXCEPT ![1].at = "written"]
<1>3. request' = [request EXCEPT ![p] = new]
  BY DEF UpdateOwner
<1>4. old \in Seq(Requests) /\ Len(old) = 1 /\ old[1] \in Requests
  BY <1>1, <1>2
<1>5. /\ new \in Seq(Requests) /\ Len(new) = 1
      /\ new[1].at = "written" /\ new[1].notice = old[1].notice
  <2>1. new = [old EXCEPT ![1] = [old[1] EXCEPT !.at = "written"]]
    OBVIOUS
  <2> DEFINE one == [old[1] EXCEPT !.at = "written"]
  <2>2. one \in Requests /\ one.at = "written" /\ one.notice = old[1].notice
    BY <1>4 DEF Requests
  <2> HIDE DEF one
  <2> DEFINE changed == [old EXCEPT ![1] = one]
  <2>3. changed \in Seq(Requests) /\ Len(changed) = 1 /\ changed[1] = one
    BY <1>4, <2>2
  <2>4. new = changed
    BY <2>1 DEF one
  <2> QED  BY <2>2, <2>3, <2>4
<1>6. new # Idle
  BY <1>5 DEF Idle
<1> HIDE DEF new
<1>7. /\ request' \in [Processes -> Seq(Requests)] /\ request'[p] = new
      /\ \A q \in Processes : q # p => request'[q] = request[q]
  BY <1>1, <1>3, <1>5
<1>8. RequestsAreOwn'
  <2> SUFFICES ASSUME NEW q \in Processes, (request[q] # Idle)'
               PROVE  (Len(request[q]) = 1 /\ ProcessOf[request[q][1].notice.user] = q)'
    BY DEF RequestsAreOwn
  <2>1. CASE q = p
    BY <1>2, <1>5, <1>7, <2>1
  <2>2. CASE q # p
    BY <1>7, <2>2 DEF ApartTyped, RequestsAreOwn, Idle
  <2> QED  BY <2>1, <2>2
<1>9. ~Written(p)
  BY <1>2 DEF Written
<1>10. Written(p)'
  BY <1>5, <1>6, <1>7 DEF Written, Idle
<1> QED  BY <1>1, <1>5, <1>7, <1>8, <1>9, <1>10

\* The notice goes to the end of the wire to every process, and the hands are free.
LEMMA Announces ==
  ASSUME ApartTyped, NEW p \in Processes, Announce(p)
  PROVE  /\ Written(p) /\ ~Written(p)' /\ request[p] # Idle
         /\ \A q \in Processes : q # p => request'[q] = request[q] /\ wire'[q] = wire[q]
         /\ \A r \in Processes : wire'[p][r] = Append(wire[p][r], request[p][1].notice)
         /\ request' \in [Processes -> Seq(Requests)] /\ RequestsAreOwn'
         /\ wire' \in [Processes -> [Processes -> Seq(Notices)]]
<1>1. /\ request \in [Processes -> Seq(Requests)]
      /\ wire \in [Processes -> [Processes -> Seq(Notices)]]
  BY DEF ApartTyped, ApartTypeOK
<1>2. Written(p) /\ request[p] # Idle
  BY DEF Announce, Written
<1>3. request' = [request EXCEPT ![p] = <<>>]
  BY DEF Announce, Idle
<1>4. /\ request' \in [Processes -> Seq(Requests)] /\ request'[p] = <<>>
      /\ \A q \in Processes : q # p => request'[q] = request[q]
  BY <1>1, <1>3
<1>5. PICK notice : notice = request[p][1].notice
  OBVIOUS
<1>6. notice \in Notices
  BY <1>2, <1>5, InHand
<1>7. wire' = [wire EXCEPT ![p] = [q \in Processes |-> Append(wire[p][q], notice)]]
  BY <1>5 DEF Announce
<1>8. [q \in Processes |-> Append(wire[p][q], notice)] \in [Processes -> Seq(Notices)]
  BY <1>1, <1>6
<1>9. /\ wire' \in [Processes -> [Processes -> Seq(Notices)]]
      /\ \A q \in Processes : q # p => wire'[q] = wire[q]
      /\ \A r \in Processes : wire'[p][r] = Append(wire[p][r], notice)
  BY <1>1, <1>7, <1>8
<1>10. RequestsAreOwn'
  BY <1>4 DEF ApartTyped, RequestsAreOwn, Idle
<1>11. ~Written(p)'
  BY <1>4 DEF Written, Idle
<1> QED  BY <1>2, <1>4, <1>5, <1>9, <1>10, <1>11

\* The first notice on a wire goes to the end of the closures.
LEMMA ReceivesNotice ==
  ASSUME ApartTyped, NEW p \in Processes, NEW q \in Processes, ReceiveNotice(p, q)
  PROVE  /\ wire[p][q] # <<>> /\ wire[p][q] \in Seq(Notices)
         /\ wire'[p][q] = Tail(wire[p][q])
         /\ \A u, v \in Processes : u # p \/ v # q => wire'[u][v] = wire[u][v]
         /\ posted'[q] = Append(posted[q], Head(wire[p][q]))
         /\ \A v \in Processes : v # q => posted'[v] = posted[v]
         /\ Head(wire[p][q]) \in Notices
         /\ wire' \in [Processes -> [Processes -> Seq(Notices)]]
         /\ posted' \in [Processes -> Seq(Notices \cup Messages)]
<1>1. /\ wire \in [Processes -> [Processes -> Seq(Notices)]]
      /\ posted \in [Processes -> Seq(Notices \cup Messages)]
  BY DEF ApartTyped, ApartTypeOK
<1>2. PICK line : line = wire[p][q]
  OBVIOUS
<1>3. line \in Seq(Notices) /\ line # <<>>
  BY <1>1, <1>2 DEF ReceiveNotice
<1>4. Head(line) \in Notices /\ Tail(line) \in Seq(Notices)
  BY <1>3
<1>5. wire' = [wire EXCEPT ![p][q] = Tail(line)]
  BY <1>2 DEF ReceiveNotice
<1>6. /\ wire' \in [Processes -> [Processes -> Seq(Notices)]]
      /\ wire'[p][q] = Tail(line)
      /\ \A u, v \in Processes : u # p \/ v # q => wire'[u][v] = wire[u][v]
  <2> DEFINE rest == [wire[p] EXCEPT ![q] = Tail(line)]
  <2>1. wire' = [wire EXCEPT ![p] = rest]
    BY <1>1, <1>5
  <2>2. /\ rest \in [Processes -> Seq(Notices)] /\ rest[q] = Tail(line)
        /\ \A v \in Processes : v # q => rest[v] = wire[p][v]
    BY <1>1, <1>4
  <2> HIDE DEF rest
  <2>3. /\ wire' \in [Processes -> [Processes -> Seq(Notices)]]
        /\ wire'[p] = rest /\ \A u \in Processes : u # p => wire'[u] = wire[u]
    BY <1>1, <2>1, <2>2
  <2> QED  BY <2>2, <2>3
<1>7. posted' = [posted EXCEPT ![q] = Append(posted[q], Head(line))]
  BY <1>2 DEF ReceiveNotice
<1>8. Append(posted[q], Head(line)) \in Seq(Notices \cup Messages)
  BY <1>1, <1>4
<1>9. /\ posted' \in [Processes -> Seq(Notices \cup Messages)]
      /\ posted'[q] = Append(posted[q], Head(line))
      /\ \A v \in Processes : v # q => posted'[v] = posted[v]
  BY <1>1, <1>7, <1>8
<1> QED  BY <1>2, <1>3, <1>4, <1>6, <1>9

\* So does the first message of those that were relayed.
LEMMA ReceivesRelay ==
  ASSUME ApartTyped, NEW q \in Processes, ReceiveRelay(q)
  PROVE  /\ relay[q] # <<>> /\ relay[q] \in Seq(Nat)
         /\ relay'[q] = Tail(relay[q])
         /\ \A v \in Processes : v # q => relay'[v] = relay[v]
         /\ posted'[q] = Append(posted[q], Message(Head(relay[q])))
         /\ \A v \in Processes : v # q => posted'[v] = posted[v]
         /\ relay' \in [Processes -> Seq(Nat)]
         /\ posted' \in [Processes -> Seq(Notices \cup Messages)]
<1>1. /\ relay \in [Processes -> Seq(Nat)]
      /\ posted \in [Processes -> Seq(Notices \cup Messages)]
  BY DEF ApartTyped, ApartTypeOK
<1>2. PICK line : line = relay[q]
  OBVIOUS
<1>3. line \in Seq(Nat) /\ line # <<>>
  BY <1>1, <1>2 DEF ReceiveRelay
<1>4. Head(line) \in Nat /\ Tail(line) \in Seq(Nat)
  BY <1>3
<1>5. relay' = [relay EXCEPT ![q] = Tail(line)]
  BY <1>2 DEF ReceiveRelay
<1>6. /\ relay' \in [Processes -> Seq(Nat)] /\ relay'[q] = Tail(line)
      /\ \A v \in Processes : v # q => relay'[v] = relay[v]
  BY <1>1, <1>4, <1>5
<1>7. PICK closure : closure = Message(Head(line))
  OBVIOUS
<1>8. closure \in Notices \cup Messages
  BY <1>4, <1>7 DEF Message, Messages
<1>9. posted' = [posted EXCEPT ![q] = Append(posted[q], closure)]
  BY <1>2, <1>7 DEF ReceiveRelay
<1>10. Append(posted[q], closure) \in Seq(Notices \cup Messages)
  BY <1>1, <1>8
<1>11. /\ posted' \in [Processes -> Seq(Notices \cup Messages)]
       /\ posted'[q] = Append(posted[q], closure)
       /\ \A v \in Processes : v # q => posted'[v] = posted[v]
  BY <1>1, <1>9, <1>10
<1> QED  BY <1>2, <1>3, <1>6, <1>7, <1>11

\* A closure leaves the queue it was in.
LEMMA RunsClosure ==
  ASSUME ApartTyped, NEW p \in Processes, RunClosure(p)
  PROVE  /\ posted[p] # <<>> /\ posted[p] \in Seq(Notices \cup Messages)
         /\ Head(posted[p]) \in Notices \cup Messages
         /\ posted'[p] = Tail(posted[p])
         /\ \A v \in Processes : v # p => posted'[v] = posted[v]
         /\ posted' \in [Processes -> Seq(Notices \cup Messages)]
         /\ reloading[p] = NoOne
<1>1. posted \in [Processes -> Seq(Notices \cup Messages)]
  BY DEF ApartTyped, ApartTypeOK
<1>2. PICK line : line = posted[p]
  OBVIOUS
<1>3. line \in Seq(Notices \cup Messages) /\ line # <<>>
  BY <1>1, <1>2 DEF RunClosure
<1>4. Head(line) \in Notices \cup Messages /\ Tail(line) \in Seq(Notices \cup Messages)
  BY <1>3
<1>5. posted' = [posted EXCEPT ![p] = Tail(line)]
  BY <1>2 DEF RunClosure
<1>6. /\ posted' \in [Processes -> Seq(Notices \cup Messages)] /\ posted'[p] = Tail(line)
      /\ \A v \in Processes : v # p => posted'[v] = posted[v]
  BY <1>1, <1>4, <1>5
<1> QED  BY <1>2, <1>3, <1>4, <1>6 DEF RunClosure, Selects

\* A notice says who serves the talk from then on; a message is no notice.
LEMMA Closures ==
  ASSUME NEW closure \in Notices \cup Messages
  PROVE  /\ closure.event = "message" => closure \in Messages /\ closure = Message(closure.n)
                                         /\ closure.n \in Nat
         /\ closure.event # "message" => closure \in Notices /\ closure.user \in Servicers
         /\ closure.event = "attach" => closure = TakenBy(closure.user)
         /\ closure.event = "detach" => closure \in Notices
<1>1. CASE closure \in Notices
  BY <1>1 DEF Notices, TakenBy
<1>2. CASE closure \in Messages
  BY <1>2 DEF Messages, Message
<1> QED  BY <1>1, <1>2

LEMMA InitApartTyped == ApartInit => ApartTyped
<1> SUFFICES ASSUME ApartInit PROVE ApartTyped
  OBVIOUS
<1>1. request = [p \in Processes |-> <<>>] /\ <<>> \in Seq(Requests)
  BY DEF ApartInit, Idle
<1>2. RequestsAreOwn
  BY <1>1 DEF RequestsAreOwn, Idle
<1>3. /\ owner \in Users /\ stored \in Nat /\ asked \in [Servicers -> Nat]
      /\ request \in [Processes -> Seq(Requests)]
      /\ crossed \in BOOLEAN /\ misled \in BOOLEAN
      /\ word \in [Servicers -> Users] /\ shown \in [Servicers -> SUBSET Nat]
      /\ reloading \in [Processes -> Users]
  BY <1>1 DEF ApartInit, Users
<1>4. wire \in [Processes -> [Processes -> Seq(Notices)]]
  BY DEF ApartInit
<1>5. /\ outgoing \in Seq(Nat) /\ relay \in [Processes -> Seq(Nat)]
      /\ posted \in [Processes -> Seq(Notices \cup Messages)]
  BY DEF ApartInit
<1> QED  BY <1>2, <1>3, <1>4, <1>5 DEF ApartTyped, ApartTypeOK

LEMMA StepApartTyped ==
  ASSUME ApartTyped, [ApartNext]_apartVars
  PROVE  ApartTyped'
<1> USE DEF ApartTyped
<1>1. ASSUME NEW s \in Servicers, TakeAttach(s) \/ TakeDetach(s)
      PROVE  ApartTyped'
  <2>1. PICK event \in {"attach", "detach"} : Takes(s, event)
    BY <1>1 DEF TakeAttach, TakeDetach
  <2>2. /\ request' \in [Processes -> Seq(Requests)] /\ RequestsAreOwn'
        /\ asked' \in [Servicers -> Nat]
    BY <2>1, TakesUp
  <2>3. UNCHANGED <<storeVars, wire, outgoing, relay, posted, reloading, screens, history>>
    BY <1>1 DEF TakeAttach, TakeDetach
  <2> QED  BY <2>2, <2>3 DEF ApartTypeOK, storeVars, screens, history
<1>2. ASSUME NEW p \in Processes, UpdateOwner(p)
      PROVE  ApartTyped'
  <2>1. request' \in [Processes -> Seq(Requests)] /\ RequestsAreOwn' /\ request[p] # Idle
    BY <1>2, UpdatesOwner
  <2>2. request[p][1].notice.user \in Servicers
    BY <2>1, InHand
  <2>3. /\ owner' \in Users /\ misled' \in BOOLEAN /\ crossed' \in BOOLEAN
        /\ UNCHANGED <<stored, asked, wire, outgoing, relay, posted, reloading, screens>>
    BY <1>2, <2>2 DEF UpdateOwner, ApartTypeOK, Users, ForeignNews
  <2> QED  BY <2>1, <2>3 DEF ApartTypeOK, screens
<1>3. ASSUME NEW p \in Processes, Announce(p)
      PROVE  ApartTyped'
  <2>1. /\ request' \in [Processes -> Seq(Requests)] /\ RequestsAreOwn'
        /\ wire' \in [Processes -> [Processes -> Seq(Notices)]]
    BY <1>3, Announces
  <2>2. UNCHANGED <<storeVars, asked, outgoing, relay, posted, reloading, screens, history>>
    BY <1>3 DEF Announce
  <2> QED  BY <2>1, <2>2 DEF ApartTypeOK, storeVars, screens, history
<1>4. ASSUME NEW p \in Processes, NEW q \in Processes, ReceiveNotice(p, q)
      PROVE  ApartTyped'
  <2>1. /\ wire' \in [Processes -> [Processes -> Seq(Notices)]]
        /\ posted' \in [Processes -> Seq(Notices \cup Messages)]
    BY <1>4, ReceivesNotice
  <2>2. UNCHANGED <<storeVars, asked, request, outgoing, relay, reloading, screens, history>>
    BY <1>4 DEF ReceiveNotice
  <2> QED  BY <2>1, <2>2 DEF ApartTypeOK, RequestsAreOwn, storeVars, screens, history
<1>5. ASSUME NEW q \in Processes, ReceiveRelay(q)
      PROVE  ApartTyped'
  <2>1. /\ relay' \in [Processes -> Seq(Nat)]
        /\ posted' \in [Processes -> Seq(Notices \cup Messages)]
    BY <1>5, ReceivesRelay
  <2>2. UNCHANGED <<storeVars, asked, request, wire, outgoing, reloading, screens, history>>
    BY <1>5 DEF ReceiveRelay
  <2> QED  BY <2>1, <2>2 DEF ApartTypeOK, RequestsAreOwn, storeVars, screens, history
<1>6. ASSUME NEW p \in Processes, RunClosure(p)
      PROVE  ApartTyped'
  <2>1. PICK closure : closure = Head(posted[p])
    OBVIOUS
  <2>2. /\ posted' \in [Processes -> Seq(Notices \cup Messages)]
        /\ closure \in Notices \cup Messages
    BY <1>6, <2>1, RunsClosure
  <2>3. UNCHANGED <<storeVars, asked, request, wire, outgoing, relay, history>>
    BY <1>6 DEF RunClosure
  <2>4. RunAttach(p, closure) \/ RunDetach(p, closure) \/ RunMessage(p, closure)
    BY <1>6, <2>1 DEF RunClosure
  <2>5. /\ reloading' \in [Processes -> Users]
        /\ word' \in [Servicers -> Users] /\ shown' \in [Servicers -> SUBSET Nat]
    <3>1. CASE RunAttach(p, closure)
      <4>1. closure.user \in Servicers
        BY <2>2, <3>1, Closures DEF RunAttach
      <4> QED  BY <3>1, <4>1 DEF RunAttach, Tell, ApartTypeOK, Users
    <3>2. CASE RunDetach(p, closure)
      BY <3>2 DEF RunDetach, Tell, ApartTypeOK, Users
    <3>3. CASE RunMessage(p, closure)
      <4>1. closure.n \in Nat
        BY <2>2, <3>3, Closures DEF RunMessage
      <4> QED  BY <3>3, <4>1 DEF RunMessage, ApartTypeOK
    <3> QED  BY <2>4, <3>1, <3>2, <3>3
  <2> QED  BY <2>2, <2>3, <2>5 DEF ApartTypeOK, RequestsAreOwn, storeVars, history
<1>7. ASSUME NEW p \in Processes, Reload(p)
      PROVE  ApartTyped'
  <2>1. 1..stored \subseteq Nat
    BY DEF ApartTypeOK
  <2>2. shown' \in [Servicers -> SUBSET Nat]
    <3>1. shown \in [Servicers -> SUBSET Nat]
      BY DEF ApartTypeOK
    <3> QED  BY <1>7, <2>1, <3>1 DEF Reload
  <2>3. reloading' \in [Processes -> Users]
    BY <1>7 DEF Reload, ApartTypeOK, Users
  <2>4. UNCHANGED <<storeVars, asked, request, wire, outgoing, relay, posted, word, history>>
    BY <1>7 DEF Reload
  <2> QED  BY <2>2, <2>3, <2>4 DEF ApartTypeOK, RequestsAreOwn, storeVars, history
<1>8. CASE StoreMessage
  <2>1. stored' \in Nat /\ outgoing' \in Seq(Nat)
    BY <1>8 DEF StoreMessage, ApartTypeOK
  <2>2. UNCHANGED <<owner, asked, request, wire, relay, posted, reloading, screens, history>>
    BY <1>8 DEF StoreMessage
  <2> QED  BY <2>1, <2>2 DEF ApartTypeOK, RequestsAreOwn, screens, history
<1>9. CASE PublishMessage
  <2>1. outgoing \in Seq(Nat) /\ outgoing # <<>> /\ relay \in [Processes -> Seq(Nat)]
    BY <1>9 DEF PublishMessage, ApartTypeOK
  <2>2. Head(outgoing) \in Nat /\ Tail(outgoing) \in Seq(Nat)
    BY <2>1
  <2>3. outgoing' \in Seq(Nat) /\ relay' \in [Processes -> Seq(Nat)]
    BY <1>9, <2>1, <2>2 DEF PublishMessage
  <2>4. UNCHANGED <<storeVars, asked, request, wire, posted, reloading, screens, history>>
    BY <1>9 DEF PublishMessage
  <2> QED  BY <2>3, <2>4 DEF ApartTypeOK, RequestsAreOwn, storeVars, screens, history
<1>10. CASE UNCHANGED apartVars
  BY <1>10 DEF ApartTypeOK, RequestsAreOwn, apartVars, storeVars, screens, history
<1> QED
  BY <1>1, <1>2, <1>3, <1>4, <1>5, <1>6, <1>7, <1>8, <1>9, <1>10 DEF ApartNext

\* For any processes, servicers and requests the variables keep their types, and a
\* main routine has one request at a time in hand, of a servicer of its own.
THEOREM ApartTypedInvariant == ApartSpec => []ApartTyped
<1>1. ApartTyped /\ [ApartNext]_apartVars => ApartTyped'
  BY StepApartTyped
<1> QED  BY InitApartTyped, <1>1, PTL DEF ApartSpec

-----------------------------------------------------------------------------
(* Who serves the talk sees it all. *)

\* A channel carries x.
Has(line, x) == \E i \in DOMAIN line : line[i] = x

\* A message has been shown to a servicer, or is on its way to his process.
ShownOrComing(s, n) ==
  \/ n \in shown[s]
  \/ Has(outgoing, n)
  \/ Has(relay[ProcessOf[s]], n)
  \/ Has(posted[ProcessOf[s]], Message(n))

\* His attach is on its way to his process, or the talk is about to be read for him.
AllComing(s) ==
  \/ \E q \in Processes : Has(wire[q][ProcessOf[s]], TakenBy(s))
  \/ Has(posted[ProcessOf[s]], TakenBy(s))
  \/ Written(ProcessOf[s]) /\ request[ProcessOf[s]][1].notice = TakenBy(s)
  \/ reloading[ProcessOf[s]] = s

SeesAll(s) == (\A n \in 1..stored : ShownOrComing(s, n)) \/ AllComing(s)

LEMMA ServedSeesAllByParts ==
  ServedSeesAll <=> \A s \in Servicers : owner = s => SeesAll(s)
BY DEF ServedSeesAll, SeesAll, ShownOrComing, AllComing, Has

LEMMA ServedSeesAllNext ==
  ServedSeesAll' <=> \A s \in Servicers : owner' = s => SeesAll(s)'
BY DEF ServedSeesAll, SeesAll, ShownOrComing, AllComing, Has

\* What is in a channel stays in it when something is appended.
LEMMA StillThere ==
  ASSUME NEW S, NEW line \in Seq(S), NEW e, NEW x,
         Has(line, x) \/ e = x
  PROVE  Has(Append(line, e), x)
<1>1. /\ Len(line) \in Nat /\ DOMAIN line = 1..Len(line)
      /\ DOMAIN Append(line, e) = 1..(Len(line) + 1)
      /\ \A i \in 1..Len(line) : Append(line, e)[i] = line[i]
      /\ Append(line, e)[Len(line) + 1] = e
  BY AppendPlaces
<1>2. Len(line) + 1 \in 1..(Len(line) + 1)
      /\ \A i \in 1..Len(line) : i \in 1..(Len(line) + 1)
  BY <1>1
<1> QED  BY <1>1, <1>2 DEF Has

\* What is in a channel is received next or stays in it.
LEMMA FirstOrLeft ==
  ASSUME NEW S, NEW line \in Seq(S), line # <<>>, NEW x,
         Has(line, x)
  PROVE  x = Head(line) \/ Has(Tail(line), x)
<1>1. x \in ToSet(line)
  BY DEF ToSet, Has
<1>2. x = Head(line) \/ x \in ToSet(Tail(line))
  BY <1>1, HeadOrTail
<1> QED  BY <1>2 DEF ToSet, Has

\* A step that leaves what a servicer has seen and what is on its way.
LEMMA SeesAllKept ==
  ASSUME NEW s \in Servicers, SeesAll(s),
         UNCHANGED <<stored, wire, outgoing, relay, posted, reloading, shown>>,
         Written(ProcessOf[s]) =>
           Written(ProcessOf[s])' /\ request'[ProcessOf[s]] = request[ProcessOf[s]]
  PROVE  SeesAll(s)'
<1> DEFINE home == ProcessOf[s]
<1>1. Written(home) /\ request[home][1].notice = TakenBy(s) =>
        Written(home)' /\ request'[home][1].notice = TakenBy(s)
  OBVIOUS
<1>2. AllComing(s) => AllComing(s)'
  BY <1>1 DEF AllComing
<1>3. \A n : ShownOrComing(s, n) => ShownOrComing(s, n)'
  BY DEF ShownOrComing
<1> QED  BY <1>2, <1>3 DEF SeesAll

LEMMA TakeSeen ==
  ASSUME ApartTyped, ServedSeesAll,
         NEW u \in Servicers, TakeAttach(u) \/ TakeDetach(u)
  PROVE  ServedSeesAll'
<1>1. PICK event \in {"attach", "detach"} : Takes(u, event)
  BY DEF TakeAttach, TakeDetach
<1>2. /\ \A p \in Processes : Written(p)' <=> Written(p)
      /\ \A p \in Processes : Written(p) => request'[p] = request[p]
  BY <1>1, TakesUp
<1>3. UNCHANGED <<owner, stored, wire, outgoing, relay, posted, reloading, shown>>
  BY DEF TakeAttach, TakeDetach, storeVars, screens
<1> SUFFICES ASSUME NEW s \in Servicers, owner' = s PROVE SeesAll(s)'
  BY ServedSeesAllNext
<1>4. SeesAll(s)
  BY <1>3, ServedSeesAllByParts
<1> QED  BY <1>2, <1>3, <1>4, HomeProcess, SeesAllKept

LEMMA UpdateSeen ==
  ASSUME ApartTyped, ServedSeesAll, NEW p \in Processes, UpdateOwner(p)
  PROVE  ServedSeesAll'
<1> SUFFICES ASSUME NEW s \in Servicers, owner' = s PROVE SeesAll(s)'
  BY ServedSeesAllNext
<1>1. /\ ~Written(p) /\ Written(p)' /\ request[p] # Idle
      /\ request'[p][1].notice = request[p][1].notice
      /\ \A q \in Processes : q # p => request'[q] = request[q]
  BY UpdatesOwner
<1>2. PICK notice : notice = request[p][1].notice
  OBVIOUS
<1>3. notice \in Notices /\ notice.user \in Servicers /\ ProcessOf[notice.user] = p
  BY <1>1, <1>2, InHand
<1>4. UNCHANGED <<stored, wire, outgoing, relay, posted, reloading, shown>>
  BY DEF UpdateOwner, screens
<1>5. CASE owner' = IF notice.event = "attach" THEN notice.user ELSE NoOne
  <2>1. notice.event = "attach" /\ notice.user = s
    BY <1>5, HomeProcess
  <2>2. notice = TakenBy(s) /\ ProcessOf[s] = p
    BY <1>3, <2>1, Closures
  <2> QED  BY <1>1, <1>2, <2>2 DEF SeesAll, AllComing
<1>6. CASE UNCHANGED owner
  <2>1. SeesAll(s)
    BY <1>6, ServedSeesAllByParts
  <2>2. Written(ProcessOf[s]) =>
          Written(ProcessOf[s])' /\ request'[ProcessOf[s]] = request[ProcessOf[s]]
    BY <1>1, HomeProcess DEF Written
  <2> QED  BY <1>4, <2>1, <2>2, SeesAllKept
<1> QED  BY <1>2, <1>5, <1>6 DEF UpdateOwner

LEMMA AnnounceSeen ==
  ASSUME ApartTyped, ServedSeesAll, NEW p \in Processes, Announce(p)
  PROVE  ServedSeesAll'
<1> SUFFICES ASSUME NEW s \in Servicers, owner' = s PROVE SeesAll(s)'
  BY ServedSeesAllNext
<1>1. /\ \A q \in Processes : q # p => request'[q] = request[q] /\ wire'[q] = wire[q]
      /\ \A r \in Processes : wire'[p][r] = Append(wire[p][r], request[p][1].notice)
  BY Announces
<1>2. UNCHANGED <<owner, stored, outgoing, relay, posted, reloading, shown>>
  BY DEF Announce, storeVars, screens
<1>3. SeesAll(s)
  BY <1>2, ServedSeesAllByParts
<1>4. PICK home : home = ProcessOf[s]
  OBVIOUS
<1>5. home \in Processes
  BY <1>4, HomeProcess
<1>6. \A n : ShownOrComing(s, n) => ShownOrComing(s, n)'
  BY <1>2 DEF ShownOrComing
<1>7. PICK notice : notice = request[p][1].notice
  OBVIOUS
<1>8. \A q \in Processes : wire[q][home] \in Seq(Notices)
  BY <1>5 DEF ApartTyped, ApartTypeOK
<1>9. ASSUME NEW q \in Processes, Has(wire[q][home], TakenBy(s))
      PROVE  AllComing(s)'
  <2>1. Has(wire'[q][home], TakenBy(s))
    <3>1. CASE q = p
      <4>1. wire'[q][home] = Append(wire[q][home], notice)
        BY <1>1, <1>5, <1>7, <3>1
      <4> QED  BY <1>8, <1>9, <4>1, StillThere
    <3>2. CASE q # p
      BY <1>1, <1>9, <3>2
    <3> QED  BY <3>1, <3>2
  <2> QED  BY <1>4, <2>1 DEF AllComing
<1>10. ASSUME Written(home), request[home][1].notice = TakenBy(s)
       PROVE  AllComing(s)'
  <2>1. CASE home = p
    <3>1. wire'[p][home] = Append(wire[p][home], notice) /\ notice = TakenBy(s)
      BY <1>1, <1>5, <1>7, <1>10, <2>1
    <3>2. Has(wire'[p][home], TakenBy(s))
      BY <1>8, <3>1, StillThere
    <3> QED  BY <1>4, <3>2 DEF AllComing
  <2>2. CASE home # p
    BY <1>1, <1>4, <1>5, <1>10, <2>2 DEF AllComing, Written
  <2> QED  BY <2>1, <2>2
<1>11. AllComing(s) => AllComing(s)'
  BY <1>2, <1>4, <1>9, <1>10 DEF AllComing
<1> QED  BY <1>2, <1>3, <1>6, <1>11 DEF SeesAll

LEMMA ReceiveNoticeSeen ==
  ASSUME ApartTyped, ServedSeesAll,
         NEW p \in Processes, NEW q \in Processes, ReceiveNotice(p, q)
  PROVE  ServedSeesAll'
<1> SUFFICES ASSUME NEW s \in Servicers, owner' = s PROVE SeesAll(s)'
  BY ServedSeesAllNext
<1>1. PICK line : line = wire[p][q]
  OBVIOUS
<1>2. /\ line # <<>> /\ line \in Seq(Notices) /\ wire'[p][q] = Tail(line)
      /\ \A u, v \in Processes : u # p \/ v # q => wire'[u][v] = wire[u][v]
      /\ posted'[q] = Append(posted[q], Head(line))
      /\ \A v \in Processes : v # q => posted'[v] = posted[v]
  BY <1>1, ReceivesNotice
<1>3. UNCHANGED <<owner, stored, request, outgoing, relay, reloading, shown>>
  BY DEF ReceiveNotice, storeVars, screens
<1>4. SeesAll(s)
  BY <1>3, ServedSeesAllByParts
<1>5. PICK home : home = ProcessOf[s]
  OBVIOUS
<1>6. home \in Processes /\ posted[q] \in Seq(Notices \cup Messages)
  BY <1>5, HomeProcess DEF ApartTyped, ApartTypeOK
<1>7. \A x : Has(posted[home], x) => Has(posted'[home], x)
  <2>1. ASSUME home = q, NEW x, Has(posted[home], x)
        PROVE  Has(posted'[home], x)
    <3>1. Has(posted[q], x)
      BY <2>1
    <3>2. Has(Append(posted[q], Head(line)), x)
      BY <1>6, <3>1, StillThere
    <3> QED  BY <1>2, <2>1, <3>2
  <2>2. ASSUME home # q
        PROVE  posted'[home] = posted[home]
    BY <1>2, <1>6, <2>2
  <2> QED  BY <2>1, <2>2
<1>8. \A n : ShownOrComing(s, n) => ShownOrComing(s, n)'
  BY <1>3, <1>5, <1>7 DEF ShownOrComing
<1>9. ASSUME NEW u \in Processes, Has(wire[u][home], TakenBy(s))
      PROVE  AllComing(s)'
  <2>1. CASE u = p /\ home = q
    <3>1. \/ TakenBy(s) = Head(line)
          \/ Has(Tail(line), TakenBy(s))
      BY <1>1, <1>2, <1>9, <2>1, FirstOrLeft
    <3>2. ASSUME TakenBy(s) = Head(line)
          PROVE  Has(posted'[home], TakenBy(s))
      BY <1>2, <1>6, <2>1, <3>2, StillThere
    <3>3. Has(Tail(line), TakenBy(s)) => Has(wire'[p][home], TakenBy(s))
      BY <1>2, <2>1
    <3>4. Has(posted'[home], TakenBy(s)) \/ Has(wire'[p][home], TakenBy(s))
      BY <3>1, <3>2, <3>3
    <3> QED  BY <1>5, <3>4 DEF AllComing
  <2>2. CASE ~(u = p /\ home = q)
    <3>1. wire'[u][home] = wire[u][home]
      BY <1>2, <1>6, <2>2
    <3> QED  BY <1>5, <1>9, <3>1 DEF AllComing
  <2> QED  BY <2>1, <2>2
<1>10. Written(home)' <=> Written(home)
  BY <1>3 DEF Written
<1>11. AllComing(s) => AllComing(s)'
  BY <1>3, <1>5, <1>7, <1>9, <1>10 DEF AllComing
<1> QED  BY <1>3, <1>4, <1>8, <1>11 DEF SeesAll

LEMMA ReceiveRelaySeen ==
  ASSUME ApartTyped, ServedSeesAll, NEW q \in Processes, ReceiveRelay(q)
  PROVE  ServedSeesAll'
<1> SUFFICES ASSUME NEW s \in Servicers, owner' = s PROVE SeesAll(s)'
  BY ServedSeesAllNext
<1>1. PICK line : line = relay[q]
  OBVIOUS
<1>2. /\ line # <<>> /\ line \in Seq(Nat) /\ relay'[q] = Tail(line)
      /\ \A v \in Processes : v # q => relay'[v] = relay[v]
      /\ posted'[q] = Append(posted[q], Message(Head(line)))
      /\ \A v \in Processes : v # q => posted'[v] = posted[v]
  BY <1>1, ReceivesRelay
<1>3. UNCHANGED <<owner, stored, request, wire, outgoing, reloading, shown>>
  BY DEF ReceiveRelay, storeVars, screens
<1>4. SeesAll(s)
  BY <1>3, ServedSeesAllByParts
<1>5. PICK home : home = ProcessOf[s]
  OBVIOUS
<1>6. home \in Processes /\ posted[q] \in Seq(Notices \cup Messages)
  BY <1>5, HomeProcess DEF ApartTyped, ApartTypeOK
<1>7. \A x : Has(posted[home], x) => Has(posted'[home], x)
  <2>1. ASSUME home = q, NEW x, Has(posted[home], x)
        PROVE  Has(posted'[home], x)
    <3>1. Has(posted[q], x)
      BY <2>1
    <3>2. Has(Append(posted[q], Message(Head(line))), x)
      BY <1>6, <3>1, StillThere
    <3> QED  BY <1>2, <2>1, <3>2
  <2>2. ASSUME home # q
        PROVE  posted'[home] = posted[home]
    BY <1>2, <1>6, <2>2
  <2> QED  BY <2>1, <2>2
<1>8. ASSUME NEW n, Has(relay[home], n)
      PROVE  ShownOrComing(s, n)'
  <2>1. CASE home = q
    <3>1. n = Head(line) \/ Has(Tail(line), n)
      BY <1>1, <1>2, <1>8, <2>1, FirstOrLeft
    <3>2. ASSUME n = Head(line)
          PROVE  Has(posted'[home], Message(n))
      BY <1>2, <1>6, <2>1, <3>2, StillThere
    <3> QED  BY <1>2, <1>5, <2>1, <3>1, <3>2 DEF ShownOrComing
  <2>2. CASE home # q
    BY <1>2, <1>5, <1>6, <1>8, <2>2 DEF ShownOrComing
  <2> QED  BY <2>1, <2>2
<1>9. \A n : ShownOrComing(s, n) => ShownOrComing(s, n)'
  BY <1>3, <1>5, <1>7, <1>8 DEF ShownOrComing
<1>10. Written(home)' <=> Written(home)
  BY <1>3 DEF Written
<1>11. AllComing(s) => AllComing(s)'
  BY <1>3, <1>5, <1>7, <1>10 DEF AllComing
<1> QED  BY <1>3, <1>4, <1>9, <1>11 DEF SeesAll

LEMMA RunClosureSeen ==
  ASSUME ApartTyped, ServedSeesAll, NEW p \in Processes, RunClosure(p)
  PROVE  ServedSeesAll'
<1> SUFFICES ASSUME NEW s \in Servicers, owner' = s PROVE SeesAll(s)'
  BY ServedSeesAllNext
<1>1. PICK line : line = posted[p]
  OBVIOUS
<1>2. PICK closure : closure = Head(line)
  OBVIOUS
<1>3. /\ line # <<>> /\ line \in Seq(Notices \cup Messages)
      /\ closure \in Notices \cup Messages /\ posted'[p] = Tail(line)
      /\ \A v \in Processes : v # p => posted'[v] = posted[v]
      /\ reloading[p] = NoOne
  BY <1>1, <1>2, RunsClosure
<1>4. UNCHANGED <<owner, stored, request, wire, outgoing, relay>>
  BY DEF RunClosure, storeVars
<1>5. RunAttach(p, closure) \/ RunDetach(p, closure) \/ RunMessage(p, closure)
  BY <1>1, <1>2 DEF RunClosure
<1>6. owner = s /\ SeesAll(s)
  BY <1>4, ServedSeesAllByParts
<1>7. PICK home : home = ProcessOf[s]
  OBVIOUS
<1>8. home \in Processes /\ s # NoOne
  BY <1>7, HomeProcess
<1>9. \A x : Has(posted[home], x)
        => Has(posted'[home], x) \/ (home = p /\ x = closure)
  <2>1. CASE home = p
    BY <1>1, <1>2, <1>3, <2>1, FirstOrLeft
  <2>2. CASE home # p
    BY <1>3, <1>8, <2>2
  <2> QED  BY <2>1, <2>2
<1>10. shown[s] \subseteq shown'[s]
  <2>1. CASE RunAttach(p, closure) \/ RunDetach(p, closure)
    BY <2>1 DEF RunAttach, RunDetach
  <2>2. CASE RunMessage(p, closure)
    BY <2>2 DEF RunMessage
  <2> QED  BY <1>5, <2>1, <2>2
<1>11. ASSUME NEW n, ShownOrComing(s, n)
       PROVE  ShownOrComing(s, n)'
  <2>1. CASE home = p /\ closure = Message(n)
    <3>1. closure.event = "message" /\ closure.n = n
      BY <2>1 DEF Message
    <3>2. RunMessage(p, closure)
      BY <1>5, <3>1 DEF RunAttach, RunDetach
    <3>3. s \in Home(p)
      BY <1>7, <2>1 DEF Home
    <3>4. n \in shown'[s]
      BY <1>6, <3>1, <3>2, <3>3 DEF RunMessage
    <3> QED  BY <3>4 DEF ShownOrComing
  <2>2. CASE ~(home = p /\ closure = Message(n))
    BY <1>4, <1>7, <1>9, <1>10, <1>11, <2>2 DEF ShownOrComing
  <2> QED  BY <2>1, <2>2
<1>12. \A q \in Processes \ {p} : reloading'[q] = reloading[q]
  <2>1. reloading \in [Processes -> Users]
    BY DEF ApartTyped, ApartTypeOK
  <2> QED  BY <1>5, <2>1 DEF RunAttach, RunDetach, RunMessage
<1>13. ASSUME AllComing(s) PROVE AllComing(s)'
  <2>1. CASE home = p /\ closure = TakenBy(s)
    <3>1. closure.event = "attach" /\ closure.user = s
      BY <2>1 DEF TakenBy
    <3>2. RunAttach(p, closure)
      BY <1>5, <3>1 DEF RunDetach, RunMessage
    <3>3. s \in Home(p)
      BY <1>7, <2>1 DEF Home
    <3>4. reloading \in [Processes -> Users]
      BY DEF ApartTyped, ApartTypeOK
    <3>5. reloading'[p] = s
      BY <3>1, <3>2, <3>3, <3>4 DEF RunAttach
    <3> QED  BY <1>7, <2>1, <3>5 DEF AllComing
  <2>2. CASE ~(home = p /\ closure = TakenBy(s))
    <3>1. Written(home)' <=> Written(home)
      BY <1>4 DEF Written
    <3>2. reloading[home] = s => reloading'[home] = s
      BY <1>3, <1>8, <1>12
    <3> QED  BY <1>4, <1>7, <1>9, <1>13, <2>2, <3>1, <3>2 DEF AllComing
  <2> QED  BY <2>1, <2>2
<1> QED  BY <1>4, <1>6, <1>11, <1>13 DEF SeesAll

LEMMA ReloadSeen ==
  ASSUME ApartTyped, ServedSeesAll, NEW p \in Processes, Reload(p)
  PROVE  ServedSeesAll'
<1> SUFFICES ASSUME NEW s \in Servicers, owner' = s PROVE SeesAll(s)'
  BY ServedSeesAllNext
<1>1. UNCHANGED <<owner, stored, request, wire, outgoing, relay, posted>>
  BY DEF Reload, storeVars
<1>2. SeesAll(s)
  BY <1>1, ServedSeesAllByParts
<1>3. /\ shown \in [Servicers -> SUBSET Nat] /\ reloading \in [Processes -> Users]
      /\ reloading[p] # NoOne
  BY DEF Reload, ApartTyped, ApartTypeOK
<1>4. shown[s] \subseteq shown'[s]
  BY <1>3 DEF Reload
<1>5. \A n : ShownOrComing(s, n) => ShownOrComing(s, n)'
  BY <1>1, <1>4 DEF ShownOrComing
<1>6. CASE reloading[p] = s
  <2>1. 1..stored \subseteq shown'[s]
    BY <1>3, <1>6 DEF Reload
  <2> QED  BY <1>1, <2>1 DEF SeesAll, ShownOrComing
<1>7. CASE reloading[p] # s
  <2>1. reloading[ProcessOf[s]] = s => reloading'[ProcessOf[s]] = s
    BY <1>3, <1>7, HomeProcess DEF Reload
  <2>2. Written(ProcessOf[s])' <=> Written(ProcessOf[s])
    BY <1>1 DEF Written
  <2>3. AllComing(s) => AllComing(s)'
    BY <1>1, <2>1, <2>2 DEF AllComing
  <2> QED  BY <1>1, <1>2, <1>5, <2>3 DEF SeesAll
<1> QED  BY <1>6, <1>7

LEMMA StoreSeen ==
  ASSUME ApartTyped, ServedSeesAll, StoreMessage
  PROVE  ServedSeesAll'
<1> SUFFICES ASSUME NEW s \in Servicers, owner' = s PROVE SeesAll(s)'
  BY ServedSeesAllNext
<1>1. UNCHANGED <<owner, request, wire, relay, posted, reloading, shown>>
  BY DEF StoreMessage, screens
<1>2. SeesAll(s)
  BY <1>1, ServedSeesAllByParts
<1>3. /\ stored \in Nat /\ stored' = stored + 1 /\ outgoing \in Seq(Nat)
      /\ outgoing' = Append(outgoing, stored + 1)
  BY DEF StoreMessage, ApartTyped, ApartTypeOK
<1>4. \A n : ShownOrComing(s, n) => ShownOrComing(s, n)'
  BY <1>1, <1>3, StillThere DEF ShownOrComing
<1>5. \A n : n = stored + 1 => ShownOrComing(s, n)'
  BY <1>3, StillThere DEF ShownOrComing
<1>6. \A n \in 1..stored' : n \in 1..stored \/ n = stored + 1
  BY <1>3
<1>7. Written(ProcessOf[s])' <=> Written(ProcessOf[s])
  BY <1>1 DEF Written
<1>8. AllComing(s) => AllComing(s)'
  BY <1>1, <1>7 DEF AllComing
<1>9. (\A n \in 1..stored : ShownOrComing(s, n)) => \A n \in 1..stored' : ShownOrComing(s, n)'
  BY <1>4, <1>5, <1>6
<1> QED  BY <1>2, <1>8, <1>9 DEF SeesAll

LEMMA PublishSeen ==
  ASSUME ApartTyped, ServedSeesAll, PublishMessage
  PROVE  ServedSeesAll'
<1> SUFFICES ASSUME NEW s \in Servicers, owner' = s PROVE SeesAll(s)'
  BY ServedSeesAllNext
<1>1. UNCHANGED <<owner, stored, request, wire, posted, reloading, shown>>
  BY DEF PublishMessage, storeVars, screens
<1>2. SeesAll(s)
  BY <1>1, ServedSeesAllByParts
<1>3. PICK home : home = ProcessOf[s]
  OBVIOUS
<1>4. /\ home \in Processes /\ relay[home] \in Seq(Nat)
      /\ outgoing \in Seq(Nat) /\ outgoing # <<>> /\ outgoing' = Tail(outgoing)
      /\ relay'[home] = Append(relay[home], Head(outgoing))
  BY <1>3, HomeProcess DEF PublishMessage, ApartTyped, ApartTypeOK
<1>5. ASSUME NEW n, Has(relay[home], n)
      PROVE  ShownOrComing(s, n)'
  BY <1>3, <1>4, <1>5, StillThere DEF ShownOrComing
<1>6. ASSUME NEW n, Has(outgoing, n)
      PROVE  ShownOrComing(s, n)'
  <2>1. n = Head(outgoing) \/ Has(Tail(outgoing), n)
    BY <1>4, <1>6, FirstOrLeft
  <2>2. CASE n = Head(outgoing)
    BY <1>3, <1>4, <2>2, StillThere DEF ShownOrComing
  <2> QED  BY <1>4, <2>1, <2>2 DEF ShownOrComing
<1>7. \A n : ShownOrComing(s, n) => ShownOrComing(s, n)'
  BY <1>1, <1>3, <1>5, <1>6 DEF ShownOrComing
<1>8. Written(ProcessOf[s])' <=> Written(ProcessOf[s])
  BY <1>1 DEF Written
<1>9. AllComing(s) => AllComing(s)'
  BY <1>1, <1>8 DEF AllComing
<1> QED  BY <1>1, <1>2, <1>7, <1>9 DEF SeesAll

LEMMA StepSeen ==
  ASSUME ApartTyped, ServedSeesAll, [ApartNext]_apartVars
  PROVE  ServedSeesAll'
<1>1. CASE UNCHANGED apartVars
  <2> QED  BY <1>1 DEF ServedSeesAll, Written, apartVars, storeVars, screens
<1> QED
  BY <1>1, TakeSeen, UpdateSeen, AnnounceSeen, ReceiveNoticeSeen, ReceiveRelaySeen,
     RunClosureSeen, ReloadSeen, StoreSeen, PublishSeen
  DEF ApartNext

\* However many processes race for the talk, and whichever updates fail: who serves
\* it by the store has seen every message, or it, or his attach, is on its way.
THEOREM ServedSeesAllInvariant == ApartSpec => []ServedSeesAll
<1>1. ApartInit => ServedSeesAll
  BY HomeProcess DEF ApartInit, ServedSeesAll
<1>2. /\ ApartTyped /\ [ApartNext]_apartVars => ApartTyped'
      /\ ApartTyped /\ ServedSeesAll /\ [ApartNext]_apartVars => ServedSeesAll'
  BY StepApartTyped, StepSeen
<1> QED  BY InitApartTyped, <1>1, <1>2, PTL DEF ApartSpec

-----------------------------------------------------------------------------
(* Servicers agree on who serves the talk unless processes have crossed. *)

\* Who serves the talk by a notice.
Says(notice) == IF notice.event = "attach" THEN notice.user ELSE NoOne

\* No closure in the line is that of a notice; the last that is says x.
NoNotice(line) == \A i \in DOMAIN line : line[i].event = "message"

LastSays(line, x) == \A i \in DOMAIN line :
  /\ line[i].event # "message"
  /\ \A j \in DOMAIN line : j > i => line[j].event = "message"
  => Says(line[i]) = x

\* The last of all that a servicer has still to be told by process p, or was told if
\* there is no more, is what the store says.
ToldLast(p, s) ==
  LET home == ProcessOf[s] IN
  /\ Written(p) => Says(request[p][1].notice) = owner
  /\ ~Written(p) /\ wire[p][home] # <<>> =>
       Says(wire[p][home][Len(wire[p][home])]) = owner
  /\ ~Written(p) /\ wire[p][home] = <<>> => LastSays(posted[home], owner)
  /\ ~Written(p) /\ wire[p][home] = <<>> /\ NoNotice(posted[home]) => word[s] = owner

\* The invariant.  After an update that neither failed nor met a notice of another
\* process, the process that made it is the only one from which there is news.
OneSource == ~crossed /\ ~misled =>
  \A s \in Servicers : \E p \in Processes : ~ForeignNews(p) /\ ToldLast(p, s)

\* The closure of a notice becomes the last word; that of a message does not count.
LEMMA AppendSays ==
  ASSUME NEW S, NEW line \in Seq(S), NEW e, NEW x
  PROVE  /\ e.event # "message" =>
              ~NoNotice(Append(line, e)) /\ (Says(e) = x => LastSays(Append(line, e), x))
         /\ e.event = "message" =>
              /\ NoNotice(Append(line, e)) => NoNotice(line)
              /\ LastSays(line, x) => LastSays(Append(line, e), x)
<1> DEFINE longer == Append(line, e)
<1>1. /\ Len(line) \in Nat /\ DOMAIN line = 1..Len(line)
      /\ DOMAIN longer = 1..(Len(line) + 1)
      /\ \A i \in 1..Len(line) : longer[i] = line[i]
      /\ longer[Len(line) + 1] = e
  BY AppendPlaces
<1> HIDE DEF longer
<1>2. /\ Len(line) + 1 \in DOMAIN longer
      /\ \A i \in DOMAIN line : i \in DOMAIN longer /\ Len(line) + 1 > i
      /\ \A i \in DOMAIN longer : i \in DOMAIN line \/ i = Len(line) + 1
  BY <1>1
<1>3. ASSUME e.event # "message"
      PROVE  ~NoNotice(longer) /\ (Says(e) = x => LastSays(longer, x))
  BY <1>1, <1>2, <1>3 DEF NoNotice, LastSays
<1>4. ASSUME e.event = "message"
      PROVE  /\ NoNotice(longer) => NoNotice(line)
             /\ LastSays(line, x) => LastSays(longer, x)
  <2>1. NoNotice(longer) => NoNotice(line)
    BY <1>1, <1>2 DEF NoNotice
  <2>2. ASSUME LastSays(line, x), NEW i \in DOMAIN longer, longer[i].event # "message",
               \A j \in DOMAIN longer : j > i => longer[j].event = "message"
        PROVE  Says(longer[i]) = x
    <3>1. i \in DOMAIN line /\ longer[i] = line[i]
      BY <1>1, <1>2, <1>4, <2>2
    <3>2. \A j \in DOMAIN line : j > i => line[j].event = "message"
      BY <1>1, <1>2, <2>2
    <3> QED  BY <2>2, <3>1, <3>2 DEF LastSays
  <2>3. LastSays(line, x) => LastSays(longer, x)
    BY <2>2 DEF LastSays
  <2> QED  BY <2>1, <2>3
<1> QED  BY <1>3, <1>4 DEF longer

\* When the first closure is run, the last word is in the rest, or it was the first.
LEMMA TailSays ==
  ASSUME NEW S, NEW line \in Seq(S), line # <<>>, NEW x, LastSays(line, x)
  PROVE  /\ LastSays(Tail(line), x)
         /\ NoNotice(Tail(line)) /\ Head(line).event = "message" => NoNotice(line)
         /\ NoNotice(Tail(line)) /\ Head(line).event # "message" => Says(Head(line)) = x
<1> DEFINE rest == Tail(line)
<1>1. /\ Len(line) \in Nat \ {0} /\ DOMAIN line = 1..Len(line) /\ Head(line) = line[1]
      /\ DOMAIN rest = 1..(Len(line) - 1)
      /\ \A i \in 1..(Len(line) - 1) : i + 1 \in 1..Len(line) /\ rest[i] = line[i + 1]
  BY TailPlaces
<1> HIDE DEF rest
<1>2. \A i \in DOMAIN line : i = 1 \/ (i - 1 \in DOMAIN rest /\ rest[i - 1] = line[i])
  <2> SUFFICES ASSUME NEW i \in DOMAIN line, i # 1
               PROVE  i - 1 \in DOMAIN rest /\ rest[i - 1] = line[i]
    OBVIOUS
  <2>1. i - 1 \in 1..(Len(line) - 1) /\ (i - 1) + 1 = i
    BY <1>1
  <2> QED  BY <1>1, <2>1
<1>3. ASSUME NEW i \in DOMAIN rest, rest[i].event # "message",
             \A j \in DOMAIN rest : j > i => rest[j].event = "message"
      PROVE  Says(rest[i]) = x
  <2>1. i + 1 \in DOMAIN line /\ line[i + 1] = rest[i] /\ i \in Nat
    BY <1>1, <1>3
  <2>2. \A j \in DOMAIN line : j > i + 1 => line[j].event = "message"
    <3> SUFFICES ASSUME NEW j \in DOMAIN line, j > i + 1 PROVE line[j].event = "message"
      OBVIOUS
    <3>1. j - 1 \in DOMAIN rest /\ rest[j - 1] = line[j] /\ j - 1 > i
      BY <1>1, <1>2, <2>1
    <3> QED  BY <1>3, <3>1
  <2> QED  BY <1>3, <2>1, <2>2 DEF LastSays
<1>4. LastSays(rest, x)
  BY <1>3 DEF LastSays
<1>5. NoNotice(rest) => \A i \in DOMAIN line : i = 1 \/ line[i].event = "message"
  BY <1>2 DEF NoNotice
<1>6. NoNotice(rest) /\ Head(line).event = "message" => NoNotice(line)
  BY <1>1, <1>5 DEF NoNotice
<1>7. NoNotice(rest) /\ Head(line).event # "message" => Says(Head(line)) = x
  <2> SUFFICES ASSUME NoNotice(rest), Head(line).event # "message"
               PROVE  Says(Head(line)) = x
    OBVIOUS
  <2>1. 1 \in DOMAIN line /\ \A j \in DOMAIN line : j > 1 => line[j].event = "message"
    BY <1>1, <1>5
  <2> QED  BY <1>1, <2>1 DEF LastSays
<1> QED  BY <1>4, <1>6, <1>7 DEF rest

\* A step that changes nothing of what a servicer is told.
LEMMA ToldLastKept ==
  ASSUME NEW p \in Processes, NEW s \in Servicers, ToldLast(p, s),
         UNCHANGED <<owner, wire>>, word'[s] = word[s],
         posted'[ProcessOf[s]] = posted[ProcessOf[s]],
         Written(p)' <=> Written(p), Written(p) => request'[p] = request[p]
  PROVE  ToldLast(p, s)'
BY DEF ToldLast

\* There is news of the same processes as before.
LEMMA NewsKept ==
  ASSUME NEW p \in Processes, ~ForeignNews(p), UNCHANGED wire,
         \A q \in Processes : Written(q)' <=> Written(q)
  PROVE  ~ForeignNews(p)'
BY DEF ForeignNews

\* A step that leaves the notices, the closures and the words alone.
LEMMA OneSourceKept ==
  ASSUME OneSource, UNCHANGED <<owner, wire, posted, word, history>>,
         \A q \in Processes : Written(q)' <=> Written(q),
         \A q \in Processes : Written(q) => request'[q] = request[q]
  PROVE  OneSource'
<1> SUFFICES ASSUME ~crossed', ~misled', NEW s \in Servicers
             PROVE  \E p \in Processes : ~ForeignNews(p)' /\ ToldLast(p, s)'
  BY DEF OneSource
<1>1. PICK p \in Processes : ~ForeignNews(p) /\ ToldLast(p, s)
  BY DEF OneSource, history
<1>2. ~ForeignNews(p)'
  BY <1>1, NewsKept
<1>3. ToldLast(p, s)'
  BY <1>1, ToldLastKept
<1> QED  BY <1>2, <1>3

LEMMA UpdateSource ==
  ASSUME ApartTyped, NEW p \in Processes, UpdateOwner(p)
  PROVE  OneSource'
<1> SUFFICES ASSUME ~crossed', ~misled', NEW s \in Servicers
             PROVE  ~ForeignNews(p)' /\ ToldLast(p, s)'
  BY DEF OneSource
<1>1. /\ Written(p)' /\ request'[p][1].notice = request[p][1].notice
      /\ \A q \in Processes : q # p => request'[q] = request[q]
  BY UpdatesOwner
<1>2. ~ForeignNews(p) /\ UNCHANGED wire
  BY DEF UpdateOwner
<1>3. ~ForeignNews(p)'
  BY <1>1, <1>2 DEF ForeignNews, Written
<1>4. owner' = Says(request[p][1].notice)
  BY DEF UpdateOwner, Says
<1>5. ToldLast(p, s)'
  BY <1>1, <1>4 DEF ToldLast
<1> QED  BY <1>3, <1>5

LEMMA AnnounceSource ==
  ASSUME ApartTyped, OneSource, NEW p \in Processes, Announce(p)
  PROVE  OneSource'
<1> SUFFICES ASSUME ~crossed', ~misled', NEW s \in Servicers
             PROVE  ~ForeignNews(p)' /\ ToldLast(p, s)'
  BY DEF OneSource
<1>1. /\ Written(p) /\ ~Written(p)'
      /\ \A q \in Processes : q # p => request'[q] = request[q] /\ wire'[q] = wire[q]
      /\ \A r \in Processes : wire'[p][r] = Append(wire[p][r], request[p][1].notice)
  BY Announces
<1>2. UNCHANGED <<owner, crossed, misled>>
  BY DEF Announce, storeVars, history
<1>3. PICK q \in Processes : ~ForeignNews(q) /\ ToldLast(q, s)
  BY <1>2 DEF OneSource
<1>4. q = p
  BY <1>1, <1>3 DEF ForeignNews
<1>5. ~ForeignNews(p)'
  BY <1>1, <1>3, <1>4 DEF ForeignNews, Written
<1>6. PICK home : home = ProcessOf[s]
  OBVIOUS
<1>7. home \in Processes /\ wire[p][home] \in Seq(Notices)
  BY <1>6, HomeProcess DEF ApartTyped, ApartTypeOK
<1>8. PICK notice : notice = request[p][1].notice
  OBVIOUS
<1>9. wire'[p][home] = Append(wire[p][home], notice) /\ Says(notice) = owner
  BY <1>1, <1>3, <1>4, <1>7, <1>8 DEF ToldLast
<1>10. wire'[p][home] # <<>> /\ wire'[p][home][Len(wire'[p][home])] = notice
  <2>1. PICK line : line = wire[p][home]
    OBVIOUS
  <2>2. Append(line, notice) # <<>> /\ Append(line, notice)[Len(Append(line, notice))] = notice
    <3>1. line \in Seq(Notices)
      BY <1>7, <2>1
    <3> QED  BY <3>1
  <2> QED  BY <1>9, <2>1, <2>2
<1>11. ToldLast(p, s)'
  BY <1>1, <1>2, <1>6, <1>9, <1>10 DEF ToldLast
<1> QED  BY <1>5, <1>11

LEMMA ReceiveNoticeSource ==
  ASSUME ApartTyped, OneSource,
         NEW p \in Processes, NEW q \in Processes, ReceiveNotice(p, q)
  PROVE  OneSource'
<1> SUFFICES ASSUME ~crossed', ~misled', NEW s \in Servicers
             PROVE  ~ForeignNews(p)' /\ ToldLast(p, s)'
  BY DEF OneSource
<1>1. PICK line : line = wire[p][q]
  OBVIOUS
<1>2. /\ line # <<>> /\ line \in Seq(Notices) /\ wire'[p][q] = Tail(line)
      /\ \A u, v \in Processes : u # p \/ v # q => wire'[u][v] = wire[u][v]
      /\ posted'[q] = Append(posted[q], Head(line))
      /\ \A v \in Processes : v # q => posted'[v] = posted[v]
      /\ Head(line) \in Notices
  BY <1>1, ReceivesNotice
<1>3. UNCHANGED <<owner, request, crossed, misled, word>>
  BY DEF ReceiveNotice, storeVars, screens, history
<1>4. PICK u \in Processes : ~ForeignNews(u) /\ ToldLast(u, s)
  BY <1>3 DEF OneSource
<1>5. u = p
  BY <1>1, <1>2, <1>4 DEF ForeignNews
<1>6. \A v \in Processes : Written(v)' <=> Written(v)
  BY <1>3 DEF Written
<1>7. ~ForeignNews(p)'
  BY <1>2, <1>4, <1>5, <1>6 DEF ForeignNews
<1>8. PICK home : home = ProcessOf[s]
  OBVIOUS
<1>9. home \in Processes /\ posted[home] \in Seq(Notices \cup Messages)
  BY <1>8, HomeProcess DEF ApartTyped, ApartTypeOK
<1>10. ToldLast(p, s)
  BY <1>4, <1>5
<1>11. CASE home # q
  <2>1. wire'[p][home] = wire[p][home] /\ posted'[home] = posted[home]
    BY <1>2, <1>9, <1>11
  <2> QED  BY <1>3, <1>6, <1>7, <1>8, <1>10, <2>1 DEF ToldLast
<1>12. CASE home = q
  <2>1. /\ wire[p][home] = line /\ wire'[p][home] = Tail(line)
        /\ posted'[home] = Append(posted[home], Head(line))
    BY <1>1, <1>2, <1>12
  <2>2. CASE Written(p)
    BY <1>3, <1>6, <1>7, <1>10, <2>2 DEF ToldLast
  <2>3. CASE ~Written(p) /\ Tail(line) # <<>>
    <3>1. Tail(line)[Len(Tail(line))] = line[Len(line)]
      BY <1>2, <2>3
    <3>2. Says(line[Len(line)]) = owner
      BY <1>2, <1>8, <1>10, <2>1, <2>3 DEF ToldLast
    <3> QED  BY <1>3, <1>6, <1>7, <1>8, <2>1, <2>3, <3>1, <3>2 DEF ToldLast
  <2>4. CASE ~Written(p) /\ Tail(line) = <<>>
    <3>1. Head(line) = line[Len(line)]
      <4>1. Len(Tail(line)) = 0
        <5>1. Len(<<>>) = 0
          OBVIOUS
        <5> QED  BY <2>4, <5>1
      <4>2. Len(line) = 1 /\ Head(line) = line[1]
        BY <1>2, <4>1
      <4> QED  BY <4>2
    <3>2. Says(Head(line)) = owner
      BY <1>2, <1>8, <1>10, <2>1, <2>4, <3>1 DEF ToldLast
    <3>3. Head(line).event # "message"
      BY <1>2 DEF Notices
    <3>4. ~NoNotice(posted'[home]) /\ LastSays(posted'[home], owner)
      BY <1>9, <2>1, <3>2, <3>3, AppendSays
    <3> QED  BY <1>3, <1>6, <1>7, <1>8, <2>1, <2>4, <3>4 DEF ToldLast
  <2> QED  BY <2>2, <2>3, <2>4
<1> QED  BY <1>11, <1>12

LEMMA ReceiveRelaySource ==
  ASSUME ApartTyped, OneSource, NEW q \in Processes, ReceiveRelay(q)
  PROVE  OneSource'
<1> SUFFICES ASSUME ~crossed', ~misled', NEW s \in Servicers
             PROVE  \E p \in Processes : ~ForeignNews(p)' /\ ToldLast(p, s)'
  BY DEF OneSource
<1>1. PICK closure : closure = Message(Head(relay[q]))
  OBVIOUS
<1>2. /\ posted'[q] = Append(posted[q], closure)
      /\ \A v \in Processes : v # q => posted'[v] = posted[v]
  BY <1>1, ReceivesRelay
<1>3. UNCHANGED <<owner, request, wire, crossed, misled, word>>
  BY DEF ReceiveRelay, storeVars, screens, history
<1>4. PICK p \in Processes : ~ForeignNews(p) /\ ToldLast(p, s)
  BY <1>3 DEF OneSource
<1>5. \A v \in Processes : Written(v)' <=> Written(v)
  BY <1>3 DEF Written
<1>6. ~ForeignNews(p)'
  BY <1>3, <1>4, <1>5, NewsKept
<1>7. PICK home : home = ProcessOf[s]
  OBVIOUS
<1>8. home \in Processes /\ posted[home] \in Seq(Notices \cup Messages)
  BY <1>7, HomeProcess DEF ApartTyped, ApartTypeOK
<1>9. closure.event = "message"
  BY <1>1 DEF Message
<1>10. /\ NoNotice(posted'[home]) => NoNotice(posted[home])
       /\ LastSays(posted[home], owner) => LastSays(posted'[home], owner)
  <2>1. CASE home = q
    BY <1>2, <1>8, <1>9, <2>1, AppendSays
  <2>2. CASE home # q
    BY <1>2, <1>8, <2>2
  <2> QED  BY <2>1, <2>2
<1>11. ToldLast(p, s)'
  BY <1>3, <1>4, <1>5, <1>7, <1>10 DEF ToldLast
<1> QED  BY <1>6, <1>11

LEMMA RunClosureSource ==
  ASSUME ApartTyped, OneSource, NEW q \in Processes, RunClosure(q)
  PROVE  OneSource'
<1> SUFFICES ASSUME ~crossed', ~misled', NEW s \in Servicers
             PROVE  \E p \in Processes : ~ForeignNews(p)' /\ ToldLast(p, s)'
  BY DEF OneSource
<1>1. PICK line : line = posted[q]
  OBVIOUS
<1>2. PICK closure : closure = Head(line)
  OBVIOUS
<1>3. /\ line # <<>> /\ line \in Seq(Notices \cup Messages) /\ posted'[q] = Tail(line)
      /\ closure \in Notices \cup Messages
      /\ \A v \in Processes : v # q => posted'[v] = posted[v]
  BY <1>1, <1>2, RunsClosure
<1>4. UNCHANGED <<owner, request, wire, crossed, misled>>
  BY DEF RunClosure, storeVars, history
<1>5. RunAttach(q, closure) \/ RunDetach(q, closure) \/ RunMessage(q, closure)
  BY <1>1, <1>2 DEF RunClosure
<1>6. PICK p \in Processes : ~ForeignNews(p) /\ ToldLast(p, s)
  BY <1>4 DEF OneSource
<1>7. \A v \in Processes : Written(v)' <=> Written(v)
  BY <1>4 DEF Written
<1>8. ~ForeignNews(p)'
  BY <1>4, <1>6, <1>7, NewsKept
<1>9. PICK home : home = ProcessOf[s]
  OBVIOUS
<1>10. home \in Processes
  BY <1>9, HomeProcess
<1>11. CASE home # q
  <2>1. word'[s] = word[s]
    BY <1>5, <1>9, <1>11 DEF RunAttach, RunDetach, RunMessage, Tell, Home
  <2>2. posted'[home] = posted[home]
    BY <1>3, <1>10, <1>11
  <2> QED  BY <1>4, <1>6, <1>7, <1>8, <1>9, <2>1, <2>2, ToldLastKept
<1>12. CASE home = q
  <2>1. closure.event = "message" => word'[s] = word[s]
    BY <1>5 DEF RunAttach, RunDetach, RunMessage
  <2>2. closure.event # "message" => word'[s] = Says(closure)
    BY <1>5, <1>9, <1>12 DEF RunAttach, RunDetach, RunMessage, Tell, Home, Says
  <2>3. posted[home] = line /\ posted'[home] = Tail(line)
    BY <1>1, <1>3, <1>12
  <2>4. ASSUME LastSays(line, owner)
        PROVE  /\ LastSays(Tail(line), owner)
               /\ NoNotice(Tail(line)) /\ closure.event = "message" => NoNotice(line)
               /\ NoNotice(Tail(line)) /\ closure.event # "message" => Says(closure) = owner
    BY <1>2, <1>3, <2>4, TailSays
  <2>5. /\ Written(p) => Says(request[p][1].notice) = owner
        /\ ~Written(p) /\ wire[p][home] # <<>> =>
             Says(wire[p][home][Len(wire[p][home])]) = owner
        /\ ~Written(p) /\ wire[p][home] = <<>> => LastSays(line, owner)
        /\ ~Written(p) /\ wire[p][home] = <<>> /\ NoNotice(line) => word[s] = owner
    BY <1>6, <1>9, <2>3 DEF ToldLast
  <2>6. /\ ~Written(p) /\ wire[p][home] = <<>> => LastSays(Tail(line), owner)
        /\ ~Written(p) /\ wire[p][home] = <<>> /\ NoNotice(Tail(line)) => word'[s] = owner
    BY <2>1, <2>2, <2>4, <2>5
  <2>7. ToldLast(p, s)'
    BY <1>4, <1>7, <1>9, <2>3, <2>5, <2>6 DEF ToldLast
  <2> QED  BY <1>8, <2>7
<1> QED  BY <1>11, <1>12

LEMMA StepSource ==
  ASSUME ApartTyped, OneSource, [ApartNext]_apartVars
  PROVE  OneSource'
<1>1. ASSUME NEW u \in Servicers, TakeAttach(u) \/ TakeDetach(u)
      PROVE  OneSource'
  <2>1. PICK event \in {"attach", "detach"} : Takes(u, event)
    BY <1>1 DEF TakeAttach, TakeDetach
  <2>2. /\ \A p \in Processes : Written(p)' <=> Written(p)
        /\ \A p \in Processes : Written(p) => request'[p] = request[p]
    BY <2>1, TakesUp
  <2>3. UNCHANGED <<owner, wire, posted, word, history>>
    BY <1>1 DEF TakeAttach, TakeDetach, storeVars, screens
  <2> QED  BY <2>2, <2>3, OneSourceKept
<1>2. ASSUME UNCHANGED <<owner, wire, posted, word, history, request>>
      PROVE  OneSource'
  <2>1. \A q \in Processes : Written(q)' <=> Written(q)
    BY <1>2 DEF Written
  <2> QED  BY <1>2, <2>1, OneSourceKept
<1>3. ASSUME \/ \E p \in Processes : Reload(p)
             \/ StoreMessage \/ PublishMessage \/ UNCHANGED apartVars
      PROVE  OneSource'
  <2>1. UNCHANGED <<owner, wire, posted, word, history, request>>
    BY <1>3 DEF Reload, StoreMessage, PublishMessage, apartVars, storeVars, screens
  <2> QED  BY <1>2, <2>1
<1> QED
  BY <1>1, <1>3, UpdateSource, AnnounceSource, ReceiveNoticeSource, ReceiveRelaySource,
     RunClosureSource
  DEF ApartNext

LEMMA InitSource == ApartInit => OneSource
<1> SUFFICES ASSUME ApartInit, NEW s \in Servicers
             PROVE  \E p \in Processes : ~ForeignNews(p) /\ ToldLast(p, s)
  BY DEF OneSource
<1>1. PICK home : home = ProcessOf[s] /\ home \in Processes
  BY HomeProcess
<1>2. \A p \in Processes : ~Written(p) /\ \A q \in Processes : wire[p][q] = <<>>
  BY DEF ApartInit, Written
<1>3. posted[home] = <<>> /\ word[s] = owner
  BY <1>1 DEF ApartInit
<1>4. LastSays(<<>>, owner)
  BY DEF LastSays
<1> QED  BY <1>1, <1>2, <1>3, <1>4 DEF ForeignNews, ToldLast

\* When no notice is out, what was told last is what the store says.
LEMMA SourceAgrees ==
  ASSUME ApartTyped, OneSource
  PROVE  AgreedUnlessCrossed
<1> SUFFICES ASSUME NoticesOut, ~crossed, ~misled, NEW s \in Servicers
             PROVE  word[s] = owner
  BY DEF AgreedUnlessCrossed
<1>1. PICK p \in Processes : ToldLast(p, s)
  BY DEF OneSource
<1> QED  BY <1>1, HomeProcess DEF NoticesOut, NoNotice, ToldLast

\* However many processes there are: when the notices are out all servicers were told
\* last what the store says, unless the last update failed or crossed another's notice.
THEOREM AgreedUnlessCrossedInvariant == ApartSpec => []AgreedUnlessCrossed
<1>1. /\ ApartTyped /\ [ApartNext]_apartVars => ApartTyped'
      /\ ApartTyped /\ OneSource /\ [ApartNext]_apartVars => OneSource'
      /\ ApartTyped /\ OneSource => AgreedUnlessCrossed
  BY StepApartTyped, StepSource, SourceAgrees
<1> QED  BY InitApartTyped, InitSource, <1>1, PTL DEF ApartSpec
=============================================================================
