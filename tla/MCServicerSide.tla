--------------------------- MODULE MCServicerSide ---------------------------
(***************************************************************************)
(* ServicerSide on small instances: two streams, of two users (MCTwoUsers) *)
(* or of one (MCOneUser); MCAsks... are the requests each of them makes.   *)
(***************************************************************************)
EXTENDS ServicerSide

CONSTANTS a1, b1, s1, s2, u1, u2

MCTwoUsers == [s \in {s1, s2} |-> IF s = s1 THEN u1 ELSE u2]
MCOneUser  == [s \in {s1, s2} |-> u1]

\* s1 sees the activity a1, s2 sees everything.
MCActsOf == [s \in {s1, s2} |-> IF s = s1 THEN {a1} ELSE {}]
MCBizsOf == [s \in {s1, s2} |-> {}]

Asks(n1, n2) == [s \in {s1, s2} |-> IF s = s1 THEN n1 ELSE n2]
MCAsks11 == Asks(1, 1)
MCAsks20 == Asks(2, 0)
MCAsks21 == Asks(2, 1)

\* A second request is made, and is no attach, once the talk is served and s2's stream
\* waits to be installed - then it is a message - or is.  s2's client then takes one
\* response at most, and none with a message.
MCOnceServed ==
  LET isMessage == \E t \in DOMAIN talks : Stored(t) # {} IN
  serviceRequests[s1] = 2 =>
    /\ \E t \in DOMAIN talks : talks[t].service = u1
    /\ chServicerAttachTalk = <<>>
    /\ service[s2] # "idle" /\ (isMessage \/ chInstallServicer = <<>>)
    /\ Len(serviceInbox[s2]) <= IF isMessage THEN 0 ELSE 1

\* A talk is closed among the first two requests, the customer having written nothing
\* before the second, and reopened before any.
MCClosedEarly ==
  LET made == serviceRequests[s1] + serviceRequests[s2] IN
  /\ reopened # {} => made = 0
  /\ made > 2 \/ (made > 1 /\ \E w \in Writers : written[w] > 0) =>
       \A t \in DOMAIN talks : talks[t].status = "opened"
=============================================================================
