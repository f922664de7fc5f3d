------------------------------- MODULE Outbox -------------------------------
(***************************************************************************)
(* What a process promises of the data it publishes, RabbitMQ.SendData     *)
(* being the interface and the broker's exchanges the other end: they      *)
(* leave in the order they came, each at most once.  Some may be lost, but *)
(* never silently: each that is not out waits, or is known to be lost.     *)
(* There are no connections, channels or caches here.                      *)
(***************************************************************************)
EXTENDS Integers, SequencesExt

CONSTANT Data

VARIABLES
  waiting,   \* data accepted and not yet out, oldest first
  out,       \* data that went out, oldest first
  lost       \* data that never will

outVars == <<waiting, out, lost>>

OutInit == waiting = <<>> /\ out = <<>> /\ lost = {}

\* A datum is taken, or refused.
Accept(d) == waiting' = Append(waiting, d) /\ UNCHANGED <<out, lost>>
Decline(d) == lost' = lost \cup {d} /\ UNCHANGED <<waiting, out>>

\* The oldest n leave at once: the first of them go out, the rest is lost.
Leave ==
  \E n \in 1..Len(waiting) : \E done \in 0..n :
    /\ out' = out \o SubSeq(waiting, 1, done)
    /\ lost' = lost \cup ToSet(SubSeq(waiting, done + 1, n))
    /\ waiting' = SubSeq(waiting, n + 1, Len(waiting))

OutNext == Leave \/ \E d \in Data : Accept(d) \/ Decline(d)

OutSpec == OutInit /\ [][OutNext]_outVars
=============================================================================
