------------------------------ MODULE Channels ------------------------------
(***************************************************************************)
(* The way every part of the server sends into a Go channel: a select with *)
(* a default case, so that a send to a full channel fails at once.  A      *)
(* channel is the sequence of what it buffers.                             *)
(***************************************************************************)
EXTENDS Naturals, Sequences

\* Mutant: one element too many.
HasRoomForOneMore(ch, cap) == Len(ch) <= cap

HasRoom(ch, cap) == Len(ch) < cap

\* A channel of capacity cap that carries elements of S.
Fits(ch, S, cap) == ch \in Seq(S) /\ Len(ch) <= cap
=============================================================================
