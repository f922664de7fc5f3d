---------------------------- MODULE MCRabbitTrack ----------------------------
(***************************************************************************)
(* RabbitTrack with two streams, of one talk or of two.                    *)
(***************************************************************************)
EXTENDS RabbitTrack

MCTalkChoices ==
  {[w \in Watchers |-> "t1"], [w \in Watchers |-> IF w = "w1" THEN "t1" ELSE "t2"]}
=============================================================================
