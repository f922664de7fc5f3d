----------------------------- MODULE MCFrontEnd -----------------------------
(***************************************************************************)
(* FrontEnd with the close frames of the servicers' side, where one kind   *)
(* of end is told and another is not.                                      *)
(***************************************************************************)
EXTENDS FrontEnd

CONSTANTS demo, ann, r1, r2

MCRelayed == {"unauthenticated"}

MCOffers == {{}, {0}}
=============================================================================
