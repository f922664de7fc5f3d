---------------------------- MODULE MCRabbitSend ----------------------------
(***************************************************************************)
(* RabbitSend with the shared channel the program is built with            *)
(* (args.go:4), and one kind of data for each of the two exchanges.        *)
(***************************************************************************)
EXTENDS RabbitSend

MCSharedChannel == TRUE
MCKinds == {"message", "create"}
=============================================================================
