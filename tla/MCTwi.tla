--------------------------------- MODULE MCTwi ---------------------------------
(***************************************************************************)
(* Instances of Twi for TLC.                                               *)
(***************************************************************************)
EXTENDS Twi
================================================================================
