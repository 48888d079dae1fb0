------------------------------ MODULE MCHDLCLink -------------------------------
(***************************************************************************)
(* Instances of HDLCLink for TLC.                                          *)
(***************************************************************************)
EXTENDS HDLCLink
================================================================================
