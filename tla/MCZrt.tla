--------------------------------- MODULE MCZrt ---------------------------------
(***************************************************************************)
(* The instance that TLC checks of Zrt.                                    *)
(***************************************************************************)
EXTENDS Zrt

\* Two tasks of one priority and one of a higher.
TwoAndOne == <<1, 1, 2>>

================================================================================
