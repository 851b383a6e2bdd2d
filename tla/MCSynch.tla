-------------------------------- MODULE MCSynch --------------------------------
(***************************************************************************)
(* Instances of Synch.                                                     *)
(***************************************************************************)
EXTENDS Synch, TLC

InitialZero == [s \in Sems |-> 0]
================================================================================
