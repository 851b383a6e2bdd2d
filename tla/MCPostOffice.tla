------------------------------ MODULE MCPostOffice ------------------------------
(***************************************************************************)
(* Two threads on one machine and one on another: u1 and u2 contend for    *)
(* the send lock of their machine, their mail meets at the other machine.  *)
(***************************************************************************)
EXTENDS PostOffice

CONSTANTS u1, u2, u3

MCHost == [u \in Users |-> IF u = u3 THEN 2 ELSE 1]
Contention == {<<u1, u3>>, <<u2, u3>>, <<u2, u1>>}
================================================================================
