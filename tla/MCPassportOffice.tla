---------------------------- MODULE MCPassportOffice ----------------------------
(***************************************************************************)
(* Instances of PassportOffice for TLC: the whole office with one clerk of *)
(* each kind, and the picture clerks alone.                                *)
(***************************************************************************)
EXTENDS PassportOffice

AllKinds == {"application", "picture", "passport", "cashier"}
OnlyPictures == {"picture"}

OneOfEach == [k \in Kinds |-> 1]
TwoOfEach == [k \in Kinds |-> 2]
================================================================================
