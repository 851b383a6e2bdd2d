------------------------------- MODULE Mailboxes -------------------------------
(***************************************************************************)
(* What the post office promises its users: a mailbox is a queue.  A       *)
(* message is put at the end of its mailbox when Send hands it to the      *)
(* network and taken from the front by Receive.  NetServer is built on     *)
(* this.                                                                   *)
(***************************************************************************)
EXTENDS Sequences

CONSTANTS Boxes, Messages

VARIABLE box

Init == box = [b \in Boxes |-> <<>>]

Send(b, m) == box' = [box EXCEPT ![b] = Append(@, m)]
Receive(b) == box[b] # <<>> /\ box' = [box EXCEPT ![b] = Tail(@)]

Next == \E b \in Boxes : Receive(b) \/ \E m \in Messages : Send(b, m)

Spec == Init /\ [][Next]_box
================================================================================
