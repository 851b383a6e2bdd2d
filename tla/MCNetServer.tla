------------------------------ MODULE MCNetServer ------------------------------
(***************************************************************************)
(* Instances of NetServer: the system calls the clients of each run make.  *)
(***************************************************************************)
EXTENDS NetServer, TLC

CONSTANTS c1, c2, lockA, lockB, cvA, mvA

Call(op, obj) == [op |-> op, obj |-> obj, lock |-> obj, index |-> 0, value |-> 0]
CVCall(op, obj, lk) == [Call(op, obj) EXCEPT !.lock = lk]

MCNames == {lockA, lockB, cvA, mvA}
LockCalls == {Call(op, lockA) : op \in {"CreateLock", "Acquire", "Release", "DestroyLock"}}
MutexCalls == {Call(op, lockA) : op \in {"CreateLock", "Acquire", "Release"}}
CVCalls == {CVCall(op, cvA, lockA) :
              op \in {"CreateCondition", "Wait", "Signal", "Broadcast", "DestroyCondition"}}
MVCalls == {[Call("CreateMV", mvA) EXCEPT !.index = 1],
            [Call("Set", mvA) EXCEPT !.value = 1],
            [Call("Get", mvA) EXCEPT !.index = 1], Call("DestroyMV", mvA)}
CreateCalls == {Call("CreateLock", lockA)}
SecondLockCalls == {Call(op, lockB) : op \in {"CreateLock", "DestroyLock"}}
ObjectCalls == CreateCalls \cup {CVCall("CreateCondition", cvA, lockA)} \cup MVCalls
MonitorCalls == LockCalls \cup CVCalls \cup SecondLockCalls

ClientSymmetry == Permutations(Clients)
================================================================================
