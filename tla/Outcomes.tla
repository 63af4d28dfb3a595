--------------------------------- MODULE Outcomes ---------------------------------
(***************************************************************************)
(* An operation of the C code whose ioctls may fail is the set of its        *)
(* outcomes: the state it leaves, the value it returns (the code tells 0     *)
(* from the rest) and the number of ioctls that failed though the driver    *)
(* was free to perform them.                                               *)
(***************************************************************************)

Outcome(st, ret, faults) == [st |-> st, ret |-> ret, faults |-> faults]
===================================================================================
