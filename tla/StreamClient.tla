------------------------------- MODULE StreamClient -------------------------------
(***************************************************************************)
(* One stream under every sequence of the calls the program makes on it:     *)
(* prepare, start, stop, and pull and push of its buffers.                   *)
(***************************************************************************)
EXTENDS DeviceStream

CONSTANT MaxFaults    \* bound: ioctls that fail without need

ASSUME MaxFaultsAssumption == MaxFaults \in Nat

VARIABLES st,      \* the DeviceStream
          faults,  \* ioctls that failed without need
          spoilt   \* history: how many of them in a start of the stream

vars == <<st, faults, spoilt>>

(* A capture stream or an output stream, just opened *)
Init ==
  /\ st \in {streamInit(capture) : capture \in BOOLEAN}
  /\ faults = 0 /\ spoilt = 0

Takes(out) ==
  /\ faults + out.faults <= MaxFaults
  /\ faults' = faults + out.faults
  /\ st' = out.st

Prepare == (\E out \in deviceStreamPrepare(st) : Takes(out)) /\ UNCHANGED spoilt
Start == \E out \in deviceStreamStart(st) : Takes(out) /\ spoilt' = spoilt + out.faults
Stop == (\E out \in deviceStreamStop(st) : Takes(out)) /\ UNCHANGED spoilt
Pull == (\E out \in deviceStreamPullBuffer(st) : Takes(out)) /\ UNCHANGED spoilt

(* The program pushes a buffer of the count it believes in, while streaming.  *)
Push ==
  /\ st.state = "STREAMING"
  /\ \E i \in 0..st.count-1 : \E out \in deviceStreamPushBuffer(st, i) : Takes(out)
  /\ UNCHANGED spoilt

Next == Prepare \/ Start \/ Stop \/ Pull \/ Push

Spec == Init /\ [][Next]_vars

-----------------------------------------------------------------------------
(* Properties *)

(* The stream's fields have their types, and what is queued exists.           *)
TypeOK ==
  /\ st.capture \in BOOLEAN
  /\ st.state \in States
  /\ st.count \in Nat /\ st.alloc \in Nat /\ st.made \in Nat
  /\ st.queued \in SUBSET (0..st.made-1)
  /\ st.on \in BOOLEAN
  /\ faults \in 0..MaxFaults /\ spoilt \in 0..faults

(* The state the program keeps (device.h:24-28) is the driver's, through      *)
(* every failing ioctl: a stream it calls STREAMING has its DMA on and its    *)
(* buffers, and one it calls otherwise has its DMA off.                       *)
StateAgrees ==
  /\ st.on <=> st.state = "STREAMING"
  /\ st.state # "IDLE" => st.alloc > 0 /\ st.made = st.alloc

(* Preparing a stream again keeps the number of buffers within the array the  *)
(* first time allocated (device.c:422-428, 674), when the driver grants no    *)
(* fewer buffers than it is asked for.                                        *)
CountWithinArray == st.state # "IDLE" => st.count <= st.alloc

(* Whatever fails in preparing or stopping a stream, or in moving its buffers, *)
(* it can be started once it is prepared: none of its buffers is in the       *)
(* driver, so that queueing them succeeds (device.c:699-711, 715-731).  Only  *)
(* a start of a capture stream that failed halfway leaves one that cannot.    *)
StartableUnlessSpoilt ==
  st.state = "PREPARED" /\ (spoilt = 0 \/ ~st.capture)
    => st.queued = {} /\ Accepted(st) = st.count
====================================================================================
