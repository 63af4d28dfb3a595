-------------------------------- MODULE StreamProofs --------------------------------
(***************************************************************************)
(* Proofs about StreamClient, for every number of buffers asked for and      *)
(* granted and for every number of failing ioctls.                           *)
(***************************************************************************)
EXTENDS StreamClient, StreamLemmas

USE MaxFaultsAssumption

-----------------------------------------------------------------------------
(* Every call *)

IInv == faults \in 0..MaxFaults /\ spoilt \in 0..faults /\ Coherent(st, spoilt)

LEMMA Initially == Init => IInv
<1> SUFFICES ASSUME Init PROVE IInv
  OBVIOUS
<1>1. PICK capture \in BOOLEAN : st = streamInit(capture)
  BY DEF Init
<1>2. Coherent(st, 0)
  BY <1>1 DEF Coherent, Stream, Fields, States, streamInit
<1> QED BY <1>2 DEF Init, IInv

LEMMA TakesKeeps ==
  ASSUME IInv, NEW out, Keeps(out, spoilt), Takes(out), UNCHANGED spoilt
  PROVE  IInv'
<1>1. out.faults \in Nat /\ Coherent(out.st, spoilt)
  BY Zenon DEF Keeps
<1>2. faults' = faults + out.faults /\ faults' <= MaxFaults /\ st' = out.st
  BY DEF Takes
<1>3. Coherent(st', spoilt')
  BY <1>1, <1>2
<1>4. faults' \in 0..MaxFaults /\ spoilt' \in 0..faults'
  BY <1>1, <1>2 DEF IInv
<1> QED BY <1>3, <1>4 DEF IInv

LEMMA Invariant == IInv /\ [Next]_vars => IInv'
<1> SUFFICES ASSUME IInv, [Next]_vars PROVE IInv'
  OBVIOUS
<1>1. spoilt \in Nat /\ faults \in Nat /\ Coherent(st, spoilt)
  BY DEF IInv
<1>2. CASE Prepare
  BY <1>1, <1>2, TakesKeeps, PrepareKeeps DEF Prepare
<1>3. CASE Start
  <2>1. PICK out \in deviceStreamStart(st) : Takes(out) /\ spoilt' = spoilt + out.faults
    BY <1>3 DEF Start
  <2>2. out.faults \in Nat /\ Coherent(out.st, spoilt + out.faults)
    BY <1>1, StartLeaves DEF Leaves
  <2>3. Coherent(st', spoilt')
    BY <2>1, <2>2 DEF Takes
  <2>4. faults' \in 0..MaxFaults /\ spoilt' \in 0..faults'
    BY <2>1, <2>2 DEF Takes, IInv
  <2> QED BY <2>3, <2>4 DEF IInv
<1>4. CASE Stop
  BY <1>1, <1>4, TakesKeeps, StopKeeps DEF Stop
<1>5. CASE Pull
  BY <1>1, <1>5, TakesKeeps, PullKeeps DEF Pull
<1>6. CASE Push
  <2>1. st.state = "STREAMING" /\ UNCHANGED spoilt
    BY <1>6 DEF Push
  <2>2. PICK i \in 0..st.count-1 : \E out \in deviceStreamPushBuffer(st, i) : Takes(out)
    BY <1>6 DEF Push
  <2>3. PICK out \in deviceStreamPushBuffer(st, i) : Takes(out)
    BY <2>2
  <2>4. Keeps(out, spoilt)
    BY <1>1, <2>1, PushKeeps
  <2> QED BY <2>1, <2>3, <2>4, TakesKeeps
<1>7. CASE UNCHANGED vars
  BY <1>7 DEF vars, IInv
<1> QED BY <1>2, <1>3, <1>4, <1>5, <1>6, <1>7 DEF Next

(* The stream's fields have their types, and what is queued exists            *)
(* (device.h:96-113), after any calls and any failing ioctls.                 *)
THEOREM StreamTypeOK == Spec => []TypeOK
<1>1. IInv => TypeOK
  BY DEF IInv, TypeOK, Coherent, Stream, Fields
<1> QED BY <1>1, Initially, Invariant, PTL DEF Spec

(* What the program takes a stream's state to be is what its driver does, and *)
(* the array has as many buffers as the driver made (device.c:671-731).       *)
THEOREM StreamStateAgrees == Spec => []StateAgrees
<1>1. IInv => StateAgrees
  BY DEF IInv, StateAgrees, Coherent, Stream, Fields
<1> QED BY <1>1, Initially, Invariant, PTL DEF Spec

(* From a driver that grants no fewer buffers than it is asked for, preparing *)
(* a stream again and again never makes it count buffers its array lacks      *)
(* (device.c:422-428, 674).                                                   *)
THEOREM CountFits == Enough => (Spec => []CountWithinArray)
<1>1. Enough /\ IInv => CountWithinArray
  BY DEF IInv, CountWithinArray, Coherent
<1>2. Enough => []Enough
  <2> SUFFICES ASSUME Enough PROVE []Enough
    OBVIOUS
  <2> QED BY PTL
<1> QED BY <1>1, <1>2, Initially, Invariant, PTL DEF Spec

(* From such a driver, a prepared stream can be started whatever has failed   *)
(* but a start of a capture stream, and an output stream always               *)
(* (device.c:699-731).                                                        *)
THEOREM Startable == Enough => (Spec => []StartableUnlessSpoilt)
<1>1. Enough /\ IInv => StartableUnlessSpoilt
  BY TakesAll DEF IInv, StartableUnlessSpoilt
<1>2. Enough => []Enough
  <2> SUFFICES ASSUME Enough PROVE []Enough
    OBVIOUS
  <2> QED BY PTL
<1> QED BY <1>1, <1>2, Initially, Invariant, PTL DEF Spec
==================================================================================
