----------------------------------- MODULE Pump -----------------------------------
(***************************************************************************)
(* pump.c between the two streams it joins, once they are started: a source  *)
(* stream (CAPTURE, filled by a driver) whose buffers are lent by dma-buf to *)
(* a destination stream (OUTPUT, read by another driver).  pumpPump is one   *)
(* loop of ioctls; each ioctl is a step, with the C statements up to the     *)
(* next one, and the two drivers take steps in between.                      *)
(***************************************************************************)
EXTENDS Sequences, FiniteSets, Functions, Integers

CONSTANTS SrcCount,    \* src.st->buffers_count
          DstCount,    \* dst.st->buffers_count
          InOrder,     \* the destination driver finishes buffers in queue order
          MaxFrames,   \* bound: frames the source driver captures
          MaxFaults    \* bound: QBUFs that fail with a device error

ASSUME SrcCountAssumption == SrcCount \in Nat \ {0}
ASSUME DstCountAssumption == DstCount \in Nat \ {0}
ASSUME InOrderAssumption == InOrder \in BOOLEAN
ASSUME MaxFramesAssumption == MaxFrames \in Nat
ASSUME MaxFaultsAssumption == MaxFaults \in Nat

None == -1
Src == 0..SrcCount-1
Dst == 0..DstCount-1

VARIABLES
  srcQ,         \* driver: buffers queued at the source, in queue order
  srcDone,      \* driver: how many of them, from the front, await DQBUF
  dstQ,         \* driver: buffers queued at the destination
  dstDone,      \* driver: how many of them, from the front, await DQBUF
  attached,     \* driver: the source buffer a destination buffer last imported
  frame,        \* history: number of the last frame written into a source buffer
  captured,     \* history: frames written so far
  passed,       \* history: number of the last frame passed to the destination
  nextInQueue,  \* pump->src.next_in_queue
  acquired,     \* pump->dst.acquired_to_source
  available,    \* pump->dst.available
  pulled,       \* buf, the buffer the last DQBUF returned
  pc,           \* the next ioctl of pumpPump
  faults        \* QBUFs failed with a device error so far

driverVars == <<srcQ, srcDone, dstQ, dstDone, attached>>
historyVars == <<frame, captured, passed>>
pumpVars == <<nextInQueue, acquired, available, pulled, pc>>
vars == <<driverVars, historyVars, pumpVars, faults>>

INSTANCE Queue WITH Uninit <- None, NULL <- None

(* What pumpCreate makes of `available` with n of its pushes, *)
Filling(n) ==
  [data |-> [i \in Dst |-> IF i < n THEN i ELSE None], size |-> n,
   capacity |-> DstCount, front |-> 0]

(* and with all: pops never make room again, so that it stays full and only   *)
(* its front moves.                                                           *)
AllAvailable(front) ==
  [data |-> [i \in Dst |-> i], size |-> DstCount, capacity |-> DstCount,
   front |-> front]

(* deviceStreamStart has queued every source buffer, and none of the         *)
(* destination's; pumpCreate follows.                                        *)
Init ==
  /\ srcQ = [i \in 1..SrcCount |-> i - 1] /\ srcDone = 0
  /\ dstQ = << >> /\ dstDone = 0
  /\ attached = [d \in Dst |-> None]
  /\ frame = [s \in Src |-> 0] /\ captured = 0 /\ passed = 0
  /\ nextInQueue = None
  /\ acquired = [d \in Dst |-> None]
  /\ available = queueInit(DstCount)
  /\ pulled = None
  /\ pc = "create"
  /\ faults = 0

-----------------------------------------------------------------------------
(* The drivers *)

(* The source writes frames into its queued buffers in queue order. *)
SrcFill ==
  /\ srcDone < Len(srcQ)
  /\ captured < MaxFrames
  /\ captured' = captured + 1
  /\ frame' = [frame EXCEPT ![srcQ[srcDone + 1]] = captured + 1]
  /\ srcDone' = srcDone + 1
  /\ UNCHANGED <<srcQ, dstQ, dstDone, attached, passed, pumpVars, faults>>

(* A sequence with its k-th element moved forward to place i <= k *)
MoveTo(q, k, i) ==
  [j \in 1..Len(q) |-> IF j = i THEN q[k]
                       ELSE IF i < j /\ j <= k THEN q[j - 1] ELSE q[j]]

(* The destination finishes reading a buffer, the oldest when InOrder. *)
DstFinish(k) ==
  /\ k \in dstDone+1..Len(dstQ)
  /\ InOrder => k = dstDone + 1
  /\ dstQ' = MoveTo(dstQ, k, dstDone + 1)
  /\ dstDone' = dstDone + 1
  /\ UNCHANGED <<srcQ, srcDone, attached, historyVars, pumpVars, faults>>

-----------------------------------------------------------------------------
(* The ioctls of deviceStreamPushBuffer and deviceStreamPullBuffer *)

(* QBUF of buffer b fails when the driver has it already, or by a device     *)
(* error.                                                                    *)
QbufSucceeds(b, q) == b \notin Range(q) /\ UNCHANGED faults
QbufFails(b, q) ==
  IF b \in Range(q) THEN UNCHANGED faults
                    ELSE faults < MaxFaults /\ faults' = faults + 1

-----------------------------------------------------------------------------
(* pumpCreate, once it has found the pass function (PassTable) *)

(* Every index of the destination is pushed, in order.  *)
Push ==
  /\ pc = "create"
  /\ queueGetFree(available) > 0
  /\ available' = queuePush(available, queueGetSize(available))
  /\ UNCHANGED <<driverVars, historyVars, nextInQueue, acquired, pulled, pc, faults>>

Created ==
  /\ pc = "create"
  /\ queueGetFree(available) = 0
  /\ pc' = "idle"
  /\ UNCHANGED <<driverVars, historyVars, nextInQueue, acquired, available, pulled, faults>>

-----------------------------------------------------------------------------
(* pumpPump *)

Call ==
  /\ pc = "idle"
  /\ pc' = "pullDst"
  /\ UNCHANGED <<driverVars, historyVars, nextInQueue, acquired, available, pulled, faults>>

(* 1. Pull any encoded frames from the destination *)
PullDst ==
  /\ pc = "pullDst"
  /\ dstDone > 0
  /\ pulled' = Head(dstQ)
  /\ dstQ' = Tail(dstQ)
  /\ dstDone' = dstDone - 1
  /\ pc' = "returnSrc"
  /\ UNCHANGED <<srcQ, srcDone, attached, historyVars, nextInQueue, acquired,
                 available, faults>>

(* DQBUF failed: EAGAIN when no buffer is done; any other errno ends the     *)
(* loop in the same way.                                                     *)
PullDstNone ==
  /\ pc = "pullDst"
  /\ pc' = "pullSrc"
  /\ UNCHANGED <<driverVars, historyVars, nextInQueue, acquired, available, pulled, faults>>

(* Mutant of ReturnSource: the map's entry is not cleared. *)
ReturnSourceKeepsLoan ==
  /\ pc = "returnSrc"
  /\ acquired[pulled] >= 0
  /\ QbufSucceeds(acquired[pulled], srcQ)
  /\ srcQ' = Append(srcQ, acquired[pulled])
  /\ pulled' = None
  /\ pc' = "pullDst"
  /\ UNCHANGED <<srcDone, dstQ, dstDone, attached, historyVars, nextInQueue,
                 acquired, available>>

(* ASSERT(source_index >= 0), then the lent buffer goes back to the source;  *)
(* the map's entry is cleared whether QBUF succeeded or not.                 *)
SourceIndexAssert == pc = "returnSrc" => acquired[pulled] >= 0

ReturnSource ==
  /\ pc = "returnSrc"
  /\ acquired[pulled] >= 0
  /\ QbufSucceeds(acquired[pulled], srcQ)
  /\ srcQ' = Append(srcQ, acquired[pulled])
  /\ acquired' = [acquired EXCEPT ![pulled] = None]
  /\ pulled' = None
  /\ pc' = "pullDst"
  /\ UNCHANGED <<srcDone, dstQ, dstDone, attached, historyVars, nextInQueue, available>>

ReturnSourceFailed ==
  /\ pc = "returnSrc"
  /\ acquired[pulled] >= 0
  /\ QbufFails(acquired[pulled], srcQ)
  /\ acquired' = [acquired EXCEPT ![pulled] = None]
  /\ pulled' = None
  /\ pc' = "idle"
  /\ UNCHANGED <<driverVars, historyVars, nextInQueue, available>>

(* Mutant of PullSrcNewer: the newer buffer replaces the older one, which is  *)
(* not returned.                                                              *)
PullSrcForgetOlder ==
  /\ pc = "pullSrc"
  /\ srcDone > 0
  /\ nextInQueue >= 0
  /\ nextInQueue' = Head(srcQ)
  /\ srcQ' = Tail(srcQ)
  /\ srcDone' = srcDone - 1
  /\ UNCHANGED <<dstQ, dstDone, attached, historyVars, acquired, available, pulled, pc, faults>>

(* 2. Pull any new buffers from the source: the first is kept ... *)
PullSrcFirst ==
  /\ pc = "pullSrc"
  /\ srcDone > 0
  /\ nextInQueue < 0
  /\ nextInQueue' = Head(srcQ)
  /\ srcQ' = Tail(srcQ)
  /\ srcDone' = srcDone - 1
  /\ UNCHANGED <<dstQ, dstDone, attached, historyVars, acquired, available, pulled, pc, faults>>

(* ... a newer one replaces it, *)
PullSrcNewer ==
  /\ pc = "pullSrc"
  /\ srcDone > 0
  /\ nextInQueue >= 0
  /\ pulled' = Head(srcQ)
  /\ srcQ' = Tail(srcQ)
  /\ srcDone' = srcDone - 1
  /\ pc' = "skip"
  /\ UNCHANGED <<dstQ, dstDone, attached, historyVars, nextInQueue, acquired,
                 available, faults>>

(* Mutant of SkipOlder: the buffer just pulled is queued, though it is the    *)
(* one that is kept.                                                          *)
SkipWrongOne ==
  /\ pc = "skip"
  /\ QbufSucceeds(pulled, srcQ)
  /\ srcQ' = Append(srcQ, pulled)
  /\ nextInQueue' = pulled
  /\ pulled' = None
  /\ pc' = "pullSrc"
  /\ UNCHANGED <<srcDone, dstQ, dstDone, attached, historyVars, acquired, available>>

(* Mutant of SkipOlder: the newer frame is dropped in favour of the older. *)
SkipNewer ==
  /\ pc = "skip"
  /\ QbufSucceeds(pulled, srcQ)
  /\ srcQ' = Append(srcQ, pulled)
  /\ pulled' = None
  /\ pc' = "pullSrc"
  /\ UNCHANGED <<srcDone, dstQ, dstDone, attached, historyVars, nextInQueue, acquired,
                 available>>

(* once the older one is back at the source. *)
SkipOlder ==
  /\ pc = "skip"
  /\ QbufSucceeds(nextInQueue, srcQ)
  /\ srcQ' = Append(srcQ, nextInQueue)
  /\ nextInQueue' = pulled
  /\ pulled' = None
  /\ pc' = "pullSrc"
  /\ UNCHANGED <<srcDone, dstQ, dstDone, attached, historyVars, acquired, available>>

(* When that fails the newer one is forgotten. *)
SkipFailed ==
  /\ pc = "skip"
  /\ QbufFails(nextInQueue, srcQ)
  /\ pulled' = None
  /\ pc' = "idle"
  /\ UNCHANGED <<driverVars, historyVars, nextInQueue, acquired, available>>

PullSrcNone ==
  /\ pc = "pullSrc"
  /\ pc' = "pass"
  /\ UNCHANGED <<driverVars, historyVars, nextInQueue, acquired, available, pulled, faults>>

(* 3. Pass source buffers to destination *)
PassNothing ==
  /\ pc = "pass"
  /\ queueGetSize(available) <= 0 \/ nextInQueue < 0
  /\ pc' = "idle"
  /\ UNCHANGED <<driverVars, historyVars, nextInQueue, acquired, available, pulled, faults>>

(* dst_index: the buffer the pump believes to be empty *)
DstIndex == queuePeek(available)

CanPass == pc = "pass" /\ queueGetSize(available) > 0 /\ nextInQueue >= 0

(* Mutant of Pass: the source gets its buffer back at once. *)
PassAndReturn ==
  /\ CanPass
  /\ QbufSucceeds(DstIndex, dstQ)
  /\ dstQ' = Append(dstQ, DstIndex)
  /\ attached' = [attached EXCEPT ![DstIndex] = nextInQueue]
  /\ passed' = frame[nextInQueue]
  /\ acquired' = [acquired EXCEPT ![DstIndex] = nextInQueue]
  /\ srcQ' = Append(srcQ, nextInQueue)
  /\ nextInQueue' = None
  /\ available' = queuePop(available)
  /\ pc' = "idle"
  /\ UNCHANGED <<srcDone, dstDone, frame, captured, pulled>>

(* The pass function makes dst_index import the source buffer's memory, QBUF *)
(* hands it to the driver, and the pump records the loan.                    *)
Pass ==
  /\ CanPass
  /\ QbufSucceeds(DstIndex, dstQ)
  /\ dstQ' = Append(dstQ, DstIndex)
  /\ attached' = [attached EXCEPT ![DstIndex] = nextInQueue]
  /\ passed' = frame[nextInQueue]
  /\ acquired' = [acquired EXCEPT ![DstIndex] = nextInQueue]
  /\ nextInQueue' = None
  /\ available' = queuePop(available)
  /\ pc' = "idle"
  /\ UNCHANGED <<srcQ, srcDone, dstDone, frame, captured, pulled>>

(* The QBUF failed: nothing is recorded and the frame stays next. *)
PassFailed ==
  /\ CanPass
  /\ QbufFails(DstIndex, dstQ)
  /\ pc' = "idle"
  /\ UNCHANGED <<driverVars, historyVars, nextInQueue, acquired, available, pulled>>

-----------------------------------------------------------------------------

pumpPump ==
  \/ Call \/ PullDst \/ PullDstNone \/ ReturnSource \/ ReturnSourceFailed
  \/ PullSrcFirst \/ PullSrcNewer \/ SkipOlder \/ SkipFailed \/ PullSrcNone
  \/ PassNothing \/ Pass \/ PassFailed

pumpCreate == Push \/ Created

Drivers == SrcFill \/ \E k \in Dst : DstFinish(k + 1)

Next == pumpCreate \/ pumpPump \/ Drivers

Spec == Init /\ [][Next]_vars

-----------------------------------------------------------------------------
(* What each buffer is doing *)

InSource == Range(srcQ)
InSink == Range(dstQ)
OnLoan == {acquired[d] : d \in {e \in Dst : acquired[e] # None}}
Held == {b \in {nextInQueue} : b # None} \cup {b \in {pulled} : pc = "skip"}
Lost == Src \ (InSource \cup OnLoan \cup Held)

(* The source buffers whose memory the destination's driver reads *)
SinkReads == {attached[d] : d \in InSink}

(* The destination buffers the pump has on loan: those in the driver and the *)
(* one it has just dequeued.                                                 *)
Lent == InSink \cup {d \in {pulled} : pc = "returnSrc"}

-----------------------------------------------------------------------------
(* Properties *)

AvailableOK ==
  IF pc = "create" THEN available.size \in 0..DstCount /\ available = Filling(available.size)
                   ELSE available.front \in Dst /\ available = AllAvailable(available.front)

(* Every variable of the pump and of the drivers has its type: the queues    *)
(* hold indices of buffers that exist, the counts stay within the queues.    *)
TypeOK ==
  /\ srcQ \in Seq(Src) /\ srcDone \in 0..Len(srcQ)
  /\ dstQ \in Seq(Dst) /\ dstDone \in 0..Len(dstQ)
  /\ attached \in [Dst -> Src \cup {None}]
  /\ frame \in [Src -> Nat] /\ captured \in Nat /\ passed \in Nat
  /\ nextInQueue \in IF pc = "skip" THEN Src ELSE Src \cup {None}
  /\ acquired \in [Dst -> Src \cup {None}]
  /\ AvailableOK
  /\ pc \in {"create", "idle", "pullDst", "returnSrc", "pullSrc", "skip", "pass"}
  /\ pulled \in IF pc = "returnSrc" THEN Dst ELSE IF pc = "skip" THEN Src ELSE {None}
  /\ faults \in Nat

(* A source buffer is in one place: in the source's driver, held by the pump *)
(* or lent to one destination buffer, whatever order the two drivers and the *)
(* ioctls of pumpPump (pump.c:224-310) interleave in.  A buffer in two       *)
(* places is written by one device while another reads it.                   *)
OneHolder ==
  /\ IsInjective(srcQ)
  /\ IsInjective(dstQ)
  /\ \A d, e \in Dst : acquired[d] = acquired[e] /\ acquired[d] # None => d = e
  /\ InSource \cap OnLoan = {}
  /\ Held \cap (InSource \cup OnLoan) = {}
  /\ pc = "skip" => pulled # nextInQueue
  /\ pc = "returnSrc" => pulled \notin InSink

(* acquired_to_source (pump.h:19) says which source buffer the destination's *)
(* driver is reading, for exactly the buffers it has or has just given back. *)
(* The two ASSERTs of pumpPump (pump.c:233, 305) hold as long as it does.    *)
LoansRecorded ==
  /\ \A d \in Dst : acquired[d] # None <=> d \in Lent
  /\ \A d \in Lent : attached[d] = acquired[d]

(* The ASSERTs of pumpPump never abort the program: a buffer that comes back *)
(* from the destination has a source (pump.c:233), and one that the driver   *)
(* accepted had none (pump.c:305).                                           *)
AssertsHold ==
  /\ SourceIndexAssert
  /\ CanPass /\ DstIndex \notin InSink => acquired[DstIndex] = None

(* Buffers leave the carousel only through a failed QBUF, one for each: the  *)
(* early returns of pumpPump (pump.c:237-240, 259-262) forget the buffer in  *)
(* hand and nothing else does.                                               *)
LossOnlyByFault == Cardinality(Lost) <= faults

(* "Available empty buffer for queueing" (pump.h:22): the buffer the pump    *)
(* takes next from `available` is one the destination does not have.         *)
PassTargetFree == CanPass => DstIndex \notin InSink

(* The source's driver never writes into a buffer that a destination buffer  *)
(* still imports: no frame is torn while the next device reads it.           *)
NoTearing ==
  [][\A s \in Src : frame'[s] # frame[s] => s \notin SinkReads]_vars

(* "An outstanding buffer. It gets replaced any time a new buffer is          *)
(* dequeued" (TODO.md:4-5): the frame the pump is about to pass is newer than *)
(* every frame it has dequeued and lost.                                      *)
OutstandingIsNewest ==
  CanPass => \A b \in Lost : frame[b] < frame[nextInQueue]

-----------------------------------------------------------------------------
(* The pump implements the relay of frames *)

Filled == {srcQ[i] : i \in 1..srcDone}

place == [s \in Src |-> IF s \in SinkReads THEN "sink"
                        ELSE IF s \in Filled THEN "full"
                        ELSE IF s \in InSource THEN "empty"
                        ELSE "relay"]

Relay == INSTANCE FrameRelay WITH Buffers <- Src, sent <- passed

(* The pump with its two drivers implements FrameRelay: frames reach the     *)
(* destination in the order of their capture and at most once, and a buffer  *)
(* goes back unread only while a newer frame is held.                        *)
RelaySpec == Relay!Spec
===================================================================================
