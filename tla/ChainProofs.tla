--------------------------------- MODULE ChainProofs ---------------------------------
(***************************************************************************)
(* Proofs about Chain, for every number of buffers, frames, failing ioctls   *)
(* and restarts: first that no wake-up is lost; then that Chain, ioctl by    *)
(* ioctl and device by device, implements FrameChannel, so that what the     *)
(* host gets is in order, at most once, and nothing is given up but for a    *)
(* newer frame or through a failed ioctl.                                    *)
(***************************************************************************)
EXTENDS Chain, TLAPS

USE BuffersAssumption, MaxFramesAssumption, ChainMaxFaultsAssumption

-----------------------------------------------------------------------------
(* The invariant *)

InPump == {"reclaim", "collect", "pass"}

QueueTypes ==
  /\ free \in [Pumps -> Nat] /\ used \in [Pumps -> Nat]
  /\ full \in [Pumps -> Seq(Frames)] /\ todo \in [Pumps -> Seq(Frames)]
  /\ next \in [Pumps -> Frames \cup {None}] /\ inside \in [{1, 2} -> Frames \cup {None}]

LoopTypes ==
  /\ fd_bits \in SUBSET (1..4) /\ ready \in SUBSET Fds
  /\ pc \in InPump \cup {"monitor", "poll", "events"} /\ at \in Pumps

HistoryTypes ==
  /\ captured \in 0..MaxFrames /\ flushed \in 0..captured
  /\ hurt \in BOOLEAN /\ faults \in 0..MaxFaults

(* A failed ioctl loses one buffer at most. *)
Counts ==
  \A p \in Pumps : /\ Known(p) <= Buffers
                   /\ hurt => Known(p) >= Buffers - faults
                   /\ ~hurt => Known(p) = Buffers

(* Pump p will run before the loop waits again, or is in its first stages.    *)
WillRun(p, stages) ==
  \/ p \in fd_bits /\ (pc = "events" \/ (pc \in InPump /\ p > at))
  \/ p = at /\ pc \in stages

(* What awaits DQBUF will be dequeued before the loop waits again, or epoll   *)
(* will look at its descriptor; and only a pump that runs holds a frame.      *)
Awake ==
  /\ pc # "monitor" => \A p \in Pumps :
       /\ full[p] # << >> => SrcFd[p] \in ready \/ WillRun(p, {"reclaim", "collect"})
       /\ used[p] > 0 => DstFd[p] \in ready \/ WillRun(p, {"reclaim"})
  /\ \A p \in Pumps : next[p] # None => p = at /\ pc \in {"collect", "pass"}

IInv == QueueTypes /\ LoopTypes /\ HistoryTypes /\ Counts /\ (~hurt => Awake)

LEMMA Descriptors ==
  \A p \in Pumps : /\ SrcFd[p] \in Fds /\ DstFd[p] \in Fds
                   /\ p \in Bits(SrcFd[p]) /\ p \in Bits(DstFd[p])
<1>1. /\ SrcFd[1] = "cam" /\ SrcFd[2] = "isp output" /\ SrcFd[3] = "enc"
      /\ DstFd[1] = "isp input" /\ DstFd[2] = "enc" /\ DstFd[3] = "uvc"
      /\ DOMAIN SrcFd = 1..3 /\ DOMAIN DstFd = 1..3
  BY DEF SrcFd, DstFd
<1>2. \A p \in Pumps : SrcFd[p] \in Fds /\ DstFd[p] \in Fds
  <2>1. \A p \in Pumps : SrcFd[p] \in Range(SrcFd)
    BY <1>1, Zenon DEF Range, Pumps
  <2>2. \A p \in Pumps : DstFd[p] \in Range(DstFd)
    BY <1>1, Zenon DEF Range, Pumps
  <2> QED BY <2>1, <2>2 DEF Fds
<1>3. /\ 1 \in Bits(SrcFd[1]) /\ 2 \in Bits(SrcFd[2]) /\ 3 \in Bits(SrcFd[3])
      /\ 1 \in Bits(DstFd[1]) /\ 2 \in Bits(DstFd[2]) /\ 3 \in Bits(DstFd[3])
  <2>1. 1 \in Bits(SrcFd[1]) /\ 1 \in Bits(DstFd[1])
    BY DEF SrcFd, DstFd, Bits, CAM_TO_ISP
  <2>2. 2 \in Bits(SrcFd[2])
    BY DEF SrcFd, Bits, ISP_TO_ENC
  <2>3. 2 \in Bits(DstFd[2]) /\ 3 \in Bits(SrcFd[3])
    <3>1. Bits("enc") = {2, 3}
      BY DEF Bits, ISP_TO_ENC, ENC_TO_UVC
    <3> QED BY <1>1, <3>1, Zenon
  <2>4. 3 \in Bits(DstFd[3])
    <3>1. Bits("uvc") = {3, 4}
      BY DEF Bits, ENC_TO_UVC, UVC_EVENTS
    <3> QED BY <1>1, <3>1, Zenon
  <2> QED BY <2>1, <2>2, <2>3, <2>4
<1>4. \A p \in Pumps : p \in Bits(SrcFd[p]) /\ p \in Bits(DstFd[p])
  <2>1. \A p \in Pumps : p = 1 \/ p = 2 \/ p = 3
    BY DEF Pumps
  <2> QED BY <1>3, <2>1, Zenon
<1> QED BY <1>2, <1>4

LEMMA Initially == Init => IInv
<1> SUFFICES ASSUME Init PROVE IInv
  OBVIOUS
<1>0. /\ free = [p \in Pumps |-> Buffers] /\ full = [p \in Pumps |-> << >>]
      /\ todo = [p \in Pumps |-> << >>] /\ used = [p \in Pumps |-> 0]
      /\ inside = [p \in {1, 2} |-> None] /\ next = [p \in Pumps |-> None]
      /\ pc = "monitor" /\ hurt = FALSE
  BY DEF Init, Streaming
<1>1. QueueTypes
  BY <1>0 DEF QueueTypes
<1>2. LoopTypes
  <2>1. fd_bits = {4} /\ ready = {} /\ at = 1
    BY DEF Init, UVC_EVENTS
  <2> QED BY <1>0, <2>1 DEF LoopTypes, Pumps
<1>3. HistoryTypes
  <2>1. captured = 0 /\ flushed = 0 /\ faults = 0
    BY DEF Init
  <2>2. hurt \in BOOLEAN
    BY <1>0
  <2> QED BY <2>1, <2>2 DEF HistoryTypes
<1>4. Counts
  BY <1>0 DEF Counts, Known
<1>5. Awake
  BY <1>0 DEF Awake
<1> QED BY <1>1, <1>2, <1>3, <1>4, <1>5 DEF IInv

(* The loop goes on to every later pump whose bit is set. *)
LEMMA Proceeds ==
  ASSUME NEW bits \in SUBSET (1..4), NEW q \in 0..3, Proceed(bits, q), fd_bits' = bits
  PROVE  /\ at' \in Pumps /\ pc' \in {"poll", "reclaim"}
         /\ \A p \in Pumps : \A stages :
              p \in bits /\ p > q /\ "reclaim" \in stages => WillRun(p, stages)'
<1> DEFINE Later == {r \in bits : q < r /\ r \in Pumps}
<1>1. CASE Later = {}
  BY <1>1 DEF Proceed, Pumps
<1>2. CASE Later # {}
  <2>1. pc' = "reclaim" /\ at' = Min(Later)
    BY <1>2 DEF Proceed
  <2>2. \E m \in Later : \A r \in Later : m <= r
    <3>1. CASE 1 \in Later
      BY <3>1 DEF Pumps
    <3>2. CASE 1 \notin Later /\ 2 \in Later
      BY <3>2 DEF Pumps
    <3>3. CASE 1 \notin Later /\ 2 \notin Later
      BY <1>2, <3>3 DEF Pumps
    <3> QED BY <3>1, <3>2, <3>3
  <2>3. Min(Later) \in Later /\ \A r \in Later : Min(Later) <= r
    BY <2>2 DEF Min
  <2> QED BY <2>1, <2>3 DEF WillRun, InPump, Pumps
<1> QED BY <1>1, <1>2

(* A buffer goes from one place to another. *)
LEMMA Moved ==
  ASSUME NEW a \in Nat, NEW b \in Nat, NEW c, NEW d, c = a - 1, d = b + 1
  PROVE  c + d = a + b
OBVIOUS

LEMMA MovedOn ==
  ASSUME NEW k \in Nat, NEW a \in Nat, NEW b \in Nat, NEW c, NEW d, c = a - 1, d = b + 1
  PROVE  k + c + d = k + a + b
OBVIOUS

(* One queue, or one number of buffers, of a pump changes. *)
LEMMA AppendAt ==
  ASSUME NEW s \in [Pumps -> Seq(Frames)], NEW p \in Pumps, NEW f \in Frames,
         NEW t, t = [s EXCEPT ![p] = Append(@, f)]
  PROVE  /\ t \in [Pumps -> Seq(Frames)]
         /\ Len(t[p]) = Len(s[p]) + 1 /\ \A q \in Pumps \ {p} : t[q] = s[q]
<1>1. s[p] \in Seq(Frames)
  OBVIOUS
<1>2. Append(s[p], f) \in Seq(Frames) /\ Len(Append(s[p], f)) = Len(s[p]) + 1
  BY <1>1
<1>3. t[p] = Append(s[p], f) /\ \A q \in Pumps \ {p} : t[q] = s[q]
  OBVIOUS
<1>4. t \in [Pumps -> Seq(Frames)]
  BY <1>2
<1> QED BY <1>2, <1>3, <1>4

LEMMA TailAt ==
  ASSUME NEW s \in [Pumps -> Seq(Frames)], NEW p \in Pumps, s[p] # << >>,
         NEW t, t = [s EXCEPT ![p] = Tail(@)]
  PROVE  /\ t \in [Pumps -> Seq(Frames)] /\ Head(s[p]) \in Frames
         /\ Len(t[p]) = Len(s[p]) - 1 /\ \A q \in Pumps \ {p} : t[q] = s[q]
<1>1. s[p] \in Seq(Frames)
  OBVIOUS
<1>2. Tail(s[p]) \in Seq(Frames) /\ Len(Tail(s[p])) = Len(s[p]) - 1 /\ Head(s[p]) \in Frames
  BY <1>1
<1>3. t[p] = Tail(s[p]) /\ \A q \in Pumps \ {p} : t[q] = s[q]
  OBVIOUS
<1>4. t \in [Pumps -> Seq(Frames)]
  BY <1>2
<1> QED BY <1>2, <1>3, <1>4

LEMMA NumberAt ==
  ASSUME NEW n \in [Pumps -> Nat], NEW p \in Pumps, NEW x \in Nat,
         NEW m, m = [n EXCEPT ![p] = x]
  PROVE  m \in [Pumps -> Nat] /\ m[p] = x /\ \A q \in Pumps \ {p} : m[q] = n[q]
OBVIOUS

LEMMA Numbers ==
  ASSUME QueueTypes, NEW p \in Pumps
  PROVE  /\ free[p] \in Nat /\ used[p] \in Nat
         /\ Len(full[p]) \in Nat /\ Len(todo[p]) \in Nat
         /\ full[p] # << >> <=> Len(full[p]) > 0
         /\ todo[p] # << >> <=> Len(todo[p]) > 0
<1>1. full[p] \in Seq(Frames) /\ todo[p] \in Seq(Frames)
  BY DEF QueueTypes
<1> QED BY <1>1 DEF QueueTypes

-----------------------------------------------------------------------------
(* The drivers *)

(* What a driver finishes is looked at, if the loop may wait before it runs.  *)
LEMMA Woken ==
  ASSUME IInv, NEW fd \in Fds, Wake(fd), UNCHANGED <<next, fd_bits, pc, at>>,
         \A p \in Pumps : full'[p] # << >> => full[p] # << >> \/ SrcFd[p] = fd,
         \A p \in Pumps : used'[p] > 0 => used[p] > 0 \/ DstFd[p] = fd
  PROVE  LoopTypes' /\ (~hurt => Awake')
<1>1. ready' \in SUBSET Fds /\ (pc # "monitor" => ready \subseteq ready' /\ fd \in ready')
  BY DEF Wake, IInv, LoopTypes
<1>2. LoopTypes'
  BY <1>1 DEF IInv, LoopTypes
<1>3. ASSUME ~hurt PROVE Awake'
  <2>1. Awake
    BY <1>3 DEF IInv
  <2>2. \A p, stages : WillRun(p, stages)' <=> WillRun(p, stages)
    BY DEF WillRun
  <2>3. ASSUME pc # "monitor", NEW p \in Pumps
        PROVE  /\ full'[p] # << >> => SrcFd[p] \in ready' \/ WillRun(p, {"reclaim", "collect"})'
               /\ used'[p] > 0 => DstFd[p] \in ready' \/ WillRun(p, {"reclaim"})'
    BY <1>1, <2>1, <2>2, <2>3 DEF Awake
  <2> QED BY <2>1, <2>3 DEF Awake
<1> QED BY <1>2, <1>3

LEMMA FinishKeeps ==
  ASSUME IInv, NEW p \in Pumps, NEW f \in Frames, Finish(p, f),
         UNCHANGED <<todo, used, next, fd_bits, pc, at, hurt, faults>>
  PROVE  /\ free' \in [Pumps -> Nat] /\ full' \in [Pumps -> Seq(Frames)]
         /\ LoopTypes' /\ Counts' /\ (~hurt => Awake')
<1>1. /\ free[p] > 0 /\ free' = [free EXCEPT ![p] = @ - 1]
      /\ full' = [full EXCEPT ![p] = Append(@, f)] /\ Wake(SrcFd[p])
  BY DEF Finish
<1>2. QueueTypes
  BY DEF IInv
<1>3. /\ free' \in [Pumps -> Nat] /\ full' \in [Pumps -> Seq(Frames)]
      /\ free'[p] = free[p] - 1 /\ \A q \in Pumps \ {p} : free'[q] = free[q]
      /\ Len(full'[p]) = Len(full[p]) + 1 /\ \A q \in Pumps \ {p} : full'[q] = full[q]
  <2>1. free[p] - 1 \in Nat
    BY <1>1, <1>2, Numbers
  <2>2. /\ free' \in [Pumps -> Nat]
        /\ free'[p] = free[p] - 1 /\ \A q \in Pumps \ {p} : free'[q] = free[q]
    BY <1>1, <1>2, <2>1, NumberAt DEF QueueTypes
  <2>3. /\ full' \in [Pumps -> Seq(Frames)]
        /\ Len(full'[p]) = Len(full[p]) + 1 /\ \A q \in Pumps \ {p} : full'[q] = full[q]
    BY <1>1, <1>2, AppendAt DEF QueueTypes
  <2> QED BY <2>2, <2>3
<1>4. LoopTypes' /\ (~hurt => Awake')
  <2>1. \A q \in Pumps : full'[q] # << >> => full[q] # << >> \/ SrcFd[q] = SrcFd[p]
    BY <1>3
  <2>2. SrcFd[p] \in Fds
    BY Descriptors
  <2> QED BY <1>1, <2>1, <2>2, Woken
<1>5. \A q \in Pumps : Known(q)' = Known(q)
  <2>1. Known(p)' = Known(p)
    <3>1. free[p] \in Nat /\ Len(full[p]) \in Nat
      BY <1>2, Numbers
    <3>2. free'[p] = free[p] - 1 /\ Len(full'[p]) = Len(full[p]) + 1
      BY <1>3
    <3>3. free'[p] + Len(full'[p]) = free[p] + Len(full[p])
      BY <3>1, <3>2, Moved
    <3> QED BY <3>3 DEF Known
  <2>2. \A q \in Pumps \ {p} : Known(q)' = Known(q)
    BY <1>3 DEF Known
  <2> QED BY <2>1, <2>2
<1>6. Counts'
  BY <1>5 DEF IInv, Counts
<1> QED BY <1>3, <1>4, <1>6

LEMMA ReadKeeps ==
  ASSUME IInv, NEW p \in Pumps, ReadNext(p),
         UNCHANGED <<free, full, next, fd_bits, pc, at, hurt, faults>>
  PROVE  /\ Head(todo[p]) \in Frames
         /\ todo' \in [Pumps -> Seq(Frames)] /\ used' \in [Pumps -> Nat]
         /\ LoopTypes' /\ Counts' /\ (~hurt => Awake')
<1>1. /\ todo[p] # << >> /\ todo' = [todo EXCEPT ![p] = Tail(@)]
      /\ used' = [used EXCEPT ![p] = @ + 1] /\ Wake(DstFd[p])
  BY DEF ReadNext
<1>2. QueueTypes
  BY DEF IInv
<1>3. /\ Head(todo[p]) \in Frames
      /\ todo' \in [Pumps -> Seq(Frames)] /\ used' \in [Pumps -> Nat]
      /\ used'[p] = used[p] + 1 /\ \A q \in Pumps \ {p} : used'[q] = used[q]
      /\ Len(todo'[p]) = Len(todo[p]) - 1 /\ \A q \in Pumps \ {p} : todo'[q] = todo[q]
  <2>1. used[p] + 1 \in Nat
    BY <1>2, Numbers
  <2>2. /\ used' \in [Pumps -> Nat]
        /\ used'[p] = used[p] + 1 /\ \A q \in Pumps \ {p} : used'[q] = used[q]
    BY <1>1, <1>2, <2>1, NumberAt DEF QueueTypes
  <2>3. /\ Head(todo[p]) \in Frames /\ todo' \in [Pumps -> Seq(Frames)]
        /\ Len(todo'[p]) = Len(todo[p]) - 1 /\ \A q \in Pumps \ {p} : todo'[q] = todo[q]
    BY <1>1, <1>2, TailAt DEF QueueTypes
  <2> QED BY <2>2, <2>3
<1>4. LoopTypes' /\ (~hurt => Awake')
  <2>1. \A q \in Pumps : used'[q] > 0 => used[q] > 0 \/ DstFd[q] = DstFd[p]
    BY <1>3
  <2>2. DstFd[p] \in Fds
    BY Descriptors
  <2> QED BY <1>1, <2>1, <2>2, Woken
<1>5. \A q \in Pumps : Known(q)' = Known(q)
  <2>1. Known(p)' = Known(p)
    <3>1. /\ free[p] \in Nat /\ Len(full[p]) \in Nat
          /\ used[p] \in Nat /\ Len(todo[p]) \in Nat
      BY <1>2, Numbers
    <3> DEFINE k == free[p] + Len(full[p]) + (IF next[p] = None THEN 0 ELSE 1)
    <3>2. k \in Nat
      BY <3>1
    <3>3. Known(p) = k + Len(todo[p]) + used[p] /\ Known(p)' = k + Len(todo'[p]) + used'[p]
      BY DEF Known
    <3> HIDE DEF k
    <3>4. k + Len(todo'[p]) + used'[p] = k + Len(todo[p]) + used[p]
      BY <1>1, <1>3, <3>1, <3>2, MovedOn
    <3> QED BY <3>3, <3>4
  <2>2. \A q \in Pumps \ {p} : Known(q)' = Known(q)
    BY <1>3 DEF Known
  <2> QED BY <2>1, <2>2
<1>6. Counts'
  BY <1>5 DEF IInv, Counts
<1> QED BY <1>3, <1>4, <1>6

LEMMA DevicesKeep ==
  ASSUME IInv, Capture \/ Codec(1) \/ Codec(2) \/ Transmit
  PROVE  IInv'
<1>1. CASE Capture
  <2>1. /\ captured + 1 \in Frames /\ captured' = captured + 1 /\ Finish(1, captured + 1)
        /\ UNCHANGED <<todo, used, inside, next, fd_bits, pc, at, flushed, hurt, faults>>
    BY <1>1 DEF Capture, IInv, HistoryTypes, Frames, history
  <2>2. /\ free' \in [Pumps -> Nat] /\ full' \in [Pumps -> Seq(Frames)]
        /\ LoopTypes' /\ Counts' /\ (~hurt => Awake')
    <3>1. 1 \in Pumps
      BY DEF Pumps
    <3> QED BY <2>1, <3>1, FinishKeeps
  <2>3. QueueTypes'
    BY <2>1, <2>2 DEF IInv, QueueTypes
  <2>4. HistoryTypes'
    BY <2>1 DEF IInv, HistoryTypes, Frames
  <2> QED BY <2>1, <2>2, <2>3, <2>4 DEF IInv
<1>2. ASSUME NEW p \in {1, 2}, Take(p) PROVE IInv'
  <2>1. /\ ReadNext(p) /\ inside' = [inside EXCEPT ![p] = Head(todo[p])]
        /\ UNCHANGED <<free, full, next, fd_bits, pc, at, captured, flushed, hurt, faults>>
    BY <1>2 DEF Take, history
  <2>2. /\ Head(todo[p]) \in Frames
        /\ todo' \in [Pumps -> Seq(Frames)] /\ used' \in [Pumps -> Nat]
        /\ LoopTypes' /\ Counts' /\ (~hurt => Awake')
    <3>1. p \in Pumps
      BY DEF Pumps
    <3> QED BY <2>1, <3>1, ReadKeeps
  <2>3. QueueTypes'
    BY <2>1, <2>2 DEF IInv, QueueTypes
  <2>4. HistoryTypes'
    BY <2>1 DEF IInv, HistoryTypes
  <2> QED BY <2>1, <2>2, <2>3, <2>4 DEF IInv
<1>3. ASSUME NEW p \in {1, 2}, Emit(p) PROVE IInv'
  <2>1. /\ inside[p] # None /\ inside' = [inside EXCEPT ![p] = None] /\ Finish(p + 1, inside[p])
        /\ UNCHANGED <<todo, used, next, fd_bits, pc, at, captured, flushed, hurt, faults>>
    BY <1>3 DEF Emit, history
  <2>2. inside[p] \in Frames /\ p + 1 \in Pumps
    BY <2>1 DEF IInv, QueueTypes, Pumps
  <2>3. /\ free' \in [Pumps -> Nat] /\ full' \in [Pumps -> Seq(Frames)]
        /\ LoopTypes' /\ Counts' /\ (~hurt => Awake')
    BY <2>1, <2>2, FinishKeeps
  <2>4. QueueTypes'
    BY <2>1, <2>3 DEF IInv, QueueTypes
  <2>5. HistoryTypes'
    BY <2>1 DEF IInv, HistoryTypes
  <2> QED BY <2>1, <2>3, <2>4, <2>5 DEF IInv
<1>4. CASE Transmit
  <2>1. /\ ReadNext(3)
        /\ UNCHANGED <<free, full, inside, next, fd_bits, pc, at, captured, flushed, hurt, faults>>
    BY <1>4 DEF Transmit, history
  <2>2. /\ todo' \in [Pumps -> Seq(Frames)] /\ used' \in [Pumps -> Nat]
        /\ LoopTypes' /\ Counts' /\ (~hurt => Awake')
    <3>1. 3 \in Pumps
      BY DEF Pumps
    <3> QED BY <2>1, <3>1, ReadKeeps
  <2>3. QueueTypes'
    BY <2>1, <2>2 DEF IInv, QueueTypes
  <2>4. HistoryTypes'
    BY <2>1 DEF IInv, HistoryTypes
  <2> QED BY <2>1, <2>2, <2>3, <2>4 DEF IInv
<1> QED BY <1>1, <1>2, <1>3, <1>4 DEF Codec

-----------------------------------------------------------------------------
(* pumpPump *)

(* What the pump itself holds *)
Held(p) == IF next[p] = None THEN 0 ELSE 1

LEMMA Sum ==
  ASSUME NEW a \in Nat, NEW b \in Nat, NEW c \in Nat, NEW d \in Nat, NEW e \in Nat
  PROVE  a + b + c + d + e \in Nat
OBVIOUS

LEMMA KnownIsNat == QueueTypes => \A p \in Pumps : Known(p) \in Nat
<1> SUFFICES ASSUME QueueTypes, NEW p \in Pumps PROVE Known(p) \in Nat
  OBVIOUS
<1>1. free[p] \in Nat /\ Len(full[p]) \in Nat /\ used[p] \in Nat /\ Len(todo[p]) \in Nat
  BY Numbers
<1>2. Held(p) \in Nat
  BY DEF Held
<1>3. Known(p) = free[p] + Len(full[p]) + Held(p) + Len(todo[p]) + used[p]
  BY DEF Known, Held
<1> QED BY <1>1, <1>2, <1>3, Sum

(* What an ioctl that fails without need may cost. *)
LEMMA FaultCosts ==
  ASSUME IInv, Fault, captured' = captured, QueueTypes', LoopTypes',
         \A p \in Pumps : Known(p)' = Known(p) \/ Known(p)' = Known(p) - 1
  PROVE  IInv'
<1>1. hurt' = TRUE /\ faults' = faults + 1 /\ faults < MaxFaults /\ flushed' = flushed
  BY DEF Fault
<1>2. HistoryTypes'
  BY <1>1 DEF IInv, HistoryTypes
<1>3. ASSUME NEW p \in Pumps
      PROVE  Known(p)' <= Buffers /\ Known(p)' >= Buffers - (faults + 1)
  <2>1. Known(p) \in Nat /\ faults \in Nat
    BY KnownIsNat DEF IInv, HistoryTypes
  <2>2. Known(p) <= Buffers /\ Known(p) >= Buffers - faults
    BY <2>1 DEF IInv, Counts, HistoryTypes
  <2> QED BY <2>1, <2>2
<1>4. Counts'
  BY <1>1, <1>3 DEF Counts
<1> QED BY <1>1, <1>2, <1>4 DEF IInv

(* After a pump the loop goes on to the next one that has to run. *)
LEMMA NextPump ==
  ASSUME IInv, pc \in InPump, Proceed(fd_bits, at), UNCHANGED <<fd_bits, ready>>
  PROVE  /\ LoopTypes'
         /\ (pc = "pass" /\ Awake /\ UNCHANGED <<full, used>> /\ \A p \in Pumps : next'[p] = None)
              => Awake'
<1>1. fd_bits \in SUBSET (1..4) /\ at \in 0..3 /\ at \in Pumps
  BY DEF IInv, LoopTypes, Pumps
<1>2. /\ at' \in Pumps /\ pc' \in {"poll", "reclaim"}
      /\ \A p \in Pumps : \A stages :
           p \in fd_bits /\ p > at /\ "reclaim" \in stages => WillRun(p, stages)'
  BY <1>1, Proceeds
<1>3. LoopTypes'
  BY <1>2 DEF IInv, LoopTypes, InPump
<1>4. ASSUME pc = "pass", UNCHANGED <<full, used>>, Awake, \A p \in Pumps : next'[p] = None
      PROVE  Awake'
  <2>1. ASSUME NEW p \in Pumps, NEW stages, stages \subseteq {"reclaim", "collect"},
               "reclaim" \in stages, WillRun(p, stages)
        PROVE  WillRun(p, stages)'
    BY <1>2, <1>4, <2>1 DEF WillRun
  <2>2. ASSUME NEW p \in Pumps
        PROVE  /\ full'[p] # << >> => SrcFd[p] \in ready' \/ WillRun(p, {"reclaim", "collect"})'
               /\ used'[p] > 0 => DstFd[p] \in ready' \/ WillRun(p, {"reclaim"})'
    BY <1>4, <2>1 DEF Awake
  <2> QED BY <1>4, <2>2 DEF Awake
<1> QED BY <1>3, <1>4

LEMMA ReclaimKeeps == IInv /\ Reclaim => IInv'
<1> SUFFICES ASSUME IInv, Reclaim PROVE IInv'
  OBVIOUS
<1>1. /\ pc = "reclaim" /\ used[at] > 0 /\ used' = [used EXCEPT ![at] = @ - 1]
      /\ UNCHANGED <<full, todo, inside, next, fd_bits, ready, captured>>
  BY DEF Reclaim
<1>2. QueueTypes /\ at \in Pumps
  BY DEF IInv, LoopTypes
<1>3. used[at] - 1 \in Nat
  BY <1>1, <1>2, Numbers
<1>4. /\ used' \in [Pumps -> Nat]
      /\ used'[at] = used[at] - 1 /\ \A q \in Pumps \ {at} : used'[q] = used[q]
  BY <1>1, <1>2, <1>3, NumberAt DEF QueueTypes
<1>5. \A p \in Pumps : free[p] \in Nat /\ Len(full[p]) \in Nat /\ Held(p) \in Nat
                         /\ Len(todo[p]) \in Nat /\ used[p] \in Nat
  BY <1>2, Numbers DEF Held
<1>6. \A p \in Pumps :
        /\ Known(p) = free[p] + Len(full[p]) + Held(p) + Len(todo[p]) + used[p]
        /\ Known(p)' = free'[p] + Len(full[p]) + Held(p) + Len(todo[p]) + used'[p]
  BY <1>1 DEF Known, Held
<1>7. CASE free' = [free EXCEPT ![at] = @ + 1] /\ UNCHANGED <<pc, at, history>>
  <2>1. free[at] + 1 \in Nat
    BY <1>2, Numbers
  <2>2. /\ free' \in [Pumps -> Nat]
        /\ free'[at] = free[at] + 1 /\ \A q \in Pumps \ {at} : free'[q] = free[q]
    BY <1>2, <1>7, <2>1, NumberAt DEF QueueTypes
  <2>3. ASSUME NEW p \in Pumps, p = at PROVE Known(p)' = Known(p)
    <3> DEFINE a == free[p]
               b == Len(full[p])
               c == Held(p)
               d == Len(todo[p])
               e == used[p]
    <3>1. a \in Nat /\ b \in Nat /\ c \in Nat /\ d \in Nat /\ e \in Nat
      BY <1>5
    <3>2. Known(p) = a + b + c + d + e /\ Known(p)' = (a + 1) + b + c + d + (e - 1)
      <4>1. free'[p] = a + 1 /\ used'[p] = e - 1
        BY <1>4, <2>2, <2>3
      <4> QED BY <1>6, <4>1, Zenon
    <3> HIDE DEF a, b, c, d, e
    <3> QED BY <3>1, <3>2
  <2>4. \A q \in Pumps : Known(q)' = Known(q)
    <3>1. ASSUME NEW q \in Pumps, q # at PROVE Known(q)' = Known(q)
      <4>1. free'[q] = free[q] /\ used'[q] = used[q]
        BY <1>4, <2>2, <3>1
      <4> QED BY <1>6, <4>1, Zenon
    <3> QED BY <2>3, <3>1, Zenon
  <2>5. QueueTypes' /\ LoopTypes' /\ HistoryTypes' /\ Counts'
    BY <1>1, <1>4, <1>7, <2>2, <2>4
       DEF IInv, QueueTypes, LoopTypes, HistoryTypes, Counts, history
  <2>6. ASSUME ~hurt PROVE Awake'
    <3>1. Awake /\ pc' = "reclaim"
      BY <1>1, <1>7, <2>6 DEF IInv
    <3>2. \A p, stages : WillRun(p, stages) => WillRun(p, stages)'
      BY <1>1, <1>7 DEF WillRun
    <3>3. \A p \in Pumps : used'[p] > 0 => used[p] > 0
      BY <1>1, <1>4
    <3> QED BY <1>1, <1>7, <3>1, <3>2, <3>3 DEF Awake
  <2>7. hurt' = hurt
    BY <1>7 DEF history
  <2> QED BY <2>5, <2>6, <2>7 DEF IInv
<1>8. CASE Fault /\ Proceed(fd_bits, at) /\ UNCHANGED free
  <2>1. QueueTypes'
    BY <1>1, <1>2, <1>4, <1>8 DEF QueueTypes
  <2>2. LoopTypes'
    BY <1>1, <1>8, NextPump DEF InPump
  <2>3. \A p \in Pumps : Known(p)' = Known(p) \/ Known(p)' = Known(p) - 1
    <3> SUFFICES ASSUME NEW p \in Pumps PROVE Known(p)' = Known(p) \/ Known(p)' = Known(p) - 1
      OBVIOUS
    <3> DEFINE a == free[p]
               b == Len(full[p])
               c == Held(p)
               d == Len(todo[p])
               e == used[p]
               g == used'[p]
    <3>1. Known(p) = a + b + c + d + e /\ Known(p)' = a + b + c + d + g
      BY <1>6, <1>8
    <3>2. a \in Nat /\ b \in Nat /\ c \in Nat /\ d \in Nat /\ e \in Nat
      BY <1>5
    <3>3. g = e \/ g = e - 1
      BY <1>4
    <3> HIDE DEF a, b, c, d, e, g
    <3> QED BY <3>1, <3>2, <3>3
  <2> QED BY <1>1, <1>8, <2>1, <2>2, <2>3, FaultCosts
<1> QED BY <1>7, <1>8 DEF Reclaim

LEMMA ReclaimEndKeeps == IInv /\ ReclaimEnd => IInv'
<1> SUFFICES ASSUME IInv, ReclaimEnd PROVE IInv'
  OBVIOUS
<1>1. /\ pc = "reclaim" /\ pc' = "collect"
      /\ UNCHANGED <<free, full, todo, used, inside, next, fd_bits, ready, at, captured>>
  BY DEF ReclaimEnd, queues
<1>2. QueueTypes' /\ LoopTypes'
  BY <1>1 DEF IInv, QueueTypes, LoopTypes, InPump
<1>3. \A p \in Pumps : Known(p)' = Known(p)
  BY <1>1 DEF Known
<1>4. CASE used[at] = 0 /\ UNCHANGED history
  <2>1. HistoryTypes' /\ Counts' /\ hurt' = hurt
    BY <1>1, <1>3, <1>4 DEF IInv, HistoryTypes, Counts, history
  <2>2. ASSUME ~hurt PROVE Awake'
    <3>1. Awake
      BY <2>2 DEF IInv
    <3>2. \A p \in Pumps : /\ WillRun(p, {"reclaim", "collect"}) => WillRun(p, {"reclaim", "collect"})'
                           /\ p # at /\ WillRun(p, {"reclaim"}) => WillRun(p, {"reclaim"})'
      BY <1>1 DEF WillRun, InPump
    <3>3. \A p \in Pumps : used[p] > 0 => p # at
      BY <1>4
    <3> QED BY <1>1, <3>1, <3>2, <3>3 DEF Awake
  <2> QED BY <1>2, <2>1, <2>2 DEF IInv
<1>5. CASE Fault
  <2> QED BY <1>1, <1>2, <1>3, <1>5, FaultCosts
<1> QED BY <1>4, <1>5 DEF ReclaimEnd

LEMMA CollectKeeps == IInv /\ Collect => IInv'
<1> SUFFICES ASSUME IInv, Collect PROVE IInv'
  OBVIOUS
<1>1. /\ pc = "collect" /\ full[at] # << >> /\ full' = [full EXCEPT ![at] = Tail(@)]
      /\ UNCHANGED <<todo, used, inside, fd_bits, ready, captured>>
  BY DEF Collect
<1>2. QueueTypes /\ at \in Pumps
  BY DEF IInv, LoopTypes
<1>3. /\ full' \in [Pumps -> Seq(Frames)] /\ Head(full[at]) \in Frames
      /\ Len(full'[at]) = Len(full[at]) - 1 /\ \A q \in Pumps \ {at} : full'[q] = full[q]
  BY <1>1, <1>2, TailAt DEF QueueTypes
<1>4. \A p \in Pumps : free[p] \in Nat /\ Len(full[p]) \in Nat /\ Held(p) \in Nat
                         /\ Len(todo[p]) \in Nat /\ used[p] \in Nat
  BY <1>2, Numbers DEF Held
<1>5. \A p \in Pumps :
        /\ Known(p) = free[p] + Len(full[p]) + Held(p) + Len(todo[p]) + used[p]
        /\ Known(p)' = free'[p] + Len(full'[p]) + Held(p)' + Len(todo[p]) + used[p]
  BY <1>1 DEF Known, Held
<1>6. CASE /\ next' = [next EXCEPT ![at] = Head(full[at])]
           /\ free' = [free EXCEPT ![at] = @ + (IF next[at] = None THEN 0 ELSE 1)]
           /\ UNCHANGED <<pc, at, history>>
  <2>1. free[at] + Held(at) \in Nat /\ free' = [free EXCEPT ![at] = free[at] + Held(at)]
    BY <1>2, <1>4, <1>6 DEF Held
  <2>2. /\ free' \in [Pumps -> Nat]
        /\ free'[at] = free[at] + Held(at) /\ \A q \in Pumps \ {at} : free'[q] = free[q]
    BY <1>2, <2>1, NumberAt DEF QueueTypes
  <2>3. /\ next' \in [Pumps -> Frames \cup {None}] /\ next'[at] # None
        /\ \A q \in Pumps \ {at} : next'[q] = next[q]
    BY <1>2, <1>3, <1>6 DEF QueueTypes, Frames, None
  <2>4. ASSUME NEW p \in Pumps, p = at PROVE Known(p)' = Known(p)
    <3> DEFINE a == free[p]
               b == Len(full[p])
               c == Held(p)
               d == Len(todo[p])
               e == used[p]
    <3>1. a \in Nat /\ b \in Nat /\ c \in Nat /\ d \in Nat /\ e \in Nat
      BY <1>4
    <3>2. Known(p) = a + b + c + d + e /\ Known(p)' = (a + c) + (b - 1) + 1 + d + e
      <4>1. free'[p] = a + c /\ Len(full'[p]) = b - 1 /\ Held(p)' = 1
        BY <1>3, <2>2, <2>3, <2>4 DEF Held
      <4> QED BY <1>5, <4>1, Zenon
    <3> HIDE DEF a, b, c, d, e
    <3> QED BY <3>1, <3>2
  <2>5. \A q \in Pumps : Known(q)' = Known(q)
    <3>1. ASSUME NEW q \in Pumps, q # at PROVE Known(q)' = Known(q)
      <4>1. free'[q] = free[q] /\ full'[q] = full[q] /\ Held(q)' = Held(q)
        BY <1>3, <2>2, <2>3, <3>1 DEF Held
      <4> QED BY <1>5, <4>1, Zenon
    <3> QED BY <2>4, <3>1, Zenon
  <2>6. QueueTypes' /\ LoopTypes' /\ HistoryTypes' /\ Counts' /\ hurt' = hurt
    BY <1>1, <1>3, <1>6, <2>2, <2>3, <2>5
       DEF IInv, QueueTypes, LoopTypes, HistoryTypes, Counts, history
  <2>7. ASSUME ~hurt PROVE Awake'
    <3>1. Awake /\ pc' = "collect"
      BY <1>1, <1>6, <2>7 DEF IInv
    <3>2. \A p, stages : WillRun(p, stages) => WillRun(p, stages)'
      BY <1>1, <1>6 DEF WillRun
    <3>3. \A p \in Pumps : full'[p] # << >> => full[p] # << >>
      BY <1>1, <1>3
    <3>4. \A p \in Pumps : next'[p] # None => p = at
      BY <1>1, <2>3, <3>1 DEF Awake
    <3> QED BY <1>1, <1>6, <3>1, <3>2, <3>3, <3>4 DEF Awake
  <2> QED BY <2>6, <2>7 DEF IInv
<1>7. CASE Fault /\ Proceed(fd_bits, at) /\ UNCHANGED <<free, next>>
  <2>1. QueueTypes'
    BY <1>1, <1>2, <1>3, <1>7 DEF QueueTypes
  <2>2. LoopTypes'
    BY <1>1, <1>7, NextPump DEF InPump
  <2>3. \A p \in Pumps : Known(p)' = Known(p) \/ Known(p)' = Known(p) - 1
    <3> SUFFICES ASSUME NEW p \in Pumps PROVE Known(p)' = Known(p) \/ Known(p)' = Known(p) - 1
      OBVIOUS
    <3> DEFINE a == free[p]
               b == Len(full[p])
               c == Held(p)
               d == Len(todo[p])
               e == used[p]
               g == Len(full'[p])
    <3>1. Known(p) = a + b + c + d + e /\ Known(p)' = a + g + c + d + e
      BY <1>5, <1>7 DEF Held
    <3>2. a \in Nat /\ b \in Nat /\ c \in Nat /\ d \in Nat /\ e \in Nat
      BY <1>4
    <3>3. g = b \/ g = b - 1
      BY <1>3
    <3> HIDE DEF a, b, c, d, e, g
    <3> QED BY <3>1, <3>2, <3>3
  <2> QED BY <1>1, <1>7, <2>1, <2>2, <2>3, FaultCosts
<1> QED BY <1>6, <1>7 DEF Collect

LEMMA CollectEndKeeps == IInv /\ CollectEnd => IInv'
<1> SUFFICES ASSUME IInv, CollectEnd PROVE IInv'
  OBVIOUS
<1>1. /\ pc = "collect" /\ pc' = "pass"
      /\ UNCHANGED <<free, full, todo, used, inside, next, fd_bits, ready, at, captured>>
  BY DEF CollectEnd, queues
<1>2. QueueTypes' /\ LoopTypes'
  BY <1>1 DEF IInv, QueueTypes, LoopTypes, InPump
<1>3. \A p \in Pumps : Known(p)' = Known(p)
  BY <1>1 DEF Known
<1>4. CASE full[at] = << >> /\ UNCHANGED history
  <2>1. HistoryTypes' /\ Counts' /\ hurt' = hurt
    BY <1>1, <1>3, <1>4 DEF IInv, HistoryTypes, Counts, history
  <2>2. ASSUME ~hurt PROVE Awake'
    <3>1. Awake
      BY <2>2 DEF IInv
    <3>2. \A p \in Pumps : \A stages : WillRun(p, stages) /\ (p # at \/ stages = {"reclaim"})
                                     => WillRun(p, stages)'
      BY <1>1 DEF WillRun, InPump
    <3>3. \A p \in Pumps : full[p] # << >> => p # at
      BY <1>4
    <3> QED BY <1>1, <3>1, <3>2, <3>3 DEF Awake
  <2> QED BY <1>2, <2>1, <2>2 DEF IInv
<1>5. CASE Fault
  BY <1>1, <1>2, <1>3, <1>5, FaultCosts
<1> QED BY <1>4, <1>5 DEF CollectEnd

LEMMA PassingKeeps == IInv /\ Pass => IInv'
<1> SUFFICES ASSUME IInv, Pass PROVE IInv'
  OBVIOUS
<1>1. /\ pc = "pass" /\ next[at] # None /\ Proceed(fd_bits, at)
      /\ todo' = [todo EXCEPT ![at] = Append(@, next[at])]
      /\ next' = [next EXCEPT ![at] = None]
      /\ UNCHANGED <<free, full, used, inside, fd_bits, ready, captured, history>>
  BY DEF Pass
<1>2. QueueTypes /\ at \in Pumps /\ next[at] \in Frames
  BY <1>1 DEF IInv, LoopTypes, QueueTypes
<1>3. /\ todo' \in [Pumps -> Seq(Frames)]
      /\ Len(todo'[at]) = Len(todo[at]) + 1 /\ \A q \in Pumps \ {at} : todo'[q] = todo[q]
  BY <1>1, <1>2, AppendAt DEF QueueTypes
<1>4. /\ next' \in [Pumps -> Frames \cup {None}] /\ next'[at] = None
      /\ \A q \in Pumps \ {at} : next'[q] = next[q]
  BY <1>1, <1>2 DEF QueueTypes
<1>5. \A p \in Pumps : free[p] \in Nat /\ Len(full[p]) \in Nat /\ Held(p) \in Nat
                         /\ Len(todo[p]) \in Nat /\ used[p] \in Nat
  BY <1>2, Numbers DEF Held
<1>6. \A p \in Pumps :
        /\ Known(p) = free[p] + Len(full[p]) + Held(p) + Len(todo[p]) + used[p]
        /\ Known(p)' = free[p] + Len(full[p]) + Held(p)' + Len(todo'[p]) + used[p]
  BY <1>1 DEF Known, Held
<1>7. ASSUME NEW p \in Pumps, p = at PROVE Known(p)' = Known(p)
  <2> DEFINE a == free[p]
             b == Len(full[p])
             d == Len(todo[p])
             e == used[p]
  <2>1. a \in Nat /\ b \in Nat /\ d \in Nat /\ e \in Nat
    BY <1>5
  <2>2. Known(p) = a + b + 1 + d + e /\ Known(p)' = a + b + 0 + (d + 1) + e
    <3>1. Held(p) = 1 /\ Held(p)' = 0 /\ Len(todo'[p]) = d + 1
      BY <1>1, <1>3, <1>4, <1>7 DEF Held
    <3> QED BY <1>6, <3>1, Zenon
  <2> HIDE DEF a, b, d, e
  <2> QED BY <2>1, <2>2
<1>8. ASSUME NEW q \in Pumps, q # at PROVE Known(q)' = Known(q)
  <2>1. todo'[q] = todo[q] /\ Held(q)' = Held(q)
    BY <1>3, <1>4, <1>8 DEF Held
  <2> QED BY <1>6, <2>1, Zenon
<1>9. \A p \in Pumps : Known(p)' = Known(p)
  BY <1>7, <1>8, Zenon
<1>10. QueueTypes' /\ HistoryTypes' /\ Counts' /\ hurt' = hurt
  BY <1>1, <1>3, <1>4, <1>9 DEF IInv, QueueTypes, HistoryTypes, Counts, history
<1>11. LoopTypes'
  BY <1>1, NextPump DEF InPump
<1>12. ASSUME ~hurt PROVE Awake'
  <2>1. Awake
    BY <1>12 DEF IInv
  <2>2. \A p \in Pumps : next'[p] = None
    BY <1>1, <1>4, <2>1 DEF Awake
  <2> QED BY <1>1, <2>1, <2>2, NextPump DEF InPump
<1> QED BY <1>10, <1>11, <1>12 DEF IInv

LEMMA PassNotKeeps == IInv /\ PassNot => IInv'
<1> SUFFICES ASSUME IInv, PassNot PROVE IInv'
  OBVIOUS
<1>1. /\ pc = "pass" /\ Proceed(fd_bits, at)
      /\ UNCHANGED <<free, full, todo, used, inside, next, fd_bits, ready, captured>>
  BY DEF PassNot, queues
<1>2. QueueTypes' /\ LoopTypes' /\ QueueTypes /\ at \in Pumps
  BY <1>1, NextPump DEF IInv, QueueTypes, LoopTypes, InPump
<1>3. \A p \in Pumps : Known(p)' = Known(p)
  BY <1>1 DEF Known
<1>4. CASE ~(next[at] # None /\ Len(todo[at]) + used[at] < Buffers) /\ UNCHANGED history
  <2>1. HistoryTypes' /\ Counts' /\ hurt' = hurt
    BY <1>1, <1>3, <1>4 DEF IInv, HistoryTypes, Counts, history
  <2>2. next[at] = None
    <3> SUFFICES ASSUME next[at] # None, Len(todo[at]) + used[at] >= Buffers PROVE FALSE
      <4>1. Len(todo[at]) \in Nat /\ used[at] \in Nat
        BY <1>2, Numbers
      <4> QED BY <1>4, <4>1
    <3> DEFINE a == free[at]
               b == Len(full[at])
               d == Len(todo[at])
               e == used[at]
    <3>1. a \in Nat /\ b \in Nat /\ d \in Nat /\ e \in Nat
      BY <1>2, Numbers
    <3>2. Known(at) = a + b + 1 + d + e /\ Known(at) <= Buffers
      BY <1>2 DEF Known, IInv, Counts
    <3>3. d + e >= Buffers
      OBVIOUS
    <3> HIDE DEF a, b, d, e
    <3> QED BY <3>1, <3>2, <3>3
  <2>3. ASSUME ~hurt PROVE Awake'
    <3>1. Awake
      BY <2>3 DEF IInv
    <3>2. \A p \in Pumps : next'[p] = None
      BY <1>1, <2>2, <3>1 DEF Awake
    <3> QED BY <1>1, <3>1, <3>2, NextPump DEF InPump
  <2> QED BY <1>2, <2>1, <2>3 DEF IInv
<1>5. CASE Fault
  BY <1>1, <1>2, <1>3, <1>5, FaultCosts
<1> QED BY <1>4, <1>5 DEF PassNot

-----------------------------------------------------------------------------
(* The loop *)

LEMMA PollKeeps == IInv /\ Poll => IInv'
<1> SUFFICES ASSUME IInv, Poll PROVE IInv'
  OBVIOUS
<1>1. PICK event \in {{}, {"uvc"}} :
        fd_bits' = UNION {Bits(fd) : fd \in {fd \in ready : Pending(fd)} \cup event}
  BY DEF Poll
<1>2. /\ pc = "poll" /\ ready' = {}
      /\ IF UVC_EVENTS \in fd_bits' THEN pc' = "events" /\ at' = 1 ELSE Proceed(fd_bits', 0)
      /\ UNCHANGED <<free, full, todo, used, inside, next, captured, history>>
  BY DEF Poll, queues
<1>3. fd_bits' \in SUBSET (1..4)
  <2>1. \A fd \in Fds : Bits(fd) \subseteq 1..4
    <3>1. ASSUME NEW fd \in Fds PROVE fd \in {"cam", "isp output", "enc", "isp input", "uvc"}
      <4>1. PICK p \in 1..3 : fd = SrcFd[p] \/ fd = DstFd[p]
        <5>1. DOMAIN SrcFd = 1..3 /\ DOMAIN DstFd = 1..3
          BY DEF SrcFd, DstFd
        <5> QED BY <3>1, <5>1, Zenon DEF Fds, Range
      <4>2. p = 1 \/ p = 2 \/ p = 3
        OBVIOUS
      <4>3. /\ SrcFd[1] = "cam" /\ SrcFd[2] = "isp output" /\ SrcFd[3] = "enc"
            /\ DstFd[1] = "isp input" /\ DstFd[2] = "enc" /\ DstFd[3] = "uvc"
        BY DEF SrcFd, DstFd
      <4> QED BY <4>1, <4>2, <4>3, Zenon
    <3>2. /\ Bits("cam") = {1} /\ Bits("isp input") = {1} /\ Bits("isp output") = {2}
          /\ Bits("enc") = {2, 3} /\ Bits("uvc") = {3, 4}
      BY DEF Bits, CAM_TO_ISP, ISP_TO_ENC, ENC_TO_UVC, UVC_EVENTS
    <3>3. {1} \subseteq 1..4 /\ {2} \subseteq 1..4 /\ {2, 3} \subseteq 1..4 /\ {3, 4} \subseteq 1..4
      OBVIOUS
    <3> QED BY <3>1, <3>2, <3>3, Zenon
  <2>2. "uvc" \in Fds /\ ready \subseteq Fds
    <3>1. 3 \in Pumps /\ DstFd[3] = "uvc"
      BY DEF Pumps, DstFd
    <3> QED BY <3>1, Descriptors DEF IInv, LoopTypes
  <2>3. {fd \in ready : Pending(fd)} \cup event \subseteq Fds
    BY <2>2
  <2> HIDE DEF Fds
  <2> QED BY <1>1, <2>1, <2>3, Zenon
<1>4. /\ at' \in Pumps /\ pc' \in {"poll", "reclaim", "events"}
      /\ \A p \in Pumps : \A stages : p \in fd_bits' /\ "reclaim" \in stages => WillRun(p, stages)'
  <2>1. CASE UVC_EVENTS \in fd_bits'
    BY <1>2, <2>1 DEF WillRun, Pumps
  <2>2. CASE Proceed(fd_bits', 0)
    <3>1. PICK bits \in SUBSET (1..4) : bits = fd_bits'
      BY <1>3
    <3>2. Proceed(bits, 0) /\ 0 \in 0..3
      BY <2>2, <3>1
    <3>3. /\ at' \in Pumps /\ pc' \in {"poll", "reclaim"}
          /\ \A p \in Pumps : \A stages :
               p \in bits /\ p > 0 /\ "reclaim" \in stages => WillRun(p, stages)'
      BY <3>1, <3>2, Proceeds
    <3>4. \A p \in Pumps : p > 0
      BY DEF Pumps
    <3> QED BY <3>1, <3>3, <3>4
  <2> QED BY <1>2, <2>1, <2>2
<1>5. QueueTypes' /\ HistoryTypes' /\ Counts' /\ hurt' = hurt
  BY <1>2 DEF IInv, QueueTypes, HistoryTypes, Counts, Known, history
<1>6. LoopTypes'
  BY <1>2, <1>3, <1>4 DEF LoopTypes, InPump
<1>7. ASSUME ~hurt PROVE Awake'
  <2>1. Awake
    BY <1>7 DEF IInv
  <2>2. \A p \in Pumps : \A stages : stages \subseteq InPump => ~WillRun(p, stages)
    BY <1>2 DEF WillRun, InPump
  <2>3. \A p \in Pumps : /\ full[p] # << >> => SrcFd[p] \in ready /\ Pending(SrcFd[p])
                         /\ used[p] > 0 => DstFd[p] \in ready /\ Pending(DstFd[p])
    BY <1>2, <2>1, <2>2 DEF Awake, Pending, InPump
  <2>4. ASSUME NEW p \in Pumps, full[p] # << >> \/ used[p] > 0
        PROVE  p \in fd_bits'
    <3>1. p \in Bits(SrcFd[p]) /\ p \in Bits(DstFd[p])
      BY Descriptors
    <3> QED BY <1>1, <2>3, <2>4, <3>1, Zenon
  <2>5. \A p \in Pumps : next[p] = None
    BY <1>2, <2>1 DEF Awake
  <2> QED BY <1>2, <1>4, <2>4, <2>5 DEF Awake
<1> QED BY <1>5, <1>6, <1>7 DEF IInv

LEMMA EventsDoneKeeps == IInv /\ EventsDone => IInv'
<1> SUFFICES ASSUME IInv, EventsDone PROVE IInv'
  OBVIOUS
<1>1. /\ pc = "events" /\ Proceed(fd_bits, 0)
      /\ UNCHANGED <<free, full, todo, used, inside, next, fd_bits, ready, captured, history>>
  BY DEF EventsDone, queues
<1>2. /\ at' \in Pumps /\ pc' \in {"poll", "reclaim"}
      /\ \A p \in Pumps : \A stages : p \in fd_bits /\ "reclaim" \in stages => WillRun(p, stages)'
  <2>1. fd_bits \in SUBSET (1..4) /\ 0 \in 0..3 /\ \A p \in Pumps : p > 0
    BY DEF IInv, LoopTypes, Pumps
  <2> QED BY <1>1, <2>1, Proceeds
<1>3. QueueTypes' /\ HistoryTypes' /\ Counts' /\ hurt' = hurt
  BY <1>1 DEF IInv, QueueTypes, HistoryTypes, Counts, Known, history
<1>4. LoopTypes'
  BY <1>1, <1>2 DEF IInv, LoopTypes, InPump
<1>5. ASSUME ~hurt PROVE Awake'
  <2>1. Awake
    BY <1>5 DEF IInv
  <2>2. \A p \in Pumps : \A stages : stages \subseteq InPump /\ WillRun(p, stages) => p \in fd_bits
    BY <1>1 DEF WillRun, InPump
  <2>3. \A p \in Pumps : /\ full[p] # << >> => SrcFd[p] \in ready \/ p \in fd_bits
                         /\ used[p] > 0 => DstFd[p] \in ready \/ p \in fd_bits
    BY <1>1, <2>1, <2>2 DEF Awake, InPump
  <2>4. \A p \in Pumps : next[p] = None
    BY <1>1, <2>1 DEF Awake
  <2> QED BY <1>1, <1>2, <2>3, <2>4 DEF Awake
<1> QED BY <1>3, <1>4, <1>5 DEF IInv

LEMMA RestartKeeps == IInv /\ Restart => IInv'
<1> SUFFICES ASSUME IInv, Restart PROVE IInv'
  OBVIOUS
<1>1. /\ free' = [p \in Pumps |-> Buffers] /\ full' = [p \in Pumps |-> << >>]
      /\ todo' = [p \in Pumps |-> << >>] /\ used' = [p \in Pumps |-> 0]
      /\ inside' = [p \in {1, 2} |-> None] /\ next' = [p \in Pumps |-> None]
      /\ pc' = "monitor" /\ hurt' = FALSE /\ ready' = {} /\ flushed' = captured
      /\ UNCHANGED <<fd_bits, at, captured, faults>>
  BY DEF Restart, Streaming
<1>2. QueueTypes'
  BY <1>1 DEF QueueTypes
<1>3. LoopTypes'
  BY <1>1 DEF IInv, LoopTypes
<1>4. HistoryTypes'
  <2>1. captured' \in 0..MaxFrames /\ flushed' \in 0..captured' /\ faults' \in 0..MaxFaults
    BY <1>1 DEF IInv, HistoryTypes
  <2>2. hurt' \in BOOLEAN
    BY <1>1, Zenon
  <2> QED BY <2>1, <2>2 DEF HistoryTypes
<1>5. Counts'
  <2>1. \A p \in Pumps : Known(p)' = Buffers
    BY <1>1 DEF Known
  <2> QED BY <1>1, <2>1 DEF Counts
<1>6. Awake'
  BY <1>1 DEF Awake
<1> QED BY <1>2, <1>3, <1>4, <1>5, <1>6 DEF IInv

LEMMA MonitorKeeps == IInv /\ Monitor => IInv'
<1> SUFFICES ASSUME IInv, Monitor PROVE IInv'
  OBVIOUS
<1>1. /\ pc = "monitor" /\ pc' = "events" /\ ready' = Fds
      /\ UNCHANGED <<free, full, todo, used, inside, next, fd_bits, at, captured, history>>
  BY DEF Monitor, queues
<1>2. QueueTypes' /\ HistoryTypes' /\ Counts' /\ hurt' = hurt
  BY <1>1 DEF IInv, QueueTypes, HistoryTypes, Counts, Known, history
<1>3. LoopTypes'
  BY <1>1 DEF IInv, LoopTypes
<1>4. ASSUME ~hurt PROVE Awake'
  <2>1. \A p \in Pumps : next[p] = None
    BY <1>1, <1>4 DEF IInv, Awake
  <2> QED BY <1>1, <2>1, Descriptors DEF Awake
<1> QED BY <1>2, <1>3, <1>4 DEF IInv

-----------------------------------------------------------------------------
(* Theorems *)

LEMMA Invariant == IInv /\ [Next]_vars => IInv'
<1> SUFFICES ASSUME IInv, [Next]_vars PROVE IInv'
  OBVIOUS
<1>1. CASE pipelineProcess
  BY <1>1, PollKeeps, MonitorKeeps, EventsDoneKeeps, ReclaimKeeps, ReclaimEndKeeps,
     CollectKeeps, CollectEndKeeps, PassingKeeps, PassNotKeeps DEF pipelineProcess, pumpPump
<1>2. CASE Restart
  BY <1>2, RestartKeeps
<1>3. CASE Capture \/ Codec(1) \/ Codec(2) \/ Transmit
  BY <1>3, DevicesKeep
<1>4. CASE UNCHANGED vars
  BY <1>4 DEF vars, queues, history, IInv, QueueTypes, LoopTypes, HistoryTypes, Counts, Known,
              Awake, WillRun
<1> QED BY <1>1, <1>2, <1>3, <1>4 DEF Next

(* The queues of the three pumps hold frames and no more buffers than there   *)
(* are, and buffers are lost by failed ioctls only (pump.c:224-310), whatever *)
(* the number of buffers and however often the stream is restarted.           *)
THEOREM ChainTypeOK == Spec => []TypeOK
<1>1. IInv => TypeOK
  <2> SUFFICES ASSUME IInv PROVE TypeOK
    OBVIOUS
  <2>1. ASSUME NEW p \in Pumps
        PROVE  /\ {full[p], todo[p]} \subseteq Seq(Frames)
               /\ free[p] \in 0..Buffers /\ used[p] \in 0..Buffers
               /\ next[p] \in Frames \cup {None}
               /\ Known(p) \in Buffers - (IF hurt THEN MaxFaults ELSE 0)..Buffers
    <3> DEFINE a == free[p]
               b == Len(full[p])
               c == Held(p)
               d == Len(todo[p])
               e == used[p]
    <3>1. a \in Nat /\ b \in Nat /\ c \in Nat /\ d \in Nat /\ e \in Nat
      BY Numbers DEF Held, IInv
    <3>2. Known(p) = a + b + c + d + e
      BY DEF Known, Held
    <3>3. Known(p) <= Buffers /\ (hurt => Known(p) >= Buffers - faults)
          /\ (~hurt => Known(p) = Buffers) /\ faults \in 0..MaxFaults
      BY DEF IInv, Counts, HistoryTypes
    <3>4. {full[p], todo[p]} \subseteq Seq(Frames) /\ next[p] \in Frames \cup {None}
      BY DEF IInv, QueueTypes
    <3>5. a <= Buffers /\ e <= Buffers
      <4> HIDE DEF a, b, c, d, e
      <4> QED BY <3>1, <3>2, <3>3
    <3>6. Known(p) \in Buffers - (IF hurt THEN MaxFaults ELSE 0)..Buffers
      <4>1. Known(p) \in Nat
        BY KnownIsNat DEF IInv
      <4> QED BY <3>3, <4>1
    <3> QED BY <3>1, <3>4, <3>5, <3>6
  <2> QED BY <2>1 DEF TypeOK, IInv, QueueTypes, LoopTypes, HistoryTypes, InPump
<1> QED BY <1>1, Initially, Invariant, PTL DEF Spec

(* Whenever the loop waits, epoll looks at every descriptor that has a buffer *)
(* to dequeue and no pump sits on a frame (main.c:247-281, pump.c:224-310),   *)
(* for any number of buffers and whatever the devices finish in the meantime. *)
THEOREM WakeUpsKept == Spec => []NoLostWakeup
<1>1. IInv => NoLostWakeup
  <2> SUFFICES ASSUME IInv, pc = "poll", ~hurt
               PROVE  /\ {fd \in Fds : Pending(fd)} \subseteq ready
                      /\ \A p \in Pumps : next[p] = None
    BY DEF NoLostWakeup
  <2>1. Awake
    BY DEF IInv
  <2>2. \A p \in Pumps : \A stages : stages \subseteq InPump => ~WillRun(p, stages)
    BY DEF WillRun, InPump
  <2>3. \A p \in Pumps : /\ full[p] # << >> => SrcFd[p] \in ready
                         /\ used[p] > 0 => DstFd[p] \in ready
    BY <2>1, <2>2 DEF Awake, InPump
  <2> QED BY <2>1, <2>3 DEF Awake, Pending
<1> QED BY <1>1, Initially, Invariant, PTL DEF Spec

-----------------------------------------------------------------------------
(* The line                                                                  *)
(*                                                                           *)
(* A frame moves through four places at each pump: the source's driver, the  *)
(* pump, the destination's driver and the device - which is the host's at    *)
(* the end.  C[p][k] are the frames in place k of pump p.                    *)

Before(p, k, q, l) == p < q \/ (p = q /\ k < l)

Lines == [Pumps -> [1..4 -> SUBSET (0..MaxFrames)]]

(* The farther along the line, the older is a frame. *)
Ordered(C) ==
  \A p, q \in Pumps, k, l \in 1..4 :
    Before(p, k, q, l) => \A f \in C[p][k], g \in C[q][l] : g < f

(* The next place of the line *)
Follows(p, k, q, l) == (p = q /\ l = k + 1) \/ (q = p + 1 /\ k = 4 /\ l = 1)

(* All frames but those that the host has got *)
Along(C) == {f \in 0..MaxFrames : \E p \in Pumps, k \in 1..4 : ~(p = 3 /\ k = 4) /\ f \in C[p][k]}

(* Frame f, the oldest of its place, goes on to the next one. *)
Moves(C, D, f, p, k, q, l) ==
  /\ C \in Lines /\ D \in Lines
  /\ p \in Pumps /\ k \in 1..4 /\ q \in Pumps /\ l \in 1..4 /\ Follows(p, k, q, l)
  /\ f \in C[p][k] /\ \A g \in C[p][k] : f <= g
  /\ D[p][k] = C[p][k] \ {f} /\ D[q][l] \subseteq C[q][l] \cup {f}
  /\ \A r \in Pumps, m \in 1..4 :
       (r = p /\ m = k) \/ (r = q /\ m = l) \/ D[r][m] = C[r][m]

LEMMA MoveOrdered ==
  ASSUME NEW C, NEW D, Ordered(C), NEW p, NEW k, NEW q, NEW l, NEW f, Moves(C, D, f, p, k, q, l)
  PROVE  Ordered(D)
<1> USE DEF Moves
<1> SUFFICES ASSUME NEW r \in Pumps, NEW s \in Pumps, NEW m \in 1..4, NEW n \in 1..4,
                    Before(r, m, s, n), NEW x \in D[r][m], NEW y \in D[s][n]
             PROVE  y < x
  BY DEF Ordered
<1>0. x \in 0..MaxFrames /\ y \in 0..MaxFrames /\ f \in 0..MaxFrames
  BY DEF Lines
<1>1. x \in C[r][m] \/ (r = q /\ m = l /\ x = f)
  BY DEF Pumps
<1>2. y \in C[s][n] \/ (s = q /\ n = l /\ y = f)
  BY DEF Pumps
<1>3. CASE x \in C[r][m] /\ y \in C[s][n]
  BY <1>3 DEF Ordered
<1>4. CASE r = q /\ m = l /\ x = f /\ y \in C[s][n]
  <2>1. Before(p, k, s, n)
    BY <1>4 DEF Before, Follows, Pumps
  <2> QED BY <1>4, <2>1 DEF Ordered
<1>5. CASE x \in C[r][m] /\ s = q /\ n = l /\ y = f
  <2>1. CASE r = p /\ m = k
    <3>1. x \in C[p][k] /\ x # f
      BY <2>1
    <3> QED BY <1>0, <1>5, <3>1
  <2>2. CASE ~(r = p /\ m = k)
    <3>1. Before(r, m, p, k)
      BY <1>5, <2>2 DEF Before, Follows, Pumps
    <3> QED BY <1>5, <3>1 DEF Ordered
  <2> QED BY <2>1, <2>2
<1>6. ~(r = q /\ m = l /\ s = q /\ n = l)
  BY DEF Before, Pumps
<1> QED BY <1>1, <1>2, <1>3, <1>4, <1>5, <1>6

(* A frame newer than all others enters the line. *)
LEMMA EnterOrdered ==
  ASSUME NEW C \in Lines, NEW D \in Lines, Ordered(C), NEW f \in 0..MaxFrames,
         \A p \in Pumps, k \in 1..4 : \A g \in C[p][k] : g < f,
         D[1][1] \subseteq C[1][1] \cup {f},
         \A p \in Pumps, k \in 1..4 : (p = 1 /\ k = 1) \/ D[p][k] \subseteq C[p][k]
  PROVE  Ordered(D)
<1> SUFFICES ASSUME NEW r \in Pumps, NEW s \in Pumps, NEW m \in 1..4, NEW n \in 1..4,
                    Before(r, m, s, n), NEW x \in D[r][m], NEW y \in D[s][n]
             PROVE  y < x
  BY DEF Ordered
<1>1. ~(s = 1 /\ n = 1)
  BY DEF Before, Pumps
<1>2. y \in C[s][n]
  BY <1>1
<1>3. x \in C[r][m] \/ x = f
  OBVIOUS
<1> QED BY <1>2, <1>3 DEF Ordered

(* Frames leave the line. *)
LEMMA FewerOrdered ==
  ASSUME NEW C, NEW D, Ordered(C), \A p \in Pumps, k \in 1..4 : D[p][k] \subseteq C[p][k]
  PROVE  Ordered(D)
BY DEF Ordered

-----------------------------------------------------------------------------
(* The queues *)

Increasing(s) == \A i, j \in 1..Len(s) : i < j => s[i] < s[j]

LEMMA HeadOldest ==
  ASSUME NEW s \in Seq(Frames), s # << >>, Increasing(s)
  PROVE  /\ Head(s) \in Range(s) /\ \A f \in Range(s) : Head(s) <= f
         /\ Range(Tail(s)) = Range(s) \ {Head(s)} /\ Increasing(Tail(s))
<1>1. /\ Len(s) \in Nat \ {0} /\ DOMAIN s = 1..Len(s) /\ Head(s) = s[1]
      /\ \A i \in 1..Len(s) : s[i] \in Frames
  OBVIOUS
<1>2. /\ Tail(s) \in Seq(Frames) /\ Len(Tail(s)) = Len(s) - 1 /\ DOMAIN Tail(s) = 1..Len(s) - 1
      /\ \A i \in 1..Len(s) - 1 : Tail(s)[i] = s[i + 1]
  OBVIOUS
<1>3. Head(s) \in Range(s)
  BY <1>1 DEF Range
<1>4. \A i \in 2..Len(s) : s[1] < s[i]
  BY <1>1 DEF Increasing
<1>5. \A f \in Range(s) : Head(s) <= f
  <2> SUFFICES ASSUME NEW i \in 1..Len(s) PROVE s[1] <= s[i]
    BY <1>1 DEF Range
  <2>1. i = 1 \/ i \in 2..Len(s)
    BY <1>1
  <2> QED BY <1>1, <1>4, <2>1 DEF Frames
<1>6. Increasing(Tail(s))
  BY <1>1, <1>2 DEF Increasing
<1>7. ASSUME NEW f \in Range(Tail(s)) PROVE f \in Range(s) \ {Head(s)}
  <2>1. PICK i \in 1..Len(s) - 1 : f = s[i + 1]
    BY <1>2 DEF Range
  <2>2. i + 1 \in 2..Len(s)
    BY <1>1
  <2>3. s[1] < f /\ s[1] \in Frames
    BY <1>1, <1>4, <2>1, <2>2
  <2>4. f # s[1]
    BY <2>3 DEF Frames
  <2> QED BY <1>1, <2>1, <2>2, <2>4 DEF Range
<1>8. ASSUME NEW f \in Range(s), f # Head(s) PROVE f \in Range(Tail(s))
  <2>1. PICK i \in 1..Len(s) : f = s[i]
    BY <1>1 DEF Range
  <2>2. i - 1 \in 1..Len(s) - 1
    BY <1>1, <1>8, <2>1
  <2>3. Tail(s)[i - 1] = f
    BY <1>2, <2>1, <2>2
  <2> QED BY <1>2, <2>2, <2>3 DEF Range
<1> QED BY <1>3, <1>5, <1>6, <1>7, <1>8

LEMMA AppendNewest ==
  ASSUME NEW s \in Seq(Frames), Increasing(s), NEW f \in Frames, \A g \in Range(s) : g < f
  PROVE  Range(Append(s, f)) = Range(s) \cup {f} /\ Increasing(Append(s, f))
<1> DEFINE t == Append(s, f)
<1>1. Len(s) \in Nat /\ DOMAIN s = 1..Len(s) /\ DOMAIN t = 1..Len(s) + 1 /\ Len(t) = Len(s) + 1
  OBVIOUS
<1>2. t[Len(s) + 1] = f /\ \A i \in 1..Len(s) : t[i] = s[i]
  OBVIOUS
<1>3. \A i \in 1..Len(s) : s[i] < f
  BY <1>1 DEF Range
<1> HIDE DEF t
<1>4. Range(t) = Range(s) \cup {f}
  <2>1. ASSUME NEW x \in Range(t) PROVE x \in Range(s) \cup {f}
    <3>1. PICK i \in 1..Len(s) + 1 : x = t[i]
      BY <1>1 DEF Range
    <3>2. i \in 1..Len(s) \/ i = Len(s) + 1
      BY <1>1
    <3> QED BY <1>1, <1>2, <3>1, <3>2 DEF Range
  <2>2. ASSUME NEW x \in Range(s) PROVE x \in Range(t)
    <3>1. PICK i \in 1..Len(s) : x = s[i]
      BY <1>1 DEF Range
    <3>2. i \in 1..Len(s) + 1
      BY <1>1
    <3> QED BY <1>1, <1>2, <3>1, <3>2 DEF Range
  <2>3. f \in Range(t)
    <3>1. Len(s) + 1 \in 1..Len(s) + 1
      BY <1>1
    <3> QED BY <1>1, <1>2, <3>1 DEF Range
  <2> QED BY <2>1, <2>2, <2>3
<1>5. Increasing(t)
  <2> SUFFICES ASSUME NEW i \in 1..Len(s) + 1, NEW j \in 1..Len(s) + 1, i < j PROVE t[i] < t[j]
    BY <1>1 DEF Increasing
  <2>1. i \in 1..Len(s) /\ (j \in 1..Len(s) \/ j = Len(s) + 1)
    BY <1>1
  <2> QED BY <1>2, <1>3, <2>1 DEF Increasing
<1> QED BY <1>4, <1>5 DEF t

-----------------------------------------------------------------------------
(* The line that a state holds *)

Queued(fl, nx, td, ins, dl) ==
  /\ fl \in [Pumps -> Seq(Frames)] /\ td \in [Pumps -> Seq(Frames)]
  /\ nx \in [Pumps -> Frames \cup {None}] /\ ins \in [{1, 2} -> Frames \cup {None}]
  /\ dl \in 0..MaxFrames

PlaceOf(fl, nx, td, ins, dl, p, k) ==
  CASE k = 1 -> Range(fl[p])
    [] k = 2 -> {nx[p]} \ {None}
    [] k = 3 -> Range(td[p])
    [] k = 4 -> IF p = 3 THEN {dl} ELSE {ins[p]} \ {None}

LineOf(fl, nx, td, ins, dl) ==
  [p \in Pumps |-> [k \in 1..4 |-> PlaceOf(fl, nx, td, ins, dl, p, k)]]

Line == LineOf(full, next, todo, inside, delivered)

LEMMA LineFits ==
  ASSUME NEW fl, NEW nx, NEW td, NEW ins, NEW dl, Queued(fl, nx, td, ins, dl)
  PROVE  LineOf(fl, nx, td, ins, dl) \in Lines
<1>1. Frames \subseteq 0..MaxFrames
  BY DEF Frames
<1>2. ASSUME NEW p \in Pumps
      PROVE  /\ Range(fl[p]) \subseteq 0..MaxFrames /\ {nx[p]} \ {None} \subseteq 0..MaxFrames
             /\ Range(td[p]) \subseteq 0..MaxFrames
             /\ (IF p = 3 THEN {dl} ELSE {ins[p]} \ {None}) \subseteq 0..MaxFrames
  <2>1. ASSUME NEW s \in Seq(Frames) PROVE Range(s) \subseteq 0..MaxFrames
    <3>1. \A i \in DOMAIN s : s[i] \in Frames
      OBVIOUS
    <3> QED BY <1>1, <3>1 DEF Range
  <2>2. Range(fl[p]) \subseteq 0..MaxFrames /\ Range(td[p]) \subseteq 0..MaxFrames
    BY <2>1 DEF Queued
  <2>3. {nx[p]} \ {None} \subseteq 0..MaxFrames
    BY <1>1 DEF Queued
  <2>4. (IF p = 3 THEN {dl} ELSE {ins[p]} \ {None}) \subseteq 0..MaxFrames
    <3>1. p = 3 \/ p \in {1, 2}
      BY DEF Pumps
    <3> QED BY <1>1, <3>1 DEF Queued
  <2> QED BY <2>2, <2>3, <2>4
<1>3. \A p \in Pumps, k \in 1..4 : PlaceOf(fl, nx, td, ins, dl, p, k) \in SUBSET (0..MaxFrames)
  <2> SUFFICES ASSUME NEW p \in Pumps, NEW k \in 1..4
               PROVE  PlaceOf(fl, nx, td, ins, dl, p, k) \in SUBSET (0..MaxFrames)
    OBVIOUS
  <2>1. k = 1 \/ k = 2 \/ k = 3 \/ k = 4
    OBVIOUS
  <2> QED BY <1>2, <2>1 DEF PlaceOf
<1> QED BY <1>3, Zenon DEF LineOf, Lines

LEMMA UnderwayAlong ==
  ASSUME NEW fl, NEW nx, NEW td, NEW ins, NEW dl, Queued(fl, nx, td, ins, dl)
  PROVE  (UNION {Range(fl[p]) \cup Range(td[p]) \cup ({nx[p]} \ {None}) : p \in Pumps})
           \cup (Range(ins) \ {None}) = Along(LineOf(fl, nx, td, ins, dl))
<1> DEFINE L == LineOf(fl, nx, td, ins, dl)
           U == (UNION {Range(fl[p]) \cup Range(td[p]) \cup ({nx[p]} \ {None}) : p \in Pumps})
                  \cup (Range(ins) \ {None})
<1>1. \A p \in Pumps : /\ L[p][1] = Range(fl[p]) /\ L[p][2] = {nx[p]} \ {None}
                       /\ L[p][3] = Range(td[p])
                       /\ L[p][4] = IF p = 3 THEN {dl} ELSE {ins[p]} \ {None}
  BY DEF LineOf, PlaceOf
<1>2. L \in Lines
  BY LineFits
<1>3. DOMAIN ins = {1, 2}
  BY DEF Queued
<1>4. 1 \in Pumps /\ 2 \in Pumps
  BY DEF Pumps
<1> HIDE DEF L
<1>5. ASSUME NEW x \in Along(L) PROVE x \in U
  <2>1. PICK p \in Pumps, k \in 1..4 : ~(p = 3 /\ k = 4) /\ x \in L[p][k]
    BY <1>5 DEF Along
  <2>2. k = 1 \/ k = 2 \/ k = 3 \/ (k = 4 /\ p \in {1, 2})
    BY <2>1 DEF Pumps
  <2>3. CASE k = 4 /\ p \in {1, 2}
    <3>1. L[p][4] = {ins[p]} \ {None}
      <4>1. p # 3
        BY <2>3
      <4> QED BY <1>1, <4>1
    <3>2. x \in L[p][4]
      BY <2>1, <2>3
    <3> QED BY <1>3, <2>3, <3>1, <3>2 DEF Range
  <2>4. CASE k \in {1, 2, 3}
    <3>1. x \in Range(fl[p]) \cup Range(td[p]) \cup ({nx[p]} \ {None})
      <4>1. x \in L[p][1] \/ x \in L[p][2] \/ x \in L[p][3]
        BY <2>1, <2>4
      <4>2. /\ L[p][1] = Range(fl[p]) /\ L[p][2] = {nx[p]} \ {None} /\ L[p][3] = Range(td[p])
        BY <1>1
      <4> QED BY <4>1, <4>2, Zenon
    <3> QED BY <3>1
  <2> QED BY <2>2, <2>3, <2>4
<1>6. ASSUME NEW x \in U PROVE x \in Along(L)
  <2>1. CASE x \in Range(ins) \ {None}
    <3>1. PICK p \in {1, 2} : x = ins[p]
      BY <1>3, <2>1 DEF Range
    <3>2. p \in Pumps /\ p # 3
      BY <1>4
    <3>3. L[p][4] = {ins[p]} \ {None}
      BY <1>1, <3>2
    <3>4. x \in L[p][4]
      BY <2>1, <3>1, <3>3
    <3> QED BY <1>2, <3>2, <3>4 DEF Along, Lines
  <2>2. CASE \E p \in Pumps : x \in Range(fl[p]) \cup Range(td[p]) \cup ({nx[p]} \ {None})
    <3>1. PICK p \in Pumps : x \in Range(fl[p]) \cup Range(td[p]) \cup ({nx[p]} \ {None})
      BY <2>2
    <3>2. x \in L[p][1] \/ x \in L[p][2] \/ x \in L[p][3]
      BY <1>1, <3>1
    <3> QED BY <1>2, <3>2 DEF Along, Lines
  <2> QED BY <2>1, <2>2, Zenon
<1> QED BY <1>5, <1>6 DEF L

(* A frame is in one place. *)
LEMMA OnePlace ==
  ASSUME NEW C \in Lines, Ordered(C), NEW p \in Pumps, NEW k \in 1..4, NEW f \in C[p][k],
         NEW q \in Pumps, NEW l \in 1..4, ~(q = p /\ l = k)
  PROVE  f \notin C[q][l]
<1>1. Before(p, k, q, l) \/ Before(q, l, p, k)
  BY DEF Before, Pumps
<1>2. f \in 0..MaxFrames
  BY DEF Lines
<1> QED BY <1>1, <1>2 DEF Ordered

(* Moved on within the line, a frame stays under way.                         *)
LEMMA MoveStays ==
  ASSUME NEW C, NEW D, NEW p, NEW k, NEW q, NEW l, NEW f, Moves(C, D, f, p, k, q, l),
         ~(q = 3 /\ l = 4), D[q][l] = C[q][l] \cup {f}
  PROVE  Along(D) = Along(C)
<1> USE DEF Moves
<1>0. ~(p = 3 /\ k = 4)
  BY DEF Follows, Pumps
<1>1. ASSUME NEW x \in Along(D) PROVE x \in Along(C)
  <2>1. PICK r \in Pumps, m \in 1..4 : ~(r = 3 /\ m = 4) /\ x \in D[r][m]
    BY <1>1 DEF Along
  <2>2. x \in C[r][m] \/ x \in C[p][k]
    BY <2>1
  <2> QED BY <1>0, <1>1, <2>1, <2>2 DEF Along
<1>2. ASSUME NEW x \in Along(C) PROVE x \in Along(D)
  <2>1. PICK r \in Pumps, m \in 1..4 : ~(r = 3 /\ m = 4) /\ x \in C[r][m]
    BY <1>2 DEF Along
  <2>2. x \in D[r][m] \/ x \in D[q][l]
    BY <2>1
  <2> QED BY <1>2, <2>1, <2>2 DEF Along
<1> QED BY <1>1, <1>2

-----------------------------------------------------------------------------
(* The invariant: the frames stand in a line, from the host's last one to the *)
(* camera's.                                                                  *)

OrderInv ==
  /\ delivered \in 0..MaxFrames
  /\ Ordered(Line)
  /\ \A p \in Pumps : Increasing(full[p]) /\ Increasing(todo[p])
  /\ \A p \in Pumps, k \in 1..4 : \A f \in Line[p][k] : f <= captured

LInv == IInv /\ OrderInv

Places ==
  \A p \in Pumps : /\ Line[p][1] = Range(full[p])
                   /\ Line[p][2] = {next[p]} \ {None}
                   /\ Line[p][3] = Range(todo[p])
                   /\ Line[p][4] = IF p = 3 THEN {delivered} ELSE {inside[p]} \ {None}

LEMMA Now ==
  ASSUME IInv, delivered \in 0..MaxFrames
  PROVE  Places /\ Line \in Lines /\ underway = Along(Line)
<1>1. Queued(full, next, todo, inside, delivered)
  BY DEF IInv, QueueTypes, Queued
<1>2. Places
  BY DEF Places, Line, LineOf, PlaceOf
<1>3. Line \in Lines
  BY <1>1, LineFits DEF Line
<1>4. underway = Along(Line)
  BY <1>1, UnderwayAlong, Zenon DEF underway, Line
<1> QED BY <1>2, <1>3, <1>4

LEMMA Then ==
  ASSUME IInv', delivered' \in 0..MaxFrames
  PROVE  Places' /\ Line' \in Lines /\ underway' = Along(Line')
<1>1. Queued(full', next', todo', inside', delivered')
  BY DEF IInv, QueueTypes, Queued
<1>2. Places'
  BY DEF Places, Line, LineOf, PlaceOf
<1>3. Line' \in Lines
  BY <1>1, LineFits DEF Line
<1>4. underway' = Along(Line')
  BY <1>1, UnderwayAlong, Zenon DEF underway, Line
<1> QED BY <1>2, <1>3, <1>4

LEMMA PlaceAt ==
  ASSUME Places, NEW p \in Pumps
  PROVE  /\ Line[p][1] = Range(full[p]) /\ Line[p][2] = {next[p]} \ {None}
         /\ Line[p][3] = Range(todo[p])
         /\ (p = 3 => Line[p][4] = {delivered}) /\ (p # 3 => Line[p][4] = {inside[p]} \ {None})
BY DEF Places

LEMMA PlaceThen ==
  ASSUME Places', NEW p \in Pumps
  PROVE  /\ Line'[p][1] = Range(full'[p]) /\ Line'[p][2] = {next'[p]} \ {None}
         /\ Line'[p][3] = Range(todo'[p])
         /\ (p = 3 => Line'[p][4] = {delivered'}) /\ (p # 3 => Line'[p][4] = {inside'[p]} \ {None})
BY DEF Places

LEMMA SamePlaces ==
  ASSUME Places, Places', NEW p \in Pumps
  PROVE  /\ full'[p] = full[p] => Line'[p][1] = Line[p][1]
         /\ next'[p] = next[p] => Line'[p][2] = Line[p][2]
         /\ todo'[p] = todo[p] => Line'[p][3] = Line[p][3]
         /\ (p = 3 /\ delivered' = delivered) \/ (p # 3 /\ inside'[p] = inside[p])
              => Line'[p][4] = Line[p][4]
<1>1. /\ Line[p][1] = Range(full[p]) /\ Line'[p][1] = Range(full'[p])
      /\ Line[p][2] = {next[p]} \ {None} /\ Line'[p][2] = {next'[p]} \ {None}
      /\ Line[p][3] = Range(todo[p]) /\ Line'[p][3] = Range(todo'[p])
  BY PlaceAt, PlaceThen
<1>2. full'[p] = full[p] => Line'[p][1] = Line[p][1]
  BY <1>1, Zenon
<1>3. next'[p] = next[p] => Line'[p][2] = Line[p][2]
  BY <1>1, Zenon
<1>4. todo'[p] = todo[p] => Line'[p][3] = Line[p][3]
  BY <1>1, Zenon
<1>5. ASSUME p = 3, delivered' = delivered PROVE Line'[p][4] = Line[p][4]
  <2>1. Line[p][4] = {delivered} /\ Line'[p][4] = {delivered'}
    BY <1>5, PlaceAt, PlaceThen
  <2> QED BY <1>5, <2>1
<1>6. ASSUME p # 3, inside'[p] = inside[p] PROVE Line'[p][4] = Line[p][4]
  <2>1. Line[p][4] = {inside[p]} \ {None} /\ Line'[p][4] = {inside'[p]} \ {None}
    BY <1>6, PlaceAt, PlaceThen
  <2> QED BY <1>6, <2>1
<1> QED BY <1>2, <1>3, <1>4, <1>5, <1>6

LEMMA OneMoves ==
  ASSUME LInv, IInv', delivered' \in 0..MaxFrames, captured' = captured,
         \A r \in Pumps : Increasing(full'[r]) /\ Increasing(todo'[r]),
         NEW p, NEW k, NEW q, NEW l, NEW f, Moves(Line, Line', f, p, k, q, l)
  PROVE  OrderInv'
<1>1. Line \in Lines /\ Line' \in Lines
  BY Now, Then DEF LInv, OrderInv
<1>2. /\ Ordered(Line)
      /\ \A r \in Pumps, m \in 1..4 : \A g \in Line[r][m] : g <= captured
  BY DEF LInv, OrderInv
<1>3. Ordered(Line')
  BY <1>1, <1>2, MoveOrdered
<1>4. ASSUME NEW r \in Pumps, NEW m \in 1..4, NEW g \in Line'[r][m] PROVE g <= captured
  <2>1. g \in Line[r][m] \/ (g = f /\ p \in Pumps /\ k \in 1..4 /\ f \in Line[p][k])
    BY DEF Moves
  <2> QED BY <1>2, <2>1
<1> QED BY <1>3, <1>4 DEF OrderInv

LEMMA NoneMoves ==
  ASSUME LInv, IInv', delivered' = delivered, captured' = captured,
         \A r \in Pumps : Increasing(full'[r]) /\ Increasing(todo'[r]),
         \A r \in Pumps, m \in 1..4 : Line'[r][m] \subseteq Line[r][m]
  PROVE  OrderInv'
<1>1. Ordered(Line')
  <2>1. Ordered(Line)
    BY DEF LInv, OrderInv
  <2> DEFINE C == Line
             D == Line'
  <2>2. Ordered(C) /\ \A r \in Pumps, m \in 1..4 : D[r][m] \subseteq C[r][m]
    BY <2>1
  <2> HIDE DEF C, D
  <2>3. Ordered(D)
    BY <2>2, FewerOrdered
  <2> QED BY <2>3 DEF D
<1> QED BY <1>1 DEF LInv, OrderInv

-----------------------------------------------------------------------------
(* The devices *)

LEMMA CaptureImplements ==
  LInv /\ IInv' /\ Capture => OrderInv' /\ Channel!Capture
<1> SUFFICES ASSUME LInv, IInv', Capture PROVE OrderInv' /\ Channel!Capture
  OBVIOUS
<1> DEFINE f == captured + 1
<1>1. /\ f \in Frames /\ captured' = f /\ f \in 0..MaxFrames
      /\ full' = [full EXCEPT ![1] = Append(@, f)]
      /\ UNCHANGED <<next, todo, inside, delivered, hurt>>
  BY DEF Capture, Finish, LInv, IInv, HistoryTypes, Frames, history
<1>2. /\ Line \in Lines /\ underway = Along(Line)
      /\ Line' \in Lines /\ underway' = Along(Line')
  BY <1>1, Now, Then DEF LInv, OrderInv
<1>10. Places /\ Places'
  BY <1>1, Now, Then DEF LInv, OrderInv
<1>3. 1 \in Pumps /\ full \in [Pumps -> Seq(Frames)]
  BY DEF Pumps, LInv, IInv, QueueTypes
<1>4. \A p \in Pumps, k \in 1..4 : \A g \in Line[p][k] : g < f
  <2>1. \A p \in Pumps, k \in 1..4 : \A g \in Line[p][k] : g \in 0..MaxFrames /\ g <= captured
    BY <1>2 DEF LInv, OrderInv, Lines
  <2>2. captured \in Nat
    BY DEF LInv, IInv, HistoryTypes
  <2> QED BY <2>1, <2>2
<1> HIDE DEF f
<1>5. /\ full'[1] = Append(full[1], f) /\ full[1] \in Seq(Frames)
      /\ \A r \in Pumps \ {1} : full'[r] = full[r]
  BY <1>1, <1>3
<1>6. Range(full'[1]) = Range(full[1]) \cup {f} /\ Increasing(full'[1])
  <2>1. \A g \in Range(full[1]) : g < f
    <3>1. Line[1][1] = Range(full[1])
      BY <1>3, <1>10, PlaceAt
    <3>2. 1 \in 1..4
      OBVIOUS
    <3> QED BY <1>3, <1>4, <3>1, <3>2, Zenon
  <2>2. Increasing(full[1])
    BY <1>3 DEF LInv, OrderInv
  <2> QED BY <1>1, <1>5, <2>1, <2>2, AppendNewest
<1>7. /\ Line'[1][1] = Line[1][1] \cup {f}
      /\ \A r \in Pumps, m \in 1..4 : (r = 1 /\ m = 1) \/ Line'[r][m] = Line[r][m]
  <2>1. Line'[1][1] = Line[1][1] \cup {f}
    BY <1>3, <1>6, <1>10, PlaceAt, PlaceThen
  <2>2. ASSUME NEW r \in Pumps
        PROVE  /\ r # 1 => Line'[r][1] = Line[r][1]
               /\ Line'[r][2] = Line[r][2] /\ Line'[r][3] = Line[r][3] /\ Line'[r][4] = Line[r][4]
    <3>1. /\ r # 1 => full'[r] = full[r]
          /\ next'[r] = next[r] /\ todo'[r] = todo[r] /\ inside'[r] = inside[r]
          /\ delivered' = delivered
      BY <1>1, <1>5
    <3> QED BY <1>10, <3>1, SamePlaces
  <2>3. \A m \in 1..4 : m = 1 \/ m = 2 \/ m = 3 \/ m = 4
    OBVIOUS
  <2> QED BY <2>1, <2>2, <2>3, Zenon
<1>8. OrderInv'
  <2>1. Ordered(Line')
    BY <1>1, <1>2, <1>4, <1>7, EnterOrdered DEF LInv, OrderInv
  <2>2. \A r \in Pumps : Increasing(full'[r]) /\ Increasing(todo'[r])
    BY <1>1, <1>5, <1>6 DEF LInv, OrderInv
  <2>3. ASSUME NEW r \in Pumps, NEW m \in 1..4, NEW g \in Line'[r][m] PROVE g <= captured'
    <3>1. g \in Line[r][m] \/ g = f
      BY <1>7
    <3>2. g \in 0..MaxFrames
      BY <1>2 DEF Lines
    <3> QED BY <1>1, <1>4, <3>1, <3>2
  <2> QED BY <1>1, <2>1, <2>2, <2>3 DEF LInv, OrderInv
<1>9. Along(Line') = Along(Line) \cup {f}
  <2>1. ASSUME NEW x \in Along(Line') PROVE x \in Along(Line) \cup {f}
    <3>1. PICK r \in Pumps, m \in 1..4 : ~(r = 3 /\ m = 4) /\ x \in Line'[r][m]
      BY <2>1 DEF Along
    <3>2. x \in Line[r][m] \/ x = f
      BY <1>7, <3>1
    <3> QED BY <2>1, <3>1, <3>2 DEF Along
  <2>2. ASSUME NEW x \in Along(Line) PROVE x \in Along(Line')
    <3>1. PICK r \in Pumps, m \in 1..4 : ~(r = 3 /\ m = 4) /\ x \in Line[r][m]
      BY <2>2 DEF Along
    <3>2. x \in Line'[r][m]
      BY <1>7, <3>1
    <3> QED BY <2>2, <3>1, <3>2 DEF Along
  <2>3. f \in Along(Line')
    <3>1. f \in Line'[1][1]
      BY <1>7
    <3> QED BY <1>1, <1>3, <3>1 DEF Along
  <2> QED BY <2>1, <2>2, <2>3
<1> QED BY <1>1, <1>2, <1>8, <1>9 DEF Channel!Capture, f

(* What the codecs and the pumps move stays under way. *)
Internal == UNCHANGED <<captured, underway, delivered, hurt>>

LEMMA NoneIsNoFrame == None \notin Frames
BY DEF None, Frames

LEMMA Stages == \A m \in 1..4 : m = 1 \/ m = 2 \/ m = 3 \/ m = 4
OBVIOUS

LEMMA StaysUnderway ==
  ASSUME LInv, IInv', delivered' \in 0..MaxFrames,
         NEW f, NEW p, NEW k, NEW q, NEW l, Moves(Line, Line', f, p, k, q, l),
         ~(q = 3 /\ l = 4), Line'[q][l] = Line[q][l] \cup {f}
  PROVE  underway' = underway
<1>1. underway = Along(Line) /\ underway' = Along(Line')
  BY Now, Then DEF LInv, OrderInv
<1>2. Along(Line') = Along(Line)
  BY MoveStays
<1> QED BY <1>1, <1>2

LEMMA TakeImplements ==
  ASSUME LInv, IInv', NEW p \in {1, 2}, Take(p)
  PROVE  OrderInv' /\ Internal
<1>1. /\ inside[p] = None /\ todo[p] # << >> /\ todo' = [todo EXCEPT ![p] = Tail(@)]
      /\ inside' = [inside EXCEPT ![p] = Head(todo[p])]
      /\ UNCHANGED <<full, next, delivered, captured, hurt>>
  BY DEF Take, ReadNext, history
<1>2. /\ Line \in Lines /\ Line' \in Lines /\ Places /\ Places' /\ delivered' \in 0..MaxFrames
  BY <1>1, Now, Then DEF LInv, OrderInv
<1>3. /\ p \in Pumps /\ todo \in [Pumps -> Seq(Frames)] /\ todo[p] \in Seq(Frames)
      /\ inside \in [{1, 2} -> Frames \cup {None}] /\ Increasing(todo[p])
  <2>1. p \in Pumps
    BY DEF Pumps
  <2> QED BY <2>1 DEF LInv, OrderInv, IInv, QueueTypes
<1>4. PICK f : f = Head(todo[p])
  OBVIOUS
<1>5. /\ f \in Range(todo[p]) /\ \A g \in Range(todo[p]) : f <= g
      /\ Range(Tail(todo[p])) = Range(todo[p]) \ {f} /\ Increasing(Tail(todo[p]))
  BY <1>1, <1>3, <1>4, HeadOldest
<1>6. f \in Frames /\ f # None
  <2>1. Head(todo[p]) \in Frames
    BY <1>1, <1>3
  <2> QED BY <1>4, <2>1, NoneIsNoFrame
<1>7. /\ todo'[p] = Tail(todo[p]) /\ inside'[p] = f
      /\ \A r \in Pumps \ {p} : todo'[r] = todo[r] /\ (r # 3 => inside'[r] = inside[r])
  BY <1>1, <1>3, <1>4 DEF Pumps
<1>8. Line[p][3] = Range(todo[p]) /\ Line'[p][3] = Range(todo[p]) \ {f}
  <2>1. Line'[p][3] = Range(todo'[p]) /\ Line[p][3] = Range(todo[p])
    BY <1>2, <1>3, PlaceAt, PlaceThen
  <2> QED BY <1>5, <1>7, <2>1
<1>9. Line[p][4] = {} /\ Line'[p][4] = {f}
  <2>1. Line[p][4] = {inside[p]} \ {None} /\ Line'[p][4] = {inside'[p]} \ {None}
    BY <1>2, <1>3, PlaceAt, PlaceThen
  <2> QED BY <1>1, <1>6, <1>7, <2>1
<1>10. Follows(p, 3, p, 4)
  BY DEF Follows
<1>11. \A r \in Pumps, m \in 1..4 :
         (r = p /\ m = 3) \/ (r = p /\ m = 4) \/ Line'[r][m] = Line[r][m]
  <2>1. ASSUME NEW r \in Pumps
        PROVE  /\ Line'[r][1] = Line[r][1] /\ Line'[r][2] = Line[r][2]
               /\ r # p => Line'[r][3] = Line[r][3] /\ Line'[r][4] = Line[r][4]
    <3>1. /\ full'[r] = full[r] /\ next'[r] = next[r] /\ delivered' = delivered
          /\ r # p => todo'[r] = todo[r] /\ (r # 3 => inside'[r] = inside[r])
      BY <1>1, <1>7
    <3> QED BY <1>2, <3>1, SamePlaces
  <2> QED BY <2>1, Stages, Zenon
<1>12. Moves(Line, Line', f, p, 3, p, 4)
  <2>1. 3 \in 1..4 /\ 4 \in 1..4
    OBVIOUS
  <2> QED BY <1>2, <1>3, <1>5, <1>8, <1>9, <1>10, <1>11, <2>1 DEF Moves
<1>13. OrderInv'
  <2>1. \A r \in Pumps : Increasing(full'[r]) /\ Increasing(todo'[r])
    BY <1>1, <1>5, <1>7 DEF LInv, OrderInv
  <2> QED BY <1>1, <1>2, <1>12, <2>1, OneMoves
<1>14. underway' = underway
  <2>1. ~(p = 3 /\ 4 = 4)
    OBVIOUS
  <2>2. Line'[p][4] = Line[p][4] \cup {f}
    BY <1>9
  <2> QED BY <1>2, <1>12, <2>1, <2>2, StaysUnderway
<1> QED BY <1>1, <1>13, <1>14 DEF Internal

LEMMA EmitImplements ==
  ASSUME LInv, IInv', NEW p \in {1, 2}, Emit(p)
  PROVE  OrderInv' /\ Internal
<1>0. PICK q \in Pumps : q = p + 1
  BY DEF Pumps
<1>1. /\ inside[p] # None /\ inside' = [inside EXCEPT ![p] = None]
      /\ full' = [full EXCEPT ![q] = Append(@, inside[p])]
      /\ UNCHANGED <<todo, next, delivered, captured, hurt>>
  BY <1>0 DEF Emit, Finish, history
<1>2. /\ Line \in Lines /\ Line' \in Lines /\ Places /\ Places' /\ delivered' \in 0..MaxFrames
  BY <1>1, Now, Then DEF LInv, OrderInv
<1>3. /\ p \in Pumps /\ p # 3 /\ q # p /\ full \in [Pumps -> Seq(Frames)] /\ full[q] \in Seq(Frames)
      /\ inside \in [{1, 2} -> Frames \cup {None}] /\ Increasing(full[q])
  <2>1. p \in Pumps /\ p # 3 /\ q # p
    BY <1>0 DEF Pumps
  <2> QED BY <2>1 DEF LInv, OrderInv, IInv, QueueTypes
<1>4. PICK f \in Frames : f = inside[p]
  BY <1>1, <1>3
<1>5. Line[p][4] = {f} /\ Line'[p][4] = {}
  <2>1. Line[p][4] = {inside[p]} \ {None} /\ Line'[p][4] = {inside'[p]} \ {None}
    BY <1>2, <1>3, PlaceAt, PlaceThen
  <2>2. inside'[p] = None
    BY <1>1, <1>3
  <2> QED BY <1>1, <1>4, <2>1, <2>2
<1>6. Follows(p, 4, q, 1) /\ Before(p, 4, q, 1)
  BY <1>0 DEF Follows, Before
<1>7. /\ full'[q] = Append(full[q], f)
      /\ \A r \in Pumps : /\ r # q => full'[r] = full[r]
                          /\ r # p /\ r # 3 => inside'[r] = inside[r]
  BY <1>1, <1>3, <1>4 DEF Pumps
<1>8. Range(full'[q]) = Range(full[q]) \cup {f} /\ Increasing(full'[q])
  <2>1. Line[q][1] = Range(full[q])
    BY <1>2, PlaceAt
  <2>2. \A g \in Line[q][1] : g < f
    <3>1. Ordered(Line) /\ f \in Line[p][4] /\ 4 \in 1..4 /\ 1 \in 1..4
      BY <1>5 DEF LInv, OrderInv
    <3> QED BY <1>3, <1>6, <3>1 DEF Ordered
  <2>3. \A g \in Range(full[q]) : g < f
    BY <2>1, <2>2
  <2> QED BY <1>3, <1>7, <2>3, AppendNewest
<1>9. Line'[q][1] = Line[q][1] \cup {f}
  <2>1. Line[q][1] = Range(full[q]) /\ Line'[q][1] = Range(full'[q])
    BY <1>2, PlaceAt, PlaceThen
  <2> QED BY <1>8, <2>1
<1>11. \A r \in Pumps, m \in 1..4 :
         (r = p /\ m = 4) \/ (r = q /\ m = 1) \/ Line'[r][m] = Line[r][m]
  <2>1. ASSUME NEW r \in Pumps
        PROVE  /\ Line'[r][2] = Line[r][2] /\ Line'[r][3] = Line[r][3]
               /\ r # p => Line'[r][4] = Line[r][4]
               /\ r # q => Line'[r][1] = Line[r][1]
    <3>1. /\ todo'[r] = todo[r] /\ next'[r] = next[r] /\ delivered' = delivered
          /\ r # q => full'[r] = full[r]
          /\ r # p /\ r # 3 => inside'[r] = inside[r]
      BY <1>1, <1>7
    <3> QED BY <1>2, <3>1, SamePlaces
  <2> QED BY <2>1, Stages, Zenon
<1>12. Moves(Line, Line', f, p, 4, q, 1)
  <2>1. 1 \in 1..4 /\ 4 \in 1..4 /\ f <= f
    BY DEF Frames
  <2> QED BY <1>2, <1>3, <1>5, <1>6, <1>9, <1>11, <2>1 DEF Moves
<1>13. OrderInv'
  <2>1. \A r \in Pumps : Increasing(full'[r]) /\ Increasing(todo'[r])
    BY <1>1, <1>7, <1>8 DEF LInv, OrderInv
  <2> QED BY <1>1, <1>2, <1>12, <2>1, OneMoves
<1>14. underway' = underway
  <2>1. ~(q = 3 /\ 1 = 4)
    OBVIOUS
  <2> QED BY <1>2, <1>9, <1>12, <2>1, StaysUnderway
<1> QED BY <1>1, <1>13, <1>14 DEF Internal

(* Frame f leaves the line at the end of place k of pump p.  *)
GivesUp(C, D, f, p, k) ==
  /\ C \in Lines /\ D \in Lines /\ p \in Pumps /\ k \in 1..4 /\ ~(p = 3 /\ k = 4)
  /\ f \in C[p][k] /\ D[p][k] = C[p][k] \ {f}
  /\ \A r \in Pumps, m \in 1..4 : (r = 3 /\ m = 4) \/ (r = p /\ m = k) \/ D[r][m] = C[r][m]

LEMMA LeaveLine ==
  ASSUME NEW C, NEW D, Ordered(C), NEW f, NEW p, NEW k, GivesUp(C, D, f, p, k)
  PROVE  Along(D) = Along(C) \ {f}
<1> USE DEF GivesUp
<1>1. ASSUME NEW x \in Along(D) PROVE x \in Along(C) /\ x # f
  <2>1. PICK r \in Pumps, m \in 1..4 : ~(r = 3 /\ m = 4) /\ x \in D[r][m]
    BY <1>1 DEF Along
  <2>2. x \in C[r][m] /\ x \in 0..MaxFrames
    BY <1>1, <2>1 DEF Along
  <2>3. x # f
    <3>1. CASE r = p /\ m = k
      BY <2>1, <3>1
    <3>2. CASE ~(r = p /\ m = k)
      <4>1. f \notin C[r][m]
        BY <3>2, OnePlace
      <4> QED BY <2>2, <4>1
    <3> QED BY <3>1, <3>2
  <2> QED BY <2>1, <2>2, <2>3 DEF Along
<1>2. ASSUME NEW x \in Along(C), x # f PROVE x \in Along(D)
  <2>1. PICK r \in Pumps, m \in 1..4 : ~(r = 3 /\ m = 4) /\ x \in C[r][m]
    BY <1>2 DEF Along
  <2>2. x \in D[r][m]
    BY <1>2, <2>1
  <2> QED BY <1>2, <2>1, <2>2 DEF Along
<1> QED BY <1>1, <1>2

LEMMA TransmitImplements ==
  ASSUME LInv, IInv', Transmit
  PROVE  OrderInv' /\ \E f \in underway : Channel!Deliver(f)
<1>0. PICK p \in Pumps : p = 3
  BY DEF Pumps
<1>1. /\ todo[p] # << >> /\ todo' = [todo EXCEPT ![p] = Tail(@)]
      /\ delivered' = Head(todo[p])
      /\ UNCHANGED <<full, next, inside, captured, hurt>>
  BY <1>0 DEF Transmit, ReadNext, history
<1>3. todo \in [Pumps -> Seq(Frames)] /\ todo[p] \in Seq(Frames) /\ Increasing(todo[p])
  BY DEF LInv, OrderInv, IInv, QueueTypes
<1>4. PICK f : f = Head(todo[p])
  OBVIOUS
<1>5. /\ f \in Range(todo[p]) /\ \A g \in Range(todo[p]) : f <= g
      /\ Range(Tail(todo[p])) = Range(todo[p]) \ {f} /\ Increasing(Tail(todo[p]))
  BY <1>1, <1>3, <1>4, HeadOldest
<1>6. delivered' = f /\ f \in 0..MaxFrames
  <2>1. Head(todo[p]) \in Frames
    BY <1>1, <1>3
  <2> QED BY <1>1, <1>4, <2>1 DEF Frames
<1>2. /\ Line \in Lines /\ Line' \in Lines /\ underway = Along(Line) /\ underway' = Along(Line')
  BY <1>6, Now, Then DEF LInv, OrderInv
<1>15. Places /\ Places'
  BY <1>6, Now, Then DEF LInv, OrderInv
<1>7. todo'[p] = Tail(todo[p]) /\ \A r \in Pumps \ {p} : todo'[r] = todo[r]
  BY <1>1, <1>3
<1>8. Line[p][3] = Range(todo[p]) /\ Line'[p][3] = Range(todo[p]) \ {f}
  <2>1. Line'[p][3] = Range(todo'[p]) /\ Line[p][3] = Range(todo[p])
    BY <1>15, PlaceAt, PlaceThen
  <2> QED BY <1>5, <1>7, <2>1
<1>9. Line[p][4] = {delivered} /\ Line'[p][4] = {f}
  <2>1. Line[p][4] = {delivered} /\ Line'[p][4] = {delivered'}
    BY <1>0, <1>15, PlaceAt, PlaceThen
  <2> QED BY <1>6, <2>1
<1>10. Follows(p, 3, p, 4) /\ Before(p, 3, p, 4)
  BY DEF Follows, Before
<1>11. \A r \in Pumps, m \in 1..4 :
         (r = p /\ m = 3) \/ (r = p /\ m = 4) \/ Line'[r][m] = Line[r][m]
  <2>1. ASSUME NEW r \in Pumps
        PROVE  /\ Line'[r][1] = Line[r][1] /\ Line'[r][2] = Line[r][2]
               /\ r # p => Line'[r][3] = Line[r][3] /\ Line'[r][4] = Line[r][4]
    <3>1. /\ full'[r] = full[r] /\ next'[r] = next[r] /\ inside'[r] = inside[r]
          /\ r # p => todo'[r] = todo[r] /\ r # 3
      BY <1>0, <1>1, <1>7
    <3> QED BY <1>15, <3>1, SamePlaces
  <2> QED BY <2>1, Stages, Zenon
<1>12. Moves(Line, Line', f, p, 3, p, 4)
  <2>1. 3 \in 1..4 /\ 4 \in 1..4
    OBVIOUS
  <2> QED BY <1>2, <1>5, <1>8, <1>9, <1>10, <1>11, <2>1 DEF Moves
<1>13. OrderInv'
  <2>1. \A r \in Pumps : Increasing(full'[r]) /\ Increasing(todo'[r])
    BY <1>1, <1>5, <1>7 DEF LInv, OrderInv
  <2> QED BY <1>1, <1>6, <1>12, <2>1, OneMoves
<1>14. Channel!Deliver(f) /\ f \in underway
  <2>1. Ordered(Line)
    BY DEF LInv, OrderInv
  <2>2. f > delivered
    <3>1. f \in Line[p][3] /\ delivered \in Line[p][4] /\ 3 \in 1..4 /\ 4 \in 1..4
      BY <1>5, <1>8, <1>9
    <3>2. delivered < f
      BY <1>10, <2>1, <3>1 DEF Ordered
    <3> QED BY <1>6, <3>2 DEF LInv, OrderInv
  <2>3. f \in underway
    BY <1>2, <1>5, <1>6, <1>8 DEF Along
  <2>4. ASSUME NEW g \in underway PROVE f <= g
    <3>1. PICK r \in Pumps, m \in 1..4 : ~(r = 3 /\ m = 4) /\ g \in Line[r][m]
      BY <1>2, <2>4 DEF Along
    <3>2. CASE r = p /\ m = 3
      BY <1>5, <1>8, <3>1, <3>2
    <3>3. CASE ~(r = p /\ m = 3)
      <4>1. Before(r, m, p, 3)
        BY <1>0, <3>1, <3>3 DEF Before, Pumps
      <4>2. f < g
        BY <1>5, <1>8, <2>1, <3>1, <4>1 DEF Ordered
      <4>3. g \in 0..MaxFrames
        BY <1>2, <2>4 DEF Along
      <4> QED BY <1>6, <4>2, <4>3
    <3> QED BY <3>2, <3>3
  <2>5. underway' = underway \ {f}
    <3>1. GivesUp(Line, Line', f, p, 3)
      BY <1>0, <1>2, <1>5, <1>8, <1>11 DEF GivesUp
    <3> QED BY <1>2, <2>1, <3>1, LeaveLine
  <2> QED BY <1>1, <1>6, <2>2, <2>3, <2>4, <2>5 DEF Channel!Deliver
<1> QED BY <1>13, <1>14

-----------------------------------------------------------------------------
(* The pumps and the loop *)

LEMMA StillImplements ==
  ASSUME LInv, UNCHANGED <<full, next, todo, inside, delivered, captured>>
  PROVE  OrderInv' /\ underway' = underway
<1>1. Line' = Line
  BY DEF Line
<1>2. underway' = underway
  BY DEF underway
<1>3. OrderInv'
  BY <1>1 DEF LInv, OrderInv
<1> QED BY <1>2, <1>3

LEMMA PassImplements ==
  ASSUME LInv, IInv', Pass
  PROVE  OrderInv' /\ Internal
<1>0. PICK p \in Pumps : p = at
  BY DEF LInv, IInv, LoopTypes
<1>1. /\ next[p] # None /\ next' = [next EXCEPT ![p] = None]
      /\ todo' = [todo EXCEPT ![p] = Append(@, next[p])]
      /\ UNCHANGED <<full, inside, delivered, captured, hurt>>
  BY <1>0 DEF Pass, history
<1>2. /\ Line \in Lines /\ Line' \in Lines /\ Places /\ Places' /\ delivered' \in 0..MaxFrames
  BY <1>1, Now, Then DEF LInv, OrderInv
<1>3. /\ todo \in [Pumps -> Seq(Frames)] /\ todo[p] \in Seq(Frames)
      /\ next \in [Pumps -> Frames \cup {None}] /\ Increasing(todo[p])
  BY DEF LInv, OrderInv, IInv, QueueTypes
<1>4. PICK f \in Frames : f = next[p]
  BY <1>1, <1>3
<1>5. Line[p][2] = {f} /\ Line'[p][2] = {}
  <2>1. Line[p][2] = {next[p]} \ {None} /\ Line'[p][2] = {next'[p]} \ {None}
    BY <1>2, PlaceAt, PlaceThen
  <2>2. next'[p] = None
    BY <1>1, <1>3
  <2> QED BY <1>1, <1>4, <2>1, <2>2
<1>6. Follows(p, 2, p, 3) /\ Before(p, 2, p, 3)
  BY DEF Follows, Before
<1>7. /\ todo'[p] = Append(todo[p], f)
      /\ \A r \in Pumps : r # p => todo'[r] = todo[r] /\ next'[r] = next[r]
  BY <1>1, <1>3, <1>4
<1>8. Range(todo'[p]) = Range(todo[p]) \cup {f} /\ Increasing(todo'[p])
  <2>1. Line[p][3] = Range(todo[p])
    BY <1>2, PlaceAt
  <2>2. \A g \in Line[p][3] : g < f
    <3>1. Ordered(Line) /\ f \in Line[p][2] /\ 2 \in 1..4 /\ 3 \in 1..4
      BY <1>5 DEF LInv, OrderInv
    <3> QED BY <1>6, <3>1 DEF Ordered
  <2>3. \A g \in Range(todo[p]) : g < f
    BY <2>1, <2>2
  <2> QED BY <1>3, <1>7, <2>3, AppendNewest
<1>9. Line'[p][3] = Line[p][3] \cup {f}
  <2>1. Line[p][3] = Range(todo[p]) /\ Line'[p][3] = Range(todo'[p])
    BY <1>2, PlaceAt, PlaceThen
  <2> QED BY <1>8, <2>1
<1>11. \A r \in Pumps, m \in 1..4 :
         (r = p /\ m = 2) \/ (r = p /\ m = 3) \/ Line'[r][m] = Line[r][m]
  <2>1. ASSUME NEW r \in Pumps
        PROVE  /\ Line'[r][1] = Line[r][1] /\ Line'[r][4] = Line[r][4]
               /\ r # p => Line'[r][2] = Line[r][2] /\ Line'[r][3] = Line[r][3]
    <3>1. /\ full'[r] = full[r] /\ inside'[r] = inside[r] /\ delivered' = delivered
          /\ r # p => todo'[r] = todo[r] /\ next'[r] = next[r]
      BY <1>1, <1>7
    <3> QED BY <1>2, <3>1, SamePlaces
  <2> QED BY <2>1, Stages, Zenon
<1>12. Moves(Line, Line', f, p, 2, p, 3)
  <2>1. 2 \in 1..4 /\ 3 \in 1..4 /\ f <= f
    BY DEF Frames
  <2> QED BY <1>2, <1>5, <1>6, <1>9, <1>11, <2>1 DEF Moves
<1>13. OrderInv'
  <2>1. \A r \in Pumps : Increasing(full'[r]) /\ Increasing(todo'[r])
    BY <1>1, <1>7, <1>8 DEF LInv, OrderInv
  <2> QED BY <1>1, <1>2, <1>12, <2>1, OneMoves
<1>14. underway' = underway
  <2>1. ~(p = 3 /\ 3 = 4)
    OBVIOUS
  <2> QED BY <1>2, <1>9, <1>12, <2>1, StaysUnderway
<1> QED BY <1>1, <1>13, <1>14 DEF Internal

LEMMA CollectImplements ==
  ASSUME LInv, IInv', Collect
  PROVE  /\ OrderInv'
         /\ Internal \/ (\E f \in underway : Channel!Skip(f)) \/ Channel!Fail
<1>0. PICK p \in Pumps : p = at
  BY DEF LInv, IInv, LoopTypes
<1>1. /\ full[p] # << >> /\ full' = [full EXCEPT ![p] = Tail(@)]
      /\ UNCHANGED <<todo, inside, delivered, captured>>
  BY <1>0 DEF Collect
<1>2. /\ Line \in Lines /\ Line' \in Lines /\ underway = Along(Line) /\ underway' = Along(Line')
      /\ delivered' \in 0..MaxFrames
  BY <1>1, Now, Then DEF LInv, OrderInv
<1>3. Places /\ Places'
  BY <1>1, Now, Then DEF LInv, OrderInv
<1>4. /\ full \in [Pumps -> Seq(Frames)] /\ full[p] \in Seq(Frames)
      /\ next \in [Pumps -> Frames \cup {None}] /\ Increasing(full[p]) /\ Ordered(Line)
  BY DEF LInv, OrderInv, IInv, QueueTypes
<1>5. PICK f : f = Head(full[p])
  OBVIOUS
<1>6. /\ f \in Range(full[p]) /\ \A g \in Range(full[p]) : f <= g
      /\ Range(Tail(full[p])) = Range(full[p]) \ {f} /\ Increasing(Tail(full[p]))
  BY <1>1, <1>4, <1>5, HeadOldest
<1>7. f \in Frames /\ f # None /\ f \in 0..MaxFrames
  <2>1. Head(full[p]) \in Frames
    BY <1>1, <1>4
  <2>2. Frames \subseteq 0..MaxFrames
    BY DEF Frames
  <2> QED BY <1>5, <2>1, <2>2, NoneIsNoFrame
<1>8. full'[p] = Tail(full[p]) /\ \A r \in Pumps \ {p} : full'[r] = full[r]
  BY <1>1, <1>4
<1>9. Line[p][1] = Range(full[p]) /\ Line'[p][1] = Range(full[p]) \ {f}
  <2>1. Line'[p][1] = Range(full'[p]) /\ Line[p][1] = Range(full[p])
    BY <1>3, PlaceAt, PlaceThen
  <2> QED BY <1>6, <1>8, <2>1
<1>10. \A r \in Pumps : Increasing(full'[r]) /\ Increasing(todo'[r])
  BY <1>1, <1>6, <1>8 DEF LInv, OrderInv
<1>11. ASSUME NEW r \in Pumps
       PROVE  /\ r # p => Line'[r][1] = Line[r][1]
              /\ next'[r] = next[r] => Line'[r][2] = Line[r][2]
              /\ Line'[r][3] = Line[r][3] /\ Line'[r][4] = Line[r][4]
  <2>1. /\ r # p => full'[r] = full[r]
        /\ todo'[r] = todo[r] /\ inside'[r] = inside[r] /\ delivered' = delivered
    BY <1>1, <1>8
  <2> QED BY <1>3, <2>1, SamePlaces
<1>12. CASE /\ next' = [next EXCEPT ![at] = Head(full[at])]
            /\ UNCHANGED <<pc, at, history>>
  <2>1. next'[p] = f /\ (\A r \in Pumps \ {p} : next'[r] = next[r]) /\ hurt' = hurt
    BY <1>0, <1>4, <1>5, <1>12 DEF history
  <2>2. Line[p][2] = {next[p]} \ {None} /\ Line'[p][2] = {f}
    <3>1. Line[p][2] = {next[p]} \ {None} /\ Line'[p][2] = {next'[p]} \ {None}
      BY <1>3, PlaceAt, PlaceThen
    <3> QED BY <1>7, <2>1, <3>1
  <2>3. \A r \in Pumps, m \in 1..4 :
          (r = p /\ m = 1) \/ (r = p /\ m = 2) \/ Line'[r][m] = Line[r][m]
    <3>1. ASSUME NEW r \in Pumps
          PROVE  /\ Line'[r][3] = Line[r][3] /\ Line'[r][4] = Line[r][4]
                 /\ r # p => Line'[r][1] = Line[r][1] /\ Line'[r][2] = Line[r][2]
      BY <1>11, <2>1
    <3> QED BY <3>1, Stages, Zenon
  <2>4. Follows(p, 1, p, 2) /\ Before(p, 1, p, 2)
    BY DEF Follows, Before
  <2>5. Moves(Line, Line', f, p, 1, p, 2)
    <3>1. 1 \in 1..4 /\ 2 \in 1..4
      OBVIOUS
    <3> QED BY <1>2, <1>6, <1>9, <2>2, <2>3, <2>4, <3>1 DEF Moves
  <2>6. OrderInv'
    BY <1>1, <1>2, <1>10, <2>5, OneMoves
  <2>7. CASE next[p] = None
    <3>1. Line'[p][2] = Line[p][2] \cup {f} /\ ~(p = 3 /\ 2 = 4)
      BY <2>2, <2>7
    <3>2. underway' = underway
      BY <1>2, <2>5, <3>1, StaysUnderway
    <3> QED BY <1>1, <2>1, <2>6, <3>2 DEF Internal
  <2>8. CASE next[p] # None
    <3>1. PICK o \in Frames : o = next[p]
      BY <1>4, <2>8
    <3>2. Line[p][2] = {o} /\ o \in 0..MaxFrames
      BY <2>2, <2>8, <3>1 DEF Frames
    <3>3. o < f
      <4>1. f \in Line[p][1] /\ o \in Line[p][2] /\ 1 \in 1..4 /\ 2 \in 1..4
        BY <1>6, <1>9, <3>2
      <4> QED BY <1>4, <2>4, <4>1 DEF Ordered
    <3>4. o \in underway /\ f \in underway
      <4>1. o \in Line[p][2] /\ f \in Line[p][1] /\ 1 \in 1..4 /\ 2 \in 1..4
        BY <1>6, <1>9, <3>2
      <4> QED BY <1>2, <1>7, <3>2, <4>1 DEF Along
    <3>5. Along(Line') = Along(Line) \ {o}
      <4>1. ASSUME NEW x \in Along(Line') PROVE x \in Along(Line) /\ x # o
        <5>1. PICK r \in Pumps, m \in 1..4 : ~(r = 3 /\ m = 4) /\ x \in Line'[r][m]
          BY <4>1 DEF Along
        <5>2. CASE r = p /\ m = 2
          <6>1. x = f
            BY <2>2, <5>1, <5>2
          <6>2. f # o
            BY <1>7, <3>2, <3>3
          <6> QED BY <1>2, <3>4, <6>1, <6>2
        <5>3. CASE ~(r = p /\ m = 2)
          <6>1. x \in Line[r][m]
            BY <1>9, <2>3, <5>1, <5>3
          <6>2. o \notin Line[r][m]
            <7>1. o \in Line[p][2] /\ 2 \in 1..4
              BY <3>2
            <7> QED BY <1>2, <1>4, <5>3, <7>1, OnePlace
          <6> QED BY <4>1, <5>1, <6>1, <6>2 DEF Along
        <5> QED BY <5>2, <5>3
      <4>2. ASSUME NEW x \in Along(Line), x # o PROVE x \in Along(Line')
        <5>1. PICK r \in Pumps, m \in 1..4 : ~(r = 3 /\ m = 4) /\ x \in Line[r][m]
          BY <4>2 DEF Along
        <5>2. x \in Line'[r][m] \/ x \in Line'[p][2]
          BY <1>9, <2>2, <2>3, <3>2, <4>2, <5>1
        <5>3. 2 \in 1..4 /\ x \in 0..MaxFrames
          BY <4>2 DEF Along
        <5> QED BY <5>1, <5>2, <5>3 DEF Along
      <4> QED BY <4>1, <4>2
    <3>6. Channel!Skip(o)
      BY <1>1, <1>2, <2>1, <3>3, <3>4, <3>5 DEF Channel!Skip
    <3> QED BY <2>6, <3>4, <3>6
  <2> QED BY <2>7, <2>8
<1>13. CASE Fault /\ UNCHANGED <<free, next>>
  <2>1. hurt' = TRUE
    BY <1>13 DEF Fault
  <2>2. \A r \in Pumps, m \in 1..4 : (r = p /\ m = 1) \/ Line'[r][m] = Line[r][m]
    <3>1. ASSUME NEW r \in Pumps
          PROVE  /\ Line'[r][3] = Line[r][3] /\ Line'[r][4] = Line[r][4]
                 /\ Line'[r][2] = Line[r][2] /\ (r # p => Line'[r][1] = Line[r][1])
      BY <1>11, <1>13
    <3> QED BY <3>1, Stages, Zenon
  <2>3. OrderInv'
    <3>1. \A r \in Pumps, m \in 1..4 : Line'[r][m] \subseteq Line[r][m]
      BY <1>9, <2>2
    <3> QED BY <1>1, <1>10, <3>1, NoneMoves
  <2>4. GivesUp(Line, Line', f, p, 1)
    <3>1. 1 \in 1..4
      OBVIOUS
    <3> QED BY <1>2, <1>6, <1>9, <2>2, <3>1 DEF GivesUp
  <2>5. underway' = underway \ {f} /\ f \in underway
    <3>1. Along(Line') = Along(Line) \ {f}
      BY <1>4, <2>4, LeaveLine
    <3>2. f \in Along(Line)
      BY <1>7, <2>4 DEF Along, GivesUp
    <3> QED BY <1>2, <3>1, <3>2
  <2>6. Channel!Fail
    BY <1>1, <2>1, <2>5 DEF Channel!Fail
  <2> QED BY <2>3, <2>6
<1> QED BY <1>12, <1>13 DEF Collect

(* The actions that leave the frames where they are *)
LEMMA OthersImplement ==
  ASSUME LInv, Reclaim \/ ReclaimEnd \/ CollectEnd \/ PassNot \/ Poll \/ Monitor \/ EventsDone
  PROVE  OrderInv' /\ (Internal \/ Channel!Fail)
<1>1. /\ UNCHANGED <<full, next, todo, inside, delivered, captured>>
      /\ Fault \/ UNCHANGED history
  BY DEF Reclaim, ReclaimEnd, CollectEnd, PassNot, Poll, Monitor, EventsDone, queues
<1>2. OrderInv' /\ underway' = underway
  BY <1>1, StillImplements
<1>3. hurt' = TRUE \/ hurt' = hurt
  BY <1>1 DEF Fault, history
<1> QED BY <1>1, <1>2, <1>3 DEF Internal, Channel!Fail

LEMMA RestartImplements ==
  ASSUME LInv, IInv', Restart
  PROVE  OrderInv' /\ Channel!Restart
<1>1. /\ full' = [p \in Pumps |-> << >>] /\ todo' = [p \in Pumps |-> << >>]
      /\ inside' = [p \in {1, 2} |-> None] /\ next' = [p \in Pumps |-> None]
      /\ hurt' = FALSE /\ UNCHANGED <<captured, delivered>>
  BY DEF Restart, Streaming
<1>2. Range(<< >>) = {} /\ Increasing(<< >>)
  BY DEF Range, Increasing
<1>3. /\ Places /\ Places' /\ underway' = Along(Line')
  BY <1>1, Now, Then DEF LInv, OrderInv
<1>4. ASSUME NEW r \in Pumps
      PROVE  /\ Line'[r][1] = {} /\ Line'[r][2] = {} /\ Line'[r][3] = {}
             /\ (r # 3 => Line'[r][4] = {}) /\ (r = 3 => Line'[r][4] = Line[r][4])
  <2>1. full'[r] = << >> /\ todo'[r] = << >> /\ next'[r] = None
    BY <1>1
  <2>2. Line'[r][1] = Range(full'[r]) /\ Line'[r][3] = Range(todo'[r])
        /\ Line'[r][2] = {next'[r]} \ {None}
    BY <1>3, PlaceThen
  <2>3. ASSUME r # 3 PROVE Line'[r][4] = {}
    <3>1. Line'[r][4] = {inside'[r]} \ {None} /\ r \in {1, 2}
      BY <1>3, <2>3, PlaceThen DEF Pumps
    <3>2. inside'[r] = None
      BY <1>1, <3>1
    <3> QED BY <3>1, <3>2
  <2>4. ASSUME r = 3 PROVE Line'[r][4] = Line[r][4]
    BY <1>1, <1>3, <2>4, SamePlaces
  <2> QED BY <1>2, <2>1, <2>2, <2>3, <2>4
<1>5. OrderInv'
  <2>1. \A r \in Pumps, m \in 1..4 : Line'[r][m] \subseteq Line[r][m]
    <3>1. ASSUME NEW r \in Pumps, NEW m \in 1..4 PROVE Line'[r][m] = {} \/ Line'[r][m] = Line[r][m]
      BY <1>4, Stages, Zenon
    <3> QED BY <3>1
  <2>2. \A r \in Pumps : Increasing(full'[r]) /\ Increasing(todo'[r])
    BY <1>1, <1>2
  <2> QED BY <1>1, <2>1, <2>2, NoneMoves
<1>6. underway' = {}
  <2>1. ASSUME NEW r \in Pumps, NEW m \in 1..4, ~(r = 3 /\ m = 4) PROVE Line'[r][m] = {}
    BY <1>4, <2>1, Stages, Zenon
  <2> QED BY <1>3, <2>1 DEF Along
<1> QED BY <1>1, <1>5, <1>6 DEF Channel!Restart

-----------------------------------------------------------------------------
(* Theorem *)

LEMMA InLine == Init => LInv
<1> SUFFICES ASSUME Init PROVE LInv
  OBVIOUS
<1>1. IInv
  BY Initially
<1>2. /\ full = [p \in Pumps |-> << >>] /\ todo = [p \in Pumps |-> << >>]
      /\ inside = [p \in {1, 2} |-> None] /\ next = [p \in Pumps |-> None]
      /\ captured = 0 /\ delivered = 0 /\ delivered \in 0..MaxFrames
  <2>1. 0 \in 0..MaxFrames
    BY MaxFramesAssumption
  <2> QED BY <2>1, Zenon DEF Init, Streaming
<1>3. Range(<< >>) = {} /\ Increasing(<< >>)
  BY DEF Range, Increasing
<1>4. Places /\ Line \in Lines
  BY <1>1, <1>2, Now
<1>5. ASSUME NEW r \in Pumps
      PROVE  /\ Line[r][1] = {} /\ Line[r][2] = {} /\ Line[r][3] = {}
             /\ (r # 3 => Line[r][4] = {}) /\ (r = 3 => Line[r][4] = {0})
  <2>1. full[r] = << >> /\ todo[r] = << >> /\ next[r] = None
    BY <1>2
  <2>2. Line[r][1] = Range(full[r]) /\ Line[r][3] = Range(todo[r])
        /\ Line[r][2] = {next[r]} \ {None}
    BY <1>4, PlaceAt
  <2>3. ASSUME r # 3 PROVE Line[r][4] = {}
    <3>1. Line[r][4] = {inside[r]} \ {None} /\ r \in {1, 2}
      BY <1>4, <2>3, PlaceAt DEF Pumps
    <3>2. inside[r] = None
      BY <1>2, <3>1
    <3> QED BY <3>1, <3>2
  <2>4. ASSUME r = 3 PROVE Line[r][4] = {0}
    BY <1>2, <1>4, <2>4, PlaceAt
  <2> QED BY <1>3, <2>1, <2>2, <2>3, <2>4
<1>6. \A r \in Pumps, m \in 1..4 : \A x \in Line[r][m] : r = 3 /\ m = 4 /\ x = 0
  <2>1. ASSUME NEW r \in Pumps, NEW m \in 1..4 PROVE Line[r][m] = {} \/ (r = 3 /\ m = 4 /\ Line[r][m] = {0})
    BY <1>5, Stages, Zenon
  <2> QED BY <2>1
<1>7. Ordered(Line)
  BY <1>6 DEF Ordered, Before, Pumps
<1>8. \A r \in Pumps : Increasing(full[r]) /\ Increasing(todo[r])
  BY <1>2, <1>3
<1>9. \A r \in Pumps, m \in 1..4 : \A x \in Line[r][m] : x <= captured
  BY <1>2, <1>6
<1> QED BY <1>1, <1>2, <1>7, <1>8, <1>9 DEF LInv, OrderInv

LEMMA StepImplements ==
  LInv /\ [Next]_vars => LInv' /\ [Channel!Next]_(Channel!vars)
<1> SUFFICES ASSUME LInv, [Next]_vars PROVE LInv' /\ [Channel!Next]_(Channel!vars)
  OBVIOUS
<1>1. IInv'
  BY Invariant DEF LInv
<1>2. Internal => UNCHANGED Channel!vars
  BY DEF Internal, Channel!vars
<1>3. CASE Capture
  BY <1>1, <1>3, CaptureImplements DEF LInv, Channel!Next
<1>4. ASSUME NEW p \in {1, 2}, Codec(p) PROVE OrderInv' /\ Internal
  BY <1>1, <1>4, TakeImplements, EmitImplements DEF Codec
<1>5. CASE Codec(1) \/ Codec(2)
  BY <1>1, <1>2, <1>4, <1>5 DEF LInv
<1>6. CASE Transmit
  BY <1>1, <1>6, TransmitImplements DEF LInv, Channel!Next
<1>7. CASE Collect
  BY <1>1, <1>2, <1>7, CollectImplements DEF LInv, Channel!Next
<1>8. CASE Pass
  BY <1>1, <1>2, <1>8, PassImplements DEF LInv
<1>9. CASE Reclaim \/ ReclaimEnd \/ CollectEnd \/ PassNot \/ Poll \/ Monitor \/ EventsDone
  BY <1>1, <1>2, <1>9, OthersImplement DEF LInv, Channel!Next
<1>10. CASE Restart
  BY <1>1, <1>10, RestartImplements DEF LInv, Channel!Next
<1>11. CASE UNCHANGED vars
  <2>1. UNCHANGED <<full, next, todo, inside, delivered, captured, hurt>>
    BY <1>11 DEF vars, queues, history
  <2> QED BY <1>1, <1>2, <2>1, StillImplements DEF LInv, Internal
<1> QED BY <1>3, <1>5, <1>6, <1>7, <1>8, <1>9, <1>10, <1>11 DEF Next, pipelineProcess, pumpPump

(* The pumps, the loop and the devices are a channel to the host (main.c:     *)
(* 335-381, pump.c:224-310): frames arrive in order, each at most once, and   *)
(* one is given up only for a newer one, by a failed ioctl or a restart.      *)
THEOREM ChannelImplemented == Spec => ChannelSpec
<1>1. Init => Channel!Init
  <2> SUFFICES ASSUME Init PROVE Channel!Init
    OBVIOUS
  <2>1. /\ captured = 0 /\ delivered = 0 /\ hurt = FALSE
        /\ full = [p \in Pumps |-> << >>] /\ todo = [p \in Pumps |-> << >>]
        /\ inside = [p \in {1, 2} |-> None] /\ next = [p \in Pumps |-> None]
    BY DEF Init, Streaming
  <2>2. underway = {}
    <3>1. Range(<< >>) = {}
      BY DEF Range
    <3>2. \A p \in Pumps : Range(full[p]) \cup Range(todo[p]) \cup ({next[p]} \ {None}) = {}
      BY <2>1, <3>1
    <3>3. Range(inside) \ {None} = {}
      BY <2>1 DEF Range
    <3> QED BY <3>2, <3>3 DEF underway
  <2> QED BY <2>1, <2>2 DEF Channel!Init
<1> QED BY <1>1, InLine, StepImplements, PTL DEF Spec, ChannelSpec, Channel!Spec
======================================================================================
