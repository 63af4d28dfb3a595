---------------------------------- MODULE Chain ----------------------------------
(***************************************************************************)
(* The running pipeline: three pumps between four devices                    *)
(*                                                                           *)
(*      cam --1--> isp --2--> enc --3--> uvc --> USB host                    *)
(*                                                                           *)
(* called by main.c's loop when epoll says so.  The descriptors are          *)
(* edge-triggered: epoll reports one when a buffer has been finished since   *)
(* it was last reported, and says nothing of the buffers that were left.     *)
(* Pump follows single buffers through one pump; here only their numbers     *)
(* count, which suffices while the drivers finish buffers in order           *)
(* (PumpProofs: TargetFree), and frames are followed through all three.      *)
(***************************************************************************)
EXTENDS Sequences, FiniteSetsExt, Functions, Integers

CONSTANTS Buffers,      \* buffers_count of every stream
          MaxFrames,    \* bound: frames the camera captures
          MaxFaults,    \* bound: ioctls that fail without need
          MaxRestarts   \* bound: times the host stops and starts the stream

ASSUME BuffersAssumption == Buffers \in Nat \ {0}
ASSUME MaxFramesAssumption == MaxFrames \in Nat
ASSUME ChainMaxFaultsAssumption == MaxFaults \in Nat
ASSUME MaxRestartsAssumption == MaxRestarts \in Nat

None == -1
Pumps == 1..3

(* The pumps, and their bits *)
CAM_TO_ISP == 1
ISP_TO_ENC == 2
ENC_TO_UVC == 3

VARIABLES
  free,       \* driver of each pump's source: buffers queued to be filled
  full,       \* driver of each pump's source: frames that await DQBUF
  todo,       \* driver of each pump's destination: frames queued to be read
  used,       \* driver of each pump's destination: read buffers that await DQBUF
  inside,     \* the frame that isp and enc, after pumps 1 and 2, work on, or None
  next,       \* each pump's frame in src.next_in_queue, or None
  fd_bits,    \* p->fd_bits
  ready,      \* epoll: descriptors to look at in the next epoll_wait
  pc,         \* what the loop does next
  at,         \* the pump it is at
  captured,   \* number of the last frame the camera has written
  delivered,  \* number of the last frame the host has got
  flushed,    \* history: frames captured before the last restart
  hurt,       \* history: an ioctl has failed since the last restart
  faults,     \* ioctls that failed without need
  restarts

queues == <<free, full, todo, used, inside>>
history == <<flushed, hurt, faults, restarts>>
vars == <<queues, next, fd_bits, ready, pc, at, captured, delivered, history>>

(* The descriptors, and the bits that their callbacks set *)
SrcFd == <<"cam", "isp output", "enc">>
DstFd == <<"isp input", "enc", "uvc">>
UVC_EVENTS == 4

(* Mutant of Bits: the encoder's descriptor pokes the pump before it only. *)
BitsOneOfEnc(fd) ==
  CASE fd \in {"cam", "isp input"} -> {CAM_TO_ISP}
    [] fd \in {"isp output", "enc"} -> {ISP_TO_ENC}
    [] fd = "uvc" -> {ENC_TO_UVC, UVC_EVENTS}

Bits(fd) ==
  CASE fd \in {"cam", "isp input"} -> {CAM_TO_ISP}
    [] fd = "isp output" -> {ISP_TO_ENC}
    [] fd = "enc" -> {ISP_TO_ENC, ENC_TO_UVC}
    [] fd = "uvc" -> {ENC_TO_UVC, UVC_EVENTS}

Fds == Range(SrcFd) \cup Range(DstFd)

(* A buffer of the descriptor awaits DQBUF. *)
Pending(fd) ==
  \E p \in Pumps : \/ SrcFd[p] = fd /\ full[p] # << >>
                   \/ DstFd[p] = fd /\ used[p] > 0

(* deviceStreamStart has queued all the buffers that are to be filled. *)
Streaming ==
  [free |-> [p \in Pumps |-> Buffers], full |-> [p \in Pumps |-> << >>],
   todo |-> [p \in Pumps |-> << >>], used |-> [p \in Pumps |-> 0],
   inside |-> [p \in {1, 2} |-> None]]

(* The host has asked for the stream: pipelineStart has started the nodes and *)
(* created the pumps, and is about to monitor the descriptors.                *)
Init ==
  /\ free = Streaming.free /\ full = Streaming.full
  /\ todo = Streaming.todo /\ used = Streaming.used /\ inside = Streaming.inside
  /\ next = [p \in Pumps |-> None]
  /\ fd_bits = {UVC_EVENTS} /\ ready = {}
  /\ pc = "monitor" /\ at = 1
  /\ captured = 0 /\ delivered = 0
  /\ flushed = 0 /\ hurt = FALSE /\ faults = 0 /\ restarts = 0

-----------------------------------------------------------------------------
(* The drivers.  A finished buffer makes epoll look at its descriptor, once   *)
(* it is monitored.                                                           *)

Wake(fd) == ready' = IF pc = "monitor" THEN ready ELSE ready \cup {fd}

Finish(p, f) ==
  /\ free[p] > 0
  /\ free' = [free EXCEPT ![p] = @ - 1]
  /\ full' = [full EXCEPT ![p] = Append(@, f)]
  /\ Wake(SrcFd[p])

ReadNext(p) ==
  /\ todo[p] # << >>
  /\ todo' = [todo EXCEPT ![p] = Tail(@)]
  /\ used' = [used EXCEPT ![p] = @ + 1]
  /\ Wake(DstFd[p])

Capture ==
  /\ captured < MaxFrames
  /\ captured' = captured + 1
  /\ Finish(1, captured + 1)
  /\ UNCHANGED <<todo, used, inside, next, fd_bits, pc, at, delivered, history>>

(* isp and enc finish a frame's input and its output one after the other. *)
Take(p) ==
  /\ inside[p] = None
  /\ ReadNext(p)
  /\ inside' = [inside EXCEPT ![p] = Head(todo[p])]
  /\ UNCHANGED <<free, full, next, fd_bits, pc, at, captured, delivered, history>>

Emit(p) ==
  /\ inside[p] # None
  /\ inside' = [inside EXCEPT ![p] = None]
  /\ Finish(p + 1, inside[p])
  /\ UNCHANGED <<todo, used, next, fd_bits, pc, at, captured, delivered, history>>

(* The gadget has sent a frame to the host. *)
Transmit ==
  /\ ReadNext(3)
  /\ delivered' = Head(todo[3])
  /\ UNCHANGED <<free, full, inside, next, fd_bits, pc, at, captured, history>>

-----------------------------------------------------------------------------
(* pipelineProcess *)

(* The next pump after p whose bit is set runs, or the loop waits again. *)
Proceed(bits, p) ==
  LET Later == {q \in bits : p < q /\ q \in Pumps}
  IN  IF Later = {} THEN pc' = "poll" /\ at' = 1
                    ELSE pc' = "reclaim" /\ at' = Min(Later)

(* epoll_wait returns the descriptors it has to look at that have a buffer to *)
(* dequeue, and the gadget's when the host has caused an event - which only   *)
(* matters while it may still restart the stream.                             *)
Poll ==
  /\ pc = "poll"
  /\ \E event \in {{}, {"uvc"}} :
       /\ event # {} => restarts < MaxRestarts
       /\ fd_bits' = UNION {Bits(fd) : fd \in {fd \in ready : Pending(fd)} \cup event}
  /\ ready' = {}
  /\ IF UVC_EVENTS \in fd_bits' THEN pc' = "events" /\ at' = 1 ELSE Proceed(fd_bits', 0)
  /\ UNCHANGED <<queues, next, captured, delivered, history>>

(* The events need nothing, or there are none. *)
EventsDone ==
  /\ pc = "events"
  /\ Proceed(fd_bits, 0)
  /\ UNCHANGED <<queues, next, fd_bits, ready, captured, delivered, history>>

(* Among the events the host stops the stream and starts it again: the        *)
(* drivers give up all buffers, and new pumps hold none; fd_bits lingers.     *)
Restart ==
  /\ pc = "events"
  /\ restarts < MaxRestarts
  /\ restarts' = restarts + 1
  /\ free' = Streaming.free /\ full' = Streaming.full
  /\ todo' = Streaming.todo /\ used' = Streaming.used /\ inside' = Streaming.inside
  /\ next' = [p \in Pumps |-> None]
  /\ ready' = {}
  /\ pc' = "monitor"
  /\ flushed' = captured /\ hurt' = FALSE
  /\ UNCHANGED <<fd_bits, at, captured, delivered, faults>>

(* epoll looks at a descriptor when it is added. *)
Monitor ==
  /\ pc = "monitor"
  /\ ready' = Fds
  /\ pc' = "events"
  /\ UNCHANGED <<queues, next, fd_bits, at, captured, delivered, history>>

-----------------------------------------------------------------------------
(* pumpPump *)

Fault ==
  /\ faults < MaxFaults
  /\ faults' = faults + 1
  /\ hurt' = TRUE
  /\ UNCHANGED <<flushed, restarts>>

(* DQBUF from the destination, and the source buffer that it was lent goes    *)
(* back by QBUF; when that fails it is lost, and the pump returns.            *)
Reclaim ==
  /\ pc = "reclaim"
  /\ used[at] > 0
  /\ used' = [used EXCEPT ![at] = @ - 1]
  /\ \/ free' = [free EXCEPT ![at] = @ + 1] /\ UNCHANGED <<pc, at, history>>
     \/ Fault /\ Proceed(fd_bits, at) /\ UNCHANGED free
  /\ UNCHANGED <<full, todo, inside, next, fd_bits, ready, captured, delivered>>

(* Mutant of ReclaimEnd: one buffer is dequeued in a call. *)
ReclaimOnce ==
  /\ pc = "reclaim"
  /\ pc' = "collect"
  /\ UNCHANGED <<queues, next, fd_bits, ready, at, captured, delivered, history>>

(* DQBUF finds no buffer, or fails, which looks the same. *)
ReclaimEnd ==
  /\ pc = "reclaim"
  /\ IF used[at] = 0 THEN UNCHANGED history ELSE Fault
  /\ pc' = "collect"
  /\ UNCHANGED <<queues, next, fd_bits, ready, at, captured, delivered>>

(* Mutant of Collect: the newer frame goes back, not the older. *)
CollectKeepsOlder ==
  /\ pc = "collect"
  /\ full[at] # << >>
  /\ full' = [full EXCEPT ![at] = Tail(@)]
  /\ next' = [next EXCEPT ![at] = IF @ = None THEN Head(full[at]) ELSE @]
  /\ free' = [free EXCEPT ![at] = @ + (IF next[at] = None THEN 0 ELSE 1)]
  /\ UNCHANGED <<todo, used, inside, fd_bits, ready, pc, at, captured, delivered, history>>

(* DQBUF from the source: the frame is the next, and the one that was goes    *)
(* back by QBUF; when that fails the newer is lost, and the pump returns.     *)
Collect ==
  /\ pc = "collect"
  /\ full[at] # << >>
  /\ full' = [full EXCEPT ![at] = Tail(@)]
  /\ \/ /\ next' = [next EXCEPT ![at] = Head(full[at])]
        /\ free' = [free EXCEPT ![at] = @ + (IF next[at] = None THEN 0 ELSE 1)]
        /\ UNCHANGED <<pc, at, history>>
     \/ next[at] # None /\ Fault /\ Proceed(fd_bits, at) /\ UNCHANGED <<free, next>>
  /\ UNCHANGED <<todo, used, inside, fd_bits, ready, captured, delivered>>

CollectEnd ==
  /\ pc = "collect"
  /\ IF full[at] = << >> THEN UNCHANGED history ELSE Fault
  /\ pc' = "pass"
  /\ UNCHANGED <<queues, next, fd_bits, ready, at, captured, delivered>>

(* Mutant of Pass: the frame passed stays the next. *)
PassKeeps ==
  /\ pc = "pass"
  /\ next[at] # None
  /\ todo' = [todo EXCEPT ![at] = Append(@, next[at])]
  /\ Proceed(fd_bits, at)
  /\ UNCHANGED <<free, full, used, inside, next, fd_bits, ready, captured, delivered, history>>

(* The next frame is queued at the destination, if the buffer that comes next *)
(* there is not in the driver.                                                *)
Pass ==
  /\ pc = "pass"
  /\ next[at] # None
  /\ Len(todo[at]) + used[at] < Buffers
  /\ todo' = [todo EXCEPT ![at] = Append(@, next[at])]
  /\ next' = [next EXCEPT ![at] = None]
  /\ Proceed(fd_bits, at)
  /\ UNCHANGED <<free, full, used, inside, fd_bits, ready, captured, delivered, history>>

(* There is nothing to pass, or QBUF fails and the frame stays the next. *)
PassNot ==
  /\ pc = "pass"
  /\ IF next[at] # None /\ Len(todo[at]) + used[at] < Buffers THEN Fault
                                                              ELSE UNCHANGED history
  /\ Proceed(fd_bits, at)
  /\ UNCHANGED <<queues, next, fd_bits, ready, captured, delivered>>

-----------------------------------------------------------------------------

pumpPump == Reclaim \/ ReclaimEnd \/ Collect \/ CollectEnd \/ Pass \/ PassNot
pipelineProcess == Poll \/ Monitor \/ EventsDone \/ pumpPump
Codec(p) == Take(p) \/ Emit(p)

Next == pipelineProcess \/ Restart \/ Capture \/ Codec(1) \/ Codec(2) \/ Transmit

(* Every device works on as long as it has buffers, the host goes on reading, *)
(* and the loop runs; nobody has to restart the stream.                       *)
Fairness ==
  /\ WF_vars(pipelineProcess)
  /\ WF_vars(Capture) /\ WF_vars(Codec(1)) /\ WF_vars(Codec(2)) /\ WF_vars(Transmit)

Spec == Init /\ [][Next]_vars /\ Fairness

-----------------------------------------------------------------------------
(* Properties *)

Frames == 1..MaxFrames

(* The buffers of a source that are in its driver, at the pump or lent.  *)
Known(p) == free[p] + Len(full[p]) + (IF next[p] = None THEN 0 ELSE 1) + Len(todo[p]) + used[p]

(* The queues hold frames and no more buffers than there are, and none is     *)
(* lost but through a failed ioctl.                                           *)
TypeOK ==
  /\ \A p \in Pumps :
       /\ {full[p], todo[p]} \subseteq Seq(Frames)
       /\ free[p] \in 0..Buffers /\ used[p] \in 0..Buffers
       /\ next[p] \in Frames \cup {None}
       /\ Known(p) \in Buffers - (IF hurt THEN MaxFaults ELSE 0)..Buffers
  /\ \A p \in {1, 2} : inside[p] \in Frames \cup {None}
  /\ fd_bits \subseteq 1..4 /\ ready \subseteq Fds
  /\ pc \in {"monitor", "poll", "events", "reclaim", "collect", "pass"}
  /\ at \in Pumps
  /\ flushed <= captured /\ captured <= MaxFrames

(* No wake-up is lost: whenever the loop waits, every descriptor that has a   *)
(* buffer to dequeue is one epoll will look at, and no pump sits on a frame,  *)
(* through restarts and whatever the drivers finish between two ioctls of the *)
(* pumps (pump.c:224-310, main.c:247-281) - unless an ioctl failed.           *)
NoLostWakeup ==
  pc = "poll" /\ ~hurt =>
    /\ {fd \in Fds : Pending(fd)} \subseteq ready
    /\ \A p \in Pumps : next[p] = None

(* Every frame captured reaches the host, or a newer one does, unless the     *)
(* stream was restarted or an ioctl failed.                                   *)
Freshness ==
  \A f \in Frames : captured = f ~> delivered >= f \/ flushed >= f \/ hurt

(* "poll() only wakes up whenever something does change and can be polled"    *)
(* "seems to just work" (TODO.md:6-7): the camera never runs out of buffers   *)
(* for good.                                                                  *)
CameraGoesOn == <>(captured = MaxFrames)

(* The frames on their way from the camera to the host *)
underway ==
  (UNION {Range(full[p]) \cup Range(todo[p]) \cup ({next[p]} \ {None}) : p \in Pumps})
    \cup (Range(inside) \ {None})

Channel == INSTANCE FrameChannel

(* The four devices and three pumps implement a single channel: frames reach  *)
(* the host in order and at most once, and one is given up only for a newer.  *)
ChannelSpec == Channel!Spec
==================================================================================
