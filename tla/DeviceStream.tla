------------------------------- MODULE DeviceStream -------------------------------
(***************************************************************************)
(* The life of one stream (device.c), next to the driver's own idea of it.   *)
(***************************************************************************)
EXTENDS Integers, Outcomes

CONSTANTS Requested,   \* opts->buffers_count
          Grants       \* the numbers of buffers VIDIOC_REQBUFS may grant

ASSUME RequestedAssumption == Requested \in Nat \ {0}
ASSUME GrantsAssumption == Grants \in SUBSET (Nat \ {0})

States == {"IDLE", "PREPARED", "STREAMING"}

(* deviceOpen zeroes the Device and fills the streams in; alloc is the length *)
(* of the array st->buffers, 0 for NULL.  The last three fields belong to the *)
(* driver: buffers it made, indices queued, and whether it streams.           *)
streamInit(capture) ==
  [capture |-> capture, state |-> "IDLE", count |-> 0, alloc |-> 0,
   made |-> 0, queued |-> {}, on |-> FALSE]

EBUSY == 16
ENOENT == 2
EIO == 5

(* Mutant of streamRequestBuffers: the array has the number asked for. *)
streamRequestTooShort(st) ==
  IF st.alloc > 0
  THEN {Outcome(st, -EBUSY, 0)}
  ELSE {Outcome(st, -1, 1)}
       \cup {Outcome([st EXCEPT !.count = g, !.made = g], 1, 1) : g \in Grants}
       \cup {Outcome([st EXCEPT !.count = g, !.made = g, !.alloc = st.count], 0, 0) : g \in Grants}

(* REQBUFS may grant another number than it was asked for, and the stream     *)
(* adopts it. After a failed QUERYBUF or bufferPrepare the array is freed and *)
(* the driver keeps the buffers.                                              *)
streamRequestBuffers(st) ==
  IF st.alloc > 0
  THEN {Outcome(st, -EBUSY, 0)}
  ELSE {Outcome(st, -1, 1)}
       \cup {Outcome([st EXCEPT !.count = g, !.made = g], 1, 1) : g \in Grants}
       \cup {Outcome([st EXCEPT !.count = g, !.made = g, !.alloc = g], 0, 0) : g \in Grants}

(* VIDIOC_S_FMT is refused by some drivers once there are buffers, which is   *)
(* no fault of theirs. buffers_count is overwritten before the request, which *)
(* may then be refused.                                                       *)
deviceStreamPrepare(st) ==
  IF st.state = "STREAMING"
  THEN {Outcome(st, -EBUSY, 0)}
  ELSE {Outcome(st, -1, IF st.made = 0 THEN 1 ELSE 0)}
       \cup {IF req.ret # 0 THEN [req EXCEPT !.ret = -2]
                            ELSE [req EXCEPT !.st.state = "PREPARED"] :
               req \in streamRequestBuffers([st EXCEPT !.count = Requested])}

(* The driver takes buffers 0, 1, ... up to the first it does not have or has *)
(* queued already.                                                            *)
Accepted(st) ==
  CHOOSE n \in 0..st.count :
    /\ \A i \in 0..n-1 : i < st.made /\ i \notin st.queued
    /\ n < st.count => n >= st.made \/ n \in st.queued

(* Mutant of streamEnqueueBuffers: i <= buffers_count. *)
streamEnqueueOneMore(st) ==
  {Outcome([st EXCEPT !.queued = @ \cup 0..st.count], 0, 0)}

streamEnqueueBuffers(st) ==
  LET First(n) == [st EXCEPT !.queued = @ \cup 0..n-1]
      n == Accepted(st)
  IN  {Outcome(First(i), -1, 1) : i \in 0..n-1}
      \cup {Outcome(First(n), IF n = st.count THEN 0 ELSE -1, 0)}

(* Mutant of streamOn: the state is set before the ioctl. *)
streamOnEarly(st) ==
  {Outcome([st EXCEPT !.state = "STREAMING"], 1, 1),
   Outcome([st EXCEPT !.on = TRUE, !.state = "STREAMING"], 0, 0)}

(* VIDIOC_STREAMON; when it fails the buffers stay queued. *)
streamOn(st) ==
  {Outcome(st, 1, 1), Outcome([st EXCEPT !.on = TRUE, !.state = "STREAMING"], 0, 0)}

(* Mutant of deviceStreamStart: a stream that streams counts as started. *)
deviceStreamStartTwice(st) ==
  CASE st.state = "IDLE" -> {Outcome(st, -ENOENT, 0)}
    [] st.state = "STREAMING" -> {Outcome(st, 0, 0)}
    [] st.state = "PREPARED" /\ ~st.capture -> streamOn(st)
    [] OTHER -> UNION {IF enq.ret # 0 THEN {[enq EXCEPT !.ret = -3]} ELSE streamOn(enq.st) :
                         enq \in streamEnqueueBuffers(st)}

(* Only a capture stream queues its buffers before it starts. *)
deviceStreamStart(st) ==
  CASE st.state = "IDLE" -> {Outcome(st, -ENOENT, 0)}
    [] st.state = "STREAMING" -> {Outcome(st, -EBUSY, 0)}
    [] st.state = "PREPARED" /\ ~st.capture -> streamOn(st)
    [] OTHER -> UNION {IF enq.ret # 0 THEN {[enq EXCEPT !.ret = -3]} ELSE streamOn(enq.st) :
                         enq \in streamEnqueueBuffers(st)}

(* Mutant of deviceStreamStop: the state alone changes. *)
deviceStreamStopState(st) ==
  {Outcome(IF st.state = "STREAMING" THEN [st EXCEPT !.state = "PREPARED"] ELSE st, 0, 0)}

(* A stream that is not streaming is left as it is and 0 is returned.         *)
(* STREAMOFF dequeues all the buffers.                                        *)
deviceStreamStop(st) ==
  IF st.state # "STREAMING"
  THEN {Outcome(st, 0, 0)}
  ELSE {Outcome(st, 1, 1),
        Outcome([st EXCEPT !.on = FALSE, !.queued = {}, !.state = "PREPARED"], 0, 0)}

(* DQBUF of some queued buffer; NULL is ret -1, and the buffer's index + 1    *)
(* otherwise, with nothing to dequeue being no fault.                         *)
deviceStreamPullBuffer(st) ==
  {Outcome(st, -1, 0)}
  \cup {Outcome([st EXCEPT !.queued = @ \ {i}], i + 1, 0) :
          i \in IF st.alloc > 0 /\ st.on THEN st.queued ELSE {}}

(* QBUF of buffer i *)
deviceStreamPushBuffer(st, i) ==
  IF st.alloc = 0 THEN {Outcome(st, -EIO, 0)}
  ELSE IF i >= st.made \/ i \in st.queued THEN {Outcome(st, 22, 0)}
  ELSE {Outcome(st, EIO, 1), Outcome([st EXCEPT !.queued = @ \cup {i}], 0, 0)}

====================================================================================
