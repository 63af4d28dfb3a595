-------------------------------- MODULE StreamLemmas --------------------------------
(***************************************************************************)
(* What the operations of DeviceStream keep of a stream, for every number of *)
(* buffers asked for and granted.                                            *)
(***************************************************************************)
EXTENDS DeviceStream, WellFoundedInduction, TLAPS

USE RequestedAssumption, GrantsAssumption

-----------------------------------------------------------------------------
(* Queueing the buffers of a stream *)

LEMMA LeastNumber ==
  ASSUME NEW T \in SUBSET Nat, T # {}
  PROVE  \E n \in T : \A m \in T : n <= m
<1>1. PICK n \in T : \A m \in T : <<m, n>> \notin OpToRel(<, Nat)
  BY WFMin, NatLessThanWellFounded, Zenon
<1>2. \A m \in T : ~(m < n)
  BY <1>1, Zenon DEF OpToRel
<1> QED BY <1>2

Fields == [capture : BOOLEAN, state : States, count : Nat, alloc : Nat, made : Nat,
           queued : SUBSET Int, on : BOOLEAN]

Stream(s) == s \in Fields /\ s.queued \in SUBSET (0..s.made-1)

(* Accepted is what it says: the driver takes the buffers before it, and is   *)
(* the next refused, if there is one.                                         *)
LEMMA AcceptedIs ==
  ASSUME NEW s, Stream(s)
  PROVE  /\ Accepted(s) \in 0..s.count
         /\ \A i \in 0..Accepted(s)-1 : i < s.made /\ i \notin s.queued
         /\ Accepted(s) < s.count => Accepted(s) >= s.made \/ Accepted(s) \in s.queued
<1> DEFINE Stops(n) == n = s.count \/ n >= s.made \/ n \in s.queued
           T == {n \in 0..s.count : Stops(n)}
<1>1. s.count \in Nat /\ s.made \in Nat
  BY DEF Stream, Fields
<1>2. T \in SUBSET Nat /\ T # {}
  <2>1. s.count \in T
    BY <1>1
  <2> QED BY <2>1, <1>1
<1>3. PICK n \in T : \A m \in T : n <= m
  BY <1>2, LeastNumber
<1>4. \A i \in 0..n-1 : i < s.made /\ i \notin s.queued
  <2> SUFFICES ASSUME NEW i \in 0..n-1, ~(i < s.made /\ i \notin s.queued) PROVE FALSE
    OBVIOUS
  <2>1. i \in T
    BY <1>1
  <2> QED BY <2>1, <1>3
<1>5. n < s.count => n >= s.made \/ n \in s.queued
  BY <1>1, <1>3
<1>6. \E k \in 0..s.count :
        /\ \A i \in 0..k-1 : i < s.made /\ i \notin s.queued
        /\ k < s.count => k >= s.made \/ k \in s.queued
  BY <1>3, <1>4, <1>5
<1> QED BY <1>6 DEF Accepted

-----------------------------------------------------------------------------
(* The driver grants no fewer buffers than it is asked for.                   *)
Enough == \A g \in Grants : Requested <= g

(* The states that a stream and its driver reach together: the program's idea *)
(* of the state is the driver's, and the array has the length the driver      *)
(* granted. When it grants enough the count fits the array, and only a start  *)
(* of a capture stream leaves buffers queued in one that does not stream,     *)
(* when some of its f ioctls failed.                                          *)
Coherent(s, f) ==
  /\ Stream(s)
  /\ s.on <=> s.state = "STREAMING"
  /\ s.alloc > 0 <=> s.state # "IDLE"
  /\ s.alloc > 0 => s.made = s.alloc
  /\ s.state = "IDLE" => s.queued = {}
  /\ Enough /\ s.state # "IDLE" => s.count <= s.alloc /\ Requested <= s.alloc
  /\ Enough /\ s.state = "PREPARED" /\ (f = 0 \/ ~s.capture) => s.queued = {}

(* What every call but a start leaves, whether one of its ioctls failed or not *)
Keeps(out, f) == out.faults \in Nat /\ Coherent(out.st, f)

(* What a start leaves when f ioctls had failed before it *)
Leaves(out, f) == out.faults \in Nat /\ Coherent(out.st, f + out.faults)

LEMMA OutcomeIs ==
  ASSUME NEW a, NEW b, NEW c, NEW out, out = Outcome(a, b, c)
  PROVE  out.st = a /\ out.ret = b /\ out.faults = c
BY DEF Outcome

(* The caller changes what is returned, or the state. *)
LEMMA OtherReturn ==
  ASSUME NEW a, NEW b, NEW c, NEW out, out = Outcome(a, b, c), NEW r
  PROVE  [out EXCEPT !.ret = r] = Outcome(a, r, c)
BY DEF Outcome

LEMMA NowPrepared ==
  ASSUME NEW a, NEW b, NEW c, NEW out, out = Outcome(a, b, c)
  PROVE  [out EXCEPT !.st.state = "PREPARED"] = Outcome([a EXCEPT !.state = "PREPARED"], b, c)
BY DEF Outcome

LEMMA OutcomeLeaves ==
  ASSUME NEW f \in Nat, NEW t, NEW r, NEW k \in Nat, Coherent(t, f + k),
         NEW out, out = Outcome(t, r, k)
  PROVE  Leaves(out, f)
<1>1. out.st = t
  BY OutcomeIs
<1>2. out.faults = k
  BY OutcomeIs
<1> QED BY <1>1, <1>2, Zenon DEF Leaves

(* A failed ioctl more never hurts. *)
LEMMA MoreFaults ==
  ASSUME NEW f \in Nat, NEW k \in Nat, NEW s, Coherent(s, f)
  PROVE  Coherent(s, f + k)
<1>1. f + k = 0 => f = 0
  OBVIOUS
<1> QED BY <1>1 DEF Coherent

LEMMA KeepsLeaves ==
  ASSUME NEW f \in Nat, NEW out, Keeps(out, f)
  PROVE  Leaves(out, f)
<1>1. out.faults \in Nat /\ Coherent(out.st, f)
  BY Zenon DEF Keeps
<1>2. Coherent(out.st, f + out.faults)
  BY <1>1, MoreFaults
<1> QED BY <1>1, <1>2, Zenon DEF Leaves

LEMMA OutcomeKeeps ==
  ASSUME NEW f \in Nat, NEW t, Coherent(t, f), NEW r, NEW k \in Nat,
         NEW out, out = Outcome(t, r, k)
  PROVE  Keeps(out, f)
<1>1. out.st = t
  BY OutcomeIs
<1>2. out.faults = k
  BY OutcomeIs
<1> QED BY <1>1, <1>2, Zenon DEF Keeps

Request(req) ==
  IF req.ret # 0 THEN [req EXCEPT !.ret = -2] ELSE [req EXCEPT !.st.state = "PREPARED"]

LEMMA RequestFailed ==
  ASSUME NEW f \in Nat, NEW t, NEW r, r # 0, NEW k \in Nat, Coherent(t, f),
         NEW req, req = Outcome(t, r, k)
  PROVE  Keeps(Request(req), f)
<1>1. req.ret # 0
  <2>1. req.ret = r
    BY OutcomeIs
  <2> QED BY <2>1
<1>2. Request(req) = [req EXCEPT !.ret = -2]
  BY <1>1, Zenon DEF Request
<1>3. Request(req) = Outcome(t, -2, k)
  <2>1. [req EXCEPT !.ret = -2] = Outcome(t, -2, k)
    BY OtherReturn
  <2> QED BY <1>2, <2>1
<1> QED BY <1>3, OutcomeKeeps

LEMMA RequestDone ==
  ASSUME NEW f \in Nat, NEW t, Coherent([t EXCEPT !.state = "PREPARED"], f),
         NEW req, req = Outcome(t, 0, 0)
  PROVE  Keeps(Request(req), f)
<1>1. req.ret = 0
  BY OutcomeIs
<1>2. Request(req) = [req EXCEPT !.st.state = "PREPARED"]
  BY <1>1, Zenon DEF Request
<1>3. Request(req) = Outcome([t EXCEPT !.state = "PREPARED"], 0, 0)
  <2>1. [req EXCEPT !.st.state = "PREPARED"] = Outcome([t EXCEPT !.state = "PREPARED"], 0, 0)
    BY NowPrepared
  <2> QED BY <1>2, <2>1
<1> QED BY <1>3, OutcomeKeeps

(* REQBUFS of a stream that does not stream, and what follows it *)
LEMMA Requests ==
  ASSUME NEW f \in Nat, NEW s, Coherent(s, f), s.state # "STREAMING",
         NEW req \in streamRequestBuffers(s)
  PROVE  Keeps(Request(req), f)
<1>1. CASE s.alloc > 0
  <2>1. streamRequestBuffers(s) = {Outcome(s, -EBUSY, 0)}
    BY <1>1, Zenon DEF streamRequestBuffers
  <2>2. req = Outcome(s, -EBUSY, 0)
    BY <2>1
  <2>3. -EBUSY # 0
    BY DEF EBUSY
  <2> QED BY <2>2, <2>3, RequestFailed
<1>2. CASE ~(s.alloc > 0)
  <2>1. \/ req = Outcome(s, -1, 1)
        \/ \E g \in Grants : req = Outcome([s EXCEPT !.count = g, !.made = g], 1, 1)
        \/ \E g \in Grants : req = Outcome([s EXCEPT !.count = g, !.made = g, !.alloc = g], 0, 0)
    BY <1>2, Zenon DEF streamRequestBuffers
  <2>2. CASE req = Outcome(s, -1, 1)
    <3> QED BY <2>2, RequestFailed
  <2>3. ASSUME NEW g \in Grants, req = Outcome([s EXCEPT !.count = g, !.made = g], 1, 1)
        PROVE  Keeps(Request(req), f)
    <3> DEFINE t == [s EXCEPT !.count = g, !.made = g]
    <3>1. Coherent(t, f)
      BY <1>2 DEF Coherent, Stream, Fields, States
    <3> HIDE DEF t
    <3>2. req = Outcome(t, 1, 1)
      BY <2>3 DEF t
    <3> QED BY <3>1, <3>2, RequestFailed
  <2>4. ASSUME NEW g \in Grants,
               req = Outcome([s EXCEPT !.count = g, !.made = g, !.alloc = g], 0, 0)
        PROVE  Keeps(Request(req), f)
    <3> DEFINE t == [s EXCEPT !.count = g, !.made = g, !.alloc = g]
               u == [t EXCEPT !.state = "PREPARED"]
    <3>1. Coherent(u, f)
      <4>1. Stream(u)
        BY <1>2 DEF Coherent, Stream, Fields, States
      <4>2. u.alloc = g /\ u.made = g /\ u.count = g /\ u.state = "PREPARED"
        BY <1>2 DEF Coherent, Stream, Fields, States
      <4>3. u.queued = {} /\ ~u.on
        BY <1>2 DEF Coherent, Stream, Fields, States
      <4> HIDE DEF u
      <4> QED BY <4>1, <4>2, <4>3 DEF Coherent, Enough
    <3> HIDE DEF t
    <3>2. req = Outcome(t, 0, 0)
      BY <2>4 DEF t
    <3> QED BY <3>1, <3>2, RequestDone
  <2> QED BY <2>1, <2>2, <2>3, <2>4, Zenon
<1> QED BY <1>1, <1>2

LEMMA PrepareKeeps ==
  ASSUME NEW f \in Nat, NEW s, Coherent(s, f), NEW out \in deviceStreamPrepare(s)
  PROVE  Keeps(out, f)
<1>1. CASE s.state = "STREAMING"
  <2>1. deviceStreamPrepare(s) = {Outcome(s, -EBUSY, 0)}
    BY <1>1, Zenon DEF deviceStreamPrepare
  <2>2. out = Outcome(s, -EBUSY, 0)
    BY <2>1
  <2> QED BY <2>2, OutcomeKeeps
<1>2. CASE s.state # "STREAMING"
  <2> DEFINE t == [s EXCEPT !.count = Requested]
             k == IF s.made = 0 THEN 1 ELSE 0
  <2>1. out = Outcome(s, -1, k) \/ \E req \in streamRequestBuffers(t) : out = Request(req)
    BY <1>2, Zenon DEF deviceStreamPrepare, Request
  <2>2. CASE out = Outcome(s, -1, k)
    <3>1. k \in Nat
      OBVIOUS
    <3> HIDE DEF k
    <3> QED BY <2>2, <3>1, OutcomeKeeps
  <2>3. ASSUME NEW req \in streamRequestBuffers(t), out = Request(req)
        PROVE  Keeps(out, f)
    <3>1. Coherent(t, f) /\ t.state # "STREAMING"
      BY <1>2 DEF Coherent, Stream, Fields, States, Enough
    <3> HIDE DEF t
    <3>2. Keeps(Request(req), f)
      BY <3>1, Requests
    <3> QED BY <2>3, <3>2
  <2> QED BY <2>1, <2>2, <2>3, Zenon
<1> QED BY <1>1, <1>2

-----------------------------------------------------------------------------
(* Starting a stream *)

(* When no start failed and the driver grants enough, it takes every buffer.  *)
LEMMA TakesAll ==
  ASSUME NEW f, NEW s, Coherent(s, f), Enough, s.state = "PREPARED", f = 0 \/ ~s.capture
  PROVE  s.queued = {} /\ Accepted(s) = s.count
<1>1. Stream(s) /\ s.queued = {} /\ s.count <= s.made
  BY DEF Coherent, Stream, Fields
<1>2. s.count \in Nat /\ s.made \in Nat
  BY <1>1 DEF Stream, Fields
<1> DEFINE n == Accepted(s)
<1>3. n \in 0..s.count /\ (n < s.count => n >= s.made \/ n \in s.queued)
  BY <1>1, AcceptedIs
<1> HIDE DEF n
<1>4. n = s.count
  BY <1>1, <1>2, <1>3
<1> QED BY <1>1, <1>4 DEF n

(* Buffers 0..i-1 queued, in a stream that has them *)
LEMMA QueuedFirst ==
  ASSUME NEW f \in Nat, NEW s, Coherent(s, f), s.state = "PREPARED", s.capture,
         NEW i \in 0..Accepted(s), NEW t, t = [s EXCEPT !.queued = @ \cup 0..i-1]
  PROVE  /\ Coherent(t, f + 1) /\ t.state = "PREPARED"
         /\ Accepted(s) # s.count => Coherent(t, f)
<1> DEFINE n == Accepted(s)
<1>1. Stream(s) /\ s.count \in Nat /\ s.made \in Nat /\ s.alloc \in Nat
  BY DEF Coherent, Stream, Fields
<1>2. n \in 0..s.count /\ \A j \in 0..n-1 : j < s.made
  BY <1>1, AcceptedIs
<1>3. f = 0 /\ Enough => n = s.count
  BY TakesAll
<1> HIDE DEF n
<1>4. \A j \in 0..i-1 : j \in 0..s.made-1
  <2>1. i \in 0..n
    BY DEF n
  <2> QED BY <1>1, <1>2, <2>1
<1>5. Stream(t)
  BY <1>1, <1>4 DEF Stream, Fields
<1>6. t.state = "PREPARED" /\ t.capture = s.capture /\ t.on = s.on /\ t.alloc = s.alloc /\ t.made = s.made /\ t.count = s.count
  BY <1>1 DEF Stream, Fields
<1>7. Coherent(t, f + 1)
  BY <1>5, <1>6 DEF Coherent
<1>8. n # s.count => Coherent(t, f)
  BY <1>3, <1>5, <1>6 DEF Coherent
<1> QED BY <1>6, <1>7, <1>8 DEF n

LEMMA StreamOnLeaves ==
  ASSUME NEW f \in Nat, NEW s, Coherent(s, f + 1), s.state = "PREPARED",
         NEW out \in streamOn(s)
  PROVE  Leaves(out, f)
<1> DEFINE t == [s EXCEPT !.on = TRUE, !.state = "STREAMING"]
<1>1. out = Outcome(s, 1, 1) \/ out = Outcome(t, 0, 0)
  BY Zenon DEF streamOn
<1>2. Coherent(t, f + 0)
  BY DEF Coherent, Stream, Fields, States
<1> HIDE DEF t
<1>3. CASE out = Outcome(s, 1, 1)
  BY <1>3, OutcomeLeaves
<1>4. CASE out = Outcome(t, 0, 0)
  BY <1>2, <1>4, OutcomeLeaves
<1> QED BY <1>1, <1>3, <1>4

Enqueued(enq) == IF enq.ret # 0 THEN {[enq EXCEPT !.ret = -3]} ELSE streamOn(enq.st)

LEMMA EnqueuedLeaves ==
  ASSUME NEW f \in Nat, NEW t, NEW r, NEW k \in Nat, t.state = "PREPARED",
         r = 0 => Coherent(t, f + 1), r # 0 => Coherent(t, f + k),
         NEW enq, enq = Outcome(t, r, k), NEW out \in Enqueued(enq)
  PROVE  Leaves(out, f)
<1>1. enq.st = t
  BY OutcomeIs
<1>2. enq.ret = r
  BY OutcomeIs
<1>3. CASE r = 0
  <2>1. Enqueued(enq) = streamOn(t)
    BY <1>1, <1>2, <1>3, Zenon DEF Enqueued
  <2> QED BY <1>3, <2>1, StreamOnLeaves
<1>4. CASE r # 0
  <2>1. Enqueued(enq) = {[enq EXCEPT !.ret = -3]}
    BY <1>2, <1>4, Zenon DEF Enqueued
  <2>2. [enq EXCEPT !.ret = -3] = Outcome(t, -3, k)
    BY OtherReturn
  <2>3. out = Outcome(t, -3, k)
    BY <2>1, <2>2
  <2> QED BY <1>4, <2>3, OutcomeLeaves
<1> QED BY <1>3, <1>4

LEMMA EnqueueLeaves ==
  ASSUME NEW f \in Nat, NEW s, Coherent(s, f), s.state = "PREPARED", s.capture,
         NEW enq \in streamEnqueueBuffers(s), NEW out \in Enqueued(enq)
  PROVE  Leaves(out, f)
<1> DEFINE First(i) == [s EXCEPT !.queued = @ \cup 0..i-1]
           n == Accepted(s)
           r == IF n = s.count THEN 0 ELSE -1
<1>1. (\E i \in 0..n-1 : enq = Outcome(First(i), -1, 1)) \/ enq = Outcome(First(n), r, 0)
  BY Zenon DEF streamEnqueueBuffers
<1>2. n \in Nat
  BY AcceptedIs DEF Coherent, Stream, Fields
<1>3. ASSUME NEW i \in 0..n-1, enq = Outcome(First(i), -1, 1)
      PROVE  Leaves(out, f)
  <2> DEFINE t == First(i)
  <2>1. i \in 0..n
    BY <1>2
  <2>2. Coherent(t, f + 1) /\ t.state = "PREPARED"
    BY <2>1, QueuedFirst
  <2>3. enq = Outcome(t, -1, 1)
    BY <1>3
  <2> HIDE DEF t
  <2>4. -1 # 0
    OBVIOUS
  <2> QED BY <2>2, <2>3, <2>4, EnqueuedLeaves
<1>4. CASE enq = Outcome(First(n), r, 0)
  <2> DEFINE t == First(n)
  <2>1. n \in 0..n
    BY <1>2
  <2>2. Coherent(t, f + 1) /\ t.state = "PREPARED"
    BY <2>1, QueuedFirst
  <2>3. r # 0 => Coherent(t, f + 0)
    BY <2>1, QueuedFirst
  <2>4. enq = Outcome(t, r, 0)
    BY <1>4
  <2> HIDE DEF t, r
  <2> QED BY <2>2, <2>3, <2>4, EnqueuedLeaves
<1> QED BY <1>1, <1>3, <1>4, Zenon

LEMMA StartLeaves ==
  ASSUME NEW f \in Nat, NEW s, Coherent(s, f), NEW out \in deviceStreamStart(s)
  PROVE  Leaves(out, f)
<1>1. s.state \in {"IDLE", "PREPARED", "STREAMING"}
  BY DEF Coherent, Stream, Fields, States
<1>2. CASE s.state = "IDLE"
  <2>1. deviceStreamStart(s) = {Outcome(s, -ENOENT, 0)}
    BY <1>2 DEF deviceStreamStart
  <2>2. out = Outcome(s, -ENOENT, 0)
    BY <2>1
  <2> QED BY <2>2, OutcomeKeeps, KeepsLeaves
<1>3. CASE s.state = "STREAMING"
  <2>1. deviceStreamStart(s) = {Outcome(s, -EBUSY, 0)}
    BY <1>3 DEF deviceStreamStart
  <2>2. out = Outcome(s, -EBUSY, 0)
    BY <2>1
  <2> QED BY <2>2, OutcomeKeeps, KeepsLeaves
<1>4. CASE s.state = "PREPARED" /\ ~s.capture
  <2>1. deviceStreamStart(s) = streamOn(s)
    BY <1>4 DEF deviceStreamStart
  <2>2. Coherent(s, f + 1)
    BY MoreFaults
  <2> QED BY <1>4, <2>1, <2>2, StreamOnLeaves
<1>5. CASE s.state = "PREPARED" /\ s.capture
  <2>1. deviceStreamStart(s) = UNION {Enqueued(enq) : enq \in streamEnqueueBuffers(s)}
    BY <1>5 DEF deviceStreamStart, Enqueued
  <2>2. PICK enq \in streamEnqueueBuffers(s) : out \in Enqueued(enq)
    BY <2>1
  <2> QED BY <1>5, <2>2, EnqueueLeaves
<1> QED BY <1>1, <1>2, <1>3, <1>4, <1>5

(* What starts streams; what streams already is left alone, with an error.    *)
LEMMA StreamOnReturns ==
  ASSUME NEW s \in Fields, NEW out \in streamOn(s), out.ret = 0
  PROVE  out.st.state = "STREAMING"
<1> DEFINE t == [s EXCEPT !.on = TRUE, !.state = "STREAMING"]
<1>1. out = Outcome(s, 1, 1) \/ out = Outcome(t, 0, 0)
  BY Zenon DEF streamOn
<1>2. t.state = "STREAMING"
  BY DEF Fields
<1> HIDE DEF t
<1>3. CASE out = Outcome(s, 1, 1)
  <2>1. out.ret = 1
    BY <1>3, OutcomeIs
  <2> QED BY <2>1
<1>4. CASE out = Outcome(t, 0, 0)
  <2>1. out.st = t
    BY <1>4, OutcomeIs
  <2> QED BY <1>2, <2>1
<1> QED BY <1>1, <1>3, <1>4

LEMMA StartReturns ==
  ASSUME NEW f \in Nat, NEW s, Coherent(s, f), NEW out \in deviceStreamStart(s)
  PROVE  /\ out.ret = 0 => out.st.state = "STREAMING"
         /\ s.state = "STREAMING" => out.ret # 0 /\ out.st = s
<1>1. s.state \in {"IDLE", "PREPARED", "STREAMING"} /\ s \in Fields
  BY DEF Coherent, Stream, Fields, States
<1>2. CASE s.state = "IDLE"
  <2>1. deviceStreamStart(s) = {Outcome(s, -ENOENT, 0)}
    BY <1>2 DEF deviceStreamStart
  <2>2. out.ret = -ENOENT
    <3>1. out = Outcome(s, -ENOENT, 0)
      BY <2>1
    <3> QED BY <3>1, OutcomeIs
  <2>3. -ENOENT # 0
    BY DEF ENOENT
  <2> QED BY <1>2, <2>2, <2>3
<1>3. CASE s.state = "STREAMING"
  <2>1. deviceStreamStart(s) = {Outcome(s, -EBUSY, 0)}
    BY <1>3 DEF deviceStreamStart
  <2>2. out = Outcome(s, -EBUSY, 0)
    BY <2>1
  <2>3. out.ret = -EBUSY /\ out.st = s
    BY <2>2, OutcomeIs
  <2>4. -EBUSY # 0
    BY DEF EBUSY
  <2> QED BY <2>3, <2>4
<1>4. CASE s.state = "PREPARED" /\ ~s.capture
  <2>1. deviceStreamStart(s) = streamOn(s)
    BY <1>4 DEF deviceStreamStart
  <2> QED BY <1>1, <1>4, <2>1, StreamOnReturns
<1>5. CASE s.state = "PREPARED" /\ s.capture
  <2>1. deviceStreamStart(s) = UNION {Enqueued(enq) : enq \in streamEnqueueBuffers(s)}
    BY <1>5 DEF deviceStreamStart, Enqueued
  <2>2. PICK enq \in streamEnqueueBuffers(s) : out \in Enqueued(enq)
    BY <2>1
  <2>3. CASE enq.ret # 0
    <3>1. out = [enq EXCEPT !.ret = -3]
      BY <2>2, <2>3, Zenon DEF Enqueued
    <3>2. PICK a, b, c : enq = Outcome(a, b, c)
      BY Zenon DEF streamEnqueueBuffers
    <3>3. out = Outcome(a, -3, c)
      <4>1. [enq EXCEPT !.ret = -3] = Outcome(a, -3, c)
        BY <3>2, OtherReturn
      <4> QED BY <3>1, <4>1
    <3>4. out.ret = -3
      BY <3>3, OutcomeIs
    <3> QED BY <1>5, <3>4
  <2>4. CASE ~(enq.ret # 0)
    <3>1. out \in streamOn(enq.st)
      BY <2>2, <2>4, Zenon DEF Enqueued
    <3>2. PICK i, b, c : enq = Outcome([s EXCEPT !.queued = @ \cup 0..i-1], b, c)
      BY Zenon DEF streamEnqueueBuffers
    <3> DEFINE q == [s EXCEPT !.queued = @ \cup 0..i-1]
    <3>3. q \in Fields
      <4>1. 0..i-1 \in SUBSET Int
        OBVIOUS
      <4> QED BY <1>1, <4>1 DEF Fields
    <3>4. enq = Outcome(q, b, c)
      BY <3>2
    <3> HIDE DEF q
    <3>5. enq.st = q
      BY <3>4, OutcomeIs
    <3> QED BY <1>5, <3>1, <3>3, <3>5, StreamOnReturns
  <2> QED BY <2>3, <2>4
<1> QED BY <1>1, <1>2, <1>3, <1>4, <1>5

-----------------------------------------------------------------------------
(* Stopping a stream, and its buffers *)

LEMMA StopKeeps ==
  ASSUME NEW f \in Nat, NEW s, Coherent(s, f), NEW out \in deviceStreamStop(s)
  PROVE  Keeps(out, f)
<1>1. CASE s.state # "STREAMING"
  <2>1. out = Outcome(s, 0, 0)
    BY <1>1, Zenon DEF deviceStreamStop
  <2> QED BY <2>1, OutcomeKeeps
<1>2. CASE s.state = "STREAMING"
  <2> DEFINE t == [s EXCEPT !.on = FALSE, !.queued = {}, !.state = "PREPARED"]
  <2>1. out = Outcome(s, 1, 1) \/ out = Outcome(t, 0, 0)
    BY <1>2, Zenon DEF deviceStreamStop
  <2>2. Coherent(t, f)
    BY <1>2 DEF Coherent, Stream, Fields, States
  <2> HIDE DEF t
  <2>3. CASE out = Outcome(s, 1, 1)
    BY <2>3, OutcomeKeeps
  <2>4. CASE out = Outcome(t, 0, 0)
    BY <2>2, <2>4, OutcomeKeeps
  <2> QED BY <2>1, <2>3, <2>4
<1> QED BY <1>1, <1>2

LEMMA PullKeeps ==
  ASSUME NEW f \in Nat, NEW s, Coherent(s, f), NEW out \in deviceStreamPullBuffer(s)
  PROVE  Keeps(out, f)
<1> DEFINE Ready == IF s.alloc > 0 /\ s.on THEN s.queued ELSE {}
           Without(i) == [s EXCEPT !.queued = @ \ {i}]
<1>1. out = Outcome(s, -1, 0) \/ \E i \in Ready : out = Outcome(Without(i), i + 1, 0)
  BY Zenon DEF deviceStreamPullBuffer
<1>2. CASE out = Outcome(s, -1, 0)
  BY <1>2, OutcomeKeeps
<1>3. ASSUME NEW i \in Ready, out = Outcome(Without(i), i + 1, 0)
      PROVE  Keeps(out, f)
  <2> DEFINE t == Without(i)
  <2>1. Coherent(t, f)
    BY DEF Coherent, Stream, Fields, States
  <2>2. out = Outcome(t, i + 1, 0)
    BY <1>3
  <2> HIDE DEF t
  <2> QED BY <2>1, <2>2, OutcomeKeeps
<1> QED BY <1>1, <1>2, <1>3, Zenon

LEMMA PushKeeps ==
  ASSUME NEW f \in Nat, NEW s, Coherent(s, f), s.state = "STREAMING", NEW i \in 0..s.count-1,
         NEW out \in deviceStreamPushBuffer(s, i)
  PROVE  Keeps(out, f)
<1> DEFINE t == [s EXCEPT !.queued = @ \cup {i}]
<1>1. \/ out = Outcome(s, -EIO, 0)
      \/ out = Outcome(s, 22, 0)
      \/ out = Outcome(s, EIO, 1)
      \/ ~(i >= s.made) /\ out = Outcome(t, 0, 0)
  BY Zenon DEF deviceStreamPushBuffer
<1>2. CASE out = Outcome(s, -EIO, 0)
  BY <1>2, OutcomeKeeps
<1>3. CASE out = Outcome(s, 22, 0)
  BY <1>3, OutcomeKeeps
<1>4. CASE out = Outcome(s, EIO, 1)
  BY <1>4, OutcomeKeeps
<1>5. CASE ~(i >= s.made) /\ out = Outcome(t, 0, 0)
  <2>1. Coherent(t, f)
    BY <1>5 DEF Coherent, Stream, Fields, States
  <2> HIDE DEF t
  <2> QED BY <1>5, <2>1, OutcomeKeeps
<1> QED BY <1>1, <1>2, <1>3, <1>4, <1>5, Zenon
=====================================================================================
