------------------------------- MODULE PumpProofs -------------------------------
(***************************************************************************)
(* Proofs about Pump, for every number of buffers, in whatever order the     *)
(* destination finishes them and whichever ioctls fail: the buffers' custody *)
(* first, then that the pump implements the relay of frames.                 *)
(***************************************************************************)
EXTENDS Pump, SequenceTheorems, FiniteSetTheorems, TLAPS

USE SrcCountAssumption, DstCountAssumption, InOrderAssumption,
    MaxFramesAssumption, MaxFaultsAssumption

-----------------------------------------------------------------------------
(* Lemmas about the sequences *)

(* Appending adds one element to the range. *)
LEMMA RangeAppend ==
  ASSUME NEW S, NEW q \in Seq(S), NEW e \in S
  PROVE  Range(Append(q, e)) = Range(q) \cup {e}
<1>1. DOMAIN Append(q, e) = 1..Len(q) + 1 /\ DOMAIN q = 1..Len(q)
  BY AppendProperties
<1>2. \A i \in 1..Len(q) : Append(q, e)[i] = q[i]
  BY AppendProperties
<1>3. Append(q, e)[Len(q) + 1] = e
  BY AppendProperties
<1> QED BY <1>1, <1>2, <1>3 DEF Range

(* Appending an element that is not in an injective sequence keeps it so. *)
LEMMA InjectiveAppend ==
  ASSUME NEW S, NEW q \in Seq(S), NEW e \in S, IsInjective(q), e \notin Range(q)
  PROVE  IsInjective(Append(q, e))
<1>1. DOMAIN Append(q, e) = 1..Len(q) + 1 /\ DOMAIN q = 1..Len(q)
  BY AppendProperties
<1>2. \A i \in 1..Len(q) : Append(q, e)[i] = q[i] /\ q[i] # e
  BY AppendProperties, <1>1 DEF Range
<1>3. Append(q, e)[Len(q) + 1] = e
  BY AppendProperties
<1> QED BY <1>1, <1>2, <1>3 DEF IsInjective

(* Taking the head leaves the other elements, in an injective sequence        *)
(* without the head.                                                          *)
LEMMA RangeTail ==
  ASSUME NEW S, NEW q \in Seq(S), q # << >>, IsInjective(q)
  PROVE  /\ Range(Tail(q)) = Range(q) \ {Head(q)}
         /\ Head(q) \in Range(q)
         /\ IsInjective(Tail(q))
<1>1. /\ Len(q) \in Nat \ {0} /\ Len(Tail(q)) = Len(q) - 1
      /\ DOMAIN q = 1..Len(q) /\ DOMAIN Tail(q) = 1..Len(q) - 1
      /\ \A i \in 1..Len(q) - 1 : Tail(q)[i] = q[i + 1]
  BY HeadTailProperties, EmptySeq
<1>2. Head(q) = q[1]
  BY HeadTailProperties
<1>3. Head(q) \in Range(q)
  BY <1>1, <1>2 DEF Range
<1>4. IsInjective(Tail(q))
  BY <1>1 DEF IsInjective
<1>5. \A x \in Range(Tail(q)) : x \in Range(q) \ {Head(q)}
  BY <1>1, <1>2 DEF Range, IsInjective
<1>6. ASSUME NEW x \in Range(q) \ {Head(q)}
      PROVE  x \in Range(Tail(q))
  <2>1. PICK i \in 1..Len(q) : x = q[i] /\ i # 1
    BY <1>1, <1>2, <1>6 DEF Range
  <2>2. i - 1 \in 1..Len(q) - 1 /\ Tail(q)[i - 1] = x
    BY <1>1, <2>1
  <2> QED BY <1>1, <2>2 DEF Range
<1> QED BY <1>3, <1>4, <1>5, <1>6

(* Moving an element forward permutes the sequence. *)
LEMMA MoveToPermutes ==
  ASSUME NEW S, NEW q \in Seq(S), NEW k \in 1..Len(q), NEW i \in 1..k
  PROVE  /\ MoveTo(q, k, i) \in Seq(S)
         /\ Len(MoveTo(q, k, i)) = Len(q)
         /\ Range(MoveTo(q, k, i)) = Range(q)
         /\ IsInjective(q) => IsInjective(MoveTo(q, k, i))
<1> DEFINE m == MoveTo(q, k, i)
<1>0. Len(q) \in Nat /\ DOMAIN q = 1..Len(q) /\ \A j \in 1..Len(q) : q[j] \in S
  OBVIOUS
<1>1. m = [j \in 1..Len(q) |-> IF j = i THEN q[k]
                               ELSE IF i < j /\ j <= k THEN q[j - 1] ELSE q[j]]
  BY DEF MoveTo
<1>2. \A j \in 1..Len(q) : m[j] \in S
  BY <1>0, <1>1
<1>3. m \in Seq(S) /\ Len(m) = Len(q)
  BY <1>0, <1>1, <1>2, SeqDef
<1>4. Range(m) \subseteq Range(q)
  BY <1>0, <1>1 DEF Range
<1>5. ASSUME NEW j \in 1..Len(q)
      PROVE  q[j] \in Range(m)
  <2>1. CASE j = k
    BY <1>1, <2>1 DEF Range
  <2>2. CASE i <= j /\ j < k
    <3>1. j + 1 \in 1..Len(q) /\ m[j + 1] = q[j]
      BY <1>0, <1>1, <2>2
    <3> QED BY <1>1, <3>1 DEF Range
  <2>3. CASE j < i \/ k < j
    <3>1. m[j] = q[j]
      BY <1>0, <1>1, <2>3
    <3> QED BY <1>1, <3>1 DEF Range
  <2> QED BY <1>0, <2>1, <2>2, <2>3
<1>6. Range(q) \subseteq Range(m)
  BY <1>0, <1>5 DEF Range
<1>7. ASSUME IsInjective(q)
      PROVE  IsInjective(m)
  BY <1>0, <1>1, <1>7 DEF IsInjective
<1> QED BY <1>3, <1>4, <1>6, <1>7

-----------------------------------------------------------------------------
(* Lemmas about `available`, which pumpCreate fills and nothing empties *)

(* A push of pumpCreate writes the next index into the next slot.             *)
LEMMA AvailableFills ==
  ASSUME available.size \in 0..DstCount, available = Filling(available.size),
         queueGetFree(available) > 0
  PROVE  LET q == queuePush(available, queueGetSize(available))
         IN  q.size = available.size + 1 /\ q.size \in 0..DstCount /\ q = Filling(q.size)
<1> DEFINE n == available.size
<1>1. /\ available = [data |-> [i \in Dst |-> IF i < n THEN i ELSE None], size |-> n,
                      capacity |-> DstCount, front |-> 0]
      /\ n \in 0..DstCount - 1
  BY DEF Filling, queueGetFree
<1>2. (0 + n) % DstCount = n /\ n \in Dst
  BY <1>1 DEF Dst
<1>3. queuePush(available, n) =
        [data |-> [[i \in Dst |-> IF i < n THEN i ELSE None] EXCEPT ![n] = n],
         size |-> n + 1, capacity |-> DstCount, front |-> 0]
  <2>1. /\ available.size = n /\ available.capacity = DstCount /\ available.front = 0
        /\ available.data = [i \in Dst |-> IF i < n THEN i ELSE None]
    BY <1>1
  <2>2. available.size # available.capacity /\ (available.front + n) % available.capacity = n
    BY <1>1, <1>2, <2>1
  <2>3. queuePush(available, n) = [available EXCEPT !.data[n] = n, !.size = n + 1]
    BY <2>1, <2>2 DEF queuePush
  <2> HIDE DEF n
  <2> QED BY <1>1, <2>3
<1>4. [[i \in Dst |-> IF i < n THEN i ELSE None] EXCEPT ![n] = n]
        = [i \in Dst |-> IF i < n + 1 THEN i ELSE None]
  BY <1>1 DEF Dst
<1> QED BY <1>1, <1>3, <1>4 DEF Filling, queueGetSize

(* Once every index is pushed it is full.                                     *)
LEMMA AvailableFilled ==
  ASSUME available.size \in 0..DstCount, available = Filling(available.size),
         queueGetFree(available) = 0
  PROVE  available.front \in Dst /\ available = AllAvailable(available.front)
<1>1. available.size = DstCount
  BY DEF Filling, queueGetFree
<1>2. available = [data |-> [i \in Dst |-> IF i < DstCount THEN i ELSE None],
                   size |-> DstCount, capacity |-> DstCount, front |-> 0]
  BY <1>1 DEF Filling
<1>3. [i \in Dst |-> IF i < DstCount THEN i ELSE None] = [i \in Dst |-> i]
  BY DEF Dst
<1> QED BY <1>2, <1>3 DEF AllAvailable, Dst

LEMMA ModStep ==
  ASSUME NEW f \in Dst
  PROVE  (f + 1) % DstCount = IF f + 1 = DstCount THEN 0 ELSE f + 1
BY DEF Dst

(* The oldest entry is the buffer at `front`, and a pop only moves `front`.   *)
LEMMA AvailableRotates ==
  ASSUME available = AllAvailable(available.front),
         available.front \in Dst
  PROVE  /\ DstIndex = available.front
         /\ queueGetSize(available) = DstCount
         /\ queuePop(available).front = (available.front + 1) % DstCount
         /\ queuePop(available).front \in Dst
         /\ queuePop(available) = AllAvailable(queuePop(available).front)
<1>1. /\ available.size = DstCount /\ available.capacity = DstCount
      /\ available.data = [i \in Dst |-> i]
  BY DEF AllAvailable
<1>2. DstIndex = available.front
  BY <1>1 DEF DstIndex, queuePeek
<1>3. queuePop(available) =
        [available EXCEPT !.front = (available.front + 1) % DstCount]
  BY <1>1 DEF queuePop
<1>4. (available.front + 1) % DstCount \in Dst
  BY ModStep DEF Dst
<1> QED BY <1>1, <1>2, <1>3, <1>4 DEF queueGetSize, AllAvailable

-----------------------------------------------------------------------------
(* Type correctness *)

LEMMA InitTypeOK == Init => TypeOK
<1> SUFFICES ASSUME Init PROVE TypeOK
  OBVIOUS
<1>1. srcQ \in Seq(Src) /\ Len(srcQ) = SrcCount
  BY SeqDef DEF Init, Src
<1>2. available = Filling(available.size) /\ available.size \in 0..DstCount
  <2>1. available = [data |-> [i \in Dst |-> None], size |-> 0, capacity |-> DstCount, front |-> 0]
    BY DEF Init, queueInit, Dst
  <2>2. [i \in Dst |-> None] = [i \in Dst |-> IF i < 0 THEN i ELSE None]
    BY DEF Dst
  <2> QED BY <2>1, <2>2 DEF Filling
<1> QED BY <1>1, <1>2 DEF Init, TypeOK, AvailableOK, Src, Dst, None

LEMMA NextTypeOK == TypeOK /\ [Next]_vars => TypeOK'
<1> SUFFICES ASSUME TypeOK, [Next]_vars PROVE TypeOK'
  OBVIOUS
<1> USE DEF TypeOK, AvailableOK, driverVars, historyVars, pumpVars, None
<1>1. CASE SrcFill
  BY <1>1 DEF SrcFill
<1>2. ASSUME NEW k \in Dst, DstFinish(k + 1)
      PROVE  TypeOK'
  <2>1. k + 1 \in 1..Len(dstQ) /\ dstDone + 1 \in 1..k + 1
    BY <1>2 DEF DstFinish, Dst
  <2>2. dstQ' \in Seq(Dst) /\ Len(dstQ') = Len(dstQ)
    BY <1>2, <2>1, MoveToPermutes DEF DstFinish
  <2> QED BY <1>2, <2>1, <2>2 DEF DstFinish
<1>3. CASE Call
  BY <1>3 DEF Call
<1>4. CASE PullDst
  <2>1. Head(dstQ) \in Dst /\ Tail(dstQ) \in Seq(Dst) /\ Len(Tail(dstQ)) = Len(dstQ) - 1
    BY <1>4, HeadTailProperties, EmptySeq DEF PullDst
  <2> QED BY <1>4, <2>1 DEF PullDst
<1>5. CASE PullDstNone
  BY <1>5 DEF PullDstNone
<1>6. CASE ReturnSource
  <2>1. pulled \in Dst /\ acquired[pulled] \in Src
    BY <1>6 DEF ReturnSource
  <2>2. /\ Append(srcQ, acquired[pulled]) \in Seq(Src)
        /\ Len(Append(srcQ, acquired[pulled])) = Len(srcQ) + 1
    BY <2>1, AppendProperties
  <2> QED BY <1>6, <2>1, <2>2 DEF ReturnSource, QbufSucceeds
<1>6f. CASE ReturnSourceFailed
  BY <1>6f DEF ReturnSourceFailed, QbufFails
<1>7. CASE PullSrcFirst
  <2>1. Head(srcQ) \in Src /\ Tail(srcQ) \in Seq(Src) /\ Len(Tail(srcQ)) = Len(srcQ) - 1
    BY <1>7, HeadTailProperties, EmptySeq DEF PullSrcFirst
  <2> QED BY <1>7, <2>1 DEF PullSrcFirst
<1>8. CASE PullSrcNewer
  <2>1. Head(srcQ) \in Src /\ Tail(srcQ) \in Seq(Src) /\ Len(Tail(srcQ)) = Len(srcQ) - 1
    BY <1>8, HeadTailProperties, EmptySeq DEF PullSrcNewer
  <2> QED BY <1>8, <2>1 DEF PullSrcNewer, Src
<1>9. CASE SkipOlder
  <2>1. /\ Append(srcQ, nextInQueue) \in Seq(Src)
        /\ Len(Append(srcQ, nextInQueue)) = Len(srcQ) + 1
    BY <1>9, AppendProperties DEF SkipOlder
  <2> QED BY <1>9, <2>1 DEF SkipOlder, QbufSucceeds
<1>9f. CASE SkipFailed
  BY <1>9f DEF SkipFailed, QbufFails
<1>10. CASE PullSrcNone
  BY <1>10 DEF PullSrcNone
<1>11. CASE PassNothing
  BY <1>11 DEF PassNothing
<1>12. CASE Pass
  <2>1. DstIndex \in Dst /\ nextInQueue \in Src
    BY <1>12, AvailableRotates DEF Pass, CanPass, AvailableOK
  <2>2. /\ Append(dstQ, DstIndex) \in Seq(Dst)
        /\ Len(Append(dstQ, DstIndex)) = Len(dstQ) + 1
    BY <2>1, AppendProperties
  <2>3. /\ available' = AllAvailable(available'.front)
        /\ available'.front \in Dst
    <3>1. available.front \in Dst /\ available = AllAvailable(available.front)
      BY <1>12 DEF Pass, CanPass
    <3>2. available' = queuePop(available)
      BY <1>12 DEF Pass
    <3> HIDE DEF TypeOK, AvailableOK
    <3> QED BY <3>1, <3>2, AvailableRotates
  <2> QED BY <1>12, <2>1, <2>2, <2>3 DEF Pass, CanPass, QbufSucceeds
<1>13. CASE PassFailed
  BY <1>13 DEF PassFailed, CanPass, QbufFails
<1>14. CASE Push
  BY <1>14, AvailableFills DEF Push
<1>15. CASE Created
  BY <1>15, AvailableFilled DEF Created
<1>16. CASE UNCHANGED vars
  BY <1>16 DEF vars
<1> QED
  BY <1>1, <1>2, <1>3, <1>4, <1>5, <1>6, <1>6f, <1>7, <1>8, <1>9, <1>9f, <1>10, <1>11, <1>12,
     <1>13, <1>14, <1>15, <1>16 DEF pumpCreate, Next, pumpPump, Drivers

(* Every behaviour of the pump is type correct: no step makes it index a      *)
(* buffer that does not exist, whatever the numbers of buffers.               *)
THEOREM TypeCorrect == Spec => []TypeOK
<1>1. Init => TypeOK
  BY InitTypeOK
<1>2. TypeOK /\ [Next]_vars => TypeOK'
  BY NextTypeOK
<1> QED BY <1>1, <1>2, PTL DEF Spec

-----------------------------------------------------------------------------
(* Custody: who has which buffer *)

Custody == TypeOK /\ OneHolder /\ LoansRecorded

LEMMA InitCustody == Init => Custody
<1> SUFFICES ASSUME Init PROVE Custody
  OBVIOUS
<1>1. TypeOK
  BY InitTypeOK
<1>2. DOMAIN srcQ = 1..SrcCount /\ \A i \in 1..SrcCount : srcQ[i] = i - 1
  BY DEF Init
<1>3. IsInjective(srcQ)
  BY <1>2 DEF IsInjective
<1>4. InSink = {} /\ IsInjective(dstQ)
  BY DEF Init, InSink, Range, IsInjective
<1>5. OnLoan = {} /\ Held = {} /\ Lent = {}
  BY <1>4 DEF Init, OnLoan, Held, Lent, None
<1> QED
  BY <1>1, <1>3, <1>4, <1>5 DEF Custody, OneHolder, LoansRecorded, Init

(* The steps that leave the queues and the map alone keep custody as long as *)
(* they neither take up nor put down a buffer.                               *)
LEMMA CustodyFrame ==
  ASSUME Custody, TypeOK', UNCHANGED <<srcQ, dstQ, attached, acquired, nextInQueue, pulled>>,
         pc \notin {"returnSrc", "skip"}, pc' \notin {"returnSrc", "skip"}
  PROVE  Custody'
<1>1. /\ InSource' = InSource /\ InSink' = InSink /\ OnLoan' = OnLoan
      /\ Held' = Held /\ Lent' = Lent
  BY DEF InSource, InSink, OnLoan, Held, Lent, Custody, TypeOK
<1> QED BY <1>1 DEF Custody, OneHolder, LoansRecorded

(* Clearing one entry of a map without repeated values takes exactly that    *)
(* entry's value out of its range: what the return of a lent buffer does to   *)
(* acquired.                                                                  *)
LentBy(a) == {a[d] : d \in {e \in Dst : a[e] # None}}

(* The map b is a with the entry of p cleared. *)
Cleared(a, b, p) ==
  /\ a \in [Dst -> Src \cup {None}] /\ p \in Dst /\ b = [a EXCEPT ![p] = None]
  /\ \A d, e \in Dst : a[d] # None /\ a[d] = a[e] => d = e

LEMMA LoanCleared ==
  ASSUME NEW a, NEW b, NEW p, Cleared(a, b, p)
  PROVE  LentBy(b) = LentBy(a) \ {a[p]}
<1>0. /\ a \in [Dst -> Src \cup {None}] /\ p \in Dst /\ b = [a EXCEPT ![p] = None]
      /\ \A d, e \in Dst : a[d] # None /\ a[d] = a[e] => d = e
  BY DEF Cleared
<1>1. b[p] = None /\ \A d \in Dst \ {p} : b[d] = a[d]
  BY <1>0
<1>2. \A d \in Dst : b[d] # None <=> a[d] # None /\ d # p
  BY <1>0, <1>1
<1>3. \A d \in Dst : a[d] # None /\ d # p => a[d] # a[p]
  BY <1>0
<1>4. ASSUME NEW x \in LentBy(b)
      PROVE  x \in LentBy(a) \ {a[p]}
  <2>1. PICK d \in Dst : b[d] # None /\ x = b[d]
    BY DEF LentBy
  <2>2. d # p /\ a[d] # None /\ x = a[d] /\ x # a[p]
    BY <1>1, <1>2, <1>3, <2>1
  <2> QED BY <2>2 DEF LentBy
<1>5. ASSUME NEW x \in LentBy(a) \ {a[p]}
      PROVE  x \in LentBy(b)
  <2>1. PICK d \in Dst : a[d] # None /\ x = a[d] /\ x # a[p]
    BY DEF LentBy
  <2>2. d # p /\ b[d] # None /\ x = b[d]
    BY <1>1, <1>2, <2>1
  <2> QED BY <2>2 DEF LentBy
<1> QED BY <1>4, <1>5

LEMMA NextCustody == Custody /\ [Next]_vars => Custody'
<1> SUFFICES ASSUME Custody, [Next]_vars PROVE Custody'
  OBVIOUS
<1>0. TypeOK /\ TypeOK' /\ OneHolder /\ LoansRecorded
  BY NextTypeOK DEF Custody
<1> USE <1>0 DEF TypeOK, driverVars, historyVars, pumpVars
<1>1. CASE SrcFill
  <2>1. /\ InSource' = InSource /\ InSink' = InSink /\ OnLoan' = OnLoan
        /\ Held' = Held /\ Lent' = Lent
    BY <1>1 DEF SrcFill, InSource, InSink, OnLoan, Held, Lent
  <2> QED BY <1>1, <2>1 DEF SrcFill, Custody, OneHolder, LoansRecorded
<1>2. ASSUME NEW k \in Dst, DstFinish(k + 1)
      PROVE  Custody'
  <2>1. k + 1 \in 1..Len(dstQ) /\ dstDone + 1 \in 1..k + 1
    BY <1>2 DEF DstFinish, Dst
  <2>2. InSink' = InSink /\ (IsInjective(dstQ) => IsInjective(dstQ'))
    BY <1>2, <2>1, MoveToPermutes DEF DstFinish, InSink
  <2>3. /\ InSource' = InSource /\ OnLoan' = OnLoan
        /\ Held' = Held /\ Lent' = Lent
    BY <1>2, <2>2 DEF DstFinish, InSource, OnLoan, Held, Lent
  <2> QED BY <1>2, <2>2, <2>3 DEF DstFinish, Custody, OneHolder, LoansRecorded
<1>3. CASE Call
  BY <1>3, CustodyFrame DEF Call
<1>4. CASE PullDst
  <2>1. dstQ # << >> /\ IsInjective(dstQ)
    BY <1>4, EmptySeq DEF PullDst, OneHolder
  <2>2. /\ InSink' = InSink \ {Head(dstQ)} /\ Head(dstQ) \in InSink
        /\ IsInjective(dstQ')
    BY <1>4, <2>1, RangeTail DEF PullDst, InSink
  <2>3. Lent' = Lent
    BY <1>4, <2>2 DEF PullDst, Lent
  <2>4. InSource' = InSource /\ OnLoan' = OnLoan /\ Held' = Held
    BY <1>4 DEF PullDst, InSource, OnLoan, Held, None
  <2> QED BY <1>4, <2>2, <2>3, <2>4 DEF PullDst, Custody, OneHolder, LoansRecorded
<1>5. CASE PullDstNone
  BY <1>5, CustodyFrame DEF PullDstNone
<1>6. CASE ReturnSource \/ ReturnSourceFailed
  <2> DEFINE s == acquired[pulled]
  <2>1. pulled \in Dst /\ s \in Src /\ s \in OnLoan /\ s # None
    BY <1>6 DEF ReturnSource, ReturnSourceFailed, OnLoan, None, Src
  <2>2. InSource' \subseteq InSource \cup {s} /\ IsInjective(srcQ')
    <3>1. CASE ReturnSource
      BY <2>1, <3>1, RangeAppend, InjectiveAppend
      DEF ReturnSource, QbufSucceeds, InSource, OneHolder
    <3>2. CASE ReturnSourceFailed
      BY <3>2 DEF ReturnSourceFailed, InSource, OneHolder
    <3> QED BY <1>6, <3>1, <3>2
  <2>3. /\ acquired' = [acquired EXCEPT ![pulled] = None] /\ pulled' = None
        /\ pc = "returnSrc" /\ pc' \notin {"returnSrc", "skip"}
        /\ UNCHANGED <<dstQ, attached, nextInQueue>>
    BY <1>6 DEF ReturnSource, ReturnSourceFailed
  <2>4. OnLoan' = OnLoan \ {s}
    <3>1. acquired \in [Dst -> Src \cup {None}]
      OBVIOUS
    <3>2. \A d, e \in Dst : acquired[d] # None /\ acquired[d] = acquired[e] => d = e
      BY DEF OneHolder
    <3>3. Cleared(acquired, acquired', pulled)
      BY <2>1, <2>3, <3>1, <3>2 DEF Cleared
    <3>4. LentBy(acquired') = LentBy(acquired) \ {acquired[pulled]}
      BY <3>3, LoanCleared
    <3>5. OnLoan = LentBy(acquired) /\ OnLoan' = LentBy(acquired')
      BY DEF OnLoan, LentBy
    <3> QED BY <3>4, <3>5
  <2>5. InSink' = InSink /\ Held' = Held
    BY <2>3 DEF InSink, Held, None
  <2>6. Lent' = InSink /\ Lent = InSink \cup {pulled}
    BY <2>3, <2>5 DEF Lent
  <2>7. OneHolder'
    BY <2>1, <2>2, <2>3, <2>4, <2>5 DEF OneHolder
  <2>8. LoansRecorded'
    BY <2>1, <2>3, <2>5, <2>6 DEF LoansRecorded, OneHolder, InSink
  <2> QED BY <2>7, <2>8 DEF Custody
<1>7. CASE PullSrcFirst
  <2>1. srcQ # << >> /\ IsInjective(srcQ)
    BY <1>7, EmptySeq DEF PullSrcFirst, OneHolder
  <2>2. /\ InSource' = InSource \ {Head(srcQ)} /\ Head(srcQ) \in InSource
        /\ IsInjective(srcQ')
    BY <1>7, <2>1, RangeTail DEF PullSrcFirst, InSource
  <2>3. InSink' = InSink /\ OnLoan' = OnLoan /\ Lent' = Lent
    BY <1>7 DEF PullSrcFirst, InSink, OnLoan, Lent
  <2>4. Head(srcQ) \in Src
    BY <1>7, <2>1 DEF PullSrcFirst
  <2>5. Held' = {Head(srcQ)}
    <3>1. nextInQueue' = Head(srcQ) /\ nextInQueue' # None /\ pc' # "skip"
      BY <1>7, <2>4 DEF PullSrcFirst, None, Src
    <3> QED BY <3>1 DEF Held
  <2> QED BY <1>7, <2>2, <2>3, <2>5 DEF PullSrcFirst, Custody, OneHolder, LoansRecorded
<1>8. CASE PullSrcNewer
  <2>1. srcQ # << >> /\ IsInjective(srcQ)
    BY <1>8, EmptySeq DEF PullSrcNewer, OneHolder
  <2>2. /\ InSource' = InSource \ {Head(srcQ)} /\ Head(srcQ) \in InSource
        /\ IsInjective(srcQ')
    BY <1>8, <2>1, RangeTail DEF PullSrcNewer, InSource
  <2>3. nextInQueue # None /\ Held = {nextInQueue} /\ Held' = {nextInQueue, Head(srcQ)}
    BY <1>8 DEF PullSrcNewer, Held, None
  <2>4. InSink' = InSink /\ OnLoan' = OnLoan /\ Lent' = Lent
    BY <1>8 DEF PullSrcNewer, InSink, OnLoan, Lent
  <2> QED BY <1>8, <2>2, <2>3, <2>4 DEF PullSrcNewer, Custody, OneHolder, LoansRecorded
<1>9. CASE SkipOlder
  <2>1. Held = {nextInQueue, pulled} /\ nextInQueue \in Src
    BY <1>9 DEF SkipOlder, Held, None, Src
  <2>2. InSource' = InSource \cup {nextInQueue} /\ IsInjective(srcQ')
    BY <1>9, <2>1, RangeAppend, InjectiveAppend
    DEF SkipOlder, QbufSucceeds, InSource, OneHolder
  <2>3. InSink' = InSink /\ OnLoan' = OnLoan /\ Lent' = Lent /\ Held' = {pulled}
    BY <1>9, <2>1 DEF SkipOlder, InSink, OnLoan, Held, Lent, None, Src
  <2> QED BY <1>9, <2>1, <2>2, <2>3 DEF SkipOlder, Custody, OneHolder, LoansRecorded
<1>10. CASE SkipFailed
  <2>1. InSource' = InSource /\ InSink' = InSink /\ OnLoan' = OnLoan /\ Lent' = Lent
        /\ Held' \subseteq Held
    BY <1>10 DEF SkipFailed, InSource, InSink, OnLoan, Held, Lent, None
  <2> QED BY <1>10, <2>1 DEF SkipFailed, Custody, OneHolder, LoansRecorded
<1>11. CASE PullSrcNone
  BY <1>11, CustodyFrame DEF PullSrcNone
<1>12. CASE PassNothing
  BY <1>12, CustodyFrame DEF PassNothing
<1>13. CASE Pass
  <2> DEFINE d == DstIndex
  <2>1. d \in Dst /\ nextInQueue \in Src /\ d \notin InSink
    <3>1. d \in Dst
      BY <1>13, AvailableRotates DEF Pass, CanPass, AvailableOK
    <3>2. nextInQueue \in Src
      BY <1>13 DEF Pass, CanPass, None
    <3> QED BY <1>13, <3>1, <3>2 DEF Pass, QbufSucceeds, InSink
  <2>2. InSink' = InSink \cup {d} /\ IsInjective(dstQ')
    BY <1>13, <2>1, RangeAppend, InjectiveAppend DEF Pass, InSink, OneHolder
  <2>3. Lent = InSink /\ Lent' = InSink' /\ acquired[d] = None
    BY <1>13, <2>1, <2>2 DEF Pass, CanPass, Lent, LoansRecorded
  <2>4. OnLoan' = OnLoan \cup {nextInQueue}
    BY <1>13, <2>1, <2>3 DEF Pass, OnLoan, None, Src
  <2>5. InSource' = InSource /\ Held = {nextInQueue} /\ Held' = {}
    BY <1>13, <2>1 DEF Pass, CanPass, InSource, Held, None, Src
  <2>6. OneHolder'
    <3>1. nextInQueue \notin OnLoan /\ nextInQueue \notin InSource
      BY <2>5 DEF OneHolder
    <3>2. \A e \in Dst : acquired[e] # nextInQueue
      <4> SUFFICES ASSUME NEW e \in Dst, acquired[e] = nextInQueue PROVE FALSE
        OBVIOUS
      <4>1. acquired[e] # None
        BY <2>1 DEF None, Src
      <4> QED BY <3>1, <4>1 DEF OnLoan
    <3> QED BY <1>13, <2>1, <2>2, <2>4, <2>5, <3>1, <3>2 DEF Pass, CanPass, OneHolder, InSource
  <2>7. LoansRecorded'
    BY <1>13, <2>1, <2>2, <2>3 DEF Pass, LoansRecorded, None, Src
  <2> QED BY <2>6, <2>7 DEF Custody
<1>14. CASE PassFailed
  BY <1>14, CustodyFrame DEF PassFailed, CanPass
<1>15. CASE UNCHANGED vars
  <2>1. /\ InSource' = InSource /\ InSink' = InSink /\ OnLoan' = OnLoan
        /\ Held' = Held /\ Lent' = Lent
    BY <1>15 DEF vars, InSource, InSink, OnLoan, Held, Lent
  <2> QED BY <1>15, <2>1 DEF vars, Custody, OneHolder, LoansRecorded
<1>16. CASE pumpCreate
  BY <1>16, CustodyFrame DEF pumpCreate, Push, Created
<1> QED
  BY <1>16, <1>1, <1>2, <1>3, <1>4, <1>5, <1>6, <1>7, <1>8, <1>9, <1>10, <1>11, <1>12,
     <1>13, <1>14, <1>15 DEF Next, pumpPump, Drivers

(* No buffer is ever in two places: for every number of buffers, every order  *)
(* of completion and every pattern of failing QBUFs.                          *)
THEOREM CustodyHolds == Spec => []OneHolder
<1>1. Init => Custody
  BY InitCustody
<1>2. Custody /\ [Next]_vars => Custody'
  BY NextCustody
<1>3. Custody => OneHolder
  BY DEF Custody
<1> QED BY <1>1, <1>2, <1>3, PTL DEF Spec

(* acquired_to_source (pump.h:19) tells the truth about every buffer of the   *)
(* destination.                                                               *)
THEOREM LoansKept == Spec => []LoansRecorded
<1>1. Init => Custody
  BY InitCustody
<1>2. Custody /\ [Next]_vars => Custody'
  BY NextCustody
<1>3. Custody => LoansRecorded
  BY DEF Custody
<1> QED BY <1>1, <1>2, <1>3, PTL DEF Spec

(* The ASSERTs of pumpPump never abort the program (pump.c:233, 305).         *)
THEOREM AssertsNeverFail == Spec => []AssertsHold
<1>1. Custody => AssertsHold
  <2> SUFFICES ASSUME Custody PROVE AssertsHold
    OBVIOUS
  <2>1. SourceIndexAssert
    BY DEF Custody, TypeOK, LoansRecorded, Lent, SourceIndexAssert, None, Src
  <2>2. CanPass => DstIndex \in Dst /\ Lent = InSink
    BY AvailableRotates DEF Custody, TypeOK, AvailableOK, CanPass, Lent
  <2> QED BY <2>1, <2>2 DEF AssertsHold, Custody, LoansRecorded
<1>2. Init => Custody
  BY InitCustody
<1>3. Custody /\ [Next]_vars => Custody'
  BY NextCustody
<1> QED BY <1>1, <1>2, <1>3, PTL DEF Spec

(* A frame is never overwritten while the destination reads it.               *)
THEOREM NeverTorn == Spec => NoTearing
<1>1. Custody /\ [Next]_vars
      => [\A s \in Src : frame'[s] # frame[s] => s \notin SinkReads]_vars
  <2> SUFFICES ASSUME Custody, Next, NEW s \in Src, frame'[s] # frame[s]
               PROVE  s \notin SinkReads
    OBVIOUS
  <2>1. SrcFill
    BY DEF Next, pumpCreate, Push, Created, pumpPump, Drivers, Call, PullDst, PullDstNone,
       ReturnSource, ReturnSourceFailed, PullSrcFirst, PullSrcNewer, SkipOlder, SkipFailed,
       PullSrcNone, PassNothing, Pass, PassFailed, DstFinish, historyVars
  <2>2. s = srcQ[srcDone + 1] /\ srcDone + 1 \in 1..Len(srcQ)
    BY <2>1 DEF SrcFill, Custody, TypeOK
  <2>3. s \in InSource
    BY <2>2 DEF Custody, TypeOK, InSource, Range
  <2>4. SinkReads \subseteq OnLoan
    BY DEF Custody, TypeOK, LoansRecorded, SinkReads, OnLoan, Lent, InSink, Range
  <2> QED BY <2>3, <2>4 DEF Custody, OneHolder
<1>2. Init => Custody
  BY InitCustody
<1>3. Custody /\ [Next]_vars => Custody'
  BY NextCustody
<1> QED BY <1>1, <1>2, <1>3, PTL DEF Spec, NoTearing

-----------------------------------------------------------------------------
(* The target of a pass is free: `available` is only a round-robin counter,   *)
(* so this needs the destination to finish in order and to have as many       *)
(* buffers as the source.  The buffers in the driver are then the ones just   *)
(* before `front`, in order.                                                  *)

(* The k-th index before f on a ring of DstCount                              *)
Before(f, k) == IF f >= k THEN f - k ELSE f - k + DstCount

RingInv ==
  /\ Len(dstQ) <= DstCount
  /\ \A i \in 1..Len(dstQ) : dstQ[i] = Before(available.front, Len(dstQ) - i + 1)

(* Moving an element to where it is changes nothing.                          *)
LEMMA MoveToSelf ==
  ASSUME NEW S, NEW q \in Seq(S), NEW k \in 1..Len(q)
  PROVE  MoveTo(q, k, k) = q
BY DEF MoveTo

(* One step of the counter moves every index one place further back.          *)
LEMMA BeforeStep ==
  ASSUME NEW f \in Dst, NEW k \in 1..DstCount - 1
  PROVE  Before((f + 1) % DstCount, k + 1) = Before(f, k)
BY ModStep DEF Before, Dst

LEMMA BeforeFirst ==
  ASSUME NEW f \in Dst
  PROVE  Before((f + 1) % DstCount, 1) = f
BY ModStep DEF Before, Dst

(* An index comes round to itself after the whole ring.                       *)
LEMMA BeforeItself ==
  ASSUME NEW f \in Dst, NEW k \in 1..DstCount, f = Before(f, k)
  PROVE  k = DstCount
BY DEF Before, Dst

LEMMA IntervalCardinality ==
  ASSUME NEW n \in Nat
  PROVE  Cardinality(1..n) = n
BY FS_Interval

LEMMA NextRingInv ==
  InOrder /\ Custody /\ RingInv /\ [Next]_vars => RingInv'
<1> SUFFICES ASSUME InOrder, Custody, RingInv, [Next]_vars PROVE RingInv'
  OBVIOUS
<1>0. /\ dstQ \in Seq(Dst) /\ Len(dstQ) \in Nat /\ dstDone \in 0..Len(dstQ)
      /\ pc # "create" => /\ available.front \in Dst
                          /\ available = AllAvailable(available.front)
      /\ IsInjective(dstQ)
  BY DEF Custody, TypeOK, AvailableOK, OneHolder
<1>1. ASSUME NEW k \in Dst, DstFinish(k + 1)
      PROVE  RingInv'
  <2>1. k + 1 = dstDone + 1 /\ k + 1 \in 1..Len(dstQ)
    BY <1>0, <1>1 DEF DstFinish, Dst
  <2>2. dstQ' = dstQ
    BY <1>0, <1>1, <2>1, MoveToSelf DEF DstFinish
  <2> QED BY <1>1, <2>2 DEF DstFinish, pumpVars, RingInv
<1>2. CASE PullDst
  <2>1. /\ dstQ' = Tail(dstQ) /\ Len(dstQ') = Len(dstQ) - 1
        /\ \A i \in 1..Len(dstQ) - 1 : dstQ'[i] = dstQ[i + 1]
    BY <1>0, <1>2, HeadTailProperties, EmptySeq DEF PullDst
  <2>2. available' = available
    BY <1>2 DEF PullDst
  <2> QED
    BY <1>0, <2>1, <2>2 DEF RingInv
<1>3. CASE Pass
  <2> DEFINE f == available.front
             n == Len(dstQ)
  <2>1. DstIndex = f /\ available'.front = (f + 1) % DstCount
    BY <1>0, <1>3, AvailableRotates DEF Pass, CanPass, AvailableOK
  <2>1a. f \in Dst
    BY <1>0, <1>3 DEF Pass, CanPass
  <2>2. /\ dstQ' = Append(dstQ, f) /\ Len(dstQ') = n + 1
        /\ dstQ'[n + 1] = f /\ \A i \in 1..n : dstQ'[i] = dstQ[i]
    BY <1>0, <1>3, <2>1, <2>1a, AppendProperties DEF Pass
  <2>3. n < DstCount
    <3>1. SUFFICES ASSUME n = DstCount PROVE FALSE
      BY <1>0 DEF RingInv
    <3>2. dstQ[1] = Before(f, DstCount)
      BY <1>0, <3>1 DEF RingInv
    <3>3. Before(f, DstCount) = f
      BY <2>1a DEF Before, Dst
    <3>4. f \in InSink
      BY <1>0, <3>1, <3>2, <3>3 DEF InSink, Range
    <3> QED BY <1>3, <2>1, <3>4 DEF Pass, QbufSucceeds, InSink
  <2>4. ASSUME NEW i \in 1..n
        PROVE  dstQ'[i] = Before(available'.front, (n + 1) - i + 1)
    <3>1. n - i + 1 \in 1..DstCount - 1
      BY <1>0, <2>3
    <3>2. dstQ'[i] = Before(f, n - i + 1)
      BY <2>2 DEF RingInv
    <3>3. Before((f + 1) % DstCount, (n - i + 1) + 1) = Before(f, n - i + 1)
      BY <2>1a, <3>1, BeforeStep
    <3> QED BY <1>0, <2>1, <3>2, <3>3
  <2>5. dstQ'[n + 1] = Before(available'.front, 1)
    BY <2>1, <2>1a, <2>2, BeforeFirst
  <2>6. \A i \in 1..n + 1 : dstQ'[i] = Before(available'.front, (n + 1) - i + 1)
    <3>1. n \in Nat /\ (n + 1) - (n + 1) + 1 = 1 /\ 1..n + 1 = (1..n) \cup {n + 1}
      BY <1>0
    <3> HIDE DEF n
    <3> QED BY <2>4, <2>5, <3>1
  <2> QED BY <1>0, <2>2, <2>3, <2>6 DEF RingInv
<1>4. CASE UNCHANGED <<dstQ, available>>
  BY <1>4 DEF RingInv
<1>6. CASE Push
  <2>1. available'.front = available.front /\ dstQ' = dstQ
    BY <1>6 DEF Push, queuePush, driverVars, Custody, TypeOK, AvailableOK, Filling
  <2> QED BY <2>1 DEF RingInv
<1>5. Push \/ PullDst \/ Pass \/ (\E k \in Dst : DstFinish(k + 1)) \/ UNCHANGED <<dstQ, available>>
  BY DEF Next, pumpCreate, Created, pumpPump, Drivers, Call, PullDstNone, ReturnSource,
     ReturnSourceFailed, PullSrcFirst, PullSrcNewer, SkipOlder, SkipFailed,
     PullSrcNone, PassNothing, PassFailed, SrcFill, vars, driverVars, historyVars, pumpVars
<1> QED BY <1>1, <1>2, <1>3, <1>4, <1>5, <1>6

(* While the pump holds a frame at least one source buffer is not on loan.    *)
LEMMA FewLoans ==
  ASSUME Custody, CanPass
  PROVE  Len(dstQ) < SrcCount
<1> DEFINE n == Len(dstQ)
           T == Src \ {nextInQueue}
           loan == [i \in 1..n |-> acquired[dstQ[i]]]
<1>0. /\ dstQ \in Seq(Dst) /\ n \in Nat /\ nextInQueue \in Src
      /\ IsInjective(dstQ) /\ DOMAIN dstQ = 1..n
  BY DEF Custody, TypeOK, OneHolder, CanPass, None
<1>1. \A i \in 1..n : dstQ[i] \in Dst /\ acquired[dstQ[i]] # None
  BY <1>0 DEF Custody, LoansRecorded, Lent, InSink, Range
<1>2. \A i \in 1..n : acquired[dstQ[i]] \in OnLoan \cap Src
  BY <1>1 DEF Custody, TypeOK, OnLoan
<1>3. nextInQueue \notin OnLoan
  BY <1>0 DEF Custody, OneHolder, Held, None, Src
<1>4. loan \in Injection(1..n, T)
  <2>1. loan \in [1..n -> T]
    BY <1>2, <1>3
  <2>2. IsInjective(loan)
    BY <1>0, <1>1 DEF IsInjective, Custody, OneHolder
  <2> QED BY <2>1, <2>2 DEF Injection
<1>5. IsFiniteSet(Src) /\ Cardinality(Src) = SrcCount
  BY FS_Interval DEF Src
<1>6. IsFiniteSet(T) /\ Cardinality(T) = SrcCount - 1
  BY <1>0, <1>5, FS_RemoveElement
<1>7. Cardinality(1..n) <= Cardinality(T)
  BY <1>4, <1>6, FS_Injection
<1>8. Cardinality(1..n) = n
  BY <1>0, IntervalCardinality
<1> QED BY <1>0, <1>6, <1>7, <1>8

(* With a destination that finishes in order and no fewer destination than    *)
(* source buffers, the buffer a pass fills is never one in flight: the size   *)
(* that queuePop forgets to decrease is then without effect on the pump.      *)
THEOREM TargetFree ==
  ASSUME InOrder, SrcCount <= DstCount
  PROVE  Spec => []PassTargetFree
<1>1. Custody /\ RingInv => PassTargetFree
  <2> SUFFICES ASSUME Custody, RingInv, CanPass, DstIndex \in InSink PROVE FALSE
    BY DEF PassTargetFree
  <2> DEFINE f == available.front
  <2>1. dstQ \in Seq(Dst) /\ Len(dstQ) \in Nat /\ f \in Dst /\ DstIndex = f
    BY AvailableRotates DEF Custody, TypeOK, AvailableOK, CanPass
  <2>2. PICK i \in 1..Len(dstQ) : dstQ[i] = f
    BY <2>1 DEF InSink, Range
  <2>3. f = Before(f, Len(dstQ) - i + 1)
    BY <2>2 DEF RingInv
  <2>4. Len(dstQ) - i + 1 \in 1..DstCount
    BY <2>1, <2>2 DEF RingInv
  <2>5. Len(dstQ) - i + 1 = DstCount
    BY <2>1, <2>3, <2>4, BeforeItself
  <2> QED BY <2>1, <2>2, <2>5, FewLoans
<1>2. Init => Custody /\ RingInv
  BY InitCustody DEF Init, RingInv
<1>3. Custody /\ RingInv /\ [Next]_vars => Custody' /\ RingInv'
  BY NextCustody, NextRingInv
<1> QED BY <1>1, <1>2, <1>3, PTL DEF Spec

-----------------------------------------------------------------------------
(* Only a failed QBUF loses a buffer                                          *)

InHand == InSource \cup OnLoan \cup Held

(* A step loses nothing, or it counts a fault and loses one buffer.           *)
LoseNothing == faults' = faults /\ InHand \subseteq InHand'
LoseOne == faults' = faults + 1 /\ \E s \in Src : InHand \subseteq InHand' \cup {s}

LEMMA StepLoses == Custody /\ [Next]_vars => LoseNothing \/ LoseOne
<1> SUFFICES ASSUME Custody, [Next]_vars PROVE LoseNothing \/ LoseOne
  OBVIOUS
<1>0. TypeOK /\ OneHolder /\ LoansRecorded
  BY DEF Custody
<1> USE <1>0 DEF TypeOK, driverVars, historyVars, pumpVars
<1>1. CASE SrcFill \/ (\E k \in Dst : DstFinish(k + 1)) \/ Call \/ PullDst
           \/ PullDstNone \/ PullSrcNone \/ PassNothing \/ Push \/ Created
  <2>1. /\ UNCHANGED <<srcQ, acquired, nextInQueue, faults>>
        /\ pc # "skip" \/ UNCHANGED <<pc, pulled>>
    BY <1>1 DEF SrcFill, DstFinish, Call, PullDst, PullDstNone, PullSrcNone, PassNothing,
               Push, Created
  <2> QED BY <2>1 DEF LoseNothing, InHand, InSource, OnLoan, Held
<1>2. CASE ReturnSource
  <2> DEFINE s == acquired[pulled]
  <2>1. pulled \in Dst /\ s \in Src /\ s # None
    BY <1>2 DEF ReturnSource, None, Src
  <2>2. InSource' = InSource \cup {s}
    BY <1>2, <2>1, RangeAppend DEF ReturnSource, InSource
  <2>3. OnLoan \subseteq OnLoan' \cup {s}
    BY <1>2, <2>1 DEF ReturnSource, OnLoan
  <2>4. Held' = Held
    BY <1>2 DEF ReturnSource, Held
  <2> QED BY <1>2, <2>2, <2>3, <2>4 DEF LoseNothing, InHand, ReturnSource, QbufSucceeds
<1>3. CASE ReturnSourceFailed
  <2> DEFINE s == acquired[pulled]
  <2>1. pulled \in Dst /\ s \in Src /\ s # None
    BY <1>3 DEF ReturnSourceFailed, None, Src
  <2>2. s \in OnLoan /\ s \notin Range(srcQ)
    BY <2>1 DEF OnLoan, OneHolder, InSource
  <2>3. OnLoan \subseteq OnLoan' \cup {s}
    BY <1>3, <2>1 DEF ReturnSourceFailed, OnLoan
  <2>4. Held' = Held /\ InSource' = InSource
    BY <1>3 DEF ReturnSourceFailed, Held, InSource
  <2>5. faults' = faults + 1
    BY <1>3, <2>2 DEF ReturnSourceFailed, QbufFails
  <2> QED BY <2>1, <2>3, <2>4, <2>5 DEF LoseOne, InHand
<1>4. CASE PullSrcFirst \/ PullSrcNewer
  <2>1. srcQ # << >> /\ IsInjective(srcQ)
    BY <1>4, EmptySeq DEF PullSrcFirst, PullSrcNewer, OneHolder
  <2>2. Head(srcQ) \in InSource /\ InSource' = InSource \ {Head(srcQ)}
    BY <1>4, <2>1, RangeTail DEF PullSrcFirst, PullSrcNewer, InSource
  <2>3. OnLoan' = OnLoan /\ faults' = faults
    BY <1>4 DEF PullSrcFirst, PullSrcNewer, OnLoan
  <2>4. Held \cup {Head(srcQ)} \subseteq Held'
    <3>1. Head(srcQ) # None
      BY <2>2 DEF InSource, Range, None, Src
    <3>2. CASE PullSrcFirst
      <4>1. nextInQueue = None /\ pc = "pullSrc" /\ nextInQueue' = Head(srcQ)
        BY <3>2 DEF PullSrcFirst, None, Src
      <4>2. Held = {}
        BY <4>1 DEF Held
      <4> QED BY <3>1, <4>1, <4>2 DEF Held
    <3>3. CASE PullSrcNewer
      <4>1. pc = "pullSrc" /\ pc' = "skip" /\ nextInQueue' = nextInQueue
            /\ pulled' = Head(srcQ)
        BY <3>3 DEF PullSrcNewer
      <4>2. Held = {b \in {nextInQueue} : b # None}
        BY <4>1 DEF Held
      <4>3. Held' = {b \in {nextInQueue} : b # None} \cup {Head(srcQ)}
        BY <4>1 DEF Held
      <4> QED BY <4>2, <4>3
    <3> QED BY <1>4, <3>2, <3>3
  <2> QED BY <2>2, <2>3, <2>4 DEF LoseNothing, InHand
<1>5. CASE SkipOlder
  <2>1. Held = {nextInQueue, pulled} /\ nextInQueue \in Src /\ pulled \in Src
    BY <1>5 DEF SkipOlder, Held, None, Src
  <2>2. InSource' = InSource \cup {nextInQueue}
    BY <1>5, <2>1, RangeAppend DEF SkipOlder, InSource
  <2>3. Held' = {pulled} /\ OnLoan' = OnLoan /\ faults' = faults
    BY <1>5, <2>1 DEF SkipOlder, QbufSucceeds, Held, OnLoan, None, Src
  <2> QED BY <2>1, <2>2, <2>3 DEF LoseNothing, InHand
<1>6. CASE SkipFailed
  <2>1. Held = {nextInQueue, pulled} /\ nextInQueue \in Src /\ pulled \in Src
    BY <1>6 DEF SkipFailed, Held, None, Src
  <2>2. Held' = {nextInQueue} /\ OnLoan' = OnLoan /\ InSource' = InSource
    BY <1>6, <2>1 DEF SkipFailed, Held, OnLoan, InSource, None, Src
  <2>3. nextInQueue \notin Range(srcQ)
    BY <2>1 DEF OneHolder, InSource
  <2>4. faults' = faults + 1
    BY <1>6, <2>3 DEF SkipFailed, QbufFails
  <2> QED BY <2>1, <2>2, <2>4 DEF LoseOne, InHand
<1>7. CASE Pass
  <2>1. DstIndex \in Dst /\ nextInQueue \in Src
    BY <1>7, AvailableRotates DEF Pass, CanPass, AvailableOK, None
  <2>2. acquired[DstIndex] = None
    BY <1>7, <2>1 DEF Pass, CanPass, QbufSucceeds, LoansRecorded, Lent, InSink
  <2>3. OnLoan \cup {nextInQueue} \subseteq OnLoan'
    BY <1>7, <2>1, <2>2 DEF Pass, OnLoan, None, Src
  <2>4. Held = {nextInQueue} /\ InSource' = InSource /\ faults' = faults
    BY <1>7, <2>1 DEF Pass, CanPass, QbufSucceeds, Held, InSource, None, Src
  <2> QED BY <2>3, <2>4 DEF LoseNothing, InHand
<1>8. CASE PassFailed
  <2>1. /\ InHand' = InHand /\ nextInQueue \in Src
        /\ faults' = faults \/ faults' = faults + 1
    BY <1>8 DEF PassFailed, CanPass, QbufFails, InHand, InSource, OnLoan, Held, None
  <2> QED BY <2>1 DEF LoseNothing, LoseOne
<1>9. CASE UNCHANGED vars
  BY <1>9 DEF vars, LoseNothing, InHand, InSource, OnLoan, Held
<1> QED
  BY <1>1, <1>2, <1>3, <1>4, <1>5, <1>6, <1>7, <1>8, <1>9
  DEF Next, pumpCreate, pumpPump, Drivers

(* The carousel keeps all its buffers but one for each failed QBUF.           *)
THEOREM LossBounded == Spec => []LossOnlyByFault
<1>1. Init => Custody /\ LossOnlyByFault
  <2> SUFFICES ASSUME Init PROVE LossOnlyByFault
    BY InitCustody
  <2>1. Src \subseteq InSource
    BY DEF Init, InSource, Range, Src
  <2>2. Lost = {} /\ faults = 0
    BY <2>1 DEF Lost, Init
  <2> QED BY <2>2, FS_EmptySet DEF LossOnlyByFault
<1>2. Custody /\ LossOnlyByFault /\ [Next]_vars => Custody' /\ LossOnlyByFault'
  <2> SUFFICES ASSUME Custody, LossOnlyByFault, [Next]_vars PROVE LossOnlyByFault'
    BY NextCustody
  <2>1. faults \in Nat /\ Lost = Src \ InHand /\ Lost' = Src \ InHand'
    BY DEF Custody, TypeOK, Lost, InHand
  <2>2. IsFiniteSet(Lost) /\ Cardinality(Lost) <= faults
    <3>1. IsFiniteSet(Src)
      BY FS_Interval DEF Src
    <3> QED BY <2>1, <3>1, FS_Subset DEF LossOnlyByFault
  <2>3. CASE LoseNothing
    <3>1. Lost' \in SUBSET Lost
      BY <2>1, <2>3 DEF LoseNothing
    <3>2. Cardinality(Lost') <= Cardinality(Lost) /\ IsFiniteSet(Lost')
      BY <2>2, <3>1, FS_Subset
    <3>3. Cardinality(Lost) \in Nat /\ Cardinality(Lost') \in Nat
      BY <2>2, <3>2, FS_CardinalityType
    <3> QED BY <2>1, <2>2, <2>3, <3>2, <3>3 DEF LoseNothing, LossOnlyByFault
  <2>4. CASE LoseOne
    <3>1. PICK s \in Src : InHand \subseteq InHand' \cup {s}
      BY <2>4 DEF LoseOne
    <3>2. Lost' \in SUBSET (Lost \cup {s})
      BY <2>1, <3>1
    <3>3. /\ IsFiniteSet(Lost \cup {s})
          /\ Cardinality(Lost \cup {s}) <= Cardinality(Lost) + 1
          /\ Cardinality(Lost) \in Nat
      BY <2>2, FS_AddElement, FS_CardinalityType
    <3>4. /\ Cardinality(Lost') <= Cardinality(Lost \cup {s})
          /\ Cardinality(Lost') \in Nat /\ Cardinality(Lost \cup {s}) \in Nat
      BY <3>2, <3>3, FS_Subset, FS_CardinalityType
    <3> QED BY <2>1, <2>2, <2>4, <3>3, <3>4 DEF LoseOne, LossOnlyByFault
  <2> QED BY <2>3, <2>4, StepLoses
<1> QED BY <1>1, <1>2, PTL DEF Spec

-----------------------------------------------------------------------------
(* The relay *)

(* The order of the frames: those that wait are newer than all that were      *)
(* passed on, those the pump holds are older than those in the source's       *)
(* driver, which has them in the order of their capture; what is on loan has  *)
(* been passed on.                                                            *)
OrderInv ==
  /\ captured \in Nat /\ passed <= captured
  /\ \A s \in Filled \cup Held : passed < frame[s] /\ frame[s] <= captured
  /\ \A s \in Held, f \in Filled : frame[s] < frame[f]
  /\ \A i, j \in 1..srcDone : i < j => frame[srcQ[i]] < frame[srcQ[j]]
  /\ pc = "skip" => frame[nextInQueue] < frame[pulled]
  /\ \A s \in OnLoan : frame[s] <= passed

-----------------------------------------------------------------------------
(* Where the buffers are *)

(* Buffers that are lent are not in the source's driver, and the destination  *)
(* reads only buffers that are lent.                                          *)
LEMMA Places ==
  ASSUME Custody
  PROVE  /\ Filled \subseteq InSource /\ InSource \subseteq Src
         /\ SinkReads \subseteq OnLoan /\ OnLoan \subseteq Src
         /\ OnLoan \cap InSource = {}
         /\ Held \subseteq Src /\ Held \cap (InSource \cup OnLoan) = {}
<1>1. Filled \subseteq InSource /\ InSource \subseteq Src
  BY DEF Custody, TypeOK, Filled, InSource, Range
<1>2. SinkReads \subseteq OnLoan
  BY DEF Custody, TypeOK, LoansRecorded, SinkReads, OnLoan, Lent, InSink, Range
<1>3. OnLoan \subseteq Src
  BY DEF Custody, TypeOK, OnLoan
<1>4. Held \subseteq Src
  BY DEF Custody, TypeOK, Held
<1> QED BY <1>1, <1>2, <1>3, <1>4 DEF Custody, OneHolder

(* DQBUF from the source takes the oldest filled buffer.                      *)
LEMMA SourceTaken ==
  ASSUME Custody, srcDone > 0, srcQ' = Tail(srcQ), srcDone' = srcDone - 1
  PROVE  /\ Head(srcQ) \in Filled /\ Head(srcQ) = srcQ[1]
         /\ Filled' = Filled \ {Head(srcQ)}
         /\ InSource' = InSource \ {Head(srcQ)}
         /\ \A i \in 1..srcDone - 1 : srcQ'[i] = srcQ[i + 1]
<1>1. /\ srcQ \in Seq(Src) /\ IsInjective(srcQ) /\ srcDone \in 1..Len(srcQ)
      /\ srcQ # << >>
  BY EmptySeq DEF Custody, TypeOK, OneHolder
<1>2. /\ Head(srcQ) = srcQ[1] /\ DOMAIN srcQ = 1..Len(srcQ)
      /\ \A i \in 1..Len(srcQ) - 1 : srcQ'[i] = srcQ[i + 1]
  BY <1>1, HeadTailProperties
<1>3. InSource' = InSource \ {Head(srcQ)}
  BY <1>1, RangeTail DEF InSource
<1>4. \A i \in 2..srcDone : srcQ[i] # srcQ[1]
  BY <1>1, <1>2 DEF IsInjective
<1>5. Filled' = {srcQ[i + 1] : i \in 1..srcDone - 1}
  BY <1>1, <1>2 DEF Filled
<1>6. {srcQ[i + 1] : i \in 1..srcDone - 1} = {srcQ[i] : i \in 2..srcDone}
  <2>1. \A i \in 2..srcDone : i - 1 \in 1..srcDone - 1 /\ (i - 1) + 1 = i
    BY <1>1
  <2>2. \A i \in 1..srcDone - 1 : i + 1 \in 2..srcDone
    BY <1>1
  <2> QED BY <2>1, <2>2
<1>7. {srcQ[i] : i \in 2..srcDone} = Filled \ {srcQ[1]}
  <2>1. 1..srcDone = {1} \cup 2..srcDone
    BY <1>1
  <2> QED BY <1>4, <2>1 DEF Filled
<1>8. Head(srcQ) \in Filled
  BY <1>1, <1>2 DEF Filled
<1>9. \A i \in 1..srcDone - 1 : srcQ'[i] = srcQ[i + 1]
  BY <1>1, <1>2
<1> QED BY <1>2, <1>3, <1>5, <1>6, <1>7, <1>8, <1>9

(* QBUF at the source leaves the filled buffers as they are.                  *)
LEMMA SourceGiven ==
  ASSUME Custody, NEW s \in Src, srcQ' = Append(srcQ, s), srcDone' = srcDone
  PROVE  /\ Filled' = Filled
         /\ InSource' = InSource \cup {s}
         /\ \A i \in 1..srcDone : srcQ'[i] = srcQ[i]
<1>1. srcQ \in Seq(Src) /\ srcDone \in 0..Len(srcQ)
  BY DEF Custody, TypeOK
<1>2. \A i \in 1..Len(srcQ) : srcQ'[i] = srcQ[i]
  BY <1>1, AppendProperties
<1>3. InSource' = InSource \cup {s}
  BY <1>1, RangeAppend DEF InSource
<1> QED BY <1>1, <1>2, <1>3 DEF Filled

(* The loan that the pump is about to settle is one the destination does not  *)
(* read any more.                                                             *)
LEMMA LoanSettled ==
  ASSUME Custody, pc = "returnSrc"
  PROVE  acquired[pulled] \in OnLoan \ SinkReads
<1>1. pulled \in Dst /\ acquired[pulled] # None /\ pulled \notin InSink
  BY DEF Custody, TypeOK, LoansRecorded, Lent, OneHolder
<1>2. \A d \in InSink : d \in Dst /\ attached[d] = acquired[d] /\ acquired[d] # None
  BY DEF Custody, TypeOK, LoansRecorded, Lent, InSink, Range
<1>3. \A d \in InSink : acquired[d] # acquired[pulled]
  BY <1>1, <1>2 DEF Custody, OneHolder
<1> QED BY <1>1, <1>2, <1>3 DEF OnLoan, SinkReads

-----------------------------------------------------------------------------
(* The order of the frames is kept *)

LEMMA InitOrder == Init => OrderInv
<1> SUFFICES ASSUME Init PROVE OrderInv
  OBVIOUS
<1>1. Filled = {} /\ Held = {} /\ OnLoan = {}
  BY DEF Init, Filled, Held, OnLoan, None
<1> QED BY <1>1 DEF Init, OrderInv

(* Steps that move no buffer of the source keep it.                           *)
LEMMA OrderFrame ==
  ASSUME OrderInv, UNCHANGED <<srcQ, srcDone, frame, captured, passed, acquired, nextInQueue>>,
         pc' # "skip", Held' \subseteq Held
  PROVE  OrderInv'
<1>1. Filled' = Filled /\ OnLoan' = OnLoan
  BY DEF Filled, OnLoan
<1> QED BY <1>1 DEF OrderInv

LEMMA NextOrder == Custody /\ OrderInv /\ [Next]_vars => OrderInv'
<1> SUFFICES ASSUME Custody, OrderInv, [Next]_vars PROVE OrderInv'
  OBVIOUS
<1>0. /\ frame \in [Src -> Nat] /\ captured \in Nat /\ passed \in Nat
      /\ srcQ \in Seq(Src) /\ srcDone \in 0..Len(srcQ) /\ IsInjective(srcQ)
  BY DEF Custody, TypeOK, OneHolder
<1> USE DEF driverVars, historyVars, pumpVars
<1>1. CASE SrcFill
  <2> DEFINE b == srcQ[srcDone + 1]
  <2>1. /\ srcDone + 1 \in 1..Len(srcQ) /\ b \in InSource /\ b \in Src
        /\ \A i \in 1..srcDone : srcQ[i] # b /\ srcQ[i] \in Src
    BY <1>0, <1>1 DEF SrcFill, InSource, Range, IsInjective
  <2>2. /\ frame' = [frame EXCEPT ![b] = captured + 1] /\ captured' = captured + 1
        /\ srcDone' = srcDone + 1
        /\ UNCHANGED <<srcQ, passed, acquired, nextInQueue, pulled, pc>>
    BY <1>1 DEF SrcFill
  <2>3. /\ b \notin OnLoan /\ b \notin Held /\ OnLoan' = OnLoan /\ Held' = Held
        /\ OnLoan \subseteq Src /\ Held \subseteq Src /\ Filled \subseteq Src
    BY <2>1, <2>2, Places DEF OnLoan, Held
  <2>4. Filled' = Filled \cup {b} /\ b \notin Filled
    <3>1. 1..srcDone + 1 = (1..srcDone) \cup {srcDone + 1}
      BY <1>0
    <3> QED BY <2>1, <2>2, <3>1 DEF Filled
  <2>5. /\ frame'[b] = captured + 1
        /\ \A s \in Src \ {b} : frame'[s] = frame[s]
    BY <1>0, <2>1, <2>2
  <2>6. \A s \in Filled' \cup Held' : passed' < frame'[s] /\ frame'[s] <= captured'
    BY <1>0, <2>2, <2>3, <2>4, <2>5 DEF OrderInv
  <2>7. \A s \in Held', f \in Filled' : frame'[s] < frame'[f]
    BY <1>0, <2>2, <2>3, <2>4, <2>5 DEF OrderInv
  <2>8. ASSUME NEW i \in 1..srcDone', NEW j \in 1..srcDone', i < j
        PROVE  frame'[srcQ'[i]] < frame'[srcQ'[j]]
    <3>1. i \in 1..srcDone /\ srcQ[i] \in Filled
      BY <1>0, <2>2, <2>8 DEF Filled
    <3>2. frame'[srcQ[i]] = frame[srcQ[i]] /\ frame[srcQ[i]] <= captured
          /\ frame[srcQ[i]] \in Nat
      BY <1>0, <2>1, <2>5, <3>1 DEF OrderInv
    <3>3. CASE j = srcDone + 1
      BY <1>0, <2>2, <2>5, <3>2, <3>3
    <3>4. CASE j \in 1..srcDone
      BY <2>1, <2>2, <2>5, <2>8, <3>1, <3>2, <3>4 DEF OrderInv
    <3> QED BY <1>0, <2>2, <3>3, <3>4
  <2>9. pc' = "skip" => frame'[nextInQueue'] < frame'[pulled']
    <3>1. pc = "skip" => {nextInQueue, pulled} \subseteq Held
      BY DEF Held, Custody, TypeOK, Src, None
    <3> QED BY <2>2, <2>3, <2>5, <3>1 DEF OrderInv
  <2>10. \A s \in OnLoan' : frame'[s] <= passed'
    BY <2>2, <2>3, <2>5 DEF OrderInv
  <2> QED BY <1>0, <2>2, <2>6, <2>7, <2>8, <2>9, <2>10 DEF OrderInv
<1>2. CASE ReturnSource
  <2> DEFINE b == acquired[pulled]
  <2>1. pulled \in Dst /\ b \in Src
    BY <1>2 DEF ReturnSource, Custody, TypeOK, None, Src
  <2>2. Filled' = Filled /\ \A i \in 1..srcDone : srcQ'[i] = srcQ[i]
    BY <1>2, <2>1, SourceGiven DEF ReturnSource
  <2>3. /\ UNCHANGED <<srcDone, frame, captured, passed, nextInQueue>>
        /\ pc = "returnSrc" /\ pc' = "pullDst"
        /\ acquired' = [acquired EXCEPT ![pulled] = None]
    BY <1>2 DEF ReturnSource
  <2>4. OnLoan' \subseteq OnLoan /\ Held' = Held
    BY <2>1, <2>3 DEF OnLoan, Held, Custody, TypeOK
  <2> QED BY <2>2, <2>3, <2>4 DEF OrderInv
<1>3. CASE ReturnSourceFailed
  <2>1. /\ UNCHANGED <<srcQ, srcDone, frame, captured, passed, nextInQueue>>
        /\ pc = "returnSrc" /\ pc' = "idle"
        /\ acquired' = [acquired EXCEPT ![pulled] = None]
    BY <1>3 DEF ReturnSourceFailed
  <2>2. OnLoan' \subseteq OnLoan /\ Held' = Held /\ Filled' = Filled
    BY <2>1 DEF OnLoan, Held, Filled, Custody, TypeOK
  <2> QED BY <2>1, <2>2 DEF OrderInv
<1>4. CASE PullSrcFirst \/ PullSrcNewer
  <2> DEFINE b == Head(srcQ)
  <2>1. /\ srcQ' = Tail(srcQ) /\ srcDone' = srcDone - 1 /\ srcDone > 0
        /\ pc = "pullSrc" /\ UNCHANGED <<frame, captured, passed, acquired>>
    BY <1>4 DEF PullSrcFirst, PullSrcNewer
  <2>2. /\ b \in Filled /\ b = srcQ[1] /\ Filled' = Filled \ {b}
        /\ \A i \in 1..srcDone - 1 : srcQ'[i] = srcQ[i + 1]
    BY <2>1, SourceTaken
  <2>3. OnLoan' = OnLoan
    BY <2>1 DEF OnLoan
  <2>4. \A i \in 2..srcDone : frame[b] < frame[srcQ[i]]
    BY <1>0, <2>1, <2>2 DEF OrderInv
  <2>5. \A f \in Filled' : frame[b] < frame[f]
    <3> SUFFICES ASSUME NEW f \in Filled' PROVE frame[b] < frame[f]
      OBVIOUS
    <3>1. PICK i \in 1..srcDone : f = srcQ[i]
      BY <2>2 DEF Filled
    <3>2. i # 1
      BY <2>2, <3>1
    <3> QED BY <1>0, <2>4, <3>1, <3>2
  <2>6. Held' = Held \cup {b} /\ (pc' = "skip" => nextInQueue' \in Held /\ pulled' = b)
    <3>1. b # None
      BY <2>2, Places DEF None, Src
    <3>2. CASE PullSrcFirst
      <4>1. nextInQueue = None /\ nextInQueue' = b /\ pc' = "pullSrc"
        BY <2>1, <3>2 DEF PullSrcFirst, Custody, TypeOK, None, Src
      <4> QED BY <2>1, <3>1, <4>1 DEF Held
    <3>3. CASE PullSrcNewer
      <4>1. nextInQueue' = nextInQueue /\ pulled' = b /\ pc' = "skip" /\ nextInQueue # None
        BY <3>3 DEF PullSrcNewer, None
      <4> QED BY <2>1, <3>1, <4>1 DEF Held
    <3> QED BY <1>4, <3>2, <3>3
  <2>7. \A i, j \in 1..srcDone' : i < j => frame[srcQ'[i]] < frame[srcQ'[j]]
    <3> SUFFICES ASSUME NEW i \in 1..srcDone - 1, NEW j \in 1..srcDone - 1, i < j
                 PROVE  frame[srcQ[i + 1]] < frame[srcQ[j + 1]]
      BY <2>1, <2>2
    <3>1. i + 1 \in 1..srcDone /\ j + 1 \in 1..srcDone /\ i + 1 < j + 1
      BY <1>0
    <3> QED BY <3>1 DEF OrderInv
  <2> QED BY <2>1, <2>2, <2>3, <2>5, <2>6, <2>7 DEF OrderInv
<1>5. CASE SkipOlder
  <2>1. Held = {nextInQueue, pulled} /\ {nextInQueue, pulled} \subseteq Src
    BY <1>5 DEF SkipOlder, Held, Custody, TypeOK, None, Src
  <2>2. Filled' = Filled /\ \A i \in 1..srcDone : srcQ'[i] = srcQ[i]
    BY <1>5, <2>1, SourceGiven DEF SkipOlder
  <2>3. /\ UNCHANGED <<srcDone, frame, captured, passed, acquired>>
        /\ pc' = "pullSrc" /\ nextInQueue' = pulled
    BY <1>5 DEF SkipOlder
  <2>4. OnLoan' = OnLoan /\ Held' \subseteq Held
    BY <2>1, <2>3 DEF OnLoan, Held
  <2> QED BY <2>2, <2>3, <2>4 DEF OrderInv
<1>6. CASE Pass
  <2>1. /\ pc = "pass" /\ pc' = "idle" /\ nextInQueue' = None /\ nextInQueue \in Src
        /\ passed' = frame[nextInQueue]
        /\ acquired' = [acquired EXCEPT ![DstIndex] = nextInQueue]
        /\ UNCHANGED <<srcQ, srcDone, frame, captured>>
    BY <1>6 DEF Pass, CanPass, Custody, TypeOK, None
  <2>2. Held = {nextInQueue} /\ Held' = {} /\ Filled' = Filled
    BY <2>1 DEF Held, Filled, None, Src
  <2>3. \A s \in OnLoan' : s \in OnLoan \/ s = nextInQueue
    BY <2>1 DEF OnLoan, Custody, TypeOK
  <2>4. passed < passed' /\ passed' <= captured
    BY <2>1, <2>2 DEF OrderInv
  <2>5. \A s \in Filled : passed' < frame[s]
    BY <2>1, <2>2 DEF OrderInv
  <2>6. \A s \in OnLoan' : frame[s] <= passed'
    <3>1. passed \in Nat /\ passed' \in Nat
      BY <1>0, <2>1
    <3>2. \A s \in OnLoan : frame[s] <= passed /\ frame[s] \in Nat
      BY <1>0, Places DEF OrderInv
    <3>3. \A s \in OnLoan : frame[s] <= passed'
      BY <2>4, <3>1, <3>2
    <3>4. frame[nextInQueue] <= passed'
      BY <2>1, <3>1
    <3> QED BY <2>3, <3>3, <3>4
  <2> QED BY <2>1, <2>2, <2>4, <2>5, <2>6 DEF OrderInv
<1>7. CASE pumpCreate \/ Call \/ PullDst \/ PullDstNone \/ SkipFailed \/ PullSrcNone
           \/ PassNothing \/ PassFailed \/ (\E k \in Dst : DstFinish(k + 1)) \/ UNCHANGED vars
  <2>1. UNCHANGED <<srcQ, srcDone, frame, captured, passed, acquired, nextInQueue>>
    BY <1>7 DEF pumpCreate, Push, Created, Call, PullDst, PullDstNone, SkipFailed,
                PullSrcNone, PassNothing, PassFailed, DstFinish, vars
  <2>2. pc' # "skip" \/ UNCHANGED <<pc, pulled>>
    BY <1>7 DEF pumpCreate, Push, Created, Call, PullDst, PullDstNone, SkipFailed,
                PullSrcNone, PassNothing, PassFailed, DstFinish, vars
  <2>3. CASE pc' # "skip"
    <3>1. Held' \subseteq Held
      BY <2>1, <2>3 DEF Held
    <3> QED BY <2>1, <2>3, <3>1, OrderFrame
  <2>4. CASE UNCHANGED <<pc, pulled>>
    <3>1. Held' = Held /\ Filled' = Filled /\ OnLoan' = OnLoan
      BY <2>1, <2>4 DEF Held, Filled, OnLoan
    <3> QED BY <2>1, <2>4, <3>1 DEF OrderInv
  <2> QED BY <2>2, <2>3, <2>4
<1> QED
  BY <1>1, <1>2, <1>3, <1>4, <1>5, <1>6, <1>7 DEF Next, pumpPump, Drivers

-----------------------------------------------------------------------------
(* Every step is a step of the relay, or one it does not see *)

LEMMA InitRelay == Init => Relay!Init
<1> SUFFICES ASSUME Init PROVE Relay!Init
  OBVIOUS
<1>1. SinkReads = {} /\ Filled = {}
  BY DEF Init, SinkReads, InSink, Filled, Range
<1>2. InSource = Src
  <2>1. DOMAIN srcQ = 1..SrcCount /\ \A i \in 1..SrcCount : srcQ[i] = i - 1
    BY DEF Init
  <2>2. \A s \in Src : s + 1 \in 1..SrcCount /\ srcQ[s + 1] = s
    BY <2>1 DEF Src
  <2>3. \A x \in Range(srcQ) : x \in Src
    BY <2>1 DEF Range, Src
  <2>4. \A s \in Src : s \in Range(srcQ)
    BY <2>1, <2>2 DEF Range
  <2> QED BY <2>3, <2>4 DEF InSource
<1>3. place = [s \in Src |-> "empty"]
  BY <1>1, <1>2 DEF place
<1> QED BY <1>3 DEF Relay!Init, Init

(* A step that changes neither which buffers the destination reads nor what   *)
(* the source's driver has moves no buffer.                                   *)
LEMMA PlaceFrame ==
  ASSUME SinkReads' = SinkReads, Filled' = Filled, InSource' = InSource
  PROVE  place' = place
BY DEF place

(* The place of one buffer changes.                                           *)
LEMMA PlaceMoves ==
  ASSUME NEW b \in Src, NEW v,
         place'[b] = v, \A s \in Src \ {b} : place'[s] = place[s]
  PROVE  place' = [place EXCEPT ![b] = v]
BY DEF place

LEMMA StepRelay == Custody /\ OrderInv /\ [Next]_vars => [Relay!Next]_(Relay!vars)
<1> SUFFICES ASSUME Custody, OrderInv, [Next]_vars PROVE [Relay!Next]_(Relay!vars)
  OBVIOUS
<1>0. /\ frame \in [Src -> Nat] /\ captured \in Nat /\ passed \in Nat
      /\ srcQ \in Seq(Src) /\ srcDone \in 0..Len(srcQ) /\ IsInjective(srcQ)
      /\ dstQ \in Seq(Dst) /\ IsInjective(dstQ)
  BY DEF Custody, TypeOK, OneHolder
<1>p. \A s \in Src :
        /\ s \in SinkReads => place[s] = "sink"
        /\ s \in Filled => place[s] = "full"
        /\ s \in InSource \ Filled => place[s] = "empty"
        /\ s \notin SinkReads \cup InSource => place[s] = "relay"
  BY Places DEF place
<1> USE DEF driverVars, historyVars, pumpVars
<1>1. CASE SrcFill
  <2> DEFINE b == srcQ[srcDone + 1]
  <2>1. /\ srcDone + 1 \in 1..Len(srcQ) /\ b \in InSource /\ b \in Src
        /\ \A i \in 1..srcDone : srcQ[i] # b
    BY <1>0, <1>1 DEF SrcFill, InSource, Range, IsInjective
  <2>2. /\ frame' = [frame EXCEPT ![b] = captured + 1] /\ captured' = captured + 1
        /\ captured < MaxFrames /\ srcDone' = srcDone + 1
        /\ UNCHANGED <<srcQ, dstQ, attached, passed>>
    BY <1>1 DEF SrcFill
  <2>3. Filled' = Filled \cup {b} /\ b \notin Filled
    <3>1. 1..srcDone + 1 = (1..srcDone) \cup {srcDone + 1}
      BY <1>0
    <3> QED BY <2>1, <2>2, <3>1 DEF Filled
  <2>4. InSource' = InSource /\ SinkReads' = SinkReads /\ b \notin SinkReads
    BY <2>1, <2>2, Places DEF InSource, SinkReads, InSink
  <2>5. place[b] = "empty" /\ place' = [place EXCEPT ![b] = "full"]
    <3>1. place'[b] = "full" /\ \A s \in Src \ {b} : place'[s] = place[s]
      BY <2>1, <2>3, <2>4 DEF place
    <3> HIDE DEF b
    <3> QED BY <1>p, <2>1, <2>3, <3>1, PlaceMoves
  <2>6. Relay!Fill(b)
    BY <2>2, <2>5 DEF Relay!Fill
  <2> QED BY <2>1, <2>6 DEF Relay!Next
<1>2. CASE PullDst
  <2> DEFINE d == Head(dstQ)
             b == attached[d]
  <2>1. /\ dstQ # << >> /\ dstQ' = Tail(dstQ)
        /\ UNCHANGED <<srcQ, srcDone, attached, frame, captured, passed>>
    BY <1>0, <1>2, EmptySeq DEF PullDst, Custody, TypeOK
  <2>2. InSink' = InSink \ {d} /\ d \in InSink
    BY <1>0, <2>1, RangeTail DEF InSink
  <2>3. \A e \in InSink : /\ e \in Dst /\ attached[e] \in Src
                          /\ attached[e] = attached[d] => e = d
    BY <2>2 DEF Custody, TypeOK, LoansRecorded, OneHolder, Lent, InSink, Range
  <2>4. SinkReads' = SinkReads \ {b} /\ b \in SinkReads /\ b \in Src
    BY <2>1, <2>2, <2>3 DEF SinkReads
  <2>5. Filled' = Filled /\ InSource' = InSource /\ b \notin InSource /\ b \notin Filled
    BY <2>1, <2>4, Places DEF Filled, InSource
  <2>6. place[b] = "sink" /\ place' = [place EXCEPT ![b] = "relay"]
    <3>1. place'[b] = "relay" /\ \A s \in Src \ {b} : place'[s] = place[s]
      BY <2>4, <2>5 DEF place
    <3> HIDE DEF b
    <3> QED BY <1>p, <2>4, <3>1, PlaceMoves
  <2>7. Relay!Reclaim(b)
    BY <2>1, <2>6 DEF Relay!Reclaim
  <2> QED BY <2>4, <2>7 DEF Relay!Next
<1>3. CASE ReturnSource
  <2> DEFINE b == acquired[pulled]
  <2>1. /\ pc = "returnSrc" /\ srcQ' = Append(srcQ, b)
        /\ UNCHANGED <<srcDone, dstQ, attached, frame, captured, passed>>
    BY <1>3 DEF ReturnSource
  <2>2. b \in OnLoan \ SinkReads /\ b \in Src /\ b \notin InSource /\ b \notin Filled
    BY <2>1, LoanSettled, Places
  <2>3. Filled' = Filled /\ InSource' = InSource \cup {b} /\ SinkReads' = SinkReads
    BY <2>1, <2>2, SourceGiven DEF SinkReads, InSink
  <2>4. place[b] = "relay" /\ place' = [place EXCEPT ![b] = "empty"]
    <3>1. place'[b] = "empty" /\ \A s \in Src \ {b} : place'[s] = place[s]
      BY <2>2, <2>3 DEF place
    <3> HIDE DEF b
    <3> QED BY <1>p, <2>2, <3>1, PlaceMoves
  <2>5. Relay!GiveBack(b)
    BY <2>1, <2>2, <2>4 DEF Relay!GiveBack, OrderInv
  <2> QED BY <2>2, <2>5 DEF Relay!Next
<1>4. CASE PullSrcFirst \/ PullSrcNewer
  <2> DEFINE b == Head(srcQ)
  <2>1. /\ srcQ' = Tail(srcQ) /\ srcDone' = srcDone - 1 /\ srcDone > 0
        /\ UNCHANGED <<dstQ, attached, frame, captured, passed>>
    BY <1>4 DEF PullSrcFirst, PullSrcNewer
  <2>2. /\ b \in Filled /\ b = srcQ[1] /\ Filled' = Filled \ {b}
        /\ InSource' = InSource \ {b}
    BY <2>1, SourceTaken
  <2>3. b \in Src /\ b \notin SinkReads /\ SinkReads' = SinkReads
    BY <2>1, <2>2, Places DEF SinkReads, InSink
  <2>4. \A c \in Src : place[c] = "full" => frame[b] <= frame[c]
    <3> SUFFICES ASSUME NEW c \in Src, place[c] = "full" PROVE frame[b] <= frame[c]
      OBVIOUS
    <3>1. c \in Filled
      BY <1>p DEF place
    <3>2. PICK i \in 1..srcDone : c = srcQ[i]
      BY <3>1 DEF Filled
    <3>3. CASE i = 1
      BY <1>0, <2>2, <2>3, <3>2, <3>3
    <3>4. CASE i # 1
      BY <1>0, <2>1, <2>2, <2>3, <3>2, <3>4 DEF OrderInv
    <3> QED BY <3>3, <3>4
  <2>5. place[b] = "full" /\ place' = [place EXCEPT ![b] = "relay"]
    <3>1. place'[b] = "relay" /\ \A s \in Src \ {b} : place'[s] = place[s]
      BY <2>2, <2>3 DEF place
    <3> HIDE DEF b
    <3> QED BY <1>p, <2>2, <2>3, <3>1, PlaceMoves
  <2>6. Relay!Take(b)
    BY <2>1, <2>4, <2>5 DEF Relay!Take
  <2> QED BY <2>3, <2>6 DEF Relay!Next
<1>5. CASE SkipOlder
  <2> DEFINE b == nextInQueue
  <2>1. /\ pc = "skip" /\ srcQ' = Append(srcQ, b)
        /\ UNCHANGED <<srcDone, dstQ, attached, frame, captured, passed>>
    BY <1>5 DEF SkipOlder
  <2>2. b \in Held /\ pulled \in Held
    BY <2>1 DEF Held, Custody, TypeOK, None, Src
  <2>3. \A s \in Held : s \in Src /\ s \notin InSource /\ s \notin SinkReads /\ s \notin Filled
    BY Places
  <2>4. Filled' = Filled /\ InSource' = InSource \cup {b} /\ SinkReads' = SinkReads
    BY <2>1, <2>2, <2>3, SourceGiven DEF SinkReads, InSink
  <2>5. place[b] = "relay" /\ place[pulled] = "relay" /\ place' = [place EXCEPT ![b] = "empty"]
    <3>1. place'[b] = "empty" /\ \A s \in Src \ {b} : place'[s] = place[s]
      BY <2>2, <2>3, <2>4 DEF place
    <3> HIDE DEF b
    <3> QED BY <1>p, <2>2, <2>3, <3>1, PlaceMoves
  <2>6. Relay!GiveBack(b)
    BY <1>0, <2>1, <2>2, <2>3, <2>5 DEF Relay!GiveBack, OrderInv
  <2> QED BY <2>2, <2>3, <2>6 DEF Relay!Next
<1>6. CASE Pass
  <2> DEFINE b == nextInQueue
             d == DstIndex
  <2>1. /\ pc = "pass" /\ b \in Src /\ dstQ' = Append(dstQ, d) /\ d \notin InSink
        /\ attached' = [attached EXCEPT ![d] = b] /\ passed' = frame[b]
        /\ UNCHANGED <<srcQ, srcDone, frame, captured>>
    BY <1>6 DEF Pass, CanPass, QbufSucceeds, Custody, TypeOK, None, InSink
  <2>2. d \in Dst
    BY <2>1, AvailableRotates DEF Custody, TypeOK, AvailableOK
  <2>3. InSink' = InSink \cup {d} /\ InSink \subseteq Dst
    <3>1. InSink' = InSink \cup {d}
      <4> HIDE DEF d
      <4> QED BY <1>0, <2>1, <2>2, RangeAppend DEF InSink
    <3>2. InSink \subseteq Dst
      BY <1>0 DEF InSink, Range
    <3> QED BY <3>1, <3>2
  <2>4. SinkReads' = SinkReads \cup {b}
    <3>1. \A e \in InSink : attached'[e] = attached[e]
      BY <2>1, <2>3 DEF Custody, TypeOK
    <3>2. attached'[d] = b
      BY <2>1, <2>2 DEF Custody, TypeOK
    <3> QED BY <2>3, <3>1, <3>2 DEF SinkReads
  <2>5. /\ b \in Held /\ b \notin InSource /\ b \notin SinkReads /\ b \notin Filled
        /\ Filled' = Filled /\ InSource' = InSource
    BY <2>1, Places DEF Held, None, Src, Filled, InSource
  <2>6. place[b] = "relay" /\ place' = [place EXCEPT ![b] = "sink"]
    <3>1. place'[b] = "sink" /\ \A s \in Src \ {b} : place'[s] = place[s]
      BY <2>1, <2>4, <2>5 DEF place
    <3> HIDE DEF b
    <3> QED BY <1>p, <2>1, <2>5, <3>1, PlaceMoves
  <2>7. frame[b] > passed
    BY <1>0, <2>1, <2>5 DEF OrderInv
  <2>8. Relay!Send(b)
    BY <2>1, <2>6, <2>7 DEF Relay!Send
  <2> QED BY <2>1, <2>8 DEF Relay!Next
<1>7. ASSUME NEW k \in Dst, DstFinish(k + 1)
      PROVE  UNCHANGED Relay!vars
  <2>1. k + 1 \in 1..Len(dstQ) /\ dstDone + 1 \in 1..k + 1
    BY <1>7 DEF DstFinish, Dst, Custody, TypeOK
  <2>2. InSink' = InSink
    BY <1>0, <1>7, <2>1, MoveToPermutes DEF DstFinish, InSink
  <2>3. SinkReads' = SinkReads /\ Filled' = Filled /\ InSource' = InSource
    BY <1>7, <2>2 DEF DstFinish, SinkReads, Filled, InSource
  <2> QED BY <1>7, <2>3, PlaceFrame DEF DstFinish, Relay!vars
<1>8. CASE pumpCreate \/ Call \/ PullDstNone \/ ReturnSourceFailed \/ SkipFailed
           \/ PullSrcNone \/ PassNothing \/ PassFailed \/ UNCHANGED vars
  <2>1. UNCHANGED <<srcQ, srcDone, dstQ, attached, frame, captured, passed>>
    BY <1>8 DEF pumpCreate, Push, Created, Call, PullDstNone, ReturnSourceFailed, SkipFailed,
                PullSrcNone, PassNothing, PassFailed, vars
  <2>2. SinkReads' = SinkReads /\ Filled' = Filled /\ InSource' = InSource
    BY <2>1 DEF SinkReads, InSink, Filled, InSource
  <2> QED BY <2>1, <2>2, PlaceFrame DEF Relay!vars
<1> QED
  BY <1>1, <1>2, <1>3, <1>4, <1>5, <1>6, <1>7, <1>8 DEF Next, pumpPump, Drivers

(* The pump implements the relay: for every number of buffers, every order of *)
(* completion and every pattern of failing QBUFs the frames reach the         *)
(* destination in the order of their capture and at most once, and a buffer   *)
(* goes back unread only while a newer frame is held (pump.c:224-310).        *)
THEOREM RelayImplemented == Spec => RelaySpec
<1>1. Init => Custody /\ OrderInv /\ Relay!Init
  BY InitCustody, InitOrder, InitRelay
<1>2. Custody /\ OrderInv /\ [Next]_vars => Custody' /\ OrderInv' /\ [Relay!Next]_(Relay!vars)
  BY NextCustody, NextOrder, StepRelay
<1> QED BY <1>1, <1>2, PTL DEF Spec, RelaySpec, Relay!Spec
===================================================================================
