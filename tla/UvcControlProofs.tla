------------------------------ MODULE UvcControlProofs ------------------------------
(***************************************************************************)
(* Theorems about UvcControl, for all requests, any number of them, of       *)
(* timeouts and of failing ioctls.                                           *)
(***************************************************************************)
EXTENDS UvcControl, FiniteSetTheorems, WellFoundedInduction, TLAPS

USE MaxRequestsAssumption, MaxTimeoutsAssumption, MaxFaultsAssumption

Code == {NO_ERROR, INVALID_CONTROL, INVALID_REQUEST}

Sent == {r \in Requests : r.of > 0}

EventTypes == [type : {"SETUP", "DATA"}, req : Sent]

-----------------------------------------------------------------------------
(* The driver's queue *)

LEMMA LeastPlace ==
  ASSUME NEW n \in Nat, NEW S \in SUBSET (1..n), S # {}
  PROVE  Min(S) \in S /\ \A i \in S : Min(S) <= i
<1>1. S \subseteq Nat
  OBVIOUS
<1>2. PICK l \in S : \A i \in S : <<i, l>> \notin OpToRel(<, Nat)
  BY <1>1, WFMin, NatLessThanWellFounded, Zenon
<1>3. \A i \in S : ~(i < l)
  BY <1>1, <1>2, Zenon DEF OpToRel
<1>4. \E x \in S : \A i \in S : x <= i
  BY <1>3
<1> QED BY <1>4 DEF Min

(* Two of a type make the queue full for that type. *)
LEMMA TwoFill ==
  ASSUME NEW n \in Nat, NEW S \in SUBSET (1..n)
  PROVE  /\ Cardinality(S) >= 2 => S # {}
         /\ (\E i, j \in S : i < j) => Cardinality(S) >= 2
<1>1. IsFiniteSet(S)
  <2>1. IsFiniteSet(1..n)
    BY FS_Interval
  <2> QED BY <2>1, FS_Subset
<1>2. Cardinality(S) >= 2 => S # {}
  BY FS_EmptySet
<1>3. ASSUME NEW i \in S, NEW j \in S, i < j PROVE Cardinality(S) >= 2
  <2>1a. Cardinality({i}) = 1 /\ IsFiniteSet({i})
    BY FS_Singleton, Zenon
  <2>1b. j \notin {i}
    BY <1>3
  <2>1. Cardinality({i}) = 1 /\ IsFiniteSet({i}) /\ j \notin {i}
    BY <2>1a, <2>1b
  <2>2. Cardinality({i} \cup {j}) = 2
    BY <2>1, FS_AddElement
  <2>3. Cardinality({i} \cup {j}) <= Cardinality(S)
    BY <1>1, FS_Subset, {i} \cup {j} \subseteq S
  <2> QED BY <1>1, <2>2, <2>3, FS_CardinalityType
<1> QED BY <1>2, <1>3

(* A queue without its event at m; none is missing when m is 0.               *)
Without(q, m) == IF m = 0 THEN q
                 ELSE [i \in 1..Len(q)-1 |-> IF i < m THEN q[i] ELSE q[i + 1]]

LEMMA WithoutIs ==
  ASSUME NEW S, NEW q \in Seq(S), NEW m \in 0..Len(q)
  PROVE  /\ Without(q, m) \in Seq(S)
         /\ Len(Without(q, m)) = (IF m = 0 THEN Len(q) ELSE Len(q) - 1)
         /\ \A i \in 1..Len(Without(q, m)) :
              Without(q, m)[i] = q[IF m = 0 \/ i < m THEN i ELSE i + 1]
<1>1. CASE m = 0
  BY <1>1 DEF Without
<1>2. CASE m # 0
  <2> DEFINE w == [i \in 1..Len(q)-1 |-> IF i < m THEN q[i] ELSE q[i + 1]]
  <2>1. w \in [1..Len(q)-1 -> S] /\ Len(q) - 1 \in Nat
    BY <1>2
  <2>2. w \in Seq(S) /\ Len(w) = Len(q) - 1
    BY <2>1
  <2> QED BY <1>2, <2>2 DEF Without
<1> QED BY <1>1, <1>2

(* Not three events of a type *)
TwoOfType(q) == \A i, j, k \in 1..Len(q) :
                  i < j /\ j < k => ~(q[i].type = q[j].type /\ q[j].type = q[k].type)

(* An event joins the queue, which loses at most the oldest of its type.      *)
Joins(e, m) ==
  /\ m \in 0..Len(events)
  /\ m # 0 => events[m].type = e.type
  /\ events' = Append(Without(events, m), e)
  /\ dropped' = IF m # 0 /\ e.type = "SETUP" THEN dropped + 1 ELSE dropped
  /\ edge' = TRUE
  /\ TwoOfType(events')

LEMMA TwoWith ==
  ASSUME NEW q \in Seq(EventTypes), NEW e \in EventTypes, TwoOfType(q),
         \A i, j \in 1..Len(q) : i # j /\ q[i].type = e.type => q[j].type # e.type
  PROVE  TwoOfType(Append(q, e))
<1> DEFINE r == Append(q, e)
           n == Len(q)
<1>1. /\ n \in Nat /\ Len(r) = n + 1 /\ r[n + 1] = e
      /\ \A i \in 1..n : r[i] = q[i]
  OBVIOUS
<1> HIDE DEF r
<1> SUFFICES ASSUME NEW i \in 1..n+1, NEW j \in 1..n+1, NEW k \in 1..n+1, i < j, j < k
             PROVE  ~(r[i].type = r[j].type /\ r[j].type = r[k].type)
  BY <1>1 DEF TwoOfType, r
<1> HIDE DEF n
<1>2. i \in 1..n /\ j \in 1..n /\ r[i] = q[i] /\ r[j] = q[j]
  BY <1>1
<1>3. CASE k = n + 1
  BY <1>1, <1>2, <1>3 DEF n
<1>4. CASE k \in 1..n
  BY <1>1, <1>2, <1>4 DEF TwoOfType, n
<1> QED BY <1>1, <1>3, <1>4

LEMMA EventJoins ==
  ASSUME events \in Seq(EventTypes), TwoOfType(events), NEW e \in EventTypes, QueueEvent(e)
  PROVE  \E m \in 0..Len(events) : Joins(e, m)
<1> DEFINE n == Len(events)
           Same == {i \in 1..n : events[i].type = e.type}
           full == Cardinality(Same) >= 2
           m == IF full THEN Min(Same) ELSE 0
<1>1. n \in Nat /\ Same \in SUBSET (1..n) /\ \A i \in 1..n : i \in Same <=> events[i].type = e.type
  OBVIOUS
<1> HIDE DEF n, Same
<1>2. full => Same # {}
  BY <1>1, TwoFill
<1>3. full => Min(Same) \in Same /\ \A i \in Same : Min(Same) <= i
  BY <1>1, <1>2, LeastPlace
<1>4. /\ events' = Append(Without(events, m), e)
      /\ dropped' = IF m # 0 /\ e.type = "SETUP" THEN dropped + 1 ELSE dropped
      /\ edge' = TRUE
  <2>1. full => Min(Same) # 0
    BY <1>1, <1>3
  <2>2. /\ events' = Append(IF full THEN [i \in 1..Len(events)-1 |->
                                          IF i < Min(Same) THEN events[i] ELSE events[i + 1]]
                                   ELSE events, e)
        /\ dropped' = IF full /\ e.type = "SETUP" THEN dropped + 1 ELSE dropped
        /\ edge' = TRUE
    BY DEF QueueEvent, MaxOfType, Same, n
  <2> HIDE DEF full
  <2>3. CASE full
    BY <2>1, <2>2, <2>3 DEF Without
  <2>4. CASE ~full
    BY <2>2, <2>4 DEF Without
  <2> QED BY <2>3, <2>4
<1>5. ~full => ~ \E i, j \in Same : i < j
  BY <1>1, TwoFill
<1>6. CASE full
  <2> DEFINE k == Min(Same)
  <2>1. /\ k \in Same /\ \A i \in Same : k <= i
        /\ events' = Append(Without(events, k), e)
        /\ dropped' = IF k # 0 /\ e.type = "SETUP" THEN dropped + 1 ELSE dropped
    BY <1>4, <1>3, <1>6
  <2> HIDE DEF k
  <2>2. \A i, j \in Same : i # k /\ j # k => i = j
    <3> SUFFICES ASSUME NEW i \in Same, NEW j \in Same, i # k, j # k, i < j PROVE FALSE
      BY <1>1
    <3>1. k < i
      BY <1>1, <2>1
    <3> QED BY <1>1, <2>1, <3>1 DEF TwoOfType, n
  <2>3. k \in 0..Len(events) /\ k # 0 /\ events[k].type = e.type
    BY <1>1, <2>1 DEF n
  <2>4. TwoOfType(events')
    <3> DEFINE w == Without(events, k)
    <3>1. /\ w \in Seq(EventTypes) /\ Len(w) = n - 1
          /\ \A i \in 1..n-1 : w[i] = events[IF i < k THEN i ELSE i + 1]
      BY <2>3, WithoutIs DEF n
    <3> HIDE DEF w
    <3>2. \A i, j \in 1..n-1 : i # j /\ w[i].type = e.type => w[j].type # e.type
      <4> SUFFICES ASSUME NEW i \in 1..n-1, NEW j \in 1..n-1, i # j,
                          w[i].type = e.type, w[j].type = e.type
                   PROVE  FALSE
        OBVIOUS
      <4> DEFINE I == IF i < k THEN i ELSE i + 1
                 J == IF j < k THEN j ELSE j + 1
      <4>1. I \in 1..n /\ J \in 1..n /\ I # J /\ I # k /\ J # k
        BY <1>1, <2>1
      <4>2. w[i] = events[I] /\ w[j] = events[J]
        BY <3>1
      <4> HIDE DEF I, J
      <4> QED BY <1>1, <2>2, <4>1, <4>2
    <3>3. \A a, b, c \in 1..n-1 : a < b /\ b < c =>
            ~(w[a].type = w[b].type /\ w[b].type = w[c].type)
      <4> SUFFICES ASSUME NEW a \in 1..n-1, NEW b \in 1..n-1, NEW c \in 1..n-1, a < b, b < c
                   PROVE  ~(w[a].type = w[b].type /\ w[b].type = w[c].type)
        OBVIOUS
      <4> DEFINE A == IF a < k THEN a ELSE a + 1
                 B == IF b < k THEN b ELSE b + 1
                 C == IF c < k THEN c ELSE c + 1
      <4>0. k \in 1..n /\ n \in Nat
        BY <1>1, <2>1
      <4>1. A \in 1..n /\ B \in 1..n /\ C \in 1..n
        BY <4>0
      <4>3. A < B /\ B < C
        BY <4>0
      <4>2. w[a] = events[A] /\ w[b] = events[B] /\ w[c] = events[C]
        BY <3>1
      <4> HIDE DEF A, B, C
      <4> QED BY <4>1, <4>2, <4>3 DEF TwoOfType, n
    <3>4. events' = Append(w, e)
      BY <2>1 DEF w
    <3>5. TwoOfType(w)
      BY <3>1, <3>3 DEF TwoOfType
    <3>6. \A i, j \in 1..Len(w) : i # j /\ w[i].type = e.type => w[j].type # e.type
      BY <3>1, <3>2
    <3>7. TwoOfType(Append(w, e))
      BY <3>1, <3>5, <3>6, TwoWith
    <3> QED BY <3>4, <3>7
  <2> QED BY <1>4, <2>1, <2>3, <2>4 DEF Joins
<1>7. CASE ~full
  <2>1. \A i, j \in 1..Len(events) : i # j /\ events[i].type = e.type => events[j].type # e.type
    <3> SUFFICES ASSUME NEW i \in 1..Len(events), NEW j \in 1..Len(events), i # j,
                        events[i].type = e.type, events[j].type = e.type
                 PROVE  FALSE
      OBVIOUS
    <3>1. i \in Same /\ j \in Same
      BY <1>1 DEF n
    <3> QED BY <1>1, <1>5, <1>7, <3>1
  <2>2. events' = Append(events, e) /\ events' = Append(Without(events, 0), e)
    BY <1>4, <1>7 DEF Without
  <2>3. TwoOfType(events')
    BY <2>1, <2>2, TwoWith DEF TwoOfType
  <2> QED BY <1>4, <1>7, <2>2, <2>3 DEF Joins
<1> QED BY <1>6, <1>7

-----------------------------------------------------------------------------
(* The numbers of the requests in the queue *)

(* They rise, are above lo and not above hi. *)
Rising(q, lo, hi) ==
  \A i \in 1..Len(q) : q[i].type = "SETUP" =>
    /\ lo < q[i].req.of /\ q[i].req.of <= hi
    /\ \A j \in 1..i-1 : q[j].type = "SETUP" => q[j].req.of < q[i].req.of

LEMMA OfIsNat == \A e \in EventTypes : e.req.of \in Nat /\ e.req.of > 0
BY DEF EventTypes, Sent, Requests

LEMMA RisingWider ==
  ASSUME NEW q \in Seq(EventTypes), NEW lo \in Int, NEW low \in Int, NEW hi \in Int,
         low <= lo, Rising(q, lo, hi)
  PROVE  Rising(q, low, hi)
BY OfIsNat DEF Rising

LEMMA RisingTail ==
  ASSUME NEW q \in Seq(EventTypes), q # << >>, NEW lo \in Int, NEW hi \in Int, Rising(q, lo, hi)
  PROVE  /\ Rising(Tail(q), lo, hi)
         /\ q[1].type = "SETUP" => Rising(Tail(q), q[1].req.of, hi)
<1> DEFINE t == Tail(q)
           n == Len(q)
<1>1. /\ n \in Nat \ {0} /\ t \in Seq(EventTypes) /\ Len(t) = n - 1
      /\ \A i \in 1..n-1 : t[i] = q[i + 1]
  OBVIOUS
<1> HIDE DEF t
<1>2. ASSUME NEW i \in 1..n-1, t[i].type = "SETUP"
      PROVE  /\ lo < t[i].req.of /\ t[i].req.of <= hi
             /\ q[1].type = "SETUP" => q[1].req.of < t[i].req.of
             /\ \A j \in 1..i-1 : t[j].type = "SETUP" => t[j].req.of < t[i].req.of
  <2>1. i + 1 \in 1..n /\ q[i + 1].type = "SETUP"
    BY <1>1, <1>2
  <2>2. \A j \in 1..i : q[j].type = "SETUP" => q[j].req.of < q[i + 1].req.of
    BY <1>1, <2>1 DEF Rising
  <2>3. \A j \in 1..i-1 : j + 1 \in 1..i /\ t[j] = q[j + 1]
    BY <1>1
  <2>4. lo < q[i + 1].req.of /\ q[i + 1].req.of <= hi
    BY <2>1 DEF Rising
  <2>5. t[i] = q[i + 1] /\ 1 \in 1..i
    BY <1>1
  <2>6. \A j \in 1..i-1 : t[j].type = "SETUP" => t[j].req.of < t[i].req.of
    BY <2>2, <2>3, <2>5
  <2> QED BY <2>2, <2>4, <2>5, <2>6
<1> QED BY <1>1, <1>2 DEF Rising, t

(* An event joins as an answer's data, or as a request newer than all.        *)
LEMMA RisingJoin ==
  ASSUME NEW q \in Seq(EventTypes), NEW e \in EventTypes, NEW m \in 0..Len(q),
         NEW lo \in Int, NEW hi \in Int, NEW high \in Int, hi <= high, Rising(q, lo, hi),
         e.type = "SETUP" => lo < e.req.of /\ hi < e.req.of /\ e.req.of <= high
  PROVE  Rising(Append(Without(q, m), e), lo, high)
<1> DEFINE w == Without(q, m)
           n == Len(w)
           r == Append(w, e)
           at(i) == IF m = 0 \/ i < m THEN i ELSE i + 1
<1>1. /\ n \in Nat /\ w \in Seq(EventTypes) /\ \A i \in 1..n : w[i] = q[at(i)]
      /\ n = IF m = 0 THEN Len(q) ELSE Len(q) - 1
  BY WithoutIs
<1>2. \A i \in 1..n : at(i) \in 1..Len(q) /\ \A j \in 1..i-1 : at(j) \in 1..at(i)-1
  BY <1>1
<1> HIDE DEF w, at
<1>3. Len(r) = n + 1 /\ r[n + 1] = e /\ \A i \in 1..n : r[i] = w[i]
  BY <1>1
<1> HIDE DEF r, n
<1>4. ASSUME NEW i \in 1..n, r[i].type = "SETUP"
      PROVE  /\ lo < r[i].req.of /\ r[i].req.of <= hi
             /\ \A j \in 1..i-1 : r[j].type = "SETUP" => r[j].req.of < r[i].req.of
  <2>1. r[i] = q[at(i)] /\ \A j \in 1..i-1 : r[j] = q[at(j)]
    BY <1>1, <1>3
  <2> QED BY <1>1, <1>2, <1>4, <2>1 DEF Rising
<1>5. \A i \in 1..n : r[i].req.of \in Nat
  <2>1. \A i \in 1..n : r[i] \in EventTypes
    BY <1>1, <1>3 DEF n
  <2> QED BY <2>1, OfIsNat
<1>6. e.req.of \in Nat
  BY OfIsNat
<1>7. \A i \in 1..n+1 : i = n + 1 \/ i \in 1..n
  BY <1>1
<1>8. ASSUME NEW i \in 1..n+1, r[i].type = "SETUP"
      PROVE  /\ lo < r[i].req.of /\ r[i].req.of <= high
             /\ \A j \in 1..i-1 : r[j].type = "SETUP" => r[j].req.of < r[i].req.of
  <2>1. CASE i \in 1..n
    BY <1>4, <1>5, <1>8, <2>1
  <2>2. CASE i = n + 1
    <3>1. i - 1 = n /\ r[i] = e
      BY <1>1, <1>3, <2>2
    <3>2. \A j \in 1..n : r[j].type = "SETUP" => r[j].req.of < e.req.of
      BY <1>4, <1>5, <1>6, <1>8, <3>1
    <3> QED BY <1>6, <1>8, <3>1, <3>2
  <2> QED BY <1>7, <2>1, <2>2
<1>9. Rising(r, lo, high)
  BY <1>3, <1>8 DEF Rising
<1> QED BY <1>9 DEF r, w

-----------------------------------------------------------------------------
(* The data phase *)

(* Data for req would be taken right by a program with n events of q still to *)
(* handle, which knows of control c: the last SETUP is that of the request,   *)
(* and it is among the n, or c is not another's.                              *)
Follows(q, c, req, n) ==
  \/ \E j \in 1..n : /\ q[j].type = "SETUP" /\ q[j].req = req
                     /\ \A k \in j+1..n : q[k].type = "DATA"
  \/ (\A k \in 1..n : q[k].type = "DATA") /\ c \in {None, req.control}

DataFollow(q, c) ==
  \A i \in 1..Len(q) : q[i].type = "DATA" => Follows(q, c, q[i].req, i - 1)

(* The program has handled a SETUP, and knows of its control or of none.      *)
LEMMA FollowsSetup ==
  ASSUME NEW q \in Seq(EventTypes), q # << >>, q[1].type = "SETUP",
         NEW c, NEW d, d \in {None, q[1].req.control},
         NEW req, NEW n \in 1..Len(q), Follows(q, c, req, n)
  PROVE  Follows(Tail(q), d, req, n - 1)
<1> DEFINE t == Tail(q)
<1>1. \A i \in 1..Len(q)-1 : t[i] = q[i + 1]
  OBVIOUS
<1>2. Len(q) \in Nat \ {0}
  OBVIOUS
<1>3. PICK j \in 1..n : /\ q[j].type = "SETUP" /\ q[j].req = req
                       /\ \A k \in j+1..n : q[k].type = "DATA"
  BY <1>2 DEF Follows
<1> HIDE DEF t
<1>4. \A k \in j..n-1 : k + 1 \in j+1..n /\ t[k] = q[k + 1]
  BY <1>1, <1>2
<1>5. CASE j = 1
  BY <1>3, <1>4, <1>5 DEF Follows, t
<1>6. CASE j # 1
  <2>1. j - 1 \in 1..n-1 /\ t[j - 1] = q[j]
    BY <1>1, <1>2, <1>6
  <2>2. \A k \in (j-1)+1..n-1 : t[k].type = "DATA"
    BY <1>3, <1>4
  <2> QED BY <1>3, <2>1, <2>2 DEF Follows, t
<1> QED BY <1>5, <1>6

(* The program has handled data, and knows of no control any more.            *)
LEMMA FollowsData ==
  ASSUME NEW q \in Seq(EventTypes), q # << >>, q[1].type = "DATA", NEW c,
         NEW req, NEW n \in 1..Len(q), Follows(q, c, req, n)
  PROVE  Follows(Tail(q), None, req, n - 1)
<1> DEFINE t == Tail(q)
<1>1. \A i \in 1..Len(q)-1 : t[i] = q[i + 1]
  OBVIOUS
<1>2. Len(q) \in Nat \ {0}
  OBVIOUS
<1> HIDE DEF t
<1>3. CASE \A k \in 1..n : q[k].type = "DATA"
  <2>1. \A k \in 1..n-1 : t[k] = q[k + 1] /\ k + 1 \in 1..n
    BY <1>1, <1>2
  <2> QED BY <1>3, <2>1 DEF Follows, t
<1>4. CASE ~ \A k \in 1..n : q[k].type = "DATA"
  <2>1. PICK j \in 1..n : /\ q[j].type = "SETUP" /\ q[j].req = req
                         /\ \A k \in j+1..n : q[k].type = "DATA"
    BY <1>4 DEF Follows
  <2>2. j - 1 \in 1..n-1 /\ t[j - 1] = q[j]
    BY <1>1, <1>2, <2>1
  <2>3. \A k \in (j-1)+1..n-1 : k + 1 \in j+1..n /\ t[k] = q[k + 1]
    BY <1>1, <1>2
  <2> QED BY <2>1, <2>2, <2>3 DEF Follows, t
<1> QED BY <1>3, <1>4

(* Other data leave the queue. *)
LEMMA FollowsWithout ==
  ASSUME NEW q \in Seq(EventTypes), NEW m \in 0..Len(q), m # 0 => q[m].type = "DATA",
         NEW c, NEW req, NEW n \in 0..Len(q), Follows(q, c, req, n)
  PROVE  Follows(Without(q, m), c, req, IF m = 0 \/ n < m THEN n ELSE n - 1)
<1> DEFINE w == Without(q, m)
           l == IF m = 0 \/ n < m THEN n ELSE n - 1
           at(i) == IF m = 0 \/ i < m THEN i ELSE i + 1
<1>1. \A i \in 1..Len(w) : w[i] = q[at(i)]
  BY WithoutIs
<1>2. Len(w) = IF m = 0 THEN Len(q) ELSE Len(q) - 1
  BY WithoutIs
<1> HIDE DEF w
<1>3. \A i \in 1..l : i \in 1..Len(w) /\ at(i) \in 1..n
  BY <1>2
<1>4. CASE \A k \in 1..n : q[k].type = "DATA"
  BY <1>1, <1>3, <1>4 DEF Follows, w
<1>5. CASE ~ \A k \in 1..n : q[k].type = "DATA"
  <2>1. PICK j \in 1..n : /\ q[j].type = "SETUP" /\ q[j].req = req
                         /\ \A k \in j+1..n : q[k].type = "DATA"
    BY <1>5 DEF Follows
  <2> DEFINE i == IF m = 0 \/ j < m THEN j ELSE j - 1
  <2>2. j # m
    BY <2>1
  <2>3. i \in 1..l /\ at(i) = j /\ \A k \in i+1..l : at(k) \in j+1..n
    BY <2>1, <2>2
  <2> HIDE DEF i, at, l
  <2>4. w[i] = q[j] /\ \A k \in i+1..l : w[k].type = "DATA"
    BY <1>1, <1>3, <2>1, <2>3
  <2>5. Follows(w, c, req, l)
    BY <2>1, <2>3, <2>4 DEF Follows
  <2> QED BY <2>5 DEF w, l
<1> QED BY <1>4, <1>5

LEMMA FollowsAppend ==
  ASSUME NEW q \in Seq(EventTypes), NEW e \in EventTypes, NEW c, NEW req,
         NEW n \in 0..Len(q), Follows(q, c, req, n)
  PROVE  Follows(Append(q, e), c, req, n)
<1>1. \A i \in 1..n : Append(q, e)[i] = q[i]
  OBVIOUS
<1>2. CASE \A k \in 1..n : q[k].type = "DATA"
  BY <1>1, <1>2 DEF Follows
<1>3. CASE ~ \A k \in 1..n : q[k].type = "DATA"
  <2>1. PICK j \in 1..n : /\ q[j].type = "SETUP" /\ q[j].req = req
                         /\ \A k \in j+1..n : q[k].type = "DATA"
    BY <1>3 DEF Follows
  <2>2. \A k \in j+1..n : k \in 1..n
    OBVIOUS
  <2> QED BY <1>1, <2>1, <2>2 DEF Follows
<1> QED BY <1>2, <1>3

LEMMA FollowsOwn ==
  ASSUME NEW q \in Seq(EventTypes), NEW e \in EventTypes, e.type = "SETUP", NEW c
  PROVE  Follows(Append(q, e), c, e.req, Len(q) + 1)
<1>1. /\ Len(q) + 1 \in 1..Len(q)+1 /\ Append(q, e)[Len(q) + 1] = e
      /\ (Len(q)+1)+1..Len(q)+1 = {}
  OBVIOUS
<1> QED BY <1>1 DEF Follows

LEMMA DataTail ==
  ASSUME NEW q \in Seq(EventTypes), q # << >>, NEW c, NEW d, DataFollow(q, c),
         \/ q[1].type = "SETUP" /\ d \in {None, q[1].req.control}
         \/ q[1].type = "DATA" /\ d = None
  PROVE  DataFollow(Tail(q), d)
<1> SUFFICES ASSUME NEW i \in 1..Len(Tail(q)), Tail(q)[i].type = "DATA"
             PROVE  Follows(Tail(q), d, Tail(q)[i].req, i - 1)
  BY DEF DataFollow
<1>1. /\ i + 1 \in 1..Len(q) /\ Tail(q)[i] = q[i + 1] /\ (i + 1) - 1 = i
      /\ i \in 1..Len(q)
  OBVIOUS
<1>2. Follows(q, c, q[i + 1].req, i)
  BY <1>1 DEF DataFollow
<1> QED BY <1>1, <1>2, FollowsSetup, FollowsData

LEMMA DataJoin ==
  ASSUME NEW q \in Seq(EventTypes), NEW e \in EventTypes, NEW m \in 0..Len(q),
         NEW c, DataFollow(q, c), m # 0 => q[m].type = "DATA",
         e.type = "DATA" => Follows(q, c, e.req, Len(q))
  PROVE  DataFollow(Append(Without(q, m), e), c)
<1> DEFINE w == Without(q, m)
           n == Len(w)
<1>1. /\ n \in Nat /\ w \in Seq(EventTypes)
      /\ n = IF m = 0 THEN Len(q) ELSE Len(q) - 1
      /\ \A i \in 1..n : w[i] = q[IF m = 0 \/ i < m THEN i ELSE i + 1]
  BY WithoutIs
<1> HIDE DEF w
<1>2. ASSUME NEW i \in 1..n, w[i].type = "DATA" PROVE Follows(w, c, w[i].req, i - 1)
  <2> DEFINE k == IF m = 0 \/ i < m THEN i ELSE i + 1
  <2>1. /\ k \in 1..Len(q) /\ w[i] = q[k] /\ k - 1 \in 0..Len(q)
        /\ i - 1 = IF m = 0 \/ k - 1 < m THEN k - 1 ELSE k - 2
    BY <1>1
  <2> HIDE DEF k
  <2>2. Follows(q, c, w[i].req, k - 1)
    BY <1>2, <2>1 DEF DataFollow
  <2>3. Follows(w, c, w[i].req, IF m = 0 \/ k - 1 < m THEN k - 1 ELSE (k - 1) - 1)
    BY <2>1, <2>2, FollowsWithout DEF w
  <2> QED BY <2>1, <2>3
<1>3. e.type = "DATA" => Follows(w, c, e.req, n)
  <2> SUFFICES ASSUME e.type = "DATA" PROVE Follows(w, c, e.req, n)
    OBVIOUS
  <2>1. Follows(w, c, e.req, IF m = 0 \/ Len(q) < m THEN Len(q) ELSE Len(q) - 1)
    BY FollowsWithout DEF w
  <2> QED BY <1>1, <2>1
<1>4. \A i \in 1..n : Append(w, e)[i] = w[i]
  BY <1>1
<1>5. Len(Append(w, e)) = n + 1 /\ Append(w, e)[n + 1] = e
  BY <1>1
<1>6. ASSUME NEW i \in 1..n+1, Append(w, e)[i].type = "DATA"
      PROVE  Follows(Append(w, e), c, Append(w, e)[i].req, i - 1)
  <2>1. CASE i = n + 1
    <3>1. n \in 0..Len(w) /\ i - 1 = n
      BY <1>1, <2>1
    <3> QED BY <1>1, <1>3, <1>5, <1>6, <2>1, <3>1, FollowsAppend
  <2>2. CASE i \in 1..n
    <3>1. i - 1 \in 0..Len(w)
      BY <1>1, <2>2
    <3> QED BY <1>1, <1>2, <1>4, <1>6, <2>2, <3>1, FollowsAppend
  <2> QED BY <1>1, <2>1, <2>2
<1>7. DataFollow(Append(w, e), c)
  BY <1>5, <1>6 DEF DataFollow
<1> QED BY <1>7 DEF w

-----------------------------------------------------------------------------
(* The invariant *)

Types ==
  /\ asked \in Requests /\ (Idle \/ (asked \in Sent /\ asked.of = sent))
  /\ answer \in [asked : Requests, of : 0..MaxRequests, code : Code, data : Code]
  /\ sent \in 0..MaxRequests /\ timeouts \in 0..MaxTimeouts /\ dropped \in 0..sent
  /\ events \in Seq(EventTypes) /\ TwoOfType(events)
  /\ edge \in BOOLEAN /\ loop \in {"wait", "events"}
  /\ data_phase_control \in DOMAIN info_caps \cup {None}
  /\ bRequestErrorCode \in Code /\ prevCode \in Code
  /\ response \in [of : 0..MaxRequests, code : Code, data : Code]
  /\ faults \in 0..MaxFaults

(* The number of the request that the host waits for, or sends next           *)
Awaited == IF Idle THEN sent + 1 ELSE sent

(* The requests still to be answered are in the order they were sent, and no  *)
(* older than the timeouts explain.                                           *)
Numbered ==
  /\ Rising(events, IF response = NoResponse THEN Awaited - timeouts - 1 ELSE response.of, sent)
  /\ response # NoResponse => response.of \in Awaited-timeouts..sent /\ response.of > 0

(* The host waits for an answer that will not come: its request was handled,   *)
(* and the response failed.                                                   *)
Stuck == ~Idle /\ \A i \in 1..Len(events) : events[i].type = "DATA"

(* As long as the host waits for every answer, the code that the program      *)
(* keeps is that of the request answered last, or nobody asks for it again.   *)
Told == timeouts = 0 =>
  /\ answer.data = prevCode
  /\ response = NoResponse => Stuck \/ bRequestErrorCode = answer.code
  /\ response # NoResponse => response.data = answer.code /\ bRequestErrorCode = response.code

(* Data come behind the SETUP of their request, with no other in between.     *)
Phases == dropped = 0 =>
  /\ DataFollow(events, data_phase_control)
  /\ Idle \/ Follows(events, data_phase_control, asked, Len(events))
  /\ handed.to = handed.from

IInv == Types /\ Numbered /\ Told /\ Phases /\ AnswersMatch

LEMMA NothingIs == Nothing \in Requests /\ Nothing \notin Sent /\ Nothing.of = 0
BY DEF Nothing, Requests, Sent

LEMMA Initially == Init => IInv
<1> SUFFICES ASSUME Init PROVE IInv
  OBVIOUS
<1>1. events = << >> /\ events \in Seq(EventTypes) /\ Len(events) = 0
  BY DEF Init
<1>2. Types
  <2>1. answer \in [asked : Requests, of : 0..MaxRequests, code : Code, data : Code]
    BY NothingIs DEF Init, Code
  <2>2. response \in [of : 0..MaxRequests, code : Code, data : Code]
    BY DEF Init, NoResponse, Code
  <2>8. faults \in 0..MaxFaults
    BY MaxFaultsAssumption DEF Init
  <2>3. TwoOfType(events)
    BY <1>1 DEF TwoOfType
  <2>4. sent \in 0..MaxRequests /\ timeouts \in 0..MaxTimeouts /\ dropped \in 0..sent
    BY MaxRequestsAssumption, MaxTimeoutsAssumption DEF Init
  <2>7. edge \in BOOLEAN /\ loop \in {"wait", "events"}
    BY DEF Init
  <2>5. /\ data_phase_control \in DOMAIN info_caps \cup {None}
        /\ bRequestErrorCode \in Code /\ prevCode \in Code
    BY DEF Init, Code
  <2>6. asked \in Requests /\ Idle
    BY NothingIs DEF Init, Idle
  <2> QED BY <1>1, <2>1, <2>2, <2>3, <2>4, <2>5, <2>6, <2>7, <2>8 DEF Types
<1>3. Numbered
  BY <1>1 DEF Numbered, Init, Rising
<1>4. Told
  BY DEF Told, Init
<1>5. Phases
  BY <1>1 DEF Phases, Init, DataFollow, Idle
<1>6. AnswersMatch
  BY NothingIs DEF AnswersMatch, Init
<1> QED BY <1>2, <1>3, <1>4, <1>5, <1>6 DEF IInv

-----------------------------------------------------------------------------
(* The steps *)

(* What becomes of the queue and of the counts when an event joins *)
LEMMA JoinTypes ==
  ASSUME Types, NEW e \in EventTypes, NEW m \in 0..Len(events), Joins(e, m)
  PROVE  /\ events' \in Seq(EventTypes) /\ TwoOfType(events') /\ edge' \in BOOLEAN
         /\ Len(events') = Len(Without(events, m)) + 1
         /\ dropped' \in dropped..dropped+1 /\ (e.type # "SETUP" => dropped' = dropped)
<1>1. Without(events, m) \in Seq(EventTypes)
  BY WithoutIs DEF Types
<1>2. events' = Append(Without(events, m), e)
  BY DEF Joins
<1>3. events' \in Seq(EventTypes) /\ Len(events') = Len(Without(events, m)) + 1
  BY <1>1, <1>2
<1>4. dropped' \in dropped..dropped+1 /\ (e.type # "SETUP" => dropped' = dropped)
  BY DEF Joins, Types
<1> QED BY <1>3, <1>4 DEF Joins

LEMMA HostAsksKeeps == IInv /\ HostAsks => IInv'
<1> SUFFICES ASSUME IInv, HostAsks PROVE IInv'
  OBVIOUS
<1>1. PICK a \in Asks : LET req == [of |-> sent + 1, control |-> a[1], request |-> a[2]]
                        IN  asked' = req /\ QueueEvent([type |-> "SETUP", req |-> req])
  BY DEF HostAsks
<1> DEFINE req == [of |-> sent + 1, control |-> a[1], request |-> a[2]]
           e == [type |-> "SETUP", req |-> req]
<1>2. /\ Types /\ Idle /\ asked' = req /\ sent' = sent + 1 /\ sent' \in 1..MaxRequests
      /\ UNCHANGED <<timeouts, prevCode, answer, usbVars>>
  BY <1>1 DEF HostAsks, IInv, Types
<1>3. req \in Sent /\ req.of = sent + 1
  BY <1>2 DEF Sent, Requests
<1>4. e \in EventTypes /\ e.type = "SETUP" /\ e.req = req
  BY <1>3 DEF EventTypes
<1>5. PICK m \in 0..Len(events) : Joins(e, m)
  BY <1>1, <1>2, <1>4, EventJoins DEF Types
<1> HIDE DEF e, req
<1>6. /\ events' \in Seq(EventTypes) /\ TwoOfType(events') /\ edge' \in BOOLEAN
      /\ Len(events') = Len(Without(events, m)) + 1 /\ dropped' \in dropped..dropped+1
  BY <1>2, <1>4, <1>5, JoinTypes
<1>7. events' = Append(Without(events, m), e) /\ dropped' = IF m # 0 THEN dropped + 1 ELSE dropped
  BY <1>4, <1>5 DEF Joins
<1>8. ~Idle'
  BY <1>2, <1>3, NothingIs DEF Idle
<1>9. Types'
  <2>1. dropped' \in 0..sent'
    BY <1>2, <1>6 DEF Types
  <2>2. asked' \in Requests /\ asked' \in Sent /\ asked'.of = sent'
    BY <1>2, <1>3 DEF Sent
  <2> QED BY <1>2, <1>6, <2>1, <2>2 DEF Types, usbVars
<1>10. Numbered'
  <2> DEFINE lo == IF response = NoResponse THEN Awaited - timeouts - 1 ELSE response.of
  <2>1. /\ Awaited = sent + 1 /\ Awaited' = sent + 1 /\ sent \in Nat /\ timeouts \in Nat
        /\ response \in [of : 0..MaxRequests, code : Code, data : Code]
    BY <1>2, <1>8 DEF Awaited, Types
  <2>2. Rising(events, lo, sent) /\ (response # NoResponse => response.of \in Awaited-timeouts..sent)
    BY DEF IInv, Numbered
  <2>3. lo \in Int /\ lo < sent + 1
    BY <2>1, <2>2
  <2>4. lo' = lo /\ response' = response /\ timeouts' = timeouts
    BY <1>2, <2>1 DEF usbVars
  <2> HIDE DEF lo
  <2>5. e.req.of = sent + 1
    BY <1>3, <1>4
  <2>6. Rising(Append(Without(events, m), e), lo, sent + 1)
    BY <1>2, <1>4, <2>1, <2>2, <2>3, <2>5, RisingJoin DEF Types
  <2>7. Rising(events', lo', sent')
    BY <1>2, <1>7, <2>4, <2>6
  <2>8. response' # NoResponse => response'.of \in Awaited'-timeouts'..sent' /\ response'.of > 0
    BY <1>2, <2>1, <2>2, <2>4 DEF IInv, Numbered
  <2> QED BY <2>7, <2>8 DEF Numbered, lo
<1>11. Told'
  BY <1>2 DEF IInv, Told, Stuck, usbVars
<1>12. Phases'
  <2> SUFFICES ASSUME dropped' = 0 PROVE Phases'
    BY DEF Phases
  <2>1. m = 0 /\ dropped = 0
    BY <1>2, <1>7 DEF Types
  <2>2. DataFollow(events, data_phase_control) /\ handed.to = handed.from
    BY <2>1 DEF IInv, Phases
  <2>3. DataFollow(events', data_phase_control)
    BY <1>2, <1>4, <1>7, <2>1, <2>2, DataJoin DEF Types
  <2>4. events' = Append(events, e) /\ Len(events') = Len(events) + 1
    BY <1>6, <1>7, <2>1 DEF Without
  <2>5. Follows(events', data_phase_control, req, Len(events'))
    BY <1>2, <1>4, <2>4, FollowsOwn DEF Types
  <2> QED BY <1>2, <2>2, <2>3, <2>5 DEF Phases, usbVars
<1>13. AnswersMatch'
  BY <1>2 DEF IInv, AnswersMatch
<1> QED BY <1>9, <1>10, <1>11, <1>12, <1>13 DEF IInv

LEMMA HostGivesUpKeeps == IInv /\ HostGivesUp => IInv'
<1> SUFFICES ASSUME IInv, HostGivesUp PROVE IInv'
  OBVIOUS
<1>1. /\ Types /\ ~Idle /\ Idle' /\ timeouts' = timeouts + 1 /\ timeouts' \in 1..MaxTimeouts
      /\ asked' = Nothing
      /\ UNCHANGED <<sent, prevCode, answer, driverVars, usbVars>>
  BY DEF HostGivesUp, IInv, Types, Idle
<1>2. Types'
  BY <1>1, NothingIs DEF Types, driverVars, usbVars, Idle
<1>3. Numbered'
  <2>1. Awaited = sent /\ Awaited' = sent + 1 /\ sent \in Nat /\ timeouts \in Nat
    BY <1>1 DEF Awaited, Types
  <2>2. Awaited' - timeouts' = Awaited - timeouts
    BY <1>1, <2>1
  <2> QED BY <1>1, <2>2 DEF IInv, Numbered, driverVars, usbVars
<1>4. Told'
  BY <1>1 DEF Told
<1>5. Phases'
  BY <1>1 DEF IInv, Phases, driverVars, usbVars
<1>6. AnswersMatch'
  BY <1>1 DEF IInv, AnswersMatch, Types, Requests
<1> QED BY <1>2, <1>3, <1>4, <1>5, <1>6 DEF IInv

LEMMA SameKeeps ==
  ASSUME IInv, UNCHANGED <<hostVars, events, dropped, data_phase_control, bRequestErrorCode, response, handed>>,
         edge' \in BOOLEAN, loop' \in {"wait", "events"}, faults' \in 0..MaxFaults
  PROVE  IInv'
<1>1. Types'
  BY DEF IInv, Types, hostVars, Idle
<1>2. Numbered'
  BY DEF IInv, Numbered, hostVars, Awaited, Idle
<1>3. Told' /\ AnswersMatch'
  BY DEF IInv, Told, Stuck, Idle, hostVars, AnswersMatch
<1>4. Phases'
  BY DEF IInv, Phases, hostVars, Idle
<1> QED BY <1>1, <1>2, <1>3, <1>4 DEF IInv

LEMMA DispatchIs ==
  ASSUME NEW c, NEW r
  PROVE  /\ usbUvcDispatchRequest(c, r) \in Code \cup {NO_CONTROL}
         /\ usbUvcDispatchRequest(c, r) = NO_ERROR => c \in DOMAIN info_caps
<1>1. get(c, r) \in Code
  BY DEF get, Code
<1>2. usbUvcDispatchRequest(c, r) \in Code \cup {NO_CONTROL}
  BY <1>1 DEF usbUvcDispatchRequest, Code
<1>3. c \notin DOMAIN info_caps => usbUvcDispatchRequest(c, r) = NO_CONTROL
  BY DEF usbUvcDispatchRequest
<1> QED BY <1>2, <1>3 DEF NO_CONTROL, NO_ERROR

(* What is left of the queue when its first event is handled *)
LEMMA TailTypes ==
  ASSUME NEW q \in Seq(EventTypes), q # << >>, TwoOfType(q)
  PROVE  /\ Tail(q) \in Seq(EventTypes) /\ TwoOfType(Tail(q)) /\ Head(q) = q[1]
         /\ Len(q) \in 1..Len(q) /\ Len(Tail(q)) = Len(q) - 1 /\ q[1] \in EventTypes
<1>1. Len(q) \in Nat \ {0} /\ Len(Tail(q)) = Len(q) - 1 /\ q[1] \in EventTypes
  OBVIOUS
<1>2. \A i \in 1..Len(q)-1 : Tail(q)[i] = q[i + 1]
  OBVIOUS
<1>3. TwoOfType(Tail(q))
  <2> SUFFICES ASSUME NEW i \in 1..Len(q)-1, NEW j \in 1..Len(q)-1, NEW k \in 1..Len(q)-1,
                      i < j, j < k
               PROVE  ~(Tail(q)[i].type = Tail(q)[j].type /\ Tail(q)[j].type = Tail(q)[k].type)
    BY <1>1 DEF TwoOfType
  <2>1. i + 1 \in 1..Len(q) /\ j + 1 \in 1..Len(q) /\ k + 1 \in 1..Len(q) /\ i + 1 < j + 1 /\ j + 1 < k + 1
    BY <1>1
  <2> QED BY <1>2, <2>1 DEF TwoOfType
<1> QED BY <1>1, <1>3

LEMMA SetupKeeps == IInv /\ processEventSetup => IInv'
<1> SUFFICES ASSUME IInv, processEventSetup PROVE IInv'
  OBVIOUS
<1> DEFINE q == events
           req == q[1].req
           result == usbUvcDispatchRequest(req.control, req.request)
<1>1. /\ Types /\ q \in Seq(EventTypes) /\ q # << >> /\ TwoOfType(q) /\ response = NoResponse
      /\ Head(q).type = "SETUP"
  BY DEF processEventSetup, Event, IInv, Types
<1>2. /\ Tail(q) \in Seq(EventTypes) /\ TwoOfType(Tail(q)) /\ Head(q) = q[1]
      /\ Len(q) \in 1..Len(q) /\ Len(Tail(q)) = Len(q) - 1 /\ q[1] \in EventTypes
  BY <1>1, TailTypes
<1>3. /\ events' = Tail(q) /\ q[1].type = "SETUP"
      /\ data_phase_control' = IF req.request = "SET_CUR" /\ result = NO_ERROR THEN req.control ELSE None
      /\ response' = [of |-> req.of, code |-> ErrorCode(result), data |-> bRequestErrorCode]
      /\ bRequestErrorCode' = ErrorCode(result)
      /\ UNCHANGED <<hostVars, dropped, edge, loop, faults, handed>>
  BY <1>1, <1>2 DEF processEventSetup
<1>4. result \in Code \cup {NO_CONTROL} /\ (result = NO_ERROR => req.control \in DOMAIN info_caps)
  BY DispatchIs
<1>5. ErrorCode(result) \in Code
  BY <1>4 DEF ErrorCode, Code
<1>6. req \in Sent /\ req.of \in 1..MaxRequests
  BY <1>2 DEF EventTypes, Sent, Requests
<1> HIDE DEF q, req, result
<1>7. response'.of = req.of /\ response' # NoResponse
  <2>1. response'.of = req.of
    BY <1>3
  <2>2. NoResponse.of = 0
    BY DEF NoResponse
  <2> QED BY <1>6, <2>1, <2>2
<1>8. Types'
  <2>1. response' \in [of : 0..MaxRequests, code : Code, data : Code]
    BY <1>1, <1>3, <1>5, <1>6 DEF Types
  <2>2. data_phase_control' \in DOMAIN info_caps \cup {None}
    BY <1>3, <1>4
  <2> QED BY <1>1, <1>2, <1>3, <1>5, <2>1, <2>2 DEF Types, hostVars, Idle
<1>9. Numbered'
  <2> DEFINE lo == Awaited - timeouts - 1
  <2>1. Awaited \in Nat /\ timeouts \in Nat /\ sent \in Nat /\ lo \in Int
    BY <1>1 DEF Types, Awaited
  <2>2. Rising(q, lo, sent)
    BY <1>1 DEF IInv, Numbered, q
  <2> HIDE DEF lo
  <2>3. Rising(Tail(q), req.of, sent)
    BY <1>1, <1>3, <2>1, <2>2, RisingTail DEF q, req
  <2>4. lo < req.of /\ req.of <= sent
    BY <1>2, <1>3, <2>2 DEF Rising, q, req
  <2>5. req.of \in Awaited-timeouts..sent
    BY <1>6, <2>1, <2>4 DEF lo
  <2>6. Awaited' = Awaited /\ timeouts' = timeouts /\ sent' = sent
    BY <1>3 DEF Awaited, hostVars, Idle
  <2> QED BY <1>3, <1>6, <1>7, <2>3, <2>5, <2>6 DEF Numbered
<1>10. Told'
  <2> SUFFICES ASSUME timeouts' = 0 PROVE Told'
    BY DEF Told
  <2>3. ~Stuck
    BY <1>1, <1>2, <1>3 DEF Stuck, q
  <2>1. answer.data = prevCode /\ bRequestErrorCode = answer.code
    BY <1>1, <1>3, <2>3 DEF IInv, Told, hostVars
  <2>2. response'.data = bRequestErrorCode /\ response'.code = bRequestErrorCode'
    BY <1>3
  <2> QED BY <1>3, <1>7, <2>1, <2>2 DEF Told, hostVars
<1>11. Phases'
  <2> SUFFICES ASSUME dropped' = 0 PROVE Phases'
    BY DEF Phases
  <2>1. /\ DataFollow(q, data_phase_control) /\ handed.to = handed.from
        /\ Idle \/ Follows(q, data_phase_control, asked, Len(q))
    BY <1>3 DEF IInv, Phases, q
  <2>2. data_phase_control' \in {None, q[1].req.control}
    BY <1>3 DEF req
  <2>3. DataFollow(Tail(q), data_phase_control')
    BY <1>1, <1>3, <2>1, <2>2, DataTail
  <2>4. Idle \/ Follows(Tail(q), data_phase_control', asked, Len(q) - 1)
    BY <1>1, <1>2, <1>3, <2>1, <2>2, FollowsSetup
  <2>5. Idle' = Idle /\ asked' = asked /\ Len(events') = Len(q) - 1 /\ handed' = handed
    BY <1>2, <1>3 DEF Idle, hostVars
  <2> QED BY <1>3, <2>1, <2>3, <2>4, <2>5 DEF Phases
<1>12. AnswersMatch'
  BY <1>3 DEF IInv, AnswersMatch, hostVars
<1> QED BY <1>8, <1>9, <1>10, <1>11, <1>12 DEF IInv

LEMMA DataKeeps == IInv /\ processEventData => IInv'
<1> SUFFICES ASSUME IInv, processEventData PROVE IInv'
  OBVIOUS
<1> DEFINE q == events
<1>1. /\ Types /\ q \in Seq(EventTypes) /\ q # << >> /\ TwoOfType(q) /\ response = NoResponse
      /\ Head(q).type = "DATA"
  BY DEF processEventData, Event, IInv, Types
<1>2. /\ Tail(q) \in Seq(EventTypes) /\ TwoOfType(Tail(q)) /\ Head(q) = q[1]
      /\ Len(q) \in 1..Len(q) /\ Len(Tail(q)) = Len(q) - 1 /\ q[1] \in EventTypes
  BY <1>1, TailTypes
<1>3. /\ events' = Tail(q) /\ q[1].type = "DATA"
      /\ handed' = IF data_phase_control \in HasSetData
                   THEN [to |-> data_phase_control, from |-> q[1].req.control]
                   ELSE handed
      /\ data_phase_control' = None
      /\ UNCHANGED <<hostVars, dropped, edge, loop, bRequestErrorCode, response, faults>>
  BY <1>1, <1>2 DEF processEventData
<1> HIDE DEF q
<1>4. Types'
  BY <1>1, <1>2, <1>3 DEF Types, hostVars, Idle
<1>5. Numbered'
  <2> DEFINE lo == Awaited - timeouts - 1
  <2>1. sent \in Int /\ lo \in Int
    BY <1>1 DEF Types, Awaited
  <2>2. Rising(q, lo, sent)
    BY <1>1 DEF IInv, Numbered, q
  <2>3. Awaited' = Awaited /\ timeouts' = timeouts /\ sent' = sent
    BY <1>3 DEF Awaited, hostVars, Idle
  <2>4. lo' = lo
    BY <2>3
  <2> HIDE DEF lo
  <2>5. Rising(Tail(q), lo, sent)
    BY <1>1, <2>1, <2>2, RisingTail
  <2> QED BY <1>1, <1>3, <2>3, <2>4, <2>5 DEF Numbered, lo
<1>6. Told'
  <2>1. \A i \in 1..Len(q)-1 : Tail(q)[i] = q[i + 1] /\ i + 1 \in 1..Len(q)
    BY <1>1
  <2>2. Stuck => Stuck'
    BY <1>2, <1>3, <2>1 DEF Stuck, Idle, hostVars, q
  <2> QED BY <1>3, <2>2 DEF IInv, Told, hostVars
<1>7. Phases'
  <2> SUFFICES ASSUME dropped' = 0 PROVE Phases'
    BY DEF Phases
  <2>1. /\ DataFollow(q, data_phase_control) /\ handed.to = handed.from
        /\ Idle \/ Follows(q, data_phase_control, asked, Len(q))
    BY <1>3 DEF IInv, Phases, q
  <2>2. DataFollow(Tail(q), None)
    BY <1>1, <1>3, <2>1, DataTail
  <2>3. Idle \/ Follows(Tail(q), None, asked, Len(q) - 1)
    BY <1>1, <1>2, <1>3, <2>1, FollowsData
  <2>4. Idle' = Idle /\ asked' = asked /\ Len(events') = Len(q) - 1
    BY <1>2, <1>3 DEF Idle, hostVars
  <2>5. data_phase_control \in {None, q[1].req.control}
    <3>1. Follows(q, data_phase_control, q[1].req, 0)
      BY <1>2, <1>3, <2>1 DEF DataFollow
    <3> QED BY <3>1 DEF Follows
  <2>6. handed'.to = handed'.from
    BY <1>3, <2>1, <2>5 DEF HasSetData, None
  <2> QED BY <1>3, <2>2, <2>3, <2>4, <2>6 DEF Phases
<1>8. AnswersMatch'
  BY <1>3 DEF IInv, AnswersMatch, hostVars
<1> QED BY <1>4, <1>5, <1>6, <1>7, <1>8 DEF IInv

(* A response nobody waits for *)
LEMMA LostKeeps ==
  ASSUME IInv, response # NoResponse, Idle, loop' \in {"events", "wait"},
         UNCHANGED <<hostVars, driverVars>>, response' = NoResponse,
         UNCHANGED <<data_phase_control, bRequestErrorCode, faults, handed>>
  PROVE  IInv'
<1>1. NoResponse \in [of : 0..MaxRequests, code : Code, data : Code]
  BY MaxRequestsAssumption DEF NoResponse, Code
<1>2. Types'
  BY <1>1 DEF IInv, Types, hostVars, driverVars, Idle
<1>3. Awaited = sent + 1 /\ sent \in Nat /\ timeouts \in Nat /\ events \in Seq(EventTypes)
  BY DEF Awaited, IInv, Types
<1>4. response.of \in Awaited-timeouts..sent /\ Rising(events, response.of, sent)
  BY DEF IInv, Numbered
<1>5. Numbered'
  <2>1. Rising(events, Awaited - timeouts - 1, sent)
    BY <1>3, <1>4, RisingWider
  <2> QED BY <2>1 DEF Numbered, Awaited, Idle, hostVars, driverVars
<1>6. timeouts' # 0
  BY <1>3, <1>4 DEF hostVars
<1>7. Told'
  BY <1>6 DEF Told
<1>8. Phases' /\ AnswersMatch'
  BY DEF IInv, Phases, AnswersMatch, hostVars, driverVars, Idle
<1> QED BY <1>2, <1>5, <1>7, <1>8 DEF IInv

(* A response that ends the request the host waits for *)
LEMMA ReceiveKeeps ==
  ASSUME IInv, response # NoResponse, ~Idle, Receive(response), UNCHANGED <<sent, timeouts, loop>>,
         response' = NoResponse, UNCHANGED <<data_phase_control, bRequestErrorCode, faults, handed>>
  PROVE  IInv'
<1> DEFINE e == [type |-> "DATA", req |-> asked]
<1>1. /\ Types /\ asked \in Sent /\ asked.of = sent /\ asked' = Nothing /\ Idle'
      /\ prevCode' = answer.code
      /\ answer' = [asked |-> asked, of |-> response.of, code |-> response.code, data |-> response.data]
  BY DEF Receive, IInv, Types, Idle
<1>2. response.of \in Awaited-timeouts..sent /\ response.of > 0 /\ Rising(events, response.of, sent)
  BY DEF IInv, Numbered
<1>3. Awaited = sent /\ Awaited' = sent + 1 /\ sent \in Nat /\ timeouts \in Nat
  BY <1>1 DEF Awaited, Types
<1>4. e \in EventTypes /\ e.type = "DATA" /\ e.req = asked
  BY <1>1 DEF EventTypes
<1>5. QueueEvent(e) \/ UNCHANGED driverVars
  BY DEF Receive
<1> HIDE DEF e
<1>6. (\E m \in 0..Len(events) : Joins(e, m)) \/ UNCHANGED driverVars
  BY <1>1, <1>4, <1>5, EventJoins DEF Types
<1>7. NoResponse \in [of : 0..MaxRequests, code : Code, data : Code]
  BY MaxRequestsAssumption DEF NoResponse, Code
<1>8. /\ events' \in Seq(EventTypes) /\ TwoOfType(events') /\ edge' \in BOOLEAN /\ dropped' = dropped
      /\ Rising(events', response.of, sent)
      /\ dropped = 0 => DataFollow(events', data_phase_control)
  <2>1. CASE UNCHANGED driverVars
    BY <1>1, <1>2, <2>1 DEF driverVars, Types, IInv, Phases
  <2>2. ASSUME NEW m \in 0..Len(events), Joins(e, m)
        PROVE  /\ events' \in Seq(EventTypes) /\ TwoOfType(events') /\ edge' \in BOOLEAN
               /\ dropped' = dropped /\ Rising(events', response.of, sent)
               /\ dropped = 0 => DataFollow(events', data_phase_control)
    <3>1. /\ events' \in Seq(EventTypes) /\ TwoOfType(events') /\ edge' \in BOOLEAN
          /\ dropped' = dropped
      BY <1>1, <1>4, <2>2, JoinTypes
    <3>2. events' = Append(Without(events, m), e) /\ (m # 0 => events[m].type = "DATA")
      BY <1>4, <2>2 DEF Joins
    <3>3. response.of \in Int /\ sent <= sent /\ sent \in Int /\ events \in Seq(EventTypes)
      BY <1>1, <1>3 DEF Types
    <3>4. Rising(events', response.of, sent)
      BY <1>2, <1>4, <3>2, <3>3, RisingJoin
    <3>5. dropped = 0 => DataFollow(events', data_phase_control)
      <4> SUFFICES ASSUME dropped = 0 PROVE DataFollow(events', data_phase_control)
        OBVIOUS
      <4>1. DataFollow(events, data_phase_control) /\ Follows(events, data_phase_control, e.req, Len(events))
        BY <1>4 DEF IInv, Phases
      <4> QED BY <1>4, <3>2, <3>3, <4>1, DataJoin
    <3> QED BY <3>1, <3>4, <3>5
  <2> QED BY <1>6, <2>1, <2>2
<1>9. Types'
  <2>1. answer' \in [asked : Requests, of : 0..MaxRequests, code : Code, data : Code]
    BY <1>1 DEF Types
  <2>2. answer.code \in Code
    BY <1>1 DEF Types
  <2> QED BY <1>1, <1>7, <1>8, <2>1, <2>2, NothingIs DEF Types
<1>10. Numbered'
  <2>1. Awaited' - timeouts' - 1 \in Int /\ Awaited' - timeouts' - 1 <= response.of /\ response.of \in Int
    BY <1>2, <1>3
  <2>2. Rising(events', Awaited' - timeouts' - 1, sent')
    BY <1>3, <1>8, <2>1, RisingWider
  <2> QED BY <2>2 DEF Numbered
<1>11. Told'
  BY <1>1 DEF IInv, Told
<1>12. Phases'
  BY <1>1, <1>8 DEF IInv, Phases
<1>13. AnswersMatch'
  <2>1. answer'.asked.of = sent /\ answer'.of = response.of
    BY <1>1
  <2> QED BY <1>2, <1>3, <2>1 DEF AnswersMatch
<1> QED BY <1>9, <1>10, <1>11, <1>12, <1>13 DEF IInv

(* A response that fails: the host waits for what will not come.              *)
LEMMA FailedKeeps == IInv /\ SendResponseFailed => IInv'
<1> SUFFICES ASSUME IInv, SendResponseFailed PROVE IInv'
  OBVIOUS
<1>1. NoResponse \in [of : 0..MaxRequests, code : Code, data : Code]
  BY MaxRequestsAssumption DEF NoResponse, Code
<1>2. /\ response # NoResponse /\ ~Idle /\ faults' = faults + 1 /\ faults' \in 0..MaxFaults
      /\ response' = NoResponse /\ loop' = "wait"
      /\ UNCHANGED <<hostVars, driverVars, data_phase_control, bRequestErrorCode, handed>>
  BY DEF SendResponseFailed, IInv, Types
<1>3. Types'
  BY <1>1, <1>2 DEF IInv, Types, hostVars, driverVars, Idle
<1>4. Awaited = sent /\ sent \in Nat /\ timeouts \in Nat /\ events \in Seq(EventTypes)
  BY <1>2 DEF Awaited, IInv, Types
<1>5. response.of \in Awaited-timeouts..sent /\ Rising(events, response.of, sent)
  BY <1>2 DEF IInv, Numbered
<1>6. Numbered'
  <2>1. Rising(events, Awaited - timeouts - 1, sent)
    BY <1>4, <1>5, RisingWider
  <2> QED BY <1>2, <2>1 DEF Numbered, Awaited, Idle, hostVars, driverVars
<1>7. Told'
  <2> SUFFICES ASSUME timeouts' = 0 PROVE Told'
    BY DEF Told
  <2>1. response.of = sent /\ timeouts = 0
    BY <1>2, <1>4, <1>5 DEF hostVars
  <2>2. ASSUME NEW i \in 1..Len(events) PROVE events[i].type = "DATA"
    <3>1. events[i] \in EventTypes
      BY <1>4
    <3>2. events[i].req.of \in Nat /\ events[i].type \in {"SETUP", "DATA"}
      BY <3>1, OfIsNat DEF EventTypes
    <3> QED BY <1>4, <1>5, <2>1, <3>2 DEF Rising
  <2>3. Stuck'
    BY <1>2, <2>2 DEF Stuck, Idle, hostVars, driverVars
  <2> QED BY <1>2, <2>1, <2>3 DEF IInv, Told, hostVars
<1>8. Phases' /\ AnswersMatch'
  BY <1>2 DEF IInv, Phases, AnswersMatch, hostVars, driverVars, Idle
<1> QED BY <1>3, <1>6, <1>7, <1>8 DEF IInv

LEMMA Invariant == IInv /\ [Next]_vars => IInv'
<1> SUFFICES ASSUME IInv, [Next]_vars PROVE IInv'
  OBVIOUS
<1>1. edge \in BOOLEAN /\ loop \in {"wait", "events"} /\ faults \in 0..MaxFaults
  BY DEF IInv, Types
<1>2. CASE Poll
  BY <1>1, <1>2, SameKeeps DEF Poll
<1>3. CASE EventsDone
  BY <1>1, <1>3, SameKeeps DEF EventsDone, driverVars
<1>6. CASE EventsFailed
  BY <1>1, <1>6, SameKeeps DEF EventsFailed, driverVars
<1>4. CASE SendResponse
  BY <1>4, LostKeeps, ReceiveKeeps DEF SendResponse
<1>5. CASE UNCHANGED vars
  BY <1>1, <1>5, SameKeeps DEF vars, driverVars, usbVars
<1> QED BY <1>2, <1>3, <1>4, <1>5, <1>6, HostAsksKeeps, HostGivesUpKeeps, SetupKeeps, DataKeeps,
        FailedKeeps
        DEF Next, uvcProcessEvents, processEvent

-----------------------------------------------------------------------------
(* Theorems *)

LEMMA EventIs ==
  \A q \in Seq(EventTypes) : \A i \in 1..Len(q) :
    q[i].type \in {"SETUP", "DATA"} /\ q[i].req \in Requests
<1> SUFFICES ASSUME NEW q \in Seq(EventTypes), NEW i \in 1..Len(q)
             PROVE  q[i].type \in {"SETUP", "DATA"} /\ q[i].req \in Requests
  OBVIOUS
<1>1. q[i] \in EventTypes
  OBVIOUS
<1> QED BY <1>1 DEF EventTypes, Sent

(* At most two events of each of the two types are at most four.              *)
LEMMA QueueBounded ==
  ASSUME NEW q \in Seq(EventTypes), TwoOfType(q)
  PROVE  Len(q) <= 4
<1> SUFFICES ASSUME Len(q) > 4 PROVE FALSE
  OBVIOUS
<1>1. /\ 1 \in 1..Len(q) /\ 2 \in 1..Len(q) /\ 3 \in 1..Len(q) /\ 4 \in 1..Len(q) /\ 5 \in 1..Len(q)
  OBVIOUS
<1>2. \A i \in 1..Len(q) : q[i].type \in {"SETUP", "DATA"}
  BY EventIs
<1> QED BY <1>1, <1>2 DEF TwoOfType

(* The variables have their types, and the driver's queue its bound.          *)
THEOREM UvcTypeOK == Spec => []TypeOK
<1>1. IInv => TypeOK
  <2> SUFFICES ASSUME Types PROVE TypeOK
    BY DEF IInv
  <2>1. dropped \in 0..MaxRequests /\ answer.asked \in Requests /\ answer.code \in Code
    BY DEF Types
  <2>2. Len(events) <= 2 * MaxOfType
    BY QueueBounded DEF Types, MaxOfType
  <2>3. \A i \in 1..Len(events) : events[i].type \in {"SETUP", "DATA"} /\ events[i].req \in Requests
    BY EventIs DEF Types
  <2> QED BY <2>1, <2>2, <2>3 DEF Types, TypeOK, Code
<1> QED BY <1>1, Initially, Invariant, PTL DEF Spec

(* Data reach the control they were sent to, unless the driver had to drop a  *)
(* request, for any requests, late responses and timeouts (UVC.c:320, 353,    *)
(* 653, 743).                                                                 *)
THEOREM DataRightlyTaken == Spec => []DataReachesItsControl
<1>1. IInv => DataReachesItsControl
  BY DEF IInv, Phases, DataReachesItsControl
<1> QED BY <1>1, Initially, Invariant, PTL DEF Spec

(* What the host gets is the answer to its request, or to one as many before  *)
(* it as it gave up at most (UVC.c:701).                                      *)
THEOREM AnswersAreTheirs == Spec => []AnswersMatch
<1>1. IInv => AnswersMatch
  BY DEF IInv
<1> QED BY <1>1, Initially, Invariant, PTL DEF Spec

(* A host that waits for its answers and reads the error code is told how its *)
(* request before went (UVC.c:315).                                           *)
THEOREM ErrorCodeIsTold == Spec => []ErrorCodeTells
<1>1. IInv => ErrorCodeTells
  BY DEF IInv, Told, ErrorCodeTells
<1> QED BY <1>1, Initially, Invariant, PTL DEF Spec
=====================================================================================
