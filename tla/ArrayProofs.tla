------------------------------- MODULE ArrayProofs -------------------------------
(***************************************************************************)
(* What array.h promises its users, for items and slots of every size.       *)
(***************************************************************************)
EXTENDS Array, TLAPS

(* An array between two calls of its functions *)
Arrays(Item) ==
  {a \in [data : UNION {[0..n-1 -> Item \cup {Uninit}] : n \in Nat}, size : Nat,
          capacity : Nat, item_size : Nat \ {0}] :
     /\ DOMAIN a.data = 0..a.capacity-1
     /\ a.size <= a.capacity}

(* A full array grows, whatever the size of its items, although half of one   *)
(* slot is none (array.h:54-55).                                              *)
LEMMA Grows ==
  ASSUME NEW Item, NEW a \in Arrays(Item)
  PROVE  Growth(a) \in Nat /\ Growth(a) > a.capacity
<1> DEFINE c == IF a.capacity = 0 THEN (16 + a.item_size - 1) \div a.item_size
                                  ELSE (a.capacity * 3) \div 2
<1>1. a.capacity \in Nat /\ a.item_size \in Nat /\ a.item_size > 0
  BY DEF Arrays
<1>2. c \in Int
  BY <1>1
<1>3. Growth(a) = IF c > a.capacity THEN c ELSE a.capacity + 1
  BY DEF Growth
<1> HIDE DEF c
<1> QED BY <1>1, <1>2, <1>3

(* Reserving keeps the items.  *)
LEMMA ReserveKeeps ==
  ASSUME NEW Item, NEW a \in Arrays(Item), NEW n \in Nat
  PROVE  LET b == arrayReserve(a, n)
         IN  /\ b \in Arrays(Item)
             /\ b.size = a.size /\ b.capacity >= n /\ b.capacity >= a.capacity
             /\ \A i \in 0..a.size-1 : b.data[i] = a.data[i]
<1> DEFINE b == arrayReserve(a, n)
           memory == [i \in 0..n-1 |-> IF i < a.size THEN a.data[i] ELSE Uninit]
<1>1. /\ a = [data |-> a.data, size |-> a.size, capacity |-> a.capacity, item_size |-> a.item_size]
      /\ a.size \in Nat /\ a.capacity \in Nat /\ a.item_size \in Nat \ {0}
      /\ a.size <= a.capacity
      /\ a.data \in [0..a.capacity-1 -> Item \cup {Uninit}]
  BY DEF Arrays
<1>2. CASE n <= a.capacity
  BY <1>1, <1>2 DEF arrayReserve
<1>3. CASE n > a.capacity
  <2>1. b = [data |-> memory, size |-> a.size, capacity |-> n, item_size |-> a.item_size]
    <3>1. ~(n <= a.capacity)
      BY <1>1, <1>3
    <3>2. b = [a EXCEPT !.data = memory, !.capacity = n]
      BY <3>1 DEF arrayReserve
    <3> HIDE DEF b, memory
    <3> QED BY <1>1, <3>2
  <2>2. memory \in [0..n-1 -> Item \cup {Uninit}]
    BY <1>1, <1>3
  <2>3. b \in Arrays(Item)
    <3> HIDE DEF memory
    <3> QED BY <1>1, <1>3, <2>1, <2>2 DEF Arrays
  <2>4. b.capacity = n /\ b.size = a.size /\ b.data = memory
    <3> HIDE DEF b, memory
    <3> QED BY <2>1
  <2>5. \A i \in 0..a.size-1 : memory[i] = a.data[i]
    BY <1>1, <1>3
  <2>6. n >= n /\ n >= a.capacity
    BY <1>1, <1>3
  <2> HIDE DEF memory
  <2>7. \A i \in 0..a.size-1 : b.data[i] = a.data[i]
    BY <2>4, <2>5
  <2> HIDE DEF b
  <2>8. /\ b \in Arrays(Item)
        /\ b.size = a.size /\ b.capacity >= n /\ b.capacity >= a.capacity
        /\ \A i \in 0..a.size-1 : b.data[i] = a.data[i]
    BY <2>3, <2>4, <2>6, <2>7
  <2> QED BY <2>8 DEF b
<1> QED BY <1>1, <1>2, <1>3

(* An append keeps the items and puts the new one behind them, at the index   *)
(* it returns, within the memory of the array: pollinatorMonitorFd writes and *)
(* pollinatorPoll reads its slots through such indices.                       *)
THEOREM AppendKeeps ==
  ASSUME NEW Item, NEW a \in Arrays(Item), NEW item \in Item \cup {Uninit}
  PROVE  LET b == arrayAppend(a, item)
         IN  /\ b \in Arrays(Item)
             /\ b.size = a.size + 1
             /\ \A i \in 0..a.size-1 : b.data[i] = a.data[i]
             /\ b.data[a.size] = item
<1> DEFINE roomy == IF a.size = a.capacity THEN arrayReserve(a, Growth(a)) ELSE a
           b == arrayAppend(a, item)
<1>1. /\ roomy \in Arrays(Item)
      /\ roomy.size = a.size
      /\ a.size < roomy.capacity
      /\ \A i \in 0..a.size-1 : roomy.data[i] = a.data[i]
  <2>1. a.size \in Nat /\ a.capacity \in Nat /\ a.size <= a.capacity
    BY DEF Arrays
  <2>2. Growth(a) \in Nat /\ Growth(a) > a.capacity
    BY Grows
  <2>3. LET r == arrayReserve(a, Growth(a))
        IN  /\ r \in Arrays(Item)
            /\ r.size = a.size /\ r.capacity >= Growth(a) /\ r.capacity >= a.capacity
            /\ \A i \in 0..a.size-1 : r.data[i] = a.data[i]
    BY <2>2, ReserveKeeps
  <2>4. arrayReserve(a, Growth(a)).capacity \in Nat
    BY <2>3 DEF Arrays
  <2> QED BY <2>1, <2>2, <2>3, <2>4
<1>2. b = [roomy EXCEPT !.data[a.size] = item, !.size = a.size + 1]
  BY DEF arrayAppend
<1> HIDE DEF roomy, b
<1>3. /\ roomy = [data |-> roomy.data, size |-> roomy.size, capacity |-> roomy.capacity,
                  item_size |-> roomy.item_size]
      /\ roomy.size \in Nat /\ roomy.capacity \in Nat /\ roomy.item_size \in Nat \ {0}
      /\ roomy.data \in [0..roomy.capacity-1 -> Item \cup {Uninit}]
  BY <1>1 DEF Arrays
<1>4. b = [data |-> [roomy.data EXCEPT ![a.size] = item], size |-> a.size + 1,
           capacity |-> roomy.capacity, item_size |-> roomy.item_size]
  BY <1>2, <1>3
<1>5. a.size \in 0..roomy.capacity-1
  BY <1>1, <1>3
<1>6. b.data \in [0..roomy.capacity-1 -> Item \cup {Uninit}] /\ b.data[a.size] = item
  BY <1>3, <1>4, <1>5
<1>7. b \in Arrays(Item)
  BY <1>1, <1>3, <1>4, <1>5, <1>6 DEF Arrays
<1>8. \A i \in 0..a.size-1 : b.data[i] = a.data[i]
  BY <1>1, <1>3, <1>4, <1>5
<1> QED BY <1>4, <1>6, <1>7, <1>8 DEF b
=================================================================================
