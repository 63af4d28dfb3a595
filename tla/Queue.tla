---------------------------------- MODULE Queue ----------------------------------
(***************************************************************************)
(* The FIFO of queue.c: a ring of `capacity` slots in an Array (array.h),    *)
(* the index `front` of the oldest item and the number `size` of items.      *)
(* These are the functions of queue.c, one operator each, over a record that *)
(* stands for `struct Queue`.  What a push and a pop return is left out:     *)
(* their callers ignore it.                                                  *)
(***************************************************************************)
EXTENDS Integers

CONSTANTS Uninit,   \* what a slot of malloc()ed memory holds before it is written
          NULL      \* the null pointer that a peek of an empty queue returns

(* arrayReserve allocates the slots and leaves them uninitialized *)
queueInit(max_count) ==
  [data |-> [i \in 0..max_count-1 |-> Uninit], size |-> 0,
   capacity |-> max_count, front |-> 0]

queueGetSize(q) == q.size

queueGetFree(q) == q.capacity - q.size

(* Mutant of queuePush: the slot is one too far. *)
queuePushBehind(q, item) ==
  IF q.size = q.capacity
  THEN q
  ELSE [q EXCEPT !.data[(q.front + q.size + 1) % q.capacity] = item, !.size = @ + 1]

queuePush(q, item) ==
  IF q.size = q.capacity
  THEN q
  ELSE [q EXCEPT !.data[(q.front + q.size) % q.capacity] = item, !.size = @ + 1]

(* Mutant of queuePop: the front does not wrap. *)
queuePopNoWrap(q) == IF q.size = 0 THEN q ELSE [q EXCEPT !.front = @ + 1]

(* Mutant of queuePop: the front does not move. *)
queuePopNothing(q) == q

(* The pop moves `front` and leaves `size` alone: the item stays counted. *)
queuePop(q) ==
  IF q.size = 0 THEN q ELSE [q EXCEPT !.front = (@ + 1) % q.capacity]

queuePeek(q) == IF q.size = 0 THEN NULL ELSE q.data[q.front]

==================================================================================
