---------------------------------- MODULE Array ----------------------------------
(***************************************************************************)
(* array.h: `size` items in an allocated memory of `capacity` slots, which   *)
(* grows when an item is appended to a full one.  A slot beyond the capacity *)
(* is not in the domain of `data`: nothing written there is kept.            *)
(***************************************************************************)
EXTENDS Integers

CONSTANT Uninit   \* what a slot of malloc()ed memory holds before it is written

arrayInit(item_size) ==
  [data |-> [i \in {} |-> Uninit], size |-> 0, capacity |-> 0, item_size |-> item_size]

(* The items move to a larger memory. *)
arrayReserve(array, capacity) ==
  IF capacity <= array.capacity
  THEN array
  ELSE [array EXCEPT !.data = [i \in 0..capacity-1 |-> IF i < array.size THEN array.data[i] ELSE Uninit],
                     !.capacity = capacity]

(* Mutant of Growth: half as much again, which of one slot is none. *)
GrowthByHalf(array) ==
  IF array.capacity = 0 THEN (16 + array.item_size - 1) \div array.item_size
                        ELSE (array.capacity * 3) \div 2

(* The capacity that a full array grows to: room for 16 bytes at first, then  *)
(* half as much again, one slot more at least.                                *)
Growth(array) ==
  LET new_capacity == IF array.capacity = 0
                      THEN (16 + array.item_size - 1) \div array.item_size
                      ELSE (array.capacity * 3) \div 2
  IN  IF new_capacity > array.capacity THEN new_capacity ELSE array.capacity + 1

(* The index returned is the array's old size.  An item that is a null        *)
(* pointer leaves its slot as it is.                                          *)
arrayAppend(array, item) ==
  LET roomy == IF array.size = array.capacity THEN arrayReserve(array, Growth(array)) ELSE array
  IN  [roomy EXCEPT !.data[array.size] = item, !.size = array.size + 1]

arrayResize(array) == [array EXCEPT !.size = 0]
==================================================================================
