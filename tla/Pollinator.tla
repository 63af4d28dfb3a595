------------------------------- MODULE Pollinator -------------------------------
(***************************************************************************)
(* pollinator.c: the table of monitored descriptors and the epoll set kept   *)
(* with it.  An epoll entry holds the index of a table slot; a slot whose fd *)
(* is -1 is free.  The callback of every slot is bitSetFunc of main.c, so a  *)
(* slot keeps the bits it sets.                                              *)
(***************************************************************************)
EXTENDS Sequences, Functions, FiniteSetsExt, Integers

NoFd == -1

(* A slot of malloc()ed memory; -2 is no descriptor's number.                 *)
Uninitialized == [fd |-> -2, bits |-> {}]

INSTANCE Array WITH Uninit <- Uninitialized

(* sizeof(PollinatorFd), with pointers of 64 bits *)
SlotSize == 32

pollinatorCreate == [fds |-> arrayInit(SlotSize), epoll |-> << >>]

Slots(p) == 0..p.fds.size-1

(* The first slot of a descriptor, -1 when it has none *)
findPfd(p, fd) ==
  LET At == {i \in Slots(p) : p.fds.data[i].fd = fd}
  IN  IF At = {} THEN -1 ELSE Min(At)

(* Mutant of allocPfd: the slots that became free are not taken again. *)
allocPfdNew(p) == [index |-> p.fds.size, fds |-> arrayAppend(p.fds, Uninitialized)]

(* A free slot, or a new one behind the last, and the table that has it.      *)
allocPfd(p) ==
  LET Free == {i \in Slots(p) : p.fds.data[i].fd < 0}
  IN  IF Free = {} THEN [index |-> p.fds.size, fds |-> arrayAppend(p.fds, Uninitialized)]
                   ELSE [index |-> Min(Free), fds |-> p.fds]

(* Mutant of pollinatorRemoveFd: the slot is not freed. *)
pollinatorRemoveEpoll(p, fd) ==
  IF findPfd(p, fd) < 0 THEN p
  ELSE [p EXCEPT !.epoll = Restrict(p.epoll, DOMAIN p.epoll \ {fd})]

(* No events: the descriptor leaves the table and the set. *)
pollinatorRemoveFd(p, fd) ==
  LET i == findPfd(p, fd)
  IN  IF i < 0 THEN p
      ELSE [fds |-> [p.fds EXCEPT !.data[i].fd = NoFd],
            epoll |-> Restrict(p.epoll, DOMAIN p.epoll \ {fd})]

pollinatorMonitorFd(p, fd, events, bits) ==
  IF events = {} THEN pollinatorRemoveFd(p, fd)
  ELSE LET found == findPfd(p, fd)
           slot == IF found < 0 THEN allocPfd(p) ELSE [index |-> found, fds |-> p.fds]
           entry == [index |-> slot.index, events |-> events]
       IN  [fds |-> [slot.fds EXCEPT !.data[slot.index] = [fd |-> fd, bits |-> bits]],
            epoll |-> [g \in DOMAIN p.epoll \cup {fd} |-> IF g = fd THEN entry ELSE p.epoll[g]]]

(* What the callbacks leave in fd_bits after epoll_wait reported the          *)
(* descriptors `ready`                                                        *)
pollinatorPoll(p, ready) == UNION {p.fds.data[p.epoll[fd].index].bits : fd \in ready}

(* The table and the epoll set describe the same descriptors, each once, and  *)
(* an event finds the slot of its own descriptor: otherwise epoll_ctl fails   *)
(* and its ASSERTs (pollinator.c:73, 99) abort.                               *)
TableAgrees(p) ==
  /\ DOMAIN p.epoll = {p.fds.data[i].fd : i \in Slots(p)} \ {NoFd}
  /\ \A fd \in DOMAIN p.epoll : p.epoll[fd].index = findPfd(p, fd)
  /\ \A i, j \in Slots(p) : p.fds.data[i].fd = p.fds.data[j].fd /\ p.fds.data[i].fd # NoFd => i = j
=================================================================================
