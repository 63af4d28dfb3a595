------------------------------- MODULE FrameRelay -------------------------------
(***************************************************************************)
(* What a pump promises, without the ioctls, the index maps and the rings:   *)
(* a fixed set of buffers goes round from a source, through the relay, to a  *)
(* sink and back.  A buffer is in one place at a time.  Frames reach the     *)
(* sink in the order they were captured, each at most once, and the relay    *)
(* gives a frame up only when the sink has had it or when it holds a newer   *)
(* one ("It gets replaced any time a new buffer is dequeued", TODO.md).      *)
(***************************************************************************)
EXTENDS Naturals

CONSTANTS Buffers,    \* the source's buffers
          MaxFrames   \* bound on the frames captured

VARIABLES place,      \* where each buffer is
          frame,      \* the number of the last frame captured into each buffer
          captured,   \* frames captured so far
          sent        \* number of the last frame handed to the sink

vars == <<place, frame, captured, sent>>

Places == {"empty",   \* queued at the source, to be written
           "full",    \* written, not yet taken from the source
           "relay",   \* held by the relay
           "sink"}    \* being read by the sink

Init ==
  /\ place = [b \in Buffers |-> "empty"]
  /\ frame = [b \in Buffers |-> 0]
  /\ captured = 0
  /\ sent = 0

(* The source writes a frame into one of its empty buffers. *)
Fill(b) ==
  /\ place[b] = "empty"
  /\ captured < MaxFrames
  /\ captured' = captured + 1
  /\ frame' = [frame EXCEPT ![b] = captured + 1]
  /\ place' = [place EXCEPT ![b] = "full"]
  /\ UNCHANGED sent

(* The relay takes the oldest full buffer. *)
Take(b) ==
  /\ place[b] = "full"
  /\ \A c \in Buffers : place[c] = "full" => frame[b] <= frame[c]
  /\ place' = [place EXCEPT ![b] = "relay"]
  /\ UNCHANGED <<frame, captured, sent>>

(* The relay hands a frame to the sink, newer than all it handed before. *)
Send(b) ==
  /\ place[b] = "relay"
  /\ frame[b] > sent
  /\ place' = [place EXCEPT ![b] = "sink"]
  /\ sent' = frame[b]
  /\ UNCHANGED <<frame, captured>>

(* The sink is done with a buffer. *)
Reclaim(b) ==
  /\ place[b] = "sink"
  /\ place' = [place EXCEPT ![b] = "relay"]
  /\ UNCHANGED <<frame, captured, sent>>

(* The relay returns a buffer the sink has had, or one it has a newer for. *)
GiveBack(b) ==
  /\ place[b] = "relay"
  /\ \/ frame[b] <= sent
     \/ \E c \in Buffers : place[c] = "relay" /\ frame[c] > frame[b]
  /\ place' = [place EXCEPT ![b] = "empty"]
  /\ UNCHANGED <<frame, captured, sent>>

Next == \E b \in Buffers :
  Fill(b) \/ Take(b) \/ Send(b) \/ Reclaim(b) \/ GiveBack(b)

Spec == Init /\ [][Next]_vars
==================================================================================
