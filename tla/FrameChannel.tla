------------------------------ MODULE FrameChannel ------------------------------
(***************************************************************************)
(* What the running pipeline promises the host, without drivers, buffers and *)
(* descriptors: a channel that hands frames over in the order of their       *)
(* capture and each at most once, and that gives a frame up only for a newer *)
(* one - unless an ioctl failed, which may cost the frames it concerns, or   *)
(* the stream is restarted, which costs all that are under way.              *)
(***************************************************************************)
EXTENDS Naturals

VARIABLES captured,    \* number of the last frame captured
          underway,    \* the frames between the camera and the host
          delivered,   \* number of the last frame the host has got
          hurt         \* an ioctl has failed since the last (re)start

vars == <<captured, underway, delivered, hurt>>

Init == captured = 0 /\ underway = {} /\ delivered = 0 /\ hurt = FALSE

Capture ==
  /\ captured' = captured + 1
  /\ underway' = underway \cup {captured + 1}
  /\ UNCHANGED <<delivered, hurt>>

(* The oldest frame reaches the host. *)
Deliver(f) ==
  /\ f \in underway
  /\ f > delivered
  /\ \A g \in underway : f <= g
  /\ delivered' = f
  /\ underway' = underway \ {f}
  /\ UNCHANGED <<captured, hurt>>

(* A frame is skipped for a newer one.  *)
Skip(f) ==
  /\ f \in underway
  /\ \E g \in underway : f < g
  /\ underway' = underway \ {f}
  /\ UNCHANGED <<captured, delivered, hurt>>

(* An ioctl fails; at most one frame is lost by it.  *)
Fail ==
  /\ hurt' = TRUE
  /\ \/ UNCHANGED underway
     \/ \E f \in underway : underway' = underway \ {f}
  /\ UNCHANGED <<captured, delivered>>

Restart ==
  /\ underway' = {} /\ hurt' = FALSE
  /\ UNCHANGED <<captured, delivered>>

Next == Capture \/ (\E f \in underway : Deliver(f) \/ Skip(f)) \/ Fail \/ Restart

Spec == Init /\ [][Next]_vars
=================================================================================
