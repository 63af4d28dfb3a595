--------------------------------- MODULE Geometry ---------------------------------
(***************************************************************************)
(* The sizes of a stream (device.c): the format it is given, the part of it  *)
(* that is cropped and the size that is composed from that, next to the      *)
(* driver's own.  A size is told by its number of lines.                     *)
(***************************************************************************)
EXTENDS Integers, Outcomes

None == -1

(* A stream whose driver rounds sizes down to a multiple of `align` and can   *)
(* select the targets `targets`; it has format, crop and compose of its own.  *)
geometryInit(align, targets) ==
  [size |-> None, crop |-> None, compose |-> None, align |-> align,
   driver |-> [t \in targets |-> None]]

(* The state of a stream after an outcome, and what failed on the way to it   *)
Then(out, Op(_)) == {Outcome(o.st, o.ret, out.faults + o.faults) : o \in Op(out.st)}

(* VIDIOC_G_SELECTION and VIDIOC_S_SELECTION of v4l2Selection; a target that  *)
(* the driver does not have is refused, which is no fault of its own.         *)
GetSelection(g, target) ==
  IF target \notin DOMAIN g.driver THEN {Outcome(g, -1, 0)}
  ELSE {Outcome(g, -1, 1), Outcome([g EXCEPT ![target] = g.driver[target]], 0, 0)}

SetSelection(g, target, lines) ==
  IF target \notin DOMAIN g.driver THEN {Outcome(g, -1, 0)}
  ELSE {Outcome(g, -1, 1), Outcome([g EXCEPT !.driver[target] = lines], 0, 0)}

(* What setCrop and setCompose do with their target: what is read of it is    *)
(* kept, and a size that is wanted is set and read back; what fails is        *)
(* ignored, and leaves what was there before.                                 *)
Select(g, target, lines) ==
  LET Get(h) == GetSelection(h, target)
      Set(h) == SetSelection(h, target, lines)
  IN  IF lines = 0 THEN Get(g)
      ELSE UNION {UNION {Then(set, Get) : set \in Then(get, Set)} : get \in Get(g)}

setCrop(g, lines) == Select(g, "crop", lines)
setCompose(g, lines) == Select(g, "compose", lines)

(* VIDIOC_S_FMT: the driver makes the best of the size asked for, and selects *)
(* all of it.  Its failure is an outcome of deviceStreamPrepare.              *)
streamSetFormat(g, lines) ==
  LET size == lines - (lines % g.align)
  IN  [g EXCEPT !.size = size, !.driver = [t \in DOMAIN g.driver |-> size]]

(* Mutant of prepareGeometry: the compose rectangle does not follow the crop. *)
prepareGeometryFirst(g, lines, crop) ==
  LET format == [streamSetFormat(g, lines) EXCEPT !.crop = lines, !.compose = lines]
      Compose(h) == setCompose(h, crop)
  IN  UNION {Then(cropped, Compose) : cropped \in setCrop(format, crop)}

(* deviceStreamPrepare between the format and the buffers: the crop is first  *)
(* taken to be all that was asked for, and the compose to be the crop.        *)
prepareGeometry(g, lines, crop) ==
  LET format == [streamSetFormat(g, lines) EXCEPT !.crop = lines]
      Compose(h) == setCompose([h EXCEPT !.compose = h.crop], crop)
  IN  UNION {Then(cropped, Compose) : cropped \in setCrop(format, crop)}
==================================================================================
