-------------------------------- MODULE V4l2Control --------------------------------
(***************************************************************************)
(* V4l2Control.c: the controls of a device or subdevice, enumerated once and *)
(* cached.  A control keeps its range, the value cached in the program and   *)
(* `actual`, the driver's own; `known` (history) says that the value was read *)
(* or set, and is not only the default.  The value passed by every caller fits the 32 *)
(* bits of struct v4l2_ext_control, so that its truncation is left out.      *)
(***************************************************************************)
EXTENDS Integers, Sequences, FiniteSetsExt, Outcomes

EPERM == 1
ENODEV == 19

Settable == {"INTEGER64", "INTEGER", "INTEGER_MENU", "BOOLEAN", "MENU"}

(* The cache holds the default of a control that is not readable or whose     *)
(* value could not be read.                                                   *)
v4l2ControlsCreateFromV4l2Fd(driver) ==
  LET Cached(c, known) == [id |-> c.id, type |-> c.type, min |-> c.min, max |-> c.max,
                           known |-> known, value |-> IF known THEN c.actual ELSE c.def,
                           actual |-> c.actual]
      Readable == {i \in 1..Len(driver) : driver[i].readable}
  IN  {Outcome([i \in 1..Len(driver) |-> Cached(driver[i], i \in Readable \ Unread)],
               0, Cardinality(Unread)) : Unread \in SUBSET Readable}

(* The place of a control, 0 when there is none *)
v4l2ControlGet(controls, id) ==
  LET At == {i \in 1..Len(controls) : controls[i].id = id}
  IN  IF At = {} THEN 0 ELSE Min(At)

(* The driver moves an integer into its range and refuses any other value     *)
(* outside of it.                                                             *)
Clamp(c, value) == IF value < c.min THEN c.min ELSE IF value > c.max THEN c.max ELSE value

(* Mutant of v4l2ControlSet: the value is cached before the ioctl. *)
v4l2ControlSetEarly(controls, i, value) ==
  IF i = 0 THEN {Outcome(controls, -22, 0)}
  ELSE IF controls[i].type \notin Settable THEN {Outcome(controls, -EPERM, 0)}
  ELSE {Outcome([controls EXCEPT ![i].value = value], -ENODEV, 1),
        Outcome([controls EXCEPT ![i].value = value, ![i].known = TRUE,
                                 ![i].actual = Clamp(controls[i], value)], 0, 0)}

(* What was asked for is cached, whatever the driver made of it.              *)
v4l2ControlSet(controls, i, value) ==
  IF i = 0 THEN {Outcome(controls, -22, 0)}
  ELSE IF controls[i].type \notin Settable THEN {Outcome(controls, -EPERM, 0)}
  ELSE {Outcome(controls, -ENODEV, 1)}
       \cup (IF controls[i].type \in {"INTEGER", "INTEGER64"} \/ value = Clamp(controls[i], value)
             THEN {Outcome([controls EXCEPT ![i].value = value, ![i].known = TRUE,
                                            ![i].actual = Clamp(controls[i], value)], 0, 0)}
             ELSE {Outcome(controls, -34, 0)})

v4l2ControlSetById(controls, id, value) ==
  LET i == v4l2ControlGet(controls, id)
  IN  IF i = 0 THEN {Outcome(controls, -2, 0)} ELSE v4l2ControlSet(controls, i, value)
====================================================================================
