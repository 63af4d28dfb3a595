--------------------------------- MODULE MCStartup ---------------------------------
(***************************************************************************)
(* Startup for TLC: drivers with controls that are there or not, readable or *)
(* not, of a type that can be set or not, and wide enough for the gains that *)
(* the program asks for (2 stands for them) or not.                          *)
(***************************************************************************)
EXTENDS Startup

Control(id, max, actual) ==
  [id |-> id, type |-> "INTEGER", min |-> 0, max |-> max, def |-> 0, actual |-> actual,
   readable |-> TRUE]

MCSensor == {
  << Control("ROTATION", 360, 180), Control("HFLIP", 1, 0), Control("VFLIP", 1, 0),
     Control("ANALOGUE_GAIN", 3, 1) >>,
  << Control("HFLIP", 1, 0), [Control("ROTATION", 360, 180) EXCEPT !.readable = FALSE],
     Control("ANALOGUE_GAIN", 2, 1), Control("VFLIP", 1, 0) >> }

MCIsp == {
  << Control("RED_BALANCE", 3, 1), Control("BLUE_BALANCE", 3, 1), Control("DIGITAL_GAIN", 3, 1) >>,
  << [Control("BLUE_BALANCE", 2, 1) EXCEPT !.type = "BUTTON"], Control("RED_BALANCE", 3, 1) >> }

(* A driver too narrow for a gain *)
MCNarrow == { << Control("RED_BALANCE", 1, 0) >> }

MCDrivers == [d \in Devices |->
  CASE d = "sensor" -> MCSensor [] d = "ispOut" -> MCIsp \cup MCNarrow [] OTHER -> {<< >>}]

(* Devices with one plane or several, of the wrong kind, or a gadget that     *)
(* has only outputs with several planes                                       *)
MCCapabilities == [d \in Devices |->
  CASE d = "camera" -> {{"STREAMING", "VIDEO_CAPTURE"}, {"STREAMING", "VIDEO_CAPTURE_MPLANE"},
                        {"STREAMING", "META_CAPTURE"}}
    [] d = "ispOut" -> {{"VIDEO_OUTPUT"}, {"VIDEO_OUTPUT_MPLANE"}}
    [] d = "ispCap" -> {{"VIDEO_CAPTURE"}, {"VIDEO_CAPTURE_MPLANE"}, {"META_CAPTURE"}}
    [] d = "encoder" -> {{"VIDEO_M2M"}, {"VIDEO_M2M_MPLANE"}, {"VIDEO_CAPTURE", "VIDEO_OUTPUT_MPLANE"}}
    [] d = "gadget" -> {{"STREAMING", "VIDEO_OUTPUT"}, {"STREAMING", "VIDEO_OUTPUT_MPLANE"}}
    [] OTHER -> {}]

(* The JPEG encoder rounds sizes to its blocks of 16 lines; the ISP can crop  *)
(* its input, and may have a compose rectangle.                               *)
MCHardware == [d \in Devices |->
  CASE d = "ispOut" -> {[align |-> 2, targets |-> {"crop"}], [align |-> 2, targets |-> {"crop", "compose"}]}
    [] d = "encoder" -> {[align |-> 16, targets |-> {}]}
    [] OTHER -> {[align |-> 2, targets |-> {}]}]

MCGrants == {3}
====================================================================================
