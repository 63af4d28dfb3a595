---------------------------------- MODULE Startup ----------------------------------
(***************************************************************************)
(* pipelineCreate: the four nodes are opened one after the other             *)
(* (Pilatform.c, UVC.c), each by a list of calls on devices, on the sensor   *)
(* and on their controls.  A call that matters and fails makes the open      *)
(* function close what it had opened; the program then ends.                 *)
(***************************************************************************)
EXTENDS DeviceStream, V4l2Control, PassTable, Geometry, FiniteSets

CONSTANTS Drivers,       \* for each device, the control lists its driver may have
          Capabilities,  \* for each device, the capabilities its driver may report
          Hardware,      \* for each device, the sizes and the selections it can make
          MaxFaults      \* bound: ioctls that fail without need

ASSUME MaxFaultsAssumption == MaxFaults \in Nat

Devices == {"sensor", "camera", "ispOut", "ispCap", "encoder", "gadget"}

(* What struct v4l2_query_ext_ctrl says of each control, and its value *)
ASSUME DriversAssumption == \A d \in Devices :
  Drivers[d] \subseteq Seq([id : STRING, type : STRING, min : Int, max : Int, def : Int,
                           actual : Int, readable : BOOLEAN])

Nodes == <<"cam", "isp", "enc", "uvc">>

(* The lines of the sensor's mode, those that the encoder can do, and those   *)
(* that uvcPrepare will ask the gadget for                                    *)
SENSOR_HEIGHT == 990
ISP_CROP_HEIGHT == 976
UVC_HEIGHT == 976

(* The calls of piOpenCamera, piOpenISP, piOpenEncoder and uvcOpen.  The size *)
(* of ispCap is found when it is prepared.                                    *)
Calls == [
  cam |-> << [call |-> "subdevOpen", dev |-> "sensor"],
             [call |-> "flip", dev |-> "sensor", id |-> "HFLIP"],
             [call |-> "flip", dev |-> "sensor", id |-> "VFLIP"],
             [call |-> "control", dev |-> "sensor", id |-> "ANALOGUE_GAIN", value |-> 2],
             [call |-> "subdevSet", dev |-> "sensor"],
             [call |-> "deviceOpen", dev |-> "camera"],
             [call |-> "query", dev |-> "camera"],
             [call |-> "prepare", dev |-> "camera", end |-> "capture", memory |-> "DMABUF_EXPORT",
              height |-> SENSOR_HEIGHT, crop |-> 0] >>,
  isp |-> << [call |-> "deviceOpen", dev |-> "ispOut"],
             [call |-> "query", dev |-> "ispOut"],
             [call |-> "control", dev |-> "ispOut", id |-> "RED_BALANCE", value |-> 2],
             [call |-> "control", dev |-> "ispOut", id |-> "BLUE_BALANCE", value |-> 2],
             [call |-> "control", dev |-> "ispOut", id |-> "DIGITAL_GAIN", value |-> 2],
             [call |-> "prepare", dev |-> "ispOut", end |-> "output", memory |-> "DMABUF_IMPORT",
              height |-> SENSOR_HEIGHT, crop |-> ISP_CROP_HEIGHT],
             [call |-> "deviceOpen", dev |-> "ispCap"],
             [call |-> "query", dev |-> "ispCap"],
             [call |-> "prepare", dev |-> "ispCap", end |-> "capture", memory |-> "DMABUF_EXPORT",
              crop |-> 0] >>,
  enc |-> << [call |-> "deviceOpen", dev |-> "encoder"],
             [call |-> "query", dev |-> "encoder"],
             [call |-> "prepare", dev |-> "encoder", end |-> "output", memory |-> "DMABUF_IMPORT",
              height |-> ISP_CROP_HEIGHT, crop |-> 0],
             [call |-> "query", dev |-> "encoder"],
             [call |-> "prepare", dev |-> "encoder", end |-> "capture", memory |-> "DMABUF_EXPORT",
              height |-> ISP_CROP_HEIGHT, crop |-> 0] >>,
  uvc |-> << [call |-> "deviceOpen", dev |-> "gadget"],
             [call |-> "capabilities", dev |-> "gadget"],
             [call |-> "subscribe", dev |-> "gadget"] >>]

VARIABLES
  node,      \* which node is being opened; beyond the last when all are
  next,      \* its next call
  failed,    \* the open function is at its label fail
  exited,    \* the program has ended with an error
  open,      \* the devices whose descriptors are open
  closes,    \* how often each device was closed
  streams,   \* the streams of each open device, with their types, memory and sizes
  controls,  \* the controls cached for each open device
  padRead,   \* whether the sensor's pads[0].format was read; it is not initialized
  sensorSet, \* the active format of the sensor's pad 0 is the one asked for
  faults     \* ioctls that failed without need

vars == <<node, next, failed, exited, open, closes, streams, controls, padRead, sensorSet, faults>>

Init ==
  /\ node = 1 /\ next = 1 /\ failed = FALSE /\ exited = FALSE
  /\ open = {} /\ closes = [d \in Devices |-> 0]
  /\ streams = << >> /\ controls = << >>
  /\ padRead = FALSE /\ sensorSet = FALSE
  /\ faults = 0

Opening == node <= Len(Nodes) /\ ~failed /\ ~exited

Call(name) ==
  /\ Opening
  /\ next <= Len(Calls[Nodes[node]])
  /\ Calls[Nodes[node]][next].call = name

TheCall == Calls[Nodes[node]][next]

Fault == faults < MaxFaults /\ faults' = faults + 1

Proceed == next' = next + 1 /\ UNCHANGED <<node, failed, exited>>
Fail == failed' = TRUE /\ UNCHANGED <<node, next, exited>>

-----------------------------------------------------------------------------
(* subdev.c *)

(* subdevOpen closes its descriptor itself when the capabilities cannot be    *)
(* read.  What else it reads of its pads may fail and is logged: the memory   *)
(* for it stays as malloc() gave it.                                          *)
subdevOpen ==
  /\ Call("subdevOpen")
  /\ \/ Fault /\ Fail /\ UNCHANGED <<open, controls, padRead>>
     \/ \E driver \in Drivers["sensor"], read \in BOOLEAN :
          \E out \in v4l2ControlsCreateFromV4l2Fd(driver) :
            LET new == out.faults + (IF read THEN 0 ELSE 1)
            IN  /\ faults + new <= MaxFaults
                /\ faults' = faults + new
                /\ open' = open \cup {"sensor"}
                /\ padRead' = read
                /\ controls' = [d \in DOMAIN controls \cup {"sensor"} |->
                                  IF d = "sensor" THEN out.st ELSE controls[d]]
                /\ Proceed
  /\ UNCHANGED <<closes, streams, sensorSet>>

(* The pad that the formats are set for: pads[0].format says it, and it was   *)
(* copied with the rest.  The sensor has two pads; None is no pad's number.   *)
FormatPad == IF padRead THEN {0} ELSE {0, 1, None}

(* subdevSet tries the format before it makes it active; reading the crop     *)
(* back may fail after that.                                                  *)
subdevSet ==
  /\ Call("subdevSet")
  /\ \E pad \in FormatPad :
       \/ Fault /\ Fail /\ sensorSet' \in {FALSE, pad = 0}
       \/ pad = None /\ Fail /\ UNCHANGED <<sensorSet, faults>>
       \/ pad # None /\ Proceed /\ sensorSet' = (pad = 0) /\ UNCHANGED faults
  /\ UNCHANGED <<open, closes, streams, controls, padRead>>

-----------------------------------------------------------------------------
(* device.c *)

(* The type of a device's stream by what the device says it can do: several   *)
(* planes, one, or no such stream.                                            *)
v4l2QueryCapability(caps, end) ==
  LET one == IF end = "capture" THEN "VIDEO_CAPTURE" ELSE "VIDEO_OUTPUT"
      mplane == IF end = "capture" THEN "VIDEO_CAPTURE_MPLANE" ELSE "VIDEO_OUTPUT_MPLANE"
  IN  CASE caps \cap {one, "VIDEO_M2M"} # {} -> "SP"
        [] caps \cap {one, "VIDEO_M2M"} = {} /\ caps \cap {mplane, "VIDEO_M2M_MPLANE"} # {} -> "MP"
        [] OTHER -> "none"

Opened(caps, hw) ==
  [caps |-> caps,
   type |-> [end \in {"capture", "output"} |-> v4l2QueryCapability(caps, end)],
   memory |-> [capture |-> "NONE", output |-> "NONE"],
   geometry |-> [end \in {"capture", "output"} |->
                   geometryInit(hw.align, hw.targets)],
   capture |-> streamInit(TRUE), output |-> streamInit(FALSE)]

(* deviceOpen closes its descriptor itself when a stream cannot be described. *)
deviceOpen ==
  /\ Call("deviceOpen")
  /\ LET dev == TheCall.dev
     IN  \/ Fault /\ Fail /\ UNCHANGED <<open, streams, controls>>
         \/ \E caps \in Capabilities[dev], hw \in Hardware[dev], driver \in Drivers[dev] :
              \E out \in v4l2ControlsCreateFromV4l2Fd(driver) :
                /\ faults + out.faults <= MaxFaults
                /\ faults' = faults + out.faults
                /\ open' = open \cup {dev}
                /\ streams' = [d \in DOMAIN streams \cup {dev} |->
                                 IF d = dev THEN Opened(caps, hw) ELSE streams[d]]
                /\ controls' = [d \in DOMAIN controls \cup {dev} |->
                                  IF d = dev THEN out.st ELSE controls[d]]
                /\ Proceed
  /\ UNCHANGED <<closes, padRead, sensorSet>>

(* uvcOpen refuses a device without a plain output.  *)
CheckCapabilities ==
  /\ Call("capabilities")
  /\ IF {"STREAMING", "VIDEO_OUTPUT"} \subseteq streams[TheCall.dev].caps THEN Proceed ELSE Fail
  /\ UNCHANGED <<open, closes, streams, controls, padRead, sensorSet, faults>>

(* deviceStreamQueryFormats, and the event subscriptions of the gadget        *)
Query ==
  /\ Call("query") \/ Call("subscribe")
  /\ \/ Fault /\ Fail
     \/ Proceed /\ UNCHANGED faults
  /\ UNCHANGED <<open, closes, streams, controls, padRead, sensorSet>>

(* What the ISP makes of a frame is what its two ends have in common.         *)
Height == IF TheCall.dev = "ispCap" THEN streams["ispOut"].geometry["output"].compose
                                    ELSE TheCall.height

(* A stream that the device does not have cannot be given a format.           *)
PrepareNone ==
  /\ Call("prepare")
  /\ streams[TheCall.dev].type[TheCall.end] = "none"
  /\ Fail
  /\ UNCHANGED <<open, closes, streams, controls, padRead, sensorSet, faults>>

(* When the first ioctl, for the format, fails the sizes stay as they are.    *)
Prepare ==
  /\ Call("prepare")
  /\ streams[TheCall.dev].type[TheCall.end] # "none"
  /\ LET g == streams[TheCall.dev].geometry[TheCall.end]
     IN  \E out \in deviceStreamPrepare(streams[TheCall.dev][TheCall.end]) :
           \E sized \in IF out.ret = -1 THEN {Outcome(g, 0, 0)}
                         ELSE prepareGeometry(g, Height, TheCall.crop) :
             /\ faults + out.faults + sized.faults <= MaxFaults
             /\ faults' = faults + out.faults + sized.faults
             /\ streams' = [streams EXCEPT ![TheCall.dev][TheCall.end] = out.st,
                                           ![TheCall.dev].geometry[TheCall.end] = sized.st,
                                           ![TheCall.dev].memory[TheCall.end] =
                                             IF out.ret = -1 THEN @ ELSE TheCall.memory]
             /\ IF out.ret = 0 THEN Proceed ELSE Fail
  /\ UNCHANGED <<open, closes, controls, padRead, sensorSet>>

-----------------------------------------------------------------------------
(* Controls set while opening: what that returns is ignored. *)

SetControl(id, value) ==
  /\ \E out \in v4l2ControlSetById(controls[TheCall.dev], id, value) :
       /\ faults + out.faults <= MaxFaults
       /\ faults' = faults + out.faults
       /\ controls' = [controls EXCEPT ![TheCall.dev] = out.st]
  /\ Proceed
  /\ UNCHANGED <<open, closes, streams, padRead, sensorSet>>

Gain == Call("control") /\ SetControl(TheCall.id, TheCall.value)

Value(dev, id) ==
  LET i == v4l2ControlGet(controls[dev], id) IN IF i = 0 THEN 0 ELSE controls[dev][i].value

Rotated == Value("sensor", "ROTATION") = 180

(* Mutant of Flip: the same flip is set twice. *)
FlipTwice == Call("flip") /\ Rotated /\ SetControl("HFLIP", 1)

(* A sensor mounted upside down is flipped both ways. *)
Flip == Call("flip") /\ Rotated /\ SetControl(TheCall.id, 1)

NoFlip ==
  /\ Call("flip") /\ ~Rotated
  /\ Proceed
  /\ UNCHANGED <<open, closes, streams, controls, padRead, sensorSet, faults>>

-----------------------------------------------------------------------------

(* The node is made; its devices are its own from now on. *)
NodeMade ==
  /\ Opening
  /\ next > Len(Calls[Nodes[node]])
  /\ node' = node + 1 /\ next' = 1
  /\ UNCHANGED <<failed, exited, open, closes, streams, controls, padRead, sensorSet, faults>>

DevicesOf(n) == {Calls[n][i].dev : i \in 1..Len(Calls[n])}

(* Mutant of CloseAll: the device opened last is forgotten. *)
CloseFirst ==
  /\ failed /\ ~exited
  /\ LET mine == open \cap {Calls[Nodes[node]][1].dev}
     IN  /\ open' = open \ mine
         /\ closes' = [d \in Devices |-> IF d \in mine THEN closes[d] + 1 ELSE closes[d]]
         /\ streams' = [d \in DOMAIN streams \ mine |-> streams[d]]
         /\ controls' = [d \in DOMAIN controls \ mine |-> controls[d]]
  /\ exited' = TRUE
  /\ UNCHANGED <<node, next, failed, padRead, sensorSet, faults>>

(* The label fail: the devices this function opened are closed, deviceClose   *)
(* freeing their buffers. main ends the program; the nodes made before are    *)
(* left to the exit.                                                          *)
CloseAll ==
  /\ failed /\ ~exited
  /\ LET mine == open \cap DevicesOf(Nodes[node])
     IN  /\ open' = open \ mine
         /\ closes' = [d \in Devices |-> IF d \in mine THEN closes[d] + 1 ELSE closes[d]]
         /\ streams' = [d \in DOMAIN streams \ mine |-> streams[d]]
         /\ controls' = [d \in DOMAIN controls \ mine |-> controls[d]]
  /\ exited' = TRUE
  /\ UNCHANGED <<node, next, failed, padRead, sensorSet, faults>>

Next ==
  \/ subdevOpen \/ subdevSet \/ deviceOpen \/ CheckCapabilities \/ Query
  \/ PrepareNone \/ Prepare \/ Gain \/ Flip \/ NoFlip
  \/ NodeMade \/ CloseAll

Spec == Init /\ [][Next]_vars

-----------------------------------------------------------------------------
(* Properties *)

AllMade == node > Len(Nodes)

(* The variables have their types, and a stream's array the length granted.   *)
TypeOK ==
  /\ node \in 1..Len(Nodes)+1 /\ failed \in BOOLEAN /\ exited \in BOOLEAN
  /\ open \subseteq Devices /\ closes \in [Devices -> 0..1]
  /\ DOMAIN controls = open /\ DOMAIN streams = open \ {"sensor"}
  /\ \A d \in DOMAIN streams : \A e \in {"capture", "output"} :
       streams[d][e].state \in States /\ streams[d][e].alloc \in {0} \cup Grants
  /\ faults \in 0..MaxFaults

(* A node that could not be opened leaves no device open (Pilatform.c:180,    *)
(* 284, 368; UVC.c:646), and the nodes made before keep theirs.               *)
FailedOpenCloses ==
  exited => open = UNION {DevicesOf(Nodes[n]) : n \in 1..node-1}

(* What the event loop starts from: the sensor's format is set, if its pad    *)
(* could be read (subdev.c:210, 261: otherwise the format is set for a pad    *)
(* that is left to chance), each stream but the gadget's is prepared, with an *)
(* array of its count, off and with nothing queued, and pumpCreate            *)
(* (pump.c:188-193) will find a pass function for each of the three pumps,    *)
(* however many planes each driver wants: a pump that is NULL is never missed *)
(* (main.c:355).                                                              *)
ReadyForPipeline ==
  LET End(dev, end) == [memory |-> IF dev = "gadget" THEN "DMABUF_IMPORT"
                                                     ELSE streams[dev].memory[end],
                        mplane |-> streams[dev].type[end] = "MP"]
      Ready(st) == /\ st.state = "PREPARED" /\ st.alloc = st.count /\ st.made = st.alloc
                   /\ st.alloc > 0 /\ st.queued = {} /\ ~st.on
  IN  AllMade =>
        /\ padRead => sensorSet
        /\ Ready(streams["camera"].capture)
        /\ Ready(streams["ispOut"].output) /\ Ready(streams["ispCap"].capture)
        /\ Ready(streams["encoder"].output) /\ Ready(streams["encoder"].capture)
        /\ streams["gadget"].output = streamInit(FALSE)
        /\ getPassFunc(End("camera", "capture"), End("ispOut", "output")) # {}
        /\ getPassFunc(End("ispCap", "capture"), End("encoder", "output")) # {}
        /\ getPassFunc(End("encoder", "capture"), End("gadget", "output")) # {}

(* Each pump joins two streams of one size (Pilatform.c:22-35 "Needed for     *)
(* using JPEG encoder"): the ISP is told the sensor's and finds the encoder's *)
(* by what it made of its crop, which drivers without a compose rectangle do  *)
(* not say (device.c:670); the gadget is told a number (UVC.c:721).  Nothing  *)
(* compares the sizes, and a selection that fails is ignored (device.c:215,   *)
(* 234): then they may differ.                                                *)
SizesAgree ==
  LET size(dev, end) == streams[dev].geometry[end].size
  IN  AllMade /\ faults = 0 =>
        /\ size("camera", "capture") = size("ispOut", "output")
        /\ size("ispCap", "capture") = size("encoder", "output")
        /\ size("encoder", "capture") = UVC_HEIGHT

(* A picture is turned, never mirrored: with both flips supported and no      *)
(* failing ioctl the sensor is flipped in both directions or in none          *)
(* (Pilatform.c:77-85).                                                       *)
FlipsTogether ==
  LET h == v4l2ControlGet(controls["sensor"], "HFLIP")
      v == v4l2ControlGet(controls["sensor"], "VFLIP")
  IN  AllMade /\ faults = 0 /\ h # 0 /\ v # 0
        => controls["sensor"][h].actual = controls["sensor"][v].actual

(* The driver's value of a control that was read or set is the cached one, or  *)
(* what the driver made of it when it moved it into its range, however many of *)
(* the reads and of the ignored sets failed (V4l2Control.c:39, 145-151).       *)
CacheTruthful ==
  \A d \in DOMAIN controls : \A i \in 1..Len(controls[d]) :
    LET c == controls[d][i] IN c.known => c.actual \in {c.value, Clamp(c, c.value)}

(* "-ERANGE on value outside of range" (V4l2Control.h:26): such a value is     *)
(* refused, so that none is ever cached.                                      *)
RangeChecked ==
  \A d \in DOMAIN controls : \A i \in 1..Len(controls[d]) :
    controls[d][i].value \in controls[d][i].min..controls[d][i].max
===================================================================================
