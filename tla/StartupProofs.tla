------------------------------- MODULE StartupProofs -------------------------------
(***************************************************************************)
(* Proofs about Startup, for every driver, with any capabilities, sizes and  *)
(* controls, for every number of buffers and of failing ioctls.              *)
(***************************************************************************)
EXTENDS Startup, StreamLemmas, FiniteSetTheorems

USE MaxFaultsAssumption

-----------------------------------------------------------------------------
(* Where the opening is: every device is opened by one call, and a stream is  *)
(* prepared by one call at most.                                              *)

OpenedAt == [sensor |-> <<1, 1>>, camera |-> <<1, 6>>, ispOut |-> <<2, 1>>, ispCap |-> <<2, 7>>,
             encoder |-> <<3, 1>>, gadget |-> <<4, 1>>]

Ends == {"capture", "output"}

(* Beyond the last node for a stream that is not prepared here *)
PreparedAt(d, e) ==
  CASE d = "camera" /\ e = "capture" -> <<1, 8>>
    [] d = "ispOut" /\ e = "output" -> <<2, 6>>
    [] d = "ispCap" /\ e = "capture" -> <<2, 9>>
    [] d = "encoder" /\ e = "output" -> <<3, 3>>
    [] d = "encoder" /\ e = "capture" -> <<3, 5>>
    [] OTHER -> <<5, 1>>

(* The call p[2] of the node p[1] has been made. *)
Past(p) == node > p[1] \/ (node = p[1] /\ next > p[2])

Passed == {d \in Devices : Past(OpenedAt[d])}

-----------------------------------------------------------------------------
(* The invariant *)

Place ==
  /\ node \in 1..5 /\ next \in Nat \ {0} /\ failed \in BOOLEAN /\ exited \in BOOLEAN
  /\ node <= 4 => next <= Len(Calls[Nodes[node]]) + 1
  /\ node = 5 => next = 1
  /\ failed => node <= 4 /\ next <= Len(Calls[Nodes[node]])
  /\ exited => failed
  /\ faults \in 0..MaxFaults

(* What is open is what was passed; at the end of a failed opening, what the  *)
(* nodes made before have.                                                    *)
Files ==
  /\ ~exited => open = Passed /\ closes = [d \in Devices |-> 0]
  /\ exited => open = {d \in Devices : OpenedAt[d][1] < node}
  /\ closes \in [Devices -> 0..1]
  /\ DOMAIN controls = open /\ DOMAIN streams = open \ {"sensor"}

(* A device as deviceOpen makes it, with streams in any state *)
Device(r) ==
  /\ r = [caps |-> r.caps, type |-> r.type, memory |-> r.memory, geometry |-> r.geometry,
          capture |-> r.capture, output |-> r.output]
  /\ r.memory = [capture |-> r.memory["capture"], output |-> r.memory["output"]]
  /\ r.geometry = [e \in Ends |-> r.geometry[e]]
  /\ \A e \in Ends : /\ r.type[e] = v4l2QueryCapability(r.caps, e)
                     /\ r[e].state \in States /\ r[e].alloc \in {0} \cup Grants

MemoryOf(e) == IF e = "capture" THEN "DMABUF_EXPORT" ELSE "DMABUF_IMPORT"

(* A stream that nodeStart can start *)
Startable(s) == /\ s.state = "PREPARED" /\ s.alloc = s.count /\ s.made = s.alloc
                /\ s.alloc > 0 /\ s.queued = {} /\ ~s.on

DevicesFit == \A d \in DOMAIN streams : Device(streams[d])

EndsFit ==
  ~failed => \A d \in DOMAIN streams : \A e \in Ends :
    IF Past(PreparedAt(d, e))
    THEN /\ Startable(streams[d][e]) /\ streams[d].memory[e] = MemoryOf(e)
         /\ streams[d].type[e] # "none"
    ELSE streams[d][e] = streamInit(e = "capture")

SensorFits == ~failed /\ Past(<<1, 5>>) /\ padRead => sensorSet

GadgetFits == ~failed /\ Past(<<4, 2>>) => "VIDEO_OUTPUT" \in streams["gadget"].caps

StreamsFit == DevicesFit /\ EndsFit /\ SensorFits /\ GadgetFits

(* The controls cached for a device, and what the driver makes of their values *)
Cached == [id : STRING, type : STRING, min : Int, max : Int, known : BOOLEAN, value : Int,
           actual : Int]

Truthful(c) == c.known => c.actual \in {c.value, Clamp(c, c.value)}

ControlsFit ==
  \A d \in DOMAIN controls : /\ controls[d] \in Seq(Cached)
                             /\ \A i \in 1..Len(controls[d]) : Truthful(controls[d][i])

IInv == Place /\ Files /\ StreamsFit /\ ControlsFit

-----------------------------------------------------------------------------
(* The calls *)

(* What the proofs use of the call c, the i-th that opens the node n          *)
Fits(n, i, c) ==
  /\ c.dev \in Devices
  /\ c.call = "subdevOpen" => OpenedAt[c.dev] = <<n, i>> /\ c.dev = "sensor"
  /\ c.call = "deviceOpen" => OpenedAt[c.dev] = <<n, i>> /\ c.dev # "sensor"
  /\ c.call \notin {"subdevOpen", "deviceOpen"} =>
       /\ OpenedAt[c.dev][1] = n /\ OpenedAt[c.dev][2] < i
       /\ \A d \in Devices : OpenedAt[d] # <<n, i>>
  /\ c.call = "prepare" =>
       /\ c.dev # "sensor" /\ c.end \in Ends /\ c.memory = MemoryOf(c.end)
       /\ PreparedAt(c.dev, c.end) = <<n, i>>
       /\ \A d \in Devices, e \in Ends : PreparedAt(d, e) = <<n, i>> => d = c.dev /\ e = c.end
  /\ c.call # "prepare" => \A d \in Devices, e \in Ends : PreparedAt(d, e) # <<n, i>>
  /\ c.call = "capabilities" => n = 4 /\ i = 2 /\ c.dev = "gadget"
  /\ c.call # "capabilities" => <<n, i>> # <<4, 2>>
  /\ c.call = "subdevSet" => n = 1 /\ i = 5
  /\ c.call # "subdevSet" => <<n, i>> # <<1, 5>>
  /\ c.call \in {"flip", "subdevSet"} => c.dev = "sensor"

LEMMA DevicesAre ==
  /\ Devices = {"sensor", "camera", "ispOut", "ispCap", "encoder", "gadget"}
  /\ OpenedAt["sensor"] = <<1, 1>> /\ OpenedAt["camera"] = <<1, 6>>
  /\ OpenedAt["ispOut"] = <<2, 1>> /\ OpenedAt["ispCap"] = <<2, 7>>
  /\ OpenedAt["encoder"] = <<3, 1>> /\ OpenedAt["gadget"] = <<4, 1>>
BY DEF Devices, OpenedAt

LEMMA PreparedAtIs ==
  \A d \in Devices, e \in Ends :
    \/ d = "camera" /\ e = "capture" /\ PreparedAt(d, e) = <<1, 8>>
    \/ d = "ispOut" /\ e = "output" /\ PreparedAt(d, e) = <<2, 6>>
    \/ d = "ispCap" /\ e = "capture" /\ PreparedAt(d, e) = <<2, 9>>
    \/ d = "encoder" /\ e = "output" /\ PreparedAt(d, e) = <<3, 3>>
    \/ d = "encoder" /\ e = "capture" /\ PreparedAt(d, e) = <<3, 5>>
    \/ /\ <<d, e>> \notin {<<"camera", "capture">>, <<"ispOut", "output">>, <<"ispCap", "capture">>,
                           <<"encoder", "output">>, <<"encoder", "capture">>}
       /\ PreparedAt(d, e) = <<5, 1>>
BY DEF PreparedAt

LEMMA NodesAre ==
  /\ Len(Nodes) = 4
  /\ Nodes[1] = "cam" /\ Nodes[2] = "isp" /\ Nodes[3] = "enc" /\ Nodes[4] = "uvc"
  /\ Len(Calls[Nodes[1]]) = 8 /\ Len(Calls[Nodes[2]]) = 9 /\ Len(Calls[Nodes[3]]) = 5
  /\ Len(Calls[Nodes[4]]) = 3
<1>1. /\ Len(Nodes) = 4
      /\ Nodes[1] = "cam" /\ Nodes[2] = "isp" /\ Nodes[3] = "enc" /\ Nodes[4] = "uvc"
  BY DEF Nodes
<1>2. Len(Calls["cam"]) = 8
  BY DEF Calls
<1>3. Len(Calls["isp"]) = 9
  BY DEF Calls
<1>4. Len(Calls["enc"]) = 5
  BY DEF Calls
<1>5. Len(Calls["uvc"]) = 3
  BY DEF Calls
<1> QED BY <1>1, <1>2, <1>3, <1>4, <1>5

LEMMA CamFits == \A i \in 1..8 : Fits(1, i, Calls["cam"][i])
<1> SUFFICES ASSUME NEW i \in 1..8 PROVE Fits(1, i, Calls["cam"][i])
  OBVIOUS
<1> DEFINE C == Calls["cam"]
<1>1. /\ C[1].call = "subdevOpen" /\ C[1].dev = "sensor"
      /\ C[2].call = "flip" /\ C[2].dev = "sensor" /\ C[3].call = "flip" /\ C[3].dev = "sensor"
      /\ C[4].call = "control" /\ C[4].dev = "sensor"
      /\ C[5].call = "subdevSet" /\ C[5].dev = "sensor"
      /\ C[6].call = "deviceOpen" /\ C[6].dev = "camera"
      /\ C[7].call = "query" /\ C[7].dev = "camera"
      /\ C[8].call = "prepare" /\ C[8].dev = "camera" /\ C[8].end = "capture"
      /\ C[8].memory = "DMABUF_EXPORT"
  BY DEF Calls
<1> HIDE DEF C
<1>2. Fits(1, 1, C[1]) /\ Fits(1, 6, C[6])
  BY <1>1, DevicesAre, PreparedAtIs DEF Fits
<1>3. Fits(1, 8, C[8])
  BY <1>1, DevicesAre, PreparedAtIs DEF Fits, MemoryOf, Ends
<1>4. Fits(1, 2, C[2]) /\ Fits(1, 3, C[3]) /\ Fits(1, 4, C[4]) /\ Fits(1, 5, C[5]) /\ Fits(1, 7, C[7])
  BY <1>1, DevicesAre, PreparedAtIs DEF Fits
<1> QED BY <1>2, <1>3, <1>4 DEF C

LEMMA IspFits == \A i \in 1..9 : Fits(2, i, Calls["isp"][i])
<1> SUFFICES ASSUME NEW i \in 1..9 PROVE Fits(2, i, Calls["isp"][i])
  OBVIOUS
<1> DEFINE C == Calls["isp"]
<1>1. /\ C[1].call = "deviceOpen" /\ C[1].dev = "ispOut"
      /\ C[2].call = "query" /\ C[2].dev = "ispOut"
      /\ C[3].call = "control" /\ C[3].dev = "ispOut"
      /\ C[4].call = "control" /\ C[4].dev = "ispOut"
      /\ C[5].call = "control" /\ C[5].dev = "ispOut"
      /\ C[6].call = "prepare" /\ C[6].dev = "ispOut" /\ C[6].end = "output"
      /\ C[6].memory = "DMABUF_IMPORT"
      /\ C[7].call = "deviceOpen" /\ C[7].dev = "ispCap"
      /\ C[8].call = "query" /\ C[8].dev = "ispCap"
      /\ C[9].call = "prepare" /\ C[9].dev = "ispCap" /\ C[9].end = "capture"
      /\ C[9].memory = "DMABUF_EXPORT"
  BY DEF Calls
<1> HIDE DEF C
<1>2. /\ Fits(2, 1, C[1]) /\ Fits(2, 2, C[2]) /\ Fits(2, 3, C[3])
      /\ Fits(2, 4, C[4]) /\ Fits(2, 5, C[5]) /\ Fits(2, 7, C[7]) /\ Fits(2, 8, C[8])
  BY <1>1, DevicesAre, PreparedAtIs DEF Fits
<1>3. Fits(2, 6, C[6])
  BY <1>1, DevicesAre, PreparedAtIs DEF Fits, MemoryOf, Ends
<1>4. Fits(2, 9, C[9])
  BY <1>1, DevicesAre, PreparedAtIs DEF Fits, MemoryOf, Ends
<1> QED BY <1>2, <1>3, <1>4 DEF C

LEMMA EncFits == \A i \in 1..5 : Fits(3, i, Calls["enc"][i])
<1> SUFFICES ASSUME NEW i \in 1..5 PROVE Fits(3, i, Calls["enc"][i])
  OBVIOUS
<1> DEFINE C == Calls["enc"]
<1>1. /\ C[1].call = "deviceOpen" /\ C[1].dev = "encoder"
      /\ C[2].call = "query" /\ C[2].dev = "encoder"
      /\ C[3].call = "prepare" /\ C[3].dev = "encoder" /\ C[3].end = "output"
      /\ C[3].memory = "DMABUF_IMPORT"
      /\ C[4].call = "query" /\ C[4].dev = "encoder"
      /\ C[5].call = "prepare" /\ C[5].dev = "encoder" /\ C[5].end = "capture"
      /\ C[5].memory = "DMABUF_EXPORT"
  BY DEF Calls
<1> HIDE DEF C
<1>2. Fits(3, 1, C[1]) /\ Fits(3, 2, C[2]) /\ Fits(3, 4, C[4])
  BY <1>1, DevicesAre, PreparedAtIs DEF Fits
<1>3. Fits(3, 3, C[3])
  BY <1>1, DevicesAre, PreparedAtIs DEF Fits, MemoryOf, Ends
<1>4. Fits(3, 5, C[5])
  BY <1>1, DevicesAre, PreparedAtIs DEF Fits, MemoryOf, Ends
<1> QED BY <1>2, <1>3, <1>4 DEF C

LEMMA UvcFits == \A i \in 1..3 : Fits(4, i, Calls["uvc"][i])
<1> SUFFICES ASSUME NEW i \in 1..3 PROVE Fits(4, i, Calls["uvc"][i])
  OBVIOUS
<1> DEFINE C == Calls["uvc"]
<1>1. /\ C[1].call = "deviceOpen" /\ C[1].dev = "gadget"
      /\ C[2].call = "capabilities" /\ C[2].dev = "gadget"
      /\ C[3].call = "subscribe" /\ C[3].dev = "gadget"
  BY DEF Calls
<1> HIDE DEF C
<1>2. Fits(4, 1, C[1]) /\ Fits(4, 2, C[2]) /\ Fits(4, 3, C[3])
  BY <1>1, DevicesAre, PreparedAtIs DEF Fits
<1> QED BY <1>2 DEF C

(* A node and its next call *)
Position(n, i) == n \in 1..4 /\ i \in 1..Len(Calls[Nodes[n]])

LEMMA CallsFit ==
  ASSUME NEW n, NEW i, Position(n, i)
  PROVE  Fits(n, i, Calls[Nodes[n]][i])
<1>1. n = 1 \/ n = 2 \/ n = 3 \/ n = 4
  BY DEF Position
<1>2. CASE n = 1
  BY <1>2, NodesAre, CamFits DEF Position
<1>3. CASE n = 2
  BY <1>3, NodesAre, IspFits DEF Position
<1>4. CASE n = 3
  BY <1>4, NodesAre, EncFits DEF Position
<1>5. CASE n = 4
  BY <1>5, NodesAre, UvcFits DEF Position
<1> QED BY <1>1, <1>2, <1>3, <1>4, <1>5

(* The places of the tables are those of calls. *)
LEMMA PlacesAre ==
  /\ \A d \in Devices : /\ OpenedAt[d] = <<OpenedAt[d][1], OpenedAt[d][2]>>
                        /\ Position(OpenedAt[d][1], OpenedAt[d][2])
  /\ \A d \in Devices, e \in Ends :
       /\ PreparedAt(d, e) = <<PreparedAt(d, e)[1], PreparedAt(d, e)[2]>>
       /\ \/ Position(PreparedAt(d, e)[1], PreparedAt(d, e)[2])
             /\ PreparedAt(d, e)[1] = OpenedAt[d][1] /\ PreparedAt(d, e)[2] > OpenedAt[d][2]
          \/ PreparedAt(d, e) = <<5, 1>>
<1>0. /\ Position(1, 1) /\ Position(1, 6) /\ Position(2, 1) /\ Position(2, 7)
      /\ Position(3, 1) /\ Position(4, 1)
  BY NodesAre DEF Position
<1>1. /\ Position(1, 8) /\ Position(2, 6) /\ Position(2, 9) /\ Position(3, 3) /\ Position(3, 5)
  BY NodesAre DEF Position
<1>2. ASSUME NEW d \in Devices
      PROVE  /\ OpenedAt[d] = <<OpenedAt[d][1], OpenedAt[d][2]>>
             /\ Position(OpenedAt[d][1], OpenedAt[d][2])
  BY <1>0, DevicesAre
<1>3. ASSUME NEW d \in Devices, NEW e \in Ends
      PROVE  /\ PreparedAt(d, e) = <<PreparedAt(d, e)[1], PreparedAt(d, e)[2]>>
             /\ \/ Position(PreparedAt(d, e)[1], PreparedAt(d, e)[2])
                   /\ PreparedAt(d, e)[1] = OpenedAt[d][1] /\ PreparedAt(d, e)[2] > OpenedAt[d][2]
                \/ PreparedAt(d, e) = <<5, 1>>
  <2> DEFINE p == PreparedAt(d, e)
  <2>1. CASE d = "camera" /\ e = "capture" /\ p = <<1, 8>>
    BY <1>1, <2>1, DevicesAre
  <2>2. CASE d = "ispOut" /\ e = "output" /\ p = <<2, 6>>
    BY <1>1, <2>2, DevicesAre
  <2>3. CASE d = "ispCap" /\ e = "capture" /\ p = <<2, 9>>
    BY <1>1, <2>3, DevicesAre
  <2>4. CASE d = "encoder" /\ e = "output" /\ p = <<3, 3>>
    BY <1>1, <2>4, DevicesAre
  <2>5. CASE d = "encoder" /\ e = "capture" /\ p = <<3, 5>>
    BY <1>1, <2>5, DevicesAre
  <2>6. CASE p = <<5, 1>>
    BY <2>6
  <2> QED BY <2>1, <2>2, <2>3, <2>4, <2>5, <2>6, PreparedAtIs
<1> QED BY <1>2, <1>3

-----------------------------------------------------------------------------
(* How the opening advances *)

LEMMA Here ==
  ASSUME Place, NEW name, Call(name)
  PROVE  /\ Position(node, next) /\ Fits(node, next, TheCall) /\ TheCall.call = name
         /\ ~failed /\ ~exited
<1>1. /\ node \in 1..4 /\ next \in 1..Len(Calls[Nodes[node]])
      /\ TheCall.call = name /\ ~failed /\ ~exited
  <2>1. node <= 4
    BY NodesAre DEF Call, Opening
  <2> QED BY <2>1 DEF Call, Opening, Place, TheCall
<1>2. Position(node, next)
  BY <1>1 DEF Position
<1> QED BY <1>1, <1>2, CallsFit DEF TheCall

(* A call was made. *)
LEMMA Advances ==
  ASSUME Place, Proceed, NEW i \in Nat, NEW j \in Nat
  PROVE  Past(<<i, j>>)' <=> Past(<<i, j>>) \/ <<i, j>> = <<node, next>>
BY DEF Place, Proceed, Past

(* The calls of a node are made. *)
LEMMA Turns ==
  ASSUME Place, NodeMade, NEW i, NEW j, Position(i, j)
  PROVE  Past(<<i, j>>)' <=> Past(<<i, j>>)
<1>1. node \in 1..4 /\ next > Len(Calls[Nodes[node]]) /\ node' = node + 1 /\ next' = 1
  BY NodesAre DEF NodeMade, Opening, Place
<1>2. i \in 1..4 /\ j \in 1..Len(Calls[Nodes[i]]) /\ next \in Nat
  BY DEF Position, Place
<1>3. i = node => j < next
  <2>1. Len(Calls[Nodes[node]]) \in Nat
    BY <1>1, NodesAre
  <2> QED BY <1>1, <1>2, <2>1
<1> QED BY <1>1, <1>2, <1>3 DEF Past

(* Nothing was made: the places stay as they are. *)
LEMMA Stays ==
  ASSUME UNCHANGED <<node, next>>, NEW p
  PROVE  Past(p)' <=> Past(p)
BY DEF Past

LEMMA Never == Place => ~Past(<<5, 1>>)
BY DEF Place, Past

(* What is open changes with the calls that open a device, by that device. *)
LEMMA OpeningPasses ==
  ASSUME Place, Call("subdevOpen") \/ Call("deviceOpen"), Proceed
  PROVE  TheCall.dev \in Devices \ Passed /\ Passed' = Passed \cup {TheCall.dev}
<1>1. /\ Position(node, next) /\ OpenedAt[TheCall.dev] = <<node, next>> /\ TheCall.dev \in Devices
  BY Here DEF Fits
<1>2. \A d \in Devices : OpenedAt[d] = <<node, next>> => d = TheCall.dev
  BY <1>1, DevicesAre
<1>3. ASSUME NEW d \in Devices
      PROVE  Past(OpenedAt[d])' <=> Past(OpenedAt[d]) \/ OpenedAt[d] = <<node, next>>
  <2>1. PICK i, j : OpenedAt[d] = <<i, j>> /\ Position(i, j)
    BY PlacesAre
  <2>2. i \in Nat /\ j \in Nat
    BY <2>1 DEF Position
  <2> QED BY <2>1, <2>2, Advances
<1>4. ~Past(<<node, next>>)
  BY <1>1 DEF Past, Position
<1> QED BY <1>1, <1>2, <1>3, <1>4 DEF Passed

LEMMA OtherPasses ==
  ASSUME Place, NEW name, name \notin {"subdevOpen", "deviceOpen"}, Call(name), Proceed
  PROVE  Passed' = Passed
<1>1. \A d \in Devices : OpenedAt[d] # <<node, next>>
  BY Here DEF Fits
<1>2. ASSUME NEW d \in Devices
      PROVE  Past(OpenedAt[d])' <=> Past(OpenedAt[d])
  <2>1. PICK i, j : OpenedAt[d] = <<i, j>> /\ Position(i, j)
    BY PlacesAre
  <2>2. i \in Nat /\ j \in Nat
    BY <2>1 DEF Position
  <2> QED BY <2>1, <2>2, <1>1, Advances
<1> QED BY <1>2 DEF Passed

LEMMA TurnPasses == ASSUME Place, NodeMade PROVE Passed' = Passed
<1>1. ASSUME NEW d \in Devices
      PROVE  Past(OpenedAt[d])' <=> Past(OpenedAt[d])
  <2>1. PICK i, j : OpenedAt[d] = <<i, j>> /\ Position(i, j)
    BY PlacesAre
  <2> QED BY <2>1, Turns
<1> QED BY <1>1 DEF Passed

LEMMA StayPasses == ASSUME UNCHANGED <<node, next>> PROVE Passed' = Passed
BY Stays DEF Passed

(* The device of any other call is open. *)
LEMMA CallsOpened ==
  ASSUME Place, NEW name, name \notin {"subdevOpen", "deviceOpen"}, Call(name)
  PROVE  TheCall.dev \in Passed
<1>1. /\ TheCall.dev \in Devices /\ OpenedAt[TheCall.dev][1] = node
      /\ OpenedAt[TheCall.dev][2] < next
  BY Here DEF Fits
<1> QED BY <1>1 DEF Passed, Past

-----------------------------------------------------------------------------
(* What is prepared changes with the calls that prepare a stream. *)

LEMMA PreparePasses ==
  ASSUME Place, Call("prepare"), Proceed, NEW d \in Devices, NEW e \in Ends
  PROVE  Past(PreparedAt(d, e))' <=>
           Past(PreparedAt(d, e)) \/ (d = TheCall.dev /\ e = TheCall.end)
<1>1. /\ PreparedAt(TheCall.dev, TheCall.end) = <<node, next>>
      /\ PreparedAt(d, e) = <<node, next>> => d = TheCall.dev /\ e = TheCall.end
  BY Here DEF Fits
<1>2. PICK i, j : PreparedAt(d, e) = <<i, j>> /\ i \in Nat /\ j \in Nat
  <2>1. CASE PreparedAt(d, e) = <<5, 1>>
    BY <2>1
  <2>2. CASE PreparedAt(d, e) # <<5, 1>>
    BY <2>2, PlacesAre DEF Position
  <2> QED BY <2>1, <2>2
<1> QED BY <1>1, <1>2, Advances

LEMMA OtherPrepares ==
  ASSUME Place, NEW name, name # "prepare", Call(name), Proceed, NEW d \in Devices, NEW e \in Ends
  PROVE  Past(PreparedAt(d, e))' <=> Past(PreparedAt(d, e))
<1>1. PreparedAt(d, e) # <<node, next>>
  BY Here DEF Fits
<1>2. PICK i, j : PreparedAt(d, e) = <<i, j>> /\ i \in Nat /\ j \in Nat
  <2>1. CASE PreparedAt(d, e) = <<5, 1>>
    BY <2>1
  <2>2. CASE PreparedAt(d, e) # <<5, 1>>
    BY <2>2, PlacesAre DEF Position
  <2> QED BY <2>1, <2>2
<1> QED BY <1>1, <1>2, Advances

LEMMA TurnPrepares ==
  ASSUME Place, Place', NodeMade, NEW d \in Devices, NEW e \in Ends
  PROVE  Past(PreparedAt(d, e))' <=> Past(PreparedAt(d, e))
<1>1. CASE PreparedAt(d, e) = <<5, 1>>
  <2>1. ~Past(<<5, 1>>) /\ ~Past(<<5, 1>>)'
    BY Never, PTL
  <2> QED BY <1>1, <2>1
<1>2. CASE PreparedAt(d, e) # <<5, 1>>
  <2>1. PICK i, j : PreparedAt(d, e) = <<i, j>> /\ Position(i, j)
    BY <1>2, PlacesAre
  <2> QED BY <2>1, Turns
<1> QED BY <1>1, <1>2

(* A device is opened before its streams are prepared. *)
LEMMA OpenedFirst ==
  ASSUME Place, NEW d \in Devices, NEW e \in Ends, Past(PreparedAt(d, e))
  PROVE  d \in Passed
<1>1. PICK i, j, k, l : /\ PreparedAt(d, e) = <<i, j>> /\ OpenedAt[d] = <<k, l>>
                        /\ Position(i, j) /\ Position(k, l) /\ i = k /\ j > l
  BY Never, PlacesAre
<1>2. node > i \/ (node = i /\ next > j)
  BY <1>1 DEF Past
<1>3. j \in Nat /\ l \in Nat /\ next \in Nat
  BY <1>1 DEF Position, Place
<1> QED BY <1>1, <1>2, <1>3 DEF Passed, Past

-----------------------------------------------------------------------------
(* A device with one end prepared *)

PreparedDevice(q, r, e, x, y, z) ==
  /\ Device(r) /\ e \in Ends /\ x.state \in States /\ x.alloc \in {0} \cup Grants
  /\ q = [r EXCEPT ![e] = x, !.geometry[e] = y, !.memory[e] = z]

LEMMA PreparedDeviceFits ==
  ASSUME NEW q, NEW r, NEW e, NEW x, NEW y, NEW z, PreparedDevice(q, r, e, x, y, z)
  PROVE  /\ Device(q) /\ q.type = r.type /\ q.caps = r.caps
         /\ q[e] = x /\ q.memory[e] = z /\ q.geometry[e] = y
         /\ \A o \in Ends \ {e} : /\ q[o] = r[o] /\ q.memory[o] = r.memory[o]
                                  /\ q.geometry[o] = r.geometry[o]
<1> DEFINE m == [r.memory EXCEPT ![e] = z]
           g == [r.geometry EXCEPT ![e] = y]
<1>1. /\ r = [caps |-> r.caps, type |-> r.type, memory |-> r.memory, geometry |-> r.geometry,
              capture |-> r.capture, output |-> r.output]
      /\ r.memory = [capture |-> r.memory["capture"], output |-> r.memory["output"]]
      /\ r.geometry = [o \in Ends |-> r.geometry[o]]
      /\ e = "capture" \/ e = "output"
  BY DEF PreparedDevice, Device, Ends
<1>2. \A o \in Ends : /\ r.type[o] = v4l2QueryCapability(r.caps, o)
                      /\ r[o].state \in States /\ r[o].alloc \in {0} \cup Grants
  BY DEF PreparedDevice, Device
<1>3. x.state \in States /\ x.alloc \in {0} \cup Grants
  BY DEF PreparedDevice
<1>4. /\ m = [capture |-> m["capture"], output |-> m["output"]]
      /\ m[e] = z /\ \A o \in Ends \ {e} : m[o] = r.memory[o]
  BY <1>1 DEF Ends
<1>5. /\ g = [o \in Ends |-> g[o]]
      /\ g[e] = y /\ \A o \in Ends \ {e} : g[o] = r.geometry[o]
  BY <1>1 DEF Ends
<1> HIDE DEF m, g
<1>6. CASE e = "capture"
  <2>1. q = [caps |-> r.caps, type |-> r.type, memory |-> m, geometry |-> g,
             capture |-> x, output |-> r.output]
    BY <1>1, <1>6 DEF PreparedDevice, m, g
  <2>2. /\ q.caps = r.caps /\ q.type = r.type /\ q.memory = m /\ q.geometry = g
        /\ q["capture"] = x /\ q["output"] = r["output"] /\ q.capture = x /\ q.output = r.output
    BY <2>1
  <2>3. \A o \in Ends : /\ q.type[o] = v4l2QueryCapability(q.caps, o)
                        /\ q[o].state \in States /\ q[o].alloc \in {0} \cup Grants
    BY <1>2, <1>3, <2>2 DEF Ends
  <2>4. Device(q)
    BY <1>4, <1>5, <2>1, <2>2, <2>3 DEF Device
  <2> QED BY <1>4, <1>5, <1>6, <2>2, <2>4 DEF Ends
<1>7. CASE e = "output"
  <2>1. q = [caps |-> r.caps, type |-> r.type, memory |-> m, geometry |-> g,
             capture |-> r.capture, output |-> x]
    BY <1>1, <1>7 DEF PreparedDevice, m, g
  <2>2. /\ q.caps = r.caps /\ q.type = r.type /\ q.memory = m /\ q.geometry = g
        /\ q["output"] = x /\ q["capture"] = r["capture"] /\ q.output = x /\ q.capture = r.capture
    BY <2>1
  <2>3. \A o \in Ends : /\ q.type[o] = v4l2QueryCapability(q.caps, o)
                        /\ q[o].state \in States /\ q[o].alloc \in {0} \cup Grants
    BY <1>2, <1>3, <2>2 DEF Ends
  <2>4. Device(q)
    BY <1>4, <1>5, <2>1, <2>2, <2>3 DEF Device
  <2> QED BY <1>4, <1>5, <1>7, <2>2, <2>4 DEF Ends
<1> QED BY <1>1, <1>6, <1>7

Fresh(r) == Device(r) /\ \A e \in Ends : r[e] = streamInit(e = "capture")

LEMMA OpenedFits ==
  ASSUME NEW caps, NEW hw, NEW r, r = Opened(caps, hw)
  PROVE  /\ Fresh(r) /\ r.caps = caps
         /\ \A e \in Ends : r.geometry[e] = geometryInit(hw.align, hw.targets)
<1>1. /\ r.caps = caps
      /\ r.type = [e \in {"capture", "output"} |-> v4l2QueryCapability(caps, e)]
      /\ r.memory = [capture |-> "NONE", output |-> "NONE"]
      /\ r.geometry = [e \in {"capture", "output"} |-> geometryInit(hw.align, hw.targets)]
      /\ r.capture = streamInit(TRUE) /\ r.output = streamInit(FALSE)
      /\ r["capture"] = streamInit(TRUE) /\ r["output"] = streamInit(FALSE)
  BY DEF Opened
<1>2. r = [caps |-> r.caps, type |-> r.type, memory |-> r.memory, geometry |-> r.geometry,
           capture |-> r.capture, output |-> r.output]
  BY DEF Opened
<1>3. \A c : streamInit(c).state \in States /\ streamInit(c).alloc \in {0} \cup Grants
  BY DEF streamInit, States
<1>4. \A e \in Ends : r[e] = streamInit(e = "capture")
  BY <1>1 DEF Ends
<1>5. \A e \in Ends : r.geometry[e] = geometryInit(hw.align, hw.targets)
  BY <1>1 DEF Ends
<1>6. r.memory = [capture |-> r.memory["capture"], output |-> r.memory["output"]]
  BY <1>1
<1>7. r.geometry = [e \in Ends |-> r.geometry[e]]
  BY <1>1 DEF Ends
<1>8. \A e \in Ends : r.type[e] = v4l2QueryCapability(r.caps, e)
  BY <1>1 DEF Ends
<1>9. Device(r)
  BY <1>2, <1>3, <1>4, <1>6, <1>7, <1>8 DEF Device
<1>10. Fresh(r)
  BY <1>4, <1>9, Zenon DEF Fresh
<1> QED BY <1>1, <1>5, <1>10

-----------------------------------------------------------------------------
(* What the calls on a stream return *)

LEMMA PrepareFresh ==
  ASSUME NEW capture \in BOOLEAN, NEW out \in deviceStreamPrepare(streamInit(capture))
  PROVE  /\ out.faults \in Nat /\ out.ret \in Int
         /\ out.st.state \in States /\ out.st.alloc \in {0} \cup Grants
         /\ out.ret = 0 => Startable(out.st)
<1> DEFINE s == streamInit(capture)
           t == [s EXCEPT !.count = Requested]
<1>1. s = [capture |-> capture, state |-> "IDLE", count |-> 0, alloc |-> 0,
           made |-> 0, queued |-> {}, on |-> FALSE]
  BY DEF streamInit
<1> HIDE DEF s
<1>2. /\ t \in Fields /\ t.state = "IDLE" /\ t.alloc = 0 /\ t.made = 0 /\ t.queued = {}
      /\ t.on = FALSE
  BY <1>1, RequestedAssumption DEF Fields, States
<1> HIDE DEF t
<1>3. /\ s.state = "IDLE" /\ s.alloc = 0 /\ s.made = 0
      /\ t.state = "IDLE" /\ t.alloc = 0
  BY <1>1, <1>2
<1>4. deviceStreamPrepare(s) = {Outcome(s, -1, 1)} \cup {Request(req) : req \in streamRequestBuffers(t)}
  BY <1>3 DEF deviceStreamPrepare, Request, t
<1>5. streamRequestBuffers(t) =
        {Outcome(t, -1, 1)}
        \cup {Outcome([t EXCEPT !.count = g, !.made = g], 1, 1) : g \in Grants}
        \cup {Outcome([t EXCEPT !.count = g, !.made = g, !.alloc = g], 0, 0) : g \in Grants}
  BY <1>3 DEF streamRequestBuffers
<1>6. CASE out = Outcome(s, -1, 1)
  <2>1. out.st = s /\ out.ret = -1 /\ out.faults = 1
    BY <1>6, OutcomeIs
  <2> QED BY <2>1, <1>3 DEF States
<1>7. CASE \E req \in streamRequestBuffers(t) : out = Request(req)
  <2>1. PICK req \in streamRequestBuffers(t) : out = Request(req)
    BY <1>7
  <2>2. CASE req = Outcome(t, -1, 1)
    <3>1. req = [st |-> t, ret |-> -1, faults |-> 1]
      BY <2>2 DEF Outcome
    <3>2. out.st = t /\ out.ret = -2 /\ out.faults = 1
      BY <2>1, <3>1 DEF Request
    <3> QED BY <3>2, <1>3 DEF States
  <2>3. CASE \E g \in Grants : req = Outcome([t EXCEPT !.count = g, !.made = g], 1, 1)
    <3>1. PICK g \in Grants : req = Outcome([t EXCEPT !.count = g, !.made = g], 1, 1)
      BY <2>3
    <3>2. req = [st |-> [t EXCEPT !.count = g, !.made = g], ret |-> 1, faults |-> 1]
      BY <3>1 DEF Outcome
    <3>3. out.st = [t EXCEPT !.count = g, !.made = g] /\ out.ret = -2 /\ out.faults = 1
      BY <2>1, <3>2 DEF Request
    <3> QED BY <3>3, <1>2 DEF Fields, States
  <2>4. CASE \E g \in Grants : req = Outcome([t EXCEPT !.count = g, !.made = g, !.alloc = g], 0, 0)
    <3>1. PICK g \in Grants : req = Outcome([t EXCEPT !.count = g, !.made = g, !.alloc = g], 0, 0)
      BY <2>4
    <3>2. req = [st |-> [t EXCEPT !.count = g, !.made = g, !.alloc = g], ret |-> 0, faults |-> 0]
      BY <3>1 DEF Outcome
    <3>3. /\ out.st = [[t EXCEPT !.count = g, !.made = g, !.alloc = g] EXCEPT !.state = "PREPARED"]
          /\ out.ret = 0 /\ out.faults = 0
      BY <2>1, <3>2 DEF Request
    <3>5. /\ out.st.state = "PREPARED" /\ out.st.alloc = g /\ out.st.count = g /\ out.st.made = g
          /\ out.st.queued = {} /\ out.st.on = FALSE
      BY <3>3, <1>2 DEF Fields
    <3>6. g > 0
      BY GrantsAssumption
    <3> QED BY <3>3, <3>5, <3>6 DEF States, Startable
  <2> QED BY <2>2, <2>3, <2>4, <1>5
<1> QED BY <1>4, <1>6, <1>7 DEF s

-----------------------------------------------------------------------------
(* What failed on the way to a size *)

LEMMA GetSelectionFaults ==
  ASSUME NEW g, NEW target, NEW out \in GetSelection(g, target)
  PROVE  out.faults \in Nat
BY DEF GetSelection, Outcome

LEMMA SetSelectionFaults ==
  ASSUME NEW g, NEW target, NEW lines, NEW out \in SetSelection(g, target, lines)
  PROVE  out.faults \in Nat
BY DEF SetSelection, Outcome

LEMMA SelectFaults ==
  ASSUME NEW g, NEW target, NEW lines, NEW out \in Select(g, target, lines)
  PROVE  out.faults \in Nat
<1>1. CASE lines = 0
  <2>1. out \in GetSelection(g, target)
    BY <1>1 DEF Select
  <2> QED BY <2>1, GetSelectionFaults
<1>2. CASE lines # 0
  <2>1. PICK get \in GetSelection(g, target) :
          \E set \in {Outcome(o.st, o.ret, get.faults + o.faults) :
                        o \in SetSelection(get.st, target, lines)} :
            out \in {Outcome(o.st, o.ret, set.faults + o.faults) : o \in GetSelection(set.st, target)}
    BY <1>2 DEF Select, Then
  <2>2. PICK set : /\ set \in {Outcome(o.st, o.ret, get.faults + o.faults) :
                                 o \in SetSelection(get.st, target, lines)}
                   /\ out \in {Outcome(o.st, o.ret, set.faults + o.faults) :
                                 o \in GetSelection(set.st, target)}
    BY <2>1
  <2>3. PICK o1 \in SetSelection(get.st, target, lines) :
          set = Outcome(o1.st, o1.ret, get.faults + o1.faults)
    BY <2>2
  <2>4. PICK o2 \in GetSelection(set.st, target) :
          out = Outcome(o2.st, o2.ret, set.faults + o2.faults)
    BY <2>2
  <2>5. set.faults = get.faults + o1.faults /\ out.faults = set.faults + o2.faults
    BY <2>3, <2>4 DEF Outcome
  <2>6. get.faults \in Nat /\ o1.faults \in Nat /\ o2.faults \in Nat
    BY GetSelectionFaults, SetSelectionFaults
  <2> QED BY <2>5, <2>6
<1> QED BY <1>1, <1>2

LEMMA GeometryFaults ==
  ASSUME NEW g, NEW lines, NEW crop, NEW out \in prepareGeometry(g, lines, crop)
  PROVE  out.faults \in Nat
<1> DEFINE format == [streamSetFormat(g, lines) EXCEPT !.crop = lines]
<1>1. PICK cropped \in Select(format, "crop", crop) :
        out \in {Outcome(o.st, o.ret, cropped.faults + o.faults) :
                   o \in Select([cropped.st EXCEPT !.compose = cropped.st.crop], "compose", crop)}
  BY DEF prepareGeometry, Then, setCrop, setCompose
<1>2. PICK o \in Select([cropped.st EXCEPT !.compose = cropped.st.crop], "compose", crop) :
        out = Outcome(o.st, o.ret, cropped.faults + o.faults)
  BY <1>1
<1>3. out.faults = cropped.faults + o.faults
  BY <1>2 DEF Outcome
<1> QED BY <1>3, SelectFaults

-----------------------------------------------------------------------------
(* The controls of a device *)

DriverControl ==
  [id : STRING, type : STRING, min : Int, max : Int, def : Int, actual : Int, readable : BOOLEAN]

(* A control and what the driver said of it *)
Describes(c, q) == /\ c.id = q.id /\ c.type = q.type /\ c.min = q.min /\ c.max = q.max
                   /\ c.actual = q.actual

LEMMA Created ==
  ASSUME NEW driver \in Seq(DriverControl), NEW out \in v4l2ControlsCreateFromV4l2Fd(driver)
  PROVE  /\ out.faults \in Nat /\ out.st \in Seq(Cached) /\ Len(out.st) = Len(driver)
         /\ \A i \in 1..Len(driver) : Truthful(out.st[i]) /\ Describes(out.st[i], driver[i])
<1> DEFINE C(c, known) == [id |-> c.id, type |-> c.type, min |-> c.min, max |-> c.max,
                           known |-> known, value |-> IF known THEN c.actual ELSE c.def,
                           actual |-> c.actual]
           Readable == {i \in 1..Len(driver) : driver[i].readable}
           All(U) == [i \in 1..Len(driver) |-> C(driver[i], i \in Readable \ U)]
<1>1. /\ Len(driver) \in Nat
      /\ \A i \in 1..Len(driver) : driver[i] \in DriverControl
  OBVIOUS
<1>2. ASSUME NEW c \in DriverControl, NEW known \in BOOLEAN
      PROVE  C(c, known) \in Cached /\ Truthful(C(c, known)) /\ Describes(C(c, known), c)
  <2> DEFINE v == IF known THEN c.actual ELSE c.def
  <2>1. /\ c.id \in STRING /\ c.type \in STRING /\ c.min \in Int /\ c.max \in Int
        /\ c.actual \in Int /\ v \in Int
    BY DEF DriverControl
  <2>2. known => v = c.actual
    OBVIOUS
  <2> HIDE DEF v
  <2>3. C(c, known) \in Cached
    <3> DEFINE r == [id |-> c.id, type |-> c.type, min |-> c.min, max |-> c.max,
                     known |-> known, value |-> v, actual |-> c.actual]
    <3>1. r \in Cached
      BY <2>1 DEF Cached
    <3>2. C(c, known) = r
      BY DEF v
    <3> QED BY <3>1, <3>2, Zenon
  <2>4. C(c, known).known = known /\ C(c, known).value = v /\ C(c, known).actual = c.actual
    BY DEF v
  <2>5. Truthful(C(c, known))
    BY <2>2, <2>4 DEF Truthful
  <2> QED BY <2>3, <2>5 DEF Describes
<1>3. PICK U \in SUBSET Readable : out = Outcome(All(U), 0, Cardinality(U))
  BY Zenon DEF v4l2ControlsCreateFromV4l2Fd, All, C, Readable
<1> HIDE DEF C, Readable
<1> DEFINE D(i) == C(driver[i], i \in Readable \ U)
<1>9. ASSUME NEW i \in 1..Len(driver)
      PROVE  D(i) \in Cached /\ Truthful(D(i)) /\ Describes(D(i), driver[i])
  <2>1. (i \in Readable \ U) \in BOOLEAN /\ driver[i] \in DriverControl
    BY <1>1
  <2> QED BY <1>2, <2>1, Zenon
<1>4. All(U) \in [1..Len(driver) -> Cached]
  <2> HIDE DEF D
  <2>1. [i \in 1..Len(driver) |-> D(i)] \in [1..Len(driver) -> Cached]
    BY <1>9
  <2> QED BY <2>1 DEF D
<1>5. \A i \in 1..Len(driver) : Truthful(All(U)[i]) /\ Describes(All(U)[i], driver[i])
  <2> HIDE DEF D
  <2>1. \A i \in 1..Len(driver) : Truthful(D(i)) /\ Describes(D(i), driver[i])
    BY <1>9
  <2> QED BY <2>1 DEF D
<1> HIDE DEF All
<1>6. Cardinality(U) \in Nat
  <2>1. IsFiniteSet(1..Len(driver)) /\ U \in SUBSET (1..Len(driver))
    BY <1>1, FS_Interval DEF Readable
  <2> QED BY <2>1, FS_Subset, FS_CardinalityType
<1>7. All(U) \in Seq(Cached) /\ Len(All(U)) = Len(driver)
  BY <1>1, <1>4
<1>8. out.st = All(U) /\ out.faults = Cardinality(U)
  BY <1>3 DEF Outcome
<1> QED BY <1>5, <1>6, <1>7, <1>8

LEMMA ControlAt ==
  ASSUME NEW cs \in Seq(Cached), NEW id
  PROVE  /\ v4l2ControlGet(cs, id) \in 0..Len(cs)
         /\ v4l2ControlGet(cs, id) # 0 =>
              /\ cs[v4l2ControlGet(cs, id)].id = id
              /\ \A j \in 1..v4l2ControlGet(cs, id)-1 : cs[j].id # id
         /\ v4l2ControlGet(cs, id) = 0 => \A j \in 1..Len(cs) : cs[j].id # id
<1> DEFINE At == {i \in 1..Len(cs) : cs[i].id = id}
<1>1. CASE At = {}
  BY <1>1 DEF v4l2ControlGet
<1>2. CASE At # {}
  <2>1. PICK n \in At : \A m \in At : n <= m
    <3>1. At \in SUBSET Nat
      OBVIOUS
    <3> QED BY <3>1, <1>2, LeastNumber
  <2> DEFINE k == v4l2ControlGet(cs, id)
  <2>2. k = Min(At)
    BY <1>2 DEF v4l2ControlGet
  <2>3. k \in At /\ \A m \in At : k <= m
    BY <2>1, <2>2 DEF Min
  <2>4. k \in 1..Len(cs) /\ cs[k].id = id
    BY <2>3
  <2>5. ASSUME NEW j \in 1..k-1 PROVE cs[j].id # id
    <3>1. j \in 1..Len(cs) /\ ~(k <= j)
      BY <2>4
    <3> QED BY <3>1, <2>3
  <2> HIDE DEF k
  <2>6. k # 0 /\ k \in 0..Len(cs)
    BY <2>4
  <2> QED BY <2>4, <2>5, <2>6 DEF k
<1> QED BY <1>1, <1>2

(* Setting a control changes that control at most. *)
Kept(cs, ds, i) ==
  /\ ds \in Seq(Cached) /\ Len(ds) = Len(cs)
  /\ \A j \in 1..Len(cs) :
       /\ ds[j].id = cs[j].id /\ ds[j].type = cs[j].type
       /\ ds[j].min = cs[j].min /\ ds[j].max = cs[j].max
       /\ j # i => ds[j] = cs[j]
       /\ Truthful(cs[j]) => Truthful(ds[j])

LEMMA SetKeeps ==
  ASSUME NEW cs \in Seq(Cached), NEW i \in 0..Len(cs), NEW value \in Int,
         NEW out \in v4l2ControlSet(cs, i, value)
  PROVE  out.faults \in Nat /\ Kept(cs, out.st, i)
<1> DEFINE a == Clamp(cs[i], value)
           ds == [cs EXCEPT ![i].value = value, ![i].known = TRUE, ![i].actual = a]
<1>1. Kept(cs, cs, i)
  BY DEF Kept
<1>2. CASE out.st = cs /\ out.faults \in Nat
  BY <1>1, <1>2
<1>3. CASE i # 0 /\ out = Outcome(ds, 0, 0)
  <2> DEFINE c == cs[i]
             d == [c EXCEPT !.value = value, !.known = TRUE, !.actual = a]
  <2>1. c \in Cached /\ i \in 1..Len(cs)
    BY <1>3
  <2>2. a \in Int /\ a = Clamp(c, value)
    <3>1. c.min \in Int /\ c.max \in Int
      BY <2>1 DEF Cached
    <3> QED BY <3>1 DEF Clamp
  <2>3. ds = [cs EXCEPT ![i] = d]
    BY <2>1
  <2> HIDE DEF a, c
  <2>4. /\ d \in Cached /\ d.id = c.id /\ d.type = c.type /\ d.min = c.min /\ d.max = c.max
        /\ d.value = value /\ d.actual = a
    BY <2>1, <2>2 DEF Cached
  <2>5. Truthful(d)
    BY <2>2, <2>4 DEF Truthful, Clamp
  <2> HIDE DEF d, ds
  <2>6. Kept(cs, ds, i)
    BY <2>1, <2>3, <2>4, <2>5 DEF Kept, c
  <2>7. out.st = ds /\ out.faults = 0
    BY <1>3 DEF Outcome
  <2> QED BY <2>6, <2>7
<1>4. \/ out.st = cs /\ out.faults \in Nat
      \/ i # 0 /\ out = Outcome(ds, 0, 0)
  BY DEF v4l2ControlSet, Outcome
<1> QED BY <1>2, <1>3, <1>4

LEMMA SetByIdKeeps ==
  ASSUME NEW cs \in Seq(Cached), NEW id, NEW value \in Int,
         NEW out \in v4l2ControlSetById(cs, id, value)
  PROVE  out.faults \in Nat /\ Kept(cs, out.st, v4l2ControlGet(cs, id))
<1> DEFINE i == v4l2ControlGet(cs, id)
<1>1. i \in 0..Len(cs)
  BY ControlAt
<1>2. CASE i = 0
  <2>1. out.st = cs /\ out.faults = 0
    BY <1>2 DEF v4l2ControlSetById, Outcome
  <2> QED BY <2>1 DEF Kept
<1>3. CASE i # 0
  <2>1. out \in v4l2ControlSet(cs, i, value)
    BY <1>3 DEF v4l2ControlSetById
  <2> QED BY <1>1, <2>1, SetKeeps
<1> QED BY <1>2, <1>3

-----------------------------------------------------------------------------
(* The stream that a call of deviceStreamPrepare is made for is fresh; x, y   *)
(* and z are what becomes of the stream, of its size and of its memory, and k *)
(* ioctls fail.                                                               *)
PreparedBy(x, y, z, k) ==
  LET d == TheCall.dev
      e == TheCall.end
      g == streams[d].geometry[e]
  IN  /\ d \in DOMAIN streams /\ d \in Devices /\ d # "sensor" /\ e \in Ends
      /\ x.state \in States /\ x.alloc \in {0} \cup Grants
      /\ streams' = [streams EXCEPT ![d] = [@ EXCEPT ![e] = x, !.geometry[e] = y, !.memory[e] = z]]
      /\ k \in Nat /\ faults' = faults + k /\ faults' <= MaxFaults
      /\ \/ /\ Proceed /\ Startable(x) /\ z = MemoryOf(e) /\ streams[d].type[e] # "none"
            /\ \E sized \in prepareGeometry(g, Height, TheCall.crop) : y = sized.st /\ sized.faults <= k
         \/ Fail

LEMMA PrepareIs ==
  ASSUME Place, Files, StreamsFit, Prepare
  PROVE  \E x, y, z, k : PreparedBy(x, y, z, k)
<1> DEFINE d == TheCall.dev
           e == TheCall.end
           g == streams[d].geometry[e]
<1>1. /\ Call("prepare") /\ streams[d].type[e] # "none"
      /\ \E out \in deviceStreamPrepare(streams[d][e]) :
           \E sized \in IF out.ret = -1 THEN {Outcome(g, 0, 0)}
                        ELSE prepareGeometry(g, Height, TheCall.crop) :
             /\ faults + out.faults + sized.faults <= MaxFaults
             /\ faults' = faults + out.faults + sized.faults
             /\ streams' = [streams EXCEPT ![d][e] = out.st, ![d].geometry[e] = sized.st,
                                           ![d].memory[e] = IF out.ret = -1 THEN @ ELSE TheCall.memory]
             /\ IF out.ret = 0 THEN Proceed ELSE Fail
  BY Zenon DEF Prepare
<1>2. /\ d \in Devices /\ d # "sensor" /\ e \in Ends /\ TheCall.memory = MemoryOf(e)
      /\ PreparedAt(d, e) = <<node, next>> /\ ~failed /\ ~exited
  BY <1>1, Here DEF Fits
<1>3. d \in DOMAIN streams
  BY <1>1, <1>2, CallsOpened DEF Files
<1>4. ~Past(PreparedAt(d, e))
  BY <1>2 DEF Past, Place
<1>5. streams[d][e] = streamInit(e = "capture")
  BY <1>2, <1>3, <1>4 DEF StreamsFit, EndsFit
<1> HIDE DEF d, e
<1>6. PICK out \in deviceStreamPrepare(streams[d][e]) :
        \E sized \in IF out.ret = -1 THEN {Outcome(g, 0, 0)}
                     ELSE prepareGeometry(g, Height, TheCall.crop) :
          /\ faults + out.faults + sized.faults <= MaxFaults
          /\ faults' = faults + out.faults + sized.faults
          /\ streams' = [streams EXCEPT ![d][e] = out.st, ![d].geometry[e] = sized.st,
                                        ![d].memory[e] = IF out.ret = -1 THEN @ ELSE TheCall.memory]
          /\ IF out.ret = 0 THEN Proceed ELSE Fail
  BY <1>1 DEF d, e
<1>7. PICK sized \in IF out.ret = -1 THEN {Outcome(g, 0, 0)}
                     ELSE prepareGeometry(g, Height, TheCall.crop) :
        /\ faults + out.faults + sized.faults <= MaxFaults
        /\ faults' = faults + out.faults + sized.faults
        /\ streams' = [streams EXCEPT ![d][e] = out.st, ![d].geometry[e] = sized.st,
                                      ![d].memory[e] = IF out.ret = -1 THEN @ ELSE TheCall.memory]
        /\ IF out.ret = 0 THEN Proceed ELSE Fail
  BY <1>6
<1>8. /\ out.faults \in Nat /\ out.ret \in Int
      /\ out.st.state \in States /\ out.st.alloc \in {0} \cup Grants
      /\ out.ret = 0 => Startable(out.st)
  <2>1. PICK capture \in BOOLEAN : streams[d][e] = streamInit(capture)
    BY <1>5
  <2> QED BY <1>6, <2>1, PrepareFresh
<1>9. sized.faults \in Nat /\ (out.ret # -1 => sized \in prepareGeometry(g, Height, TheCall.crop))
  <2>1. CASE out.ret = -1
    <3>1. sized = Outcome(g, 0, 0)
      BY <2>1
    <3>2. sized.faults = 0
      BY <3>1 DEF Outcome
    <3> QED BY <2>1, <3>2
  <2>2. CASE out.ret # -1
    <3>1. sized \in prepareGeometry(g, Height, TheCall.crop)
      BY <1>7, <2>2
    <3> QED BY <2>2, <3>1, GeometryFaults
  <2> QED BY <2>1, <2>2
<1> DEFINE z == IF out.ret = -1 THEN streams[d].memory[e] ELSE TheCall.memory
           k == out.faults + sized.faults
<1>10. streams' = [streams EXCEPT ![d] = [@ EXCEPT ![e] = out.st, !.geometry[e] = sized.st,
                                                  !.memory[e] = z]]
  <2> DEFINE r == streams[d]
             q == [r EXCEPT ![e] = out.st, !.geometry[e] = sized.st, 
                            !.memory[e] = IF out.ret = -1 THEN @ ELSE TheCall.memory]
             q2 == [r EXCEPT ![e] = out.st, !.geometry[e] = sized.st, !.memory[e] = z]
  <2>1. streams' = [streams EXCEPT ![d] = q]
    BY <1>3, <1>7
  <2>2. q = q2
    <3>1. e # "memory" /\ e # "geometry"
      BY <1>2 DEF Ends
    <3> QED BY <3>1
  <2> HIDE DEF q
  <2> QED BY <2>1, <2>2
<1>11. k \in Nat /\ faults' = faults + k /\ faults' <= MaxFaults /\ sized.faults <= k
  <2>1. faults \in Nat
    BY DEF Place
  <2>2. faults' = faults + out.faults + sized.faults /\ faults + out.faults + sized.faults <= MaxFaults
    BY <1>7
  <2>3. PICK a \in Nat, b \in Nat : a = out.faults /\ b = sized.faults
    BY <1>8, <1>9
  <2>4. faults' = faults + a + b /\ faults + a + b <= MaxFaults
    BY <2>2, <2>3
  <2>5. a + b \in Nat /\ faults' = faults + (a + b) /\ faults' <= MaxFaults /\ b <= a + b
    BY <2>1, <2>4
  <2> QED BY <2>3, <2>5
<1>12. \/ /\ Proceed /\ Startable(out.st) /\ z = MemoryOf(e) /\ streams[d].type[e] # "none"
          /\ \E s \in prepareGeometry(g, Height, TheCall.crop) : sized.st = s.st /\ s.faults <= k
       \/ Fail
  <2>1. CASE out.ret = 0
    <3>1. sized \in prepareGeometry(g, Height, TheCall.crop) /\ z = MemoryOf(e)
      BY <1>2, <1>9, <2>1 DEF d, e
    <3>2. Proceed /\ Startable(out.st) /\ streams[d].type[e] # "none"
      BY <1>1, <1>7, <1>8, <2>1 DEF d, e
    <3> QED BY <1>11, <3>1, <3>2
  <2>2. CASE out.ret # 0
    BY <1>7, <2>2
  <2> QED BY <2>1, <2>2
<1>13. PreparedBy(out.st, sized.st, z, k)
  <2> HIDE DEF z, k
  <2> QED BY <1>2, <1>3, <1>8, <1>10, <1>11, <1>12 DEF PreparedBy, d, e, g
<1> QED BY <1>13

-----------------------------------------------------------------------------
(* The place *)

LEMMA PlaceProceeds ==
  ASSUME Place, Position(node, next), ~failed, ~exited, Proceed \/ Fail, faults' \in faults..MaxFaults
  PROVE  Place'
<1>1. /\ node \in 1..4 /\ Len(Calls[Nodes[node]]) \in Nat /\ next <= Len(Calls[Nodes[node]])
      /\ next \in Nat \ {0}
  BY NodesAre DEF Position, Place
<1>2. CASE Proceed
  BY <1>1, <1>2 DEF Place, Proceed
<1>3. CASE Fail
  BY <1>1, <1>3 DEF Place, Fail
<1> QED BY <1>2, <1>3

LEMMA Counted ==
  ASSUME NEW k \in Nat, Place, faults + k <= MaxFaults, faults' = faults + k
  PROVE  faults' \in faults..MaxFaults
BY DEF Place

LEMMA NoneFaulty == ASSUME Place, UNCHANGED faults PROVE faults' \in faults..MaxFaults
BY DEF Place

LEMMA OneFaulty == ASSUME Place, Fault PROVE faults' \in faults..MaxFaults
BY DEF Place, Fault

LEMMA DriverIs ==
  ASSUME NEW d \in Devices, NEW driver \in Drivers[d]
  PROVE  driver \in Seq(DriverControl)
BY DriversAssumption DEF DriverControl

(* The controls after one of them was set, and what failed *)
SetBy(cs, i, k) ==
  /\ controls' = [controls EXCEPT ![TheCall.dev] = cs]
  /\ Kept(controls[TheCall.dev], cs, i)
  /\ k \in Nat /\ faults + k <= MaxFaults /\ faults' = faults + k

LEMMA SetControlIs ==
  ASSUME IInv, NEW name \in {"flip", "control"}, Call(name), NEW id, NEW value \in Int,
         SetControl(id, value)
  PROVE  /\ TheCall.dev \in DOMAIN controls
         /\ \E cs, k : /\ SetBy(cs, v4l2ControlGet(controls[TheCall.dev], id), k)
                       /\ \E out \in v4l2ControlSetById(controls[TheCall.dev], id, value) :
                            cs = out.st /\ k = out.faults
<1> DEFINE d == TheCall.dev
<1>1. d \in DOMAIN controls /\ controls[d] \in Seq(Cached)
  <2>1. ~exited /\ d \in Passed
    BY Here, CallsOpened DEF IInv
  <2> QED BY <2>1 DEF IInv, Files, ControlsFit
<1>2. PICK out \in v4l2ControlSetById(controls[d], id, value) :
        /\ faults + out.faults <= MaxFaults
        /\ faults' = faults + out.faults
        /\ controls' = [controls EXCEPT ![d] = out.st]
  BY DEF SetControl
<1>3. out.faults \in Nat /\ Kept(controls[d], out.st, v4l2ControlGet(controls[d], id))
  BY <1>1, SetByIdKeeps
<1>4. SetBy(out.st, v4l2ControlGet(controls[d], id), out.faults)
  BY <1>2, <1>3 DEF SetBy
<1> QED BY <1>1, <1>4

(* What a device's controls are after it was opened *)
CreatedFor(dev, cs, k) ==
  /\ \E driver \in Drivers[dev] :
       /\ driver \in Seq(DriverControl) /\ Len(cs) = Len(driver)
       /\ \A i \in 1..Len(driver) : Describes(cs[i], driver[i])
  /\ cs \in Seq(Cached) /\ (\A i \in 1..Len(cs) : Truthful(cs[i]))
  /\ k \in Nat

LEMMA CreatedIs ==
  ASSUME NEW d \in Devices, NEW driver \in Drivers[d],
         NEW out \in v4l2ControlsCreateFromV4l2Fd(driver)
  PROVE  CreatedFor(d, out.st, out.faults)
<1>1. driver \in Seq(DriverControl)
  BY DriverIs
<1> QED BY <1>1, Created DEF CreatedFor

(* subdevOpen, when it succeeds *)
SensorOpened(cs, k) ==
  /\ CreatedFor("sensor", cs, k)
  /\ faults + k <= MaxFaults /\ faults' = faults + k
  /\ open' = open \cup {"sensor"} /\ Proceed /\ UNCHANGED <<closes, streams, sensorSet>>
  /\ controls' = [d \in DOMAIN controls \cup {"sensor"} |-> IF d = "sensor" THEN cs ELSE controls[d]]

LEMMA SensorOpens ==
  ASSUME subdevOpen
  PROVE  \/ Fault /\ Fail /\ UNCHANGED <<open, closes, streams, controls, padRead, sensorSet>>
         \/ \E cs, k : SensorOpened(cs, k)
<1>1. CASE Fault /\ Fail /\ UNCHANGED <<open, controls, padRead>>
  BY <1>1 DEF subdevOpen
<1>2. CASE \E driver \in Drivers["sensor"], read \in BOOLEAN :
             \E out \in v4l2ControlsCreateFromV4l2Fd(driver) :
               LET new == out.faults + (IF read THEN 0 ELSE 1)
               IN  /\ faults + new <= MaxFaults
                   /\ faults' = faults + new
                   /\ open' = open \cup {"sensor"}
                   /\ controls' = [d \in DOMAIN controls \cup {"sensor"} |->
                                     IF d = "sensor" THEN out.st ELSE controls[d]]
                   /\ Proceed
  <2>0. PICK driver \in Drivers["sensor"], read \in BOOLEAN :
          \E out \in v4l2ControlsCreateFromV4l2Fd(driver) :
            LET new == out.faults + (IF read THEN 0 ELSE 1)
            IN  /\ faults + new <= MaxFaults
                /\ faults' = faults + new
                /\ open' = open \cup {"sensor"}
                /\ controls' = [d \in DOMAIN controls \cup {"sensor"} |->
                                  IF d = "sensor" THEN out.st ELSE controls[d]]
                /\ Proceed
    BY <1>2
  <2>1. PICK out \in v4l2ControlsCreateFromV4l2Fd(driver) :
          LET new == out.faults + (IF read THEN 0 ELSE 1)
          IN  /\ faults + new <= MaxFaults
              /\ faults' = faults + new
              /\ open' = open \cup {"sensor"}
              /\ controls' = [d \in DOMAIN controls \cup {"sensor"} |->
                                IF d = "sensor" THEN out.st ELSE controls[d]]
              /\ Proceed
    BY <2>0
  <2> DEFINE new == out.faults + (IF read THEN 0 ELSE 1)
  <2>2. CreatedFor("sensor", out.st, out.faults)
    BY <2>1, CreatedIs, DevicesAre
  <2>3. CreatedFor("sensor", out.st, new)
    BY <2>2 DEF CreatedFor
  <2> HIDE DEF new
  <2>4. SensorOpened(out.st, new)
    BY <2>1, <2>3 DEF SensorOpened, subdevOpen, new
  <2> QED BY <2>4
<1> QED BY <1>1, <1>2 DEF subdevOpen

(* deviceOpen, when it succeeds *)
DeviceOpened(caps, hw, cs, k) ==
  LET dev == TheCall.dev
  IN  /\ caps \in Capabilities[dev] /\ hw \in Hardware[dev] /\ CreatedFor(dev, cs, k)
      /\ faults + k <= MaxFaults /\ faults' = faults + k
      /\ open' = open \cup {dev} /\ Proceed /\ UNCHANGED <<closes, padRead, sensorSet>>
      /\ streams' = [d \in DOMAIN streams \cup {dev} |->
                       IF d = dev THEN Opened(caps, hw) ELSE streams[d]]
      /\ controls' = [d \in DOMAIN controls \cup {dev} |-> IF d = dev THEN cs ELSE controls[d]]

LEMMA DeviceOpens ==
  ASSUME Place, deviceOpen
  PROVE  \/ Fault /\ Fail /\ UNCHANGED <<open, closes, streams, controls, padRead, sensorSet>>
         \/ \E caps, hw, cs, k : DeviceOpened(caps, hw, cs, k)
<1> DEFINE dev == TheCall.dev
<1>0. dev \in Devices
  BY Here DEF deviceOpen, Fits
<1>1. CASE Fault /\ Fail /\ UNCHANGED <<open, streams, controls>>
  BY <1>1 DEF deviceOpen
<1>2. CASE \E caps \in Capabilities[dev], hw \in Hardware[dev], driver \in Drivers[dev] :
             \E out \in v4l2ControlsCreateFromV4l2Fd(driver) :
               /\ faults + out.faults <= MaxFaults
               /\ faults' = faults + out.faults
               /\ open' = open \cup {dev}
               /\ streams' = [d \in DOMAIN streams \cup {dev} |->
                                IF d = dev THEN Opened(caps, hw) ELSE streams[d]]
               /\ controls' = [d \in DOMAIN controls \cup {dev} |->
                                 IF d = dev THEN out.st ELSE controls[d]]
               /\ Proceed
  <2>0. PICK caps \in Capabilities[dev], hw \in Hardware[dev], driver \in Drivers[dev] :
          \E out \in v4l2ControlsCreateFromV4l2Fd(driver) :
            /\ faults + out.faults <= MaxFaults
            /\ faults' = faults + out.faults
            /\ open' = open \cup {dev}
            /\ streams' = [d \in DOMAIN streams \cup {dev} |->
                             IF d = dev THEN Opened(caps, hw) ELSE streams[d]]
            /\ controls' = [d \in DOMAIN controls \cup {dev} |->
                              IF d = dev THEN out.st ELSE controls[d]]
            /\ Proceed
    BY <1>2
  <2>1. PICK out \in v4l2ControlsCreateFromV4l2Fd(driver) :
          /\ faults + out.faults <= MaxFaults
          /\ faults' = faults + out.faults
          /\ open' = open \cup {dev}
          /\ streams' = [d \in DOMAIN streams \cup {dev} |->
                           IF d = dev THEN Opened(caps, hw) ELSE streams[d]]
          /\ controls' = [d \in DOMAIN controls \cup {dev} |->
                            IF d = dev THEN out.st ELSE controls[d]]
          /\ Proceed
    BY <2>0
  <2>2. CreatedFor(dev, out.st, out.faults)
    BY <1>0, CreatedIs
  <2>3. DeviceOpened(caps, hw, out.st, out.faults)
    BY <2>1, <2>2 DEF DeviceOpened, deviceOpen
  <2> QED BY <2>3
<1> QED BY <1>1, <1>2 DEF deviceOpen

LEMMA ValuesAre ==
  ASSUME Place, NEW name \in {"flip", "control"}, Call(name)
  PROVE  name = "control" => TheCall.value \in Int
<1> SUFFICES ASSUME name = "control" PROVE TheCall.value \in Int
  OBVIOUS
<1>1. Position(node, next) /\ TheCall.call = "control"
  BY Here
<1>2. /\ Calls["cam"][4].value \in Int /\ Calls["isp"][3].value \in Int
      /\ Calls["isp"][4].value \in Int /\ Calls["isp"][5].value \in Int
  BY DEF Calls
<1>3. /\ \A i \in 1..8 : Calls["cam"][i].call = "control" => i = 4
      /\ \A i \in 1..9 : Calls["isp"][i].call = "control" => i \in {3, 4, 5}
      /\ \A i \in 1..5 : Calls["enc"][i].call # "control"
      /\ \A i \in 1..3 : Calls["uvc"][i].call # "control"
  BY DEF Calls
<1>4. node = 1 \/ node = 2 \/ node = 3 \/ node = 4
  BY <1>1 DEF Position
<1> QED BY <1>1, <1>2, <1>3, <1>4, NodesAre DEF Position, TheCall

(* Every step but the last of a node and the closing after a failure makes a  *)
(* call, which goes on or fails.                                              *)
LEMMA CallSteps ==
  ASSUME IInv, Next
  PROVE  \/ NodeMade \/ CloseAll
         \/ /\ Position(node, next) /\ ~failed /\ ~exited
            /\ Proceed \/ Fail
            /\ faults' \in faults..MaxFaults
<1>0. Place /\ Files /\ StreamsFit
  BY DEF IInv
<1>1. CASE subdevOpen
  <2>1. Position(node, next) /\ ~failed /\ ~exited
    BY <1>0, <1>1, Here DEF subdevOpen
  <2>2. CASE Fault /\ Fail
    BY <1>0, <2>1, <2>2, OneFaulty
  <2>3. CASE \E cs, k : SensorOpened(cs, k)
    BY <1>0, <2>1, <2>3, Counted DEF SensorOpened, CreatedFor
  <2> QED BY <1>1, <2>2, <2>3, SensorOpens
<1>2. CASE subdevSet
  <2>1. Position(node, next) /\ ~failed /\ ~exited
    BY <1>0, <1>2, Here DEF subdevSet
  <2>2. (Proceed \/ Fail) /\ (Fault \/ UNCHANGED faults)
    BY <1>2 DEF subdevSet
  <2> QED BY <1>0, <2>1, <2>2, OneFaulty, NoneFaulty
<1>3. CASE deviceOpen
  <2>1. Position(node, next) /\ ~failed /\ ~exited
    BY <1>0, <1>3, Here DEF deviceOpen
  <2>2. CASE Fault /\ Fail
    BY <1>0, <2>1, <2>2, OneFaulty
  <2>3. CASE \E caps, hw, cs, k : DeviceOpened(caps, hw, cs, k)
    BY <1>0, <2>1, <2>3, Counted DEF DeviceOpened, CreatedFor
  <2> QED BY <1>0, <1>3, <2>2, <2>3, DeviceOpens
<1>4. CASE CheckCapabilities
  <2>1. Position(node, next) /\ ~failed /\ ~exited
    BY <1>0, <1>4, Here DEF CheckCapabilities
  <2>2. (Proceed \/ Fail) /\ UNCHANGED faults
    BY <1>4 DEF CheckCapabilities
  <2> QED BY <1>0, <2>1, <2>2, NoneFaulty
<1>5. CASE Query
  <2>1. Position(node, next) /\ ~failed /\ ~exited
    BY <1>0, <1>5, Here DEF Query
  <2>2. (Proceed \/ Fail) /\ (Fault \/ UNCHANGED faults)
    BY <1>5 DEF Query
  <2> QED BY <1>0, <2>1, <2>2, OneFaulty, NoneFaulty
<1>6. CASE PrepareNone
  <2>1. Position(node, next) /\ ~failed /\ ~exited
    BY <1>0, <1>6, Here DEF PrepareNone
  <2>2. Fail /\ UNCHANGED faults
    BY <1>6 DEF PrepareNone
  <2> QED BY <1>0, <2>1, <2>2, NoneFaulty
<1>7. CASE Prepare
  <2>1. Position(node, next) /\ ~failed /\ ~exited
    BY <1>0, <1>7, Here DEF Prepare
  <2>2. PICK x, y, z, k : PreparedBy(x, y, z, k)
    BY <1>0, <1>7, PrepareIs
  <2>3. k \in Nat /\ faults' = faults + k /\ faults' <= MaxFaults /\ (Proceed \/ Fail)
    BY <2>2 DEF PreparedBy
  <2> QED BY <1>0, <2>1, <2>3, Counted
<1>8. CASE Gain
  <2>1. Position(node, next) /\ ~failed /\ ~exited
    BY <1>0, <1>8, Here DEF Gain
  <2>2. Proceed
    BY <1>8 DEF Gain, SetControl
  <2>3. PICK cs, k : SetBy(cs, v4l2ControlGet(controls[TheCall.dev], TheCall.id), k)
    BY <1>0, <1>8, SetControlIs, ValuesAre DEF Gain
  <2> QED BY <1>0, <2>1, <2>2, <2>3, Counted DEF SetBy
<1>9. CASE Flip
  <2>1. Position(node, next) /\ ~failed /\ ~exited
    BY <1>0, <1>9, Here DEF Flip
  <2>2. Proceed
    BY <1>9 DEF Flip, SetControl
  <2>3. PICK cs, k : SetBy(cs, v4l2ControlGet(controls[TheCall.dev], TheCall.id), k)
    BY <1>0, <1>9, SetControlIs DEF Flip
  <2> QED BY <1>0, <2>1, <2>2, <2>3, Counted DEF SetBy
<1>10. CASE NoFlip
  <2>1. Position(node, next) /\ ~failed /\ ~exited
    BY <1>0, <1>10, Here DEF NoFlip
  <2>2. Proceed /\ UNCHANGED faults
    BY <1>10 DEF NoFlip
  <2> QED BY <1>0, <2>1, <2>2, NoneFaulty
<1>11. CASE NodeMade \/ CloseAll
  BY <1>11
<1> QED BY <1>1, <1>2, <1>3, <1>4, <1>5, <1>6, <1>7, <1>8, <1>9, <1>10, <1>11 DEF Next

LEMMA NextPlace == ASSUME IInv, Next PROVE Place'
<1>0. Place
  BY DEF IInv
<1>1. CASE NodeMade
  <2>1. node \in 1..4 /\ node' = node + 1 /\ next' = 1 /\ UNCHANGED <<failed, exited, faults>>
    BY <1>0, <1>1, NodesAre DEF NodeMade, Opening, Place
  <2>2. node' <= 4 => Len(Calls[Nodes[node']]) \in Nat
    BY <2>1, NodesAre
  <2>3. ~failed
    BY <1>1 DEF NodeMade, Opening
  <2> QED BY <1>0, <2>1, <2>2, <2>3 DEF Place
<1>2. CASE CloseAll
  BY <1>0, <1>2 DEF CloseAll, Place
<1>3. CASE /\ Position(node, next) /\ ~failed /\ ~exited
           /\ Proceed \/ Fail
           /\ faults' \in faults..MaxFaults
  BY <1>0, <1>3, PlaceProceeds
<1> QED BY <1>1, <1>2, <1>3, CallSteps

-----------------------------------------------------------------------------
(* The files *)

(* The devices that the calls of a node open are those that they name. *)
LEMMA DevicesOfNode ==
  ASSUME NEW n \in 1..4
  PROVE  DevicesOf(Nodes[n]) = {d \in Devices : OpenedAt[d][1] = n}
<1>0. Len(Calls[Nodes[n]]) \in Nat
  BY NodesAre
<1>1. ASSUME NEW d \in DevicesOf(Nodes[n])
      PROVE  d \in Devices /\ OpenedAt[d][1] = n
  <2>1. PICK i \in 1..Len(Calls[Nodes[n]]) : d = Calls[Nodes[n]][i].dev
    BY DEF DevicesOf
  <2>2. Fits(n, i, Calls[Nodes[n]][i])
    BY <1>0, CallsFit DEF Position
  <2> QED BY <2>1, <2>2 DEF Fits
<1>2. ASSUME NEW d \in Devices, OpenedAt[d][1] = n
      PROVE  d \in DevicesOf(Nodes[n])
  <2>1. PICK i : OpenedAt[d] = <<n, i>> /\ Position(n, i)
    BY <1>2, PlacesAre
  <2>2. Fits(n, i, Calls[Nodes[n]][i])
    BY <2>1, CallsFit
  <2>3. Calls[Nodes[n]][i].dev \in Devices /\ OpenedAt[Calls[Nodes[n]][i].dev] = <<n, i>>
    BY <2>1, <2>2 DEF Fits
  <2>4. Calls[Nodes[n]][i].dev = d
    BY <2>1, <2>3, DevicesAre
  <2> QED BY <2>1, <2>4 DEF DevicesOf, Position
<1> QED BY <1>1, <1>2

(* The steps that open nothing keep the files. *)
LEMMA FilesFrame ==
  ASSUME Files, ~exited, ~exited', Passed' = Passed, UNCHANGED <<open, closes>>,
         DOMAIN controls' = DOMAIN controls, DOMAIN streams' = DOMAIN streams
  PROVE  Files'
BY DEF Files

LEMMA FailKeepsFiles ==
  ASSUME Files, ~exited, Fail, UNCHANGED <<open, closes>>,
         DOMAIN controls' = DOMAIN controls, DOMAIN streams' = DOMAIN streams
  PROVE  Files'
<1>1. Passed' = Passed /\ ~exited'
  BY StayPasses DEF Fail
<1> QED BY <1>1, FilesFrame

LEMMA OtherKeepsFiles ==
  ASSUME Place, Files, NEW name, name \notin {"subdevOpen", "deviceOpen"}, Call(name),
         Proceed \/ Fail, UNCHANGED <<open, closes>>,
         DOMAIN controls' = DOMAIN controls, DOMAIN streams' = DOMAIN streams
  PROVE  Files'
<1>0. ~exited
  BY Here
<1>1. CASE Proceed
  <2>1. Passed' = Passed /\ ~exited'
    BY <1>0, <1>1, OtherPasses DEF Proceed
  <2> QED BY <1>0, <2>1, FilesFrame
<1>2. CASE Fail
  BY <1>0, <1>2, FailKeepsFiles
<1> QED BY <1>1, <1>2

LEMMA OpenKeepsFiles ==
  ASSUME Place, Files, NEW dev, dev = TheCall.dev, Call("subdevOpen") \/ Call("deviceOpen"), Proceed,
         open' = open \cup {dev}, UNCHANGED closes,
         DOMAIN controls' = DOMAIN controls \cup {dev},
         DOMAIN streams' = DOMAIN streams \cup ({dev} \ {"sensor"})
  PROVE  Files'
<1>1. ~exited /\ ~exited' /\ Passed' = Passed \cup {dev}
  BY Here, OpeningPasses DEF Proceed
<1> QED BY <1>1 DEF Files

LEMMA CloseKeepsFiles ==
  ASSUME Place, Files, CloseAll
  PROVE  Files'
<1> DEFINE mine == open \cap DevicesOf(Nodes[node])
<1>1. /\ node \in 1..4 /\ ~exited /\ exited' /\ node' = node
      /\ open' = open \ mine
      /\ closes' = [d \in Devices |-> IF d \in mine THEN closes[d] + 1 ELSE closes[d]]
      /\ streams' = [d \in DOMAIN streams \ mine |-> streams[d]]
      /\ controls' = [d \in DOMAIN controls \ mine |-> controls[d]]
  BY DEF CloseAll, Place
<1>2. open = Passed /\ closes = [d \in Devices |-> 0]
  BY <1>1 DEF Files
<1>3. open' = {d \in Devices : OpenedAt[d][1] < node}
  <2>1. mine = open \cap {d \in Devices : OpenedAt[d][1] = node}
    BY <1>1, DevicesOfNode
  <2>2. ASSUME NEW d \in Devices
        PROVE  Past(OpenedAt[d]) /\ OpenedAt[d][1] # node <=> OpenedAt[d][1] < node
    <3>1. OpenedAt[d][1] \in Nat
      BY PlacesAre DEF Position
    <3> QED BY <1>1, <3>1 DEF Past
  <2> QED BY <1>1, <1>2, <2>1, <2>2 DEF Passed
<1>4. closes' \in [Devices -> 0..1]
  <2>1. \A d \in Devices : (IF d \in mine THEN closes[d] + 1 ELSE closes[d]) \in 0..1
    BY <1>2
  <2> QED BY <1>1, <2>1
<1>5. DOMAIN controls' = open' /\ DOMAIN streams' = open' \ {"sensor"}
  <2>1. DOMAIN controls = open /\ DOMAIN streams = open \ {"sensor"}
    BY DEF Files
  <2> HIDE DEF mine
  <2>2. DOMAIN controls' = DOMAIN controls \ mine /\ DOMAIN streams' = DOMAIN streams \ mine
    BY <1>1
  <2> QED BY <1>1, <2>1, <2>2
<1> QED BY <1>1, <1>3, <1>4, <1>5 DEF Files

LEMMA NextFiles == ASSUME IInv, Next PROVE Files'
<1>0. Place /\ Files /\ StreamsFit
  BY DEF IInv
<1>1. CASE subdevOpen
  <2>1. CASE Fault /\ Fail /\ UNCHANGED <<open, closes, streams, controls, padRead, sensorSet>>
    <3>1. ~exited
      BY <1>0, <1>1, Here DEF subdevOpen
    <3> QED BY <1>0, <2>1, <3>1, FailKeepsFiles
  <2>2. CASE \E cs, k : SensorOpened(cs, k)
    <3>1. PICK cs, k : SensorOpened(cs, k)
      BY <2>2
    <3>2. Call("subdevOpen") /\ TheCall.dev = "sensor"
      BY <1>0, <1>1, Here DEF subdevOpen, Fits
    <3>3. /\ Proceed /\ open' = open \cup {"sensor"} /\ UNCHANGED closes
          /\ DOMAIN controls' = DOMAIN controls \cup {"sensor"}
          /\ DOMAIN streams' = DOMAIN streams \cup ({"sensor"} \ {"sensor"})
      BY <3>1 DEF SensorOpened
    <3> QED BY <1>0, <3>2, <3>3, OpenKeepsFiles
  <2> QED BY <1>1, <2>1, <2>2, SensorOpens
<1>2. CASE deviceOpen
  <2>0. Call("deviceOpen") /\ TheCall.dev # "sensor" /\ ~exited
    BY <1>0, <1>2, Here DEF deviceOpen, Fits
  <2>1. CASE Fault /\ Fail /\ UNCHANGED <<open, closes, streams, controls, padRead, sensorSet>>
    BY <1>0, <2>0, <2>1, FailKeepsFiles
  <2>2. CASE \E caps, hw, cs, k : DeviceOpened(caps, hw, cs, k)
    <3>1. PICK caps, hw, cs, k : DeviceOpened(caps, hw, cs, k)
      BY <2>2
    <3> DEFINE dev == TheCall.dev
    <3>2. /\ Proceed /\ open' = open \cup {dev} /\ UNCHANGED closes
          /\ DOMAIN controls' = DOMAIN controls \cup {dev}
          /\ DOMAIN streams' = DOMAIN streams \cup {dev}
      BY <3>1 DEF DeviceOpened
    <3>3. {dev} = {dev} \ {"sensor"}
      BY <2>0
    <3> QED BY <1>0, <2>0, <3>2, <3>3, OpenKeepsFiles
  <2> QED BY <1>0, <1>2, <2>1, <2>2, DeviceOpens
<1>3. CASE subdevSet \/ CheckCapabilities \/ Query \/ PrepareNone \/ NoFlip
  <2>1. PICK name \in {"subdevSet", "capabilities", "query", "subscribe", "prepare", "flip"} :
          Call(name) /\ (Proceed \/ Fail) /\ UNCHANGED <<open, closes, streams, controls>>
    BY <1>3 DEF subdevSet, CheckCapabilities, Query, PrepareNone, NoFlip
  <2> QED BY <1>0, <2>1, OtherKeepsFiles
<1>4. CASE Prepare
  <2>1. Call("prepare") /\ UNCHANGED <<open, closes, controls>>
    BY <1>4 DEF Prepare
  <2>2. PICK x, y, z, k : PreparedBy(x, y, z, k)
    BY <1>0, <1>4, PrepareIs
  <2>3. DOMAIN streams' = DOMAIN streams /\ (Proceed \/ Fail)
    BY <2>2 DEF PreparedBy
  <2> QED BY <1>0, <2>1, <2>3, OtherKeepsFiles
<1>5. CASE Gain \/ Flip
  <2>1. PICK name \in {"control", "flip"}, value \in Int :
          Call(name) /\ SetControl(TheCall.id, value)
    <3>1. CASE Gain
      BY <1>0, <3>1, ValuesAre DEF Gain
    <3>2. CASE Flip
      BY <3>2 DEF Flip
    <3> QED BY <1>5, <3>1, <3>2
  <2>2. PICK cs, k : SetBy(cs, v4l2ControlGet(controls[TheCall.dev], TheCall.id), k)
    BY <2>1, SetControlIs
  <2>3. DOMAIN controls' = DOMAIN controls
    BY <2>2 DEF SetBy
  <2>4. Proceed /\ UNCHANGED <<open, closes, streams>>
    BY <2>1 DEF SetControl
  <2> QED BY <1>0, <2>1, <2>3, <2>4, OtherKeepsFiles
<1>6. CASE NodeMade
  <2>1. ~exited /\ ~exited' /\ UNCHANGED <<open, closes, streams, controls>>
    BY <1>6 DEF NodeMade, Opening
  <2>2. Passed' = Passed
    BY <1>0, <1>6, TurnPasses
  <2> QED BY <1>0, <2>1, <2>2, FilesFrame
<1>7. CASE CloseAll
  BY <1>0, <1>7, CloseKeepsFiles
<1> QED BY <1>1, <1>2, <1>3, <1>4, <1>5, <1>6, <1>7 DEF Next

-----------------------------------------------------------------------------
(* The streams *)

LEMMA OpenDevices ==
  ASSUME Files
  PROVE  open \subseteq Devices /\ DOMAIN streams = open \ {"sensor"} /\ DOMAIN controls = open
BY DEF Files, Passed

LEMMA EndsFrame ==
  ASSUME Files, EndsFit, ~failed, UNCHANGED streams,
         \A d \in Devices, e \in Ends : Past(PreparedAt(d, e))' <=> Past(PreparedAt(d, e))
  PROVE  EndsFit'
<1> SUFFICES ASSUME NEW d \in DOMAIN streams, NEW e \in Ends
             PROVE  IF Past(PreparedAt(d, e))'
                    THEN /\ Startable(streams[d][e]) /\ streams[d].memory[e] = MemoryOf(e)
                         /\ streams[d].type[e] # "none"
                    ELSE streams[d][e] = streamInit(e = "capture")
  BY Zenon DEF EndsFit
<1>1. d \in Devices
  BY OpenDevices
<1> QED BY <1>1 DEF EndsFit

LEMMA CheckedAt ==
  ASSUME Place, NEW name, Call(name), Proceed
  PROVE  /\ name # "subdevSet" => (Past(<<1, 5>>)' <=> Past(<<1, 5>>))
         /\ name # "capabilities" => (Past(<<4, 2>>)' <=> Past(<<4, 2>>))
<1>1. /\ name # "subdevSet" => <<node, next>> # <<1, 5>>
      /\ name # "capabilities" => <<node, next>> # <<4, 2>>
  BY Here DEF Fits
<1> QED BY <1>1, Advances

(* The steps that leave the streams alone *)
LEMMA StreamsFrame ==
  ASSUME Place, Files, StreamsFit,
         NEW name, name \notin {"subdevSet", "capabilities", "prepare"}, Call(name), Proceed,
         UNCHANGED streams, UNCHANGED <<padRead, sensorSet>> \/ name = "subdevOpen"
  PROVE  StreamsFit'
<1>1. ~failed /\ ~failed'
  BY Here DEF Proceed
<1>2. EndsFit'
  BY <1>1, EndsFrame, OtherPrepares DEF StreamsFit
<1>3. SensorFits'
  <2>1. Past(<<1, 5>>)' <=> Past(<<1, 5>>)
    BY CheckedAt
  <2>2. CASE name = "subdevOpen"
    <3>1. node = 1 /\ next = 1
      BY <2>2, Here, DevicesAre DEF Fits
    <3> QED BY <2>1, <3>1 DEF SensorFits, Past
  <2>3. CASE UNCHANGED <<padRead, sensorSet>>
    BY <1>1, <2>1, <2>3, Zenon DEF StreamsFit, SensorFits
  <2> QED BY <2>2, <2>3
<1>4. GadgetFits'
  <2>1. Past(<<4, 2>>)' <=> Past(<<4, 2>>)
    BY CheckedAt
  <2> QED BY <1>1, <2>1 DEF StreamsFit, GadgetFits
<1> QED BY <1>2, <1>3, <1>4 DEF StreamsFit, DevicesFit

LEMMA FailKeepsStreams ==
  ASSUME failed', DevicesFit'
  PROVE  StreamsFit'
BY DEF StreamsFit, EndsFit, SensorFits, GadgetFits

LEMMA OpenKeepsStreams ==
  ASSUME Place, Files, StreamsFit, Call("deviceOpen"),
         NEW caps, NEW hw, NEW cs, NEW k, DeviceOpened(caps, hw, cs, k)
  PROVE  StreamsFit'
<1> DEFINE dev == TheCall.dev
<1>1. /\ Proceed /\ UNCHANGED <<padRead, sensorSet>>
      /\ streams' = [d \in DOMAIN streams \cup {dev} |->
                       IF d = dev THEN Opened(caps, hw) ELSE streams[d]]
  BY DEF DeviceOpened
<1>2. /\ ~failed /\ ~failed' /\ dev \in Devices \ Passed /\ OpenedAt[dev] = <<node, next>>
      /\ open = Passed
  BY <1>1, Here, OpeningPasses DEF Proceed, Fits, Files
<1> HIDE DEF dev
<1>3. /\ DOMAIN streams' = DOMAIN streams \cup {dev} /\ dev \notin DOMAIN streams
      /\ streams'[dev] = Opened(caps, hw) /\ \A d \in DOMAIN streams : streams'[d] = streams[d]
  BY <1>1, <1>2, OpenDevices
<1>4. PICK r : r = Opened(caps, hw)
  OBVIOUS
<1>5. Device(r) /\ \A e \in Ends : r[e] = streamInit(e = "capture")
  <2>1. Fresh(r)
    BY <1>4, OpenedFits
  <2> QED BY <2>1, Zenon DEF Fresh
<1>6. DevicesFit'
  BY <1>3, <1>4, <1>5 DEF DevicesFit, StreamsFit
<1>7. EndsFit'
  <2> SUFFICES ASSUME NEW d \in DOMAIN streams', NEW e \in Ends
               PROVE  IF Past(PreparedAt(d, e))'
                      THEN /\ Startable(streams'[d][e]) /\ streams'[d].memory[e] = MemoryOf(e)
                           /\ streams'[d].type[e] # "none"
                      ELSE streams'[d][e] = streamInit(e = "capture")
    BY Zenon DEF EndsFit
  <2>1. d \in Devices
    BY <1>2, <1>3, OpenDevices
  <2>2. Past(PreparedAt(d, e))' <=> Past(PreparedAt(d, e))
    BY <1>1, <2>1, OtherPrepares
  <2>3. CASE d = dev
    <3>1. ~Past(PreparedAt(d, e))
      BY <1>2, <2>1, <2>3, OpenedFirst
    <3> QED BY <1>3, <1>4, <1>5, <2>2, <2>3, <3>1
  <2>4. CASE d \in DOMAIN streams
    <3>1. streams'[d] = streams[d]
      BY <1>3, <2>4
    <3> QED BY <1>2, <2>2, <2>4, <3>1 DEF StreamsFit, EndsFit
  <2> QED BY <1>3, <2>3, <2>4
<1>8. SensorFits'
  <2>1. Past(<<1, 5>>)' <=> Past(<<1, 5>>)
    BY <1>1, CheckedAt
  <2> QED BY <1>1, <1>2, <2>1, Zenon DEF StreamsFit, SensorFits
<1>9. GadgetFits'
  <2>1. Past(<<4, 2>>)' <=> Past(<<4, 2>>)
    BY <1>1, CheckedAt
  <2>2. ASSUME Past(<<4, 2>>) PROVE "gadget" \in DOMAIN streams
    <3>1. Past(OpenedAt["gadget"])
      BY <2>2, DevicesAre DEF Past, Place
    <3>2. "gadget" \in Passed
      BY <3>1, DevicesAre DEF Passed
    <3> QED BY <1>2, <3>2, OpenDevices
  <2> QED BY <1>2, <1>3, <2>1, <2>2 DEF StreamsFit, GadgetFits
<1> QED BY <1>6, <1>7, <1>8, <1>9 DEF StreamsFit

LEMMA PrepareKeepsStreams ==
  ASSUME Place, Files, StreamsFit, Call("prepare"), UNCHANGED <<padRead, sensorSet>>,
         NEW x, NEW y, NEW z, NEW k, PreparedBy(x, y, z, k)
  PROVE  StreamsFit'
<1> DEFINE dev == TheCall.dev
           end == TheCall.end
           q == [streams[dev] EXCEPT ![end] = x, !.geometry[end] = y, !.memory[end] = z]
<1>1. /\ dev \in DOMAIN streams /\ dev \in Devices /\ end \in Ends
      /\ x.state \in States /\ x.alloc \in {0} \cup Grants
      /\ streams' = [streams EXCEPT ![dev] = q]
      /\ \/ /\ Proceed /\ Startable(x) /\ z = MemoryOf(end) /\ streams[dev].type[end] # "none"
         \/ Fail
  BY DEF PreparedBy
<1>2. ~failed /\ ~exited
  BY Here
<1> DEFINE r == streams[dev]
<1>3. Device(r)
  BY <1>1 DEF StreamsFit, DevicesFit
<1>4. PreparedDevice(q, r, end, x, y, z)
  BY <1>1, <1>3 DEF PreparedDevice
<1> HIDE DEF q
<1>5. /\ Device(q) /\ q.type = r.type /\ q.caps = r.caps
      /\ q[end] = x /\ q.memory[end] = z
      /\ \A o \in Ends \ {end} : q[o] = r[o] /\ q.memory[o] = r.memory[o]
  BY <1>4, PreparedDeviceFits
<1>6. /\ DOMAIN streams' = DOMAIN streams /\ streams'[dev] = q
      /\ \A d \in DOMAIN streams \ {dev} : streams'[d] = streams[d]
  BY <1>1
<1>7. DevicesFit'
  BY <1>5, <1>6 DEF StreamsFit, DevicesFit
<1>8. CASE Fail
  <2>1. failed'
    BY <1>8 DEF Fail
  <2> QED BY <1>7, <2>1, FailKeepsStreams
<1>9. CASE /\ Proceed /\ Startable(x) /\ z = MemoryOf(end) /\ streams[dev].type[end] # "none"
  <2>1. EndsFit'
    <3> SUFFICES ASSUME NEW d \in DOMAIN streams', NEW e \in Ends
                 PROVE  IF Past(PreparedAt(d, e))'
                        THEN /\ Startable(streams'[d][e]) /\ streams'[d].memory[e] = MemoryOf(e)
                             /\ streams'[d].type[e] # "none"
                        ELSE streams'[d][e] = streamInit(e = "capture")
      BY Zenon DEF EndsFit
    <3>1. d \in Devices /\ d \in DOMAIN streams
      BY <1>6, OpenDevices
    <3>2. Past(PreparedAt(d, e))' <=> Past(PreparedAt(d, e)) \/ (d = dev /\ e = end)
      BY <1>9, <3>1, PreparePasses
    <3>3. CASE d = dev /\ e = end
      BY <1>5, <1>6, <1>9, <3>2, <3>3
    <3>4. CASE ~(d = dev /\ e = end)
      <4>1. /\ streams'[d][e] = streams[d][e] /\ streams'[d].memory[e] = streams[d].memory[e]
            /\ streams'[d].type[e] = streams[d].type[e]
        <5>1. CASE d # dev
          BY <1>6, <3>1, <5>1
        <5>2. CASE d = dev /\ e \in Ends \ {end}
          BY <1>5, <1>6, <5>2
        <5> QED BY <3>4, <5>1, <5>2
      <4> QED BY <1>2, <3>1, <3>2, <3>4, <4>1 DEF StreamsFit, EndsFit
    <3> QED BY <3>3, <3>4
  <2>2. /\ Past(<<1, 5>>)' <=> Past(<<1, 5>>)
        /\ Past(<<4, 2>>)' <=> Past(<<4, 2>>)
    BY <1>9, CheckedAt
  <2>3. SensorFits'
    BY <1>2, <2>2, Zenon DEF StreamsFit, SensorFits
  <2>4. GadgetFits'
    <3>1. ASSUME Past(<<4, 2>>) PROVE streams'["gadget"].caps = streams["gadget"].caps
      <4>1. Past(OpenedAt["gadget"])
        BY <3>1, DevicesAre DEF Past, Place
      <4>2. "gadget" \in DOMAIN streams
        BY <1>2, <4>1, DevicesAre, OpenDevices DEF Passed, Files
      <4> QED BY <1>5, <1>6, <4>2
    <3> QED BY <1>2, <2>2, <3>1 DEF StreamsFit, GadgetFits
  <2> QED BY <1>7, <2>1, <2>3, <2>4 DEF StreamsFit
<1> QED BY <1>1, <1>8, <1>9

LEMMA SensorSetKeeps ==
  ASSUME Place, Files, StreamsFit, subdevSet
  PROVE  StreamsFit'
<1>1. Call("subdevSet") /\ UNCHANGED <<open, streams, controls, padRead>>
  BY DEF subdevSet
<1>2. DevicesFit'
  BY <1>1 DEF StreamsFit, DevicesFit
<1>3. CASE Fail
  BY <1>2, <1>3, FailKeepsStreams DEF Fail
<1>4. CASE \E pad \in FormatPad : pad # None /\ Proceed /\ sensorSet' = (pad = 0)
  <2>1. PICK pad \in FormatPad : pad # None /\ Proceed /\ sensorSet' = (pad = 0)
    BY <1>4
  <2>2. ~failed
    BY <1>1, Here
  <2>3. EndsFit'
    BY <1>1, <2>1, <2>2, EndsFrame, OtherPrepares DEF StreamsFit
  <2>4. SensorFits'
    <3>1. padRead => pad = 0
      BY DEF FormatPad
    <3>2. padRead => sensorSet'
      BY <2>1, <3>1
    <3> QED BY <1>1, <3>2, Zenon DEF SensorFits
  <2>5. GadgetFits'
    BY <1>1, <2>1, <2>2, CheckedAt DEF StreamsFit, GadgetFits
  <2> QED BY <1>2, <2>3, <2>4, <2>5 DEF StreamsFit
<1> QED BY <1>3, <1>4 DEF subdevSet

LEMMA CapabilitiesKeep ==
  ASSUME Place, Files, StreamsFit, CheckCapabilities
  PROVE  StreamsFit'
<1>1. Call("capabilities") /\ UNCHANGED <<open, streams, controls, padRead, sensorSet>>
  BY DEF CheckCapabilities
<1>2. DevicesFit'
  BY <1>1 DEF StreamsFit, DevicesFit
<1>3. CASE Fail
  BY <1>2, <1>3, FailKeepsStreams DEF Fail
<1>4. CASE {"STREAMING", "VIDEO_OUTPUT"} \subseteq streams[TheCall.dev].caps /\ Proceed
  <2>1. ~failed /\ TheCall.dev = "gadget"
    BY <1>1, Here DEF Fits
  <2>2. EndsFit'
    BY <1>1, <1>4, <2>1, EndsFrame, OtherPrepares DEF StreamsFit
  <2>3. SensorFits'
    <3>1. Past(<<1, 5>>)' <=> Past(<<1, 5>>)
      BY <1>1, <1>4, CheckedAt
    <3> QED BY <1>1, <2>1, <3>1, Zenon DEF StreamsFit, SensorFits
  <2>4. GadgetFits'
    BY <1>1, <1>4, <2>1 DEF GadgetFits
  <2> QED BY <1>2, <2>2, <2>3, <2>4 DEF StreamsFit
<1> QED BY <1>3, <1>4 DEF CheckCapabilities

LEMMA TurnKeepsStreams ==
  ASSUME Place, Place', Files, StreamsFit, NodeMade
  PROVE  StreamsFit'
<1>1. ~failed /\ UNCHANGED <<open, streams, controls, padRead, sensorSet>>
  BY DEF NodeMade, Opening
<1>2. DevicesFit'
  BY <1>1 DEF StreamsFit, DevicesFit
<1>3. EndsFit'
  BY <1>1, EndsFrame, TurnPrepares DEF StreamsFit
<1>4. /\ Past(<<1, 5>>)' <=> Past(<<1, 5>>)
      /\ Past(<<4, 2>>)' <=> Past(<<4, 2>>)
  <2>1. Position(1, 5) /\ Position(4, 2)
    BY NodesAre DEF Position
  <2> QED BY <2>1, Turns
<1>5. SensorFits'
  BY <1>1, <1>4, Zenon DEF StreamsFit, SensorFits
<1>6. GadgetFits'
  BY <1>1, <1>4 DEF StreamsFit, GadgetFits
<1> QED BY <1>2, <1>3, <1>5, <1>6 DEF StreamsFit

LEMMA NextStreams == ASSUME IInv, Next PROVE StreamsFit'
<1>0. Place /\ Files /\ StreamsFit /\ DevicesFit
  BY DEF IInv, StreamsFit
<1>1. CASE subdevOpen
  <2>0. Call("subdevOpen")
    BY <1>1 DEF subdevOpen
  <2>1. CASE Fail /\ UNCHANGED streams
    BY <1>0, <2>1, FailKeepsStreams DEF Fail, DevicesFit
  <2>2. CASE \E cs, k : SensorOpened(cs, k)
    <3>1. Proceed /\ UNCHANGED streams
      BY <2>2 DEF SensorOpened
    <3> QED BY <1>0, <2>0, <3>1, StreamsFrame
  <2> QED BY <1>1, <2>1, <2>2, SensorOpens
<1>2. CASE deviceOpen
  <2>1. CASE Fail /\ UNCHANGED streams
    BY <1>0, <2>1, FailKeepsStreams DEF Fail, DevicesFit
  <2>2. CASE \E caps, hw, cs, k : DeviceOpened(caps, hw, cs, k)
    <3>1. Call("deviceOpen")
      BY <1>2 DEF deviceOpen
    <3> QED BY <1>0, <2>2, <3>1, OpenKeepsStreams
  <2> QED BY <1>0, <1>2, <2>1, <2>2, DeviceOpens
<1>3. CASE subdevSet
  BY <1>0, <1>3, SensorSetKeeps
<1>4. CASE CheckCapabilities
  BY <1>0, <1>4, CapabilitiesKeep
<1>5. CASE Query \/ NoFlip \/ Gain \/ Flip
  <2>1. PICK name \in {"query", "subscribe", "flip", "control"} :
          Call(name) /\ (Proceed \/ Fail) /\ UNCHANGED <<streams, padRead, sensorSet>>
    BY <1>5 DEF Query, NoFlip, Gain, Flip, SetControl
  <2>2. CASE Fail
    BY <1>0, <2>1, <2>2, FailKeepsStreams DEF Fail, DevicesFit
  <2>3. CASE Proceed
    BY <1>0, <2>1, <2>3, StreamsFrame
  <2> QED BY <2>1, <2>2, <2>3
<1>6. CASE PrepareNone
  BY <1>0, <1>6, FailKeepsStreams DEF PrepareNone, Fail, DevicesFit
<1>7. CASE Prepare
  <2>1. PICK x, y, z, k : PreparedBy(x, y, z, k)
    BY <1>0, <1>7, PrepareIs
  <2>2. Call("prepare") /\ UNCHANGED <<padRead, sensorSet>>
    BY <1>7 DEF Prepare
  <2> QED BY <1>0, <2>1, <2>2, PrepareKeepsStreams
<1>8. CASE NodeMade
  BY <1>0, <1>8, NextPlace, TurnKeepsStreams
<1>9. CASE CloseAll
  <2>1. PICK mine : streams' = [d \in DOMAIN streams \ mine |-> streams[d]]
    BY <1>9 DEF CloseAll
  <2>2. DevicesFit'
    BY <1>0, <2>1 DEF DevicesFit
  <2> QED BY <1>9, <2>2, FailKeepsStreams DEF CloseAll
<1> QED BY <1>1, <1>2, <1>3, <1>4, <1>5, <1>6, <1>7, <1>8, <1>9 DEF Next

-----------------------------------------------------------------------------
(* The controls *)

ControlsOf(cs) == cs \in Seq(Cached) /\ \A i \in 1..Len(cs) : Truthful(cs[i])

LEMMA OpenKeepsControls ==
  ASSUME ControlsFit, NEW dev, NEW cs, ControlsOf(cs),
         controls' = [d \in DOMAIN controls \cup {dev} |-> IF d = dev THEN cs ELSE controls[d]]
  PROVE  ControlsFit'
<1>1. /\ DOMAIN controls' = DOMAIN controls \cup {dev} /\ controls'[dev] = cs
      /\ \A d \in DOMAIN controls : controls'[d] = IF d = dev THEN cs ELSE controls[d]
  OBVIOUS
<1>2. ASSUME NEW d \in DOMAIN controls' PROVE ControlsOf(controls'[d])
  BY <1>1, <1>2 DEF ControlsFit, ControlsOf
<1> QED BY <1>2, Zenon DEF ControlsFit, ControlsOf

LEMMA SetKeepsControls ==
  ASSUME ControlsFit, TheCall.dev \in DOMAIN controls, NEW cs, NEW i, NEW k, SetBy(cs, i, k)
  PROVE  ControlsFit'
<1> DEFINE dev == TheCall.dev
<1>1. /\ controls' = [controls EXCEPT ![dev] = cs] /\ Kept(controls[dev], cs, i)
      /\ ControlsOf(controls[dev])
  BY DEF SetBy, ControlsFit, ControlsOf
<1>2. ControlsOf(cs)
  BY <1>1 DEF Kept, ControlsOf
<1>3. /\ DOMAIN controls' = DOMAIN controls
      /\ \A d \in DOMAIN controls : controls'[d] = IF d = dev THEN cs ELSE controls[d]
  BY <1>1
<1>4. ASSUME NEW d \in DOMAIN controls' PROVE ControlsOf(controls'[d])
  BY <1>2, <1>3, <1>4 DEF ControlsFit, ControlsOf
<1> QED BY <1>4, Zenon DEF ControlsFit, ControlsOf

LEMMA NextControls == ASSUME IInv, Next PROVE ControlsFit'
<1>0. Place /\ Files /\ ControlsFit
  BY DEF IInv
<1>1. CASE subdevOpen
  <2>1. CASE UNCHANGED controls
    BY <1>0, <2>1 DEF ControlsFit
  <2>2. CASE \E cs, k : SensorOpened(cs, k)
    <3>1. PICK cs, k : SensorOpened(cs, k)
      BY <2>2
    <3>2. /\ ControlsOf(cs)
          /\ controls' = [d \in DOMAIN controls \cup {"sensor"} |->
                            IF d = "sensor" THEN cs ELSE controls[d]]
      BY <3>1, Zenon DEF SensorOpened, CreatedFor, ControlsOf
    <3> QED BY <1>0, <3>2, OpenKeepsControls
  <2> QED BY <1>1, <2>1, <2>2, SensorOpens
<1>2. CASE deviceOpen
  <2>1. CASE UNCHANGED controls
    BY <1>0, <2>1 DEF ControlsFit
  <2>2. CASE \E caps, hw, cs, k : DeviceOpened(caps, hw, cs, k)
    <3>1. PICK caps, hw, cs, k : DeviceOpened(caps, hw, cs, k)
      BY <2>2
    <3>2. PICK dev : dev = TheCall.dev
      OBVIOUS
    <3>3. /\ ControlsOf(cs)
          /\ controls' = [d \in DOMAIN controls \cup {dev} |-> IF d = dev THEN cs ELSE controls[d]]
      BY <3>1, <3>2, Zenon DEF DeviceOpened, CreatedFor, ControlsOf
    <3> QED BY <1>0, <3>3, OpenKeepsControls
  <2> QED BY <1>0, <1>2, <2>1, <2>2, DeviceOpens
<1>3. CASE Gain \/ Flip
  <2>1. PICK name \in {"control", "flip"}, value \in Int :
          Call(name) /\ SetControl(TheCall.id, value)
    <3>1. CASE Gain
      BY <1>0, <3>1, ValuesAre DEF Gain
    <3>2. CASE Flip
      BY <3>2 DEF Flip
    <3> QED BY <1>3, <3>1, <3>2
  <2>2. /\ TheCall.dev \in DOMAIN controls
        /\ \E cs, k : SetBy(cs, v4l2ControlGet(controls[TheCall.dev], TheCall.id), k)
    BY <2>1, SetControlIs
  <2> QED BY <1>0, <2>2, SetKeepsControls
<1>4. CASE CloseAll
  <2>1. PICK mine : controls' = [d \in DOMAIN controls \ mine |-> controls[d]]
    BY <1>4 DEF CloseAll
  <2>2. DOMAIN controls' \subseteq DOMAIN controls /\ \A d \in DOMAIN controls' : controls'[d] = controls[d]
    BY <2>1
  <2>3. \A d \in DOMAIN controls' : ControlsOf(controls'[d])
    BY <1>0, <2>2 DEF ControlsFit, ControlsOf
  <2> QED BY <2>3, Zenon DEF ControlsFit, ControlsOf
<1>5. CASE UNCHANGED controls
  BY <1>0, <1>5 DEF ControlsFit
<1>6. subdevSet \/ CheckCapabilities \/ Query \/ PrepareNone \/ Prepare \/ NoFlip \/ NodeMade
        => UNCHANGED controls
  BY DEF subdevSet, CheckCapabilities, Query, PrepareNone, Prepare, NoFlip, NodeMade
<1> QED BY <1>1, <1>2, <1>3, <1>4, <1>5, <1>6 DEF Next

-----------------------------------------------------------------------------
(* The invariant holds. *)

LEMMA Initially == Init => IInv
<1> SUFFICES ASSUME Init PROVE IInv
  OBVIOUS
<1>1. Place
  <2>1. node = 1 /\ next = 1 /\ failed = FALSE /\ exited = FALSE /\ faults = 0
    BY DEF Init
  <2>2. Len(Calls[Nodes[node]]) = 8
    BY <2>1, NodesAre
  <2>3. failed \in BOOLEAN /\ exited \in BOOLEAN /\ ~failed /\ ~exited
    BY <2>1
  <2>4. node \in 1..5 /\ next \in Nat \ {0} /\ node # 5 /\ next <= 8 + 1 /\ faults \in 0..MaxFaults
    BY <2>1
  <2> QED BY <2>2, <2>3, <2>4 DEF Place
<1>2. \A i, j \in Nat \ {0} : ~Past(<<i, j>>)
  BY DEF Init, Past
<1>3. Passed = {}
  <2>1. \A d \in Devices : ~Past(OpenedAt[d])
    BY <1>2, DevicesAre
  <2> QED BY <2>1 DEF Passed
<1>4. DOMAIN streams = {} /\ DOMAIN controls = {}
  BY DEF Init
<1>5. Files
  BY <1>3, <1>4 DEF Init, Files
<1>6. StreamsFit
  BY <1>2, <1>4 DEF StreamsFit, DevicesFit, EndsFit, SensorFits, GadgetFits
<1>7. ControlsFit
  BY <1>4 DEF ControlsFit
<1> QED BY <1>1, <1>5, <1>6, <1>7 DEF IInv

LEMMA Unchanging == ASSUME IInv, UNCHANGED vars PROVE IInv'
<1>1. /\ UNCHANGED <<node, next, failed, exited, open, closes, streams, controls, padRead, sensorSet,
                     faults>>
  BY DEF vars
<1>2. Place'
  BY <1>1 DEF IInv, Place
<1>3. Files'
  <2>1. Passed' = Passed
    BY <1>1, StayPasses
  <2> QED BY <1>1, <2>1 DEF IInv, Files
<1>4. StreamsFit'
  <2>1. \A p : Past(p)' <=> Past(p)
    BY <1>1 DEF Past
  <2>2. DevicesFit'
    BY <1>1 DEF IInv, StreamsFit, DevicesFit
  <2>3. EndsFit'
    BY <1>1, <2>1 DEF IInv, StreamsFit, EndsFit, Past
  <2>4. SensorFits'
    BY <1>1 DEF IInv, StreamsFit, SensorFits, Past
  <2>5. GadgetFits'
    BY <1>1 DEF IInv, StreamsFit, GadgetFits, Past
  <2> QED BY <2>2, <2>3, <2>4, <2>5 DEF StreamsFit
<1>5. ControlsFit'
  BY <1>1 DEF IInv, ControlsFit
<1> QED BY <1>2, <1>3, <1>4, <1>5 DEF IInv

LEMMA Invariant == IInv /\ [Next]_vars => IInv'
<1>1. CASE IInv /\ Next
  BY <1>1, NextPlace, NextFiles, NextStreams, NextControls DEF IInv
<1>2. CASE IInv /\ UNCHANGED vars
  BY <1>2, Unchanging
<1> QED BY <1>1, <1>2

LEMMA AlwaysIInv == Spec => []IInv
BY Initially, Invariant, PTL DEF Spec

-----------------------------------------------------------------------------
(* The program's variables have their types, and the array of every stream    *)
(* the length that its driver granted (device.c:266-318).                     *)
THEOREM StartupTypeOK == Spec => []TypeOK
<1>1. IInv => TypeOK
  <2> SUFFICES ASSUME IInv PROVE TypeOK
    OBVIOUS
  <2>1. node \in 1..Len(Nodes)+1 /\ failed \in BOOLEAN /\ exited \in BOOLEAN /\ faults \in 0..MaxFaults
    BY NodesAre DEF IInv, Place
  <2>2. /\ open \subseteq Devices /\ closes \in [Devices -> 0..1]
        /\ DOMAIN controls = open /\ DOMAIN streams = open \ {"sensor"}
    BY OpenDevices DEF IInv, Files
  <2>3. \A d \in DOMAIN streams : \A e \in {"capture", "output"} :
          streams[d][e].state \in States /\ streams[d][e].alloc \in {0} \cup Grants
    BY DEF IInv, StreamsFit, DevicesFit, Device, Ends
  <2> QED BY <2>1, <2>2, <2>3 DEF TypeOK
<1> QED BY <1>1, AlwaysIInv, PTL

(* However an open function fails, at whichever of its calls, the descriptors *)
(* it had opened are closed once and those of the nodes before it are left    *)
(* open (Pilatform.c:180, 284, 368; UVC.c:646).                               *)
THEOREM FailuresClose == Spec => []FailedOpenCloses
<1>1. IInv => FailedOpenCloses
  <2> SUFFICES ASSUME IInv, exited
               PROVE  open = UNION {DevicesOf(Nodes[n]) : n \in 1..node-1}
    BY DEF FailedOpenCloses
  <2>1. node \in 1..4 /\ open = {d \in Devices : OpenedAt[d][1] < node}
    BY DEF IInv, Place, Files
  <2>2. \A d \in Devices : OpenedAt[d][1] \in 1..4
    BY PlacesAre DEF Position
  <2>3. \A n \in 1..node-1 : DevicesOf(Nodes[n]) = {d \in Devices : OpenedAt[d][1] = n}
    BY <2>1, DevicesOfNode
  <2>4. UNION {DevicesOf(Nodes[n]) : n \in 1..node-1}
          = UNION {{d \in Devices : OpenedAt[d][1] = n} : n \in 1..node-1}
    BY <2>3
  <2>5. UNION {{d \in Devices : OpenedAt[d][1] = n} : n \in 1..node-1}
          = {d \in Devices : OpenedAt[d][1] < node}
    <3>1. ASSUME NEW d \in Devices
          PROVE  (\E n \in 1..node-1 : OpenedAt[d][1] = n) <=> OpenedAt[d][1] < node
      BY <2>1, <2>2
    <3> QED BY <3>1
  <2> QED BY <2>1, <2>4, <2>5
<1> QED BY <1>1, AlwaysIInv, PTL

(* Whatever the drivers' controls are and whichever of the reads and sets of  *)
(* them fail, the driver's value of a control that was read or set is the     *)
(* cached one, or that one moved into its range (V4l2Control.c:39, 145-151).  *)
THEOREM CachesAreTruthful == Spec => []CacheTruthful
<1>1. IInv => CacheTruthful
  BY DEF IInv, ControlsFit, CacheTruthful, Truthful
<1> QED BY <1>1, AlwaysIInv, PTL

LEMMA AllPast ==
  ASSUME Place, AllMade
  PROVE  ~failed /\ ~exited /\ \A i, j : Position(i, j) => Past(<<i, j>>)
<1>1. node = 5
  BY NodesAre DEF Place, AllMade
<1> QED BY <1>1 DEF Place, Past, Position

LEMMA AllPrepared ==
  ASSUME IInv, AllMade
  PROVE  /\ open = Devices
         /\ \A d \in Devices \ {"sensor"}, e \in Ends :
              IF PreparedAt(d, e) # <<5, 1>>
              THEN /\ Startable(streams[d][e]) /\ streams[d].memory[e] = MemoryOf(e)
                   /\ streams[d].type[e] # "none"
              ELSE streams[d][e] = streamInit(e = "capture")
<1>1. Place /\ Files /\ EndsFit /\ ~failed /\ ~exited
  BY AllPast DEF IInv, StreamsFit
<1>2. open = Devices
  <2>1. \A d \in Devices : Past(OpenedAt[d])
    BY <1>1, AllPast, PlacesAre
  <2> QED BY <1>1, <2>1 DEF Passed, Files
<1>3. ASSUME NEW d \in Devices \ {"sensor"}, NEW e \in Ends
      PROVE  Past(PreparedAt(d, e)) <=> PreparedAt(d, e) # <<5, 1>>
  BY <1>1, AllPast, Never, PlacesAre
<1> QED BY <1>1, <1>2, <1>3, OpenDevices DEF EndsFit

(* A table of pumpCreate (pump.c:135-163) has a function for every pair of a  *)
(* source that exports its memory and a destination that imports it.          *)
LEMMA PassesFound ==
  ASSUME NEW s, NEW d, s.memory = "DMABUF_EXPORT", d.memory = "DMABUF_IMPORT",
         s.mplane \in BOOLEAN, d.mplane \in BOOLEAN
  PROVE  getPassFunc(s, d) # {}
<1> DEFINE Found(t) == t[1] = s.memory /\ t[2] = d.memory /\ t[3] = s.mplane /\ t[4] = d.mplane
<1>1. \E t \in pass_func_table : Found(t)
  <2> DEFINE Entry(a, b, f) == <<"DMABUF_EXPORT", "DMABUF_IMPORT", a, b, f>>
  <2>1. /\ Entry(TRUE, TRUE, "passDmabufMP") \in pass_func_table
        /\ Entry(FALSE, FALSE, "passDmabufSP") \in pass_func_table
        /\ Entry(TRUE, FALSE, "passDmabufMPtoSP") \in pass_func_table
        /\ Entry(FALSE, TRUE, "passDmabufSPtoMP") \in pass_func_table
    BY DEF pass_func_table
  <2>2. /\ s.mplane = TRUE /\ d.mplane = TRUE => Found(Entry(TRUE, TRUE, "passDmabufMP"))
        /\ s.mplane = FALSE /\ d.mplane = FALSE => Found(Entry(FALSE, FALSE, "passDmabufSP"))
        /\ s.mplane = TRUE /\ d.mplane = FALSE => Found(Entry(TRUE, FALSE, "passDmabufMPtoSP"))
        /\ s.mplane = FALSE /\ d.mplane = TRUE => Found(Entry(FALSE, TRUE, "passDmabufSPtoMP"))
    OBVIOUS
  <2>3. /\ s.mplane = TRUE \/ s.mplane = FALSE
        /\ d.mplane = TRUE \/ d.mplane = FALSE
    OBVIOUS
  <2> HIDE DEF Entry, Found
  <2> QED BY <2>1, <2>2, <2>3
<1> QED BY <1>1 DEF getPassFunc

(* However many planes the drivers want and whatever they grant, a pipeline   *)
(* that pipelineCreate has made can be started: its streams are prepared and  *)
(* each of its pumps finds a function to pass frames with (pump.c:188-193,    *)
(* main.c:355), so that main's missing check is never missed.                 *)
THEOREM PipelineReady == Spec => []ReadyForPipeline
<1>1. IInv => ReadyForPipeline
  <2> SUFFICES ASSUME IInv, AllMade PROVE ReadyForPipeline
    BY DEF ReadyForPipeline
  <2>1. padRead => sensorSet
    <3>1. Position(1, 5)
      BY NodesAre DEF Position
    <3> QED BY <3>1, AllPast DEF IInv, StreamsFit, SensorFits
  <2>2. /\ PreparedAt("camera", "capture") # <<5, 1>>
        /\ PreparedAt("ispOut", "output") # <<5, 1>> /\ PreparedAt("ispCap", "capture") # <<5, 1>>
        /\ PreparedAt("encoder", "output") # <<5, 1>> /\ PreparedAt("encoder", "capture") # <<5, 1>>
        /\ PreparedAt("gadget", "output") = <<5, 1>>
    BY PreparedAtIs, DevicesAre DEF Ends
  <2>3. \A d \in Devices \ {"sensor"}, e \in Ends :
          PreparedAt(d, e) # <<5, 1>> =>
            Startable(streams[d][e]) /\ streams[d].memory[e] = MemoryOf(e)
    BY AllPrepared
  <2>4. /\ "camera" \in Devices \ {"sensor"} /\ "ispOut" \in Devices \ {"sensor"}
        /\ "ispCap" \in Devices \ {"sensor"} /\ "encoder" \in Devices \ {"sensor"}
        /\ "gadget" \in Devices \ {"sensor"} /\ "capture" \in Ends /\ "output" \in Ends
    BY DevicesAre DEF Ends
  <2>5. /\ Startable(streams["camera"]["capture"])
        /\ Startable(streams["ispOut"]["output"]) /\ Startable(streams["ispCap"]["capture"])
        /\ Startable(streams["encoder"]["output"]) /\ Startable(streams["encoder"]["capture"])
    BY <2>2, <2>3, <2>4
  <2>6. /\ streams["camera"].memory["capture"] = "DMABUF_EXPORT"
        /\ streams["ispOut"].memory["output"] = "DMABUF_IMPORT"
        /\ streams["ispCap"].memory["capture"] = "DMABUF_EXPORT"
        /\ streams["encoder"].memory["output"] = "DMABUF_IMPORT"
        /\ streams["encoder"].memory["capture"] = "DMABUF_EXPORT"
    BY <2>2, <2>3, <2>4 DEF MemoryOf
  <2>7. streams["gadget"]["output"] = streamInit(FALSE)
    <3>1. streams["gadget"]["output"] = streamInit("output" = "capture")
      BY <2>2, <2>4, AllPrepared
    <3> QED BY <3>1
  <2> DEFINE EndOf(dev, end) == [memory |-> IF dev = "gadget" THEN "DMABUF_IMPORT"
                                                              ELSE streams[dev].memory[end],
                                 mplane |-> streams[dev].type[end] = "MP"]
  <2>8. \A dev, end : EndOf(dev, end).mplane \in BOOLEAN
    OBVIOUS
  <2>9. /\ EndOf("camera", "capture").memory = "DMABUF_EXPORT"
        /\ EndOf("ispOut", "output").memory = "DMABUF_IMPORT"
        /\ EndOf("ispCap", "capture").memory = "DMABUF_EXPORT"
        /\ EndOf("encoder", "output").memory = "DMABUF_IMPORT"
        /\ EndOf("encoder", "capture").memory = "DMABUF_EXPORT"
        /\ EndOf("gadget", "output").memory = "DMABUF_IMPORT"
    BY <2>6
  <2> HIDE DEF EndOf
  <2>10. /\ getPassFunc(EndOf("camera", "capture"), EndOf("ispOut", "output")) # {}
         /\ getPassFunc(EndOf("ispCap", "capture"), EndOf("encoder", "output")) # {}
         /\ getPassFunc(EndOf("encoder", "capture"), EndOf("gadget", "output")) # {}
    BY <2>8, <2>9, PassesFound
  <2> QED BY <2>1, <2>5, <2>7, <2>10 DEF ReadyForPipeline, Startable, EndOf
<1> QED BY <1>1, AlwaysIInv, PTL

-----------------------------------------------------------------------------
(* The sizes.  What is found of a stream that was not given a size is         *)
(* geometryInit; a selection that does not fail does what it is asked for.    *)

Sizes(g) ==
  g = [size |-> g.size, crop |-> g.crop, compose |-> g.compose, align |-> g.align,
       driver |-> g.driver]

LEMMA GetSelectionIs ==
  ASSUME NEW g, NEW target, NEW out \in GetSelection(g, target), out.faults = 0
  PROVE  out.st = IF target \in DOMAIN g.driver THEN [g EXCEPT ![target] = g.driver[target]] ELSE g
BY DEF GetSelection, Outcome

LEMMA SetSelectionIs ==
  ASSUME NEW g, NEW target, NEW lines, NEW out \in SetSelection(g, target, lines), out.faults = 0
  PROVE  out.st = IF target \in DOMAIN g.driver THEN [g EXCEPT !.driver[target] = lines] ELSE g
BY DEF SetSelection, Outcome

(* What a selection makes of the sizes g *)
Selected(h, g, target, lines) ==
  /\ Sizes(h) /\ h.size = g.size
  /\ target \notin DOMAIN g.driver => h = g
  /\ target \in DOMAIN g.driver /\ lines # 0 => h[target] = lines
  /\ DOMAIN h.driver = DOMAIN g.driver

LEMMA SelectIs ==
  ASSUME NEW g, Sizes(g), NEW target \in {"crop", "compose"}, NEW lines,
         NEW out \in Select(g, target, lines), out.faults = 0
  PROVE  Selected(out.st, g, target, lines)
<1> DEFINE Got(h) == IF target \in DOMAIN h.driver THEN [h EXCEPT ![target] = h.driver[target]] ELSE h
           Put(h) == IF target \in DOMAIN h.driver THEN [h EXCEPT !.driver[target] = lines] ELSE h
<1>1. ASSUME NEW h, Sizes(h)
      PROVE  /\ Sizes(Got(h)) /\ Got(h).size = h.size /\ Got(h).driver = h.driver
             /\ target \notin DOMAIN h.driver => Got(h) = h
             /\ target \in DOMAIN h.driver => Got(h)[target] = h.driver[target]
  <2>1. CASE target \notin DOMAIN h.driver
    BY <1>1, <2>1
  <2>2. CASE target \in DOMAIN h.driver
    <3> DEFINE v == h.driver[target]
    <3>1. Got(h) = [h EXCEPT ![target] = v]
      BY <2>2
    <3> HIDE DEF v, Got
    <3>2. /\ [h EXCEPT ![target] = v].size = h.size /\ [h EXCEPT ![target] = v].driver = h.driver
          /\ [h EXCEPT ![target] = v][target] = v /\ Sizes([h EXCEPT ![target] = v])
      <4>1. PICK k : k = [h EXCEPT ![target] = v]
        OBVIOUS
      <4>2. CASE target = "crop"
        <5>1. k = [size |-> h.size, crop |-> v, compose |-> h.compose, align |-> h.align,
                   driver |-> h.driver]
          BY <1>1, <4>1, <4>2 DEF Sizes
        <5>2. k.size = h.size /\ k.driver = h.driver /\ k["crop"] = v /\ Sizes(k)
          BY <5>1 DEF Sizes
        <5> QED BY <4>1, <4>2, <5>2
      <4>3. CASE target = "compose"
        <5>1. k = [size |-> h.size, crop |-> h.crop, compose |-> v, align |-> h.align,
                   driver |-> h.driver]
          BY <1>1, <4>1, <4>3 DEF Sizes
        <5>2. k.size = h.size /\ k.driver = h.driver /\ k["compose"] = v /\ Sizes(k)
          BY <5>1 DEF Sizes
        <5> QED BY <4>1, <4>3, <5>2
      <4> QED BY <4>2, <4>3
    <3> QED BY <2>2, <3>1, <3>2 DEF v
  <2> QED BY <2>1, <2>2
<1>2. ASSUME NEW h, Sizes(h)
      PROVE  /\ Sizes(Put(h)) /\ Put(h).size = h.size /\ DOMAIN Put(h).driver = DOMAIN h.driver
             /\ target \notin DOMAIN h.driver => Put(h) = h
             /\ target \in DOMAIN h.driver => Put(h).driver[target] = lines
  <2>1. CASE target \notin DOMAIN h.driver
    BY <1>2, <2>1
  <2>2. CASE target \in DOMAIN h.driver
    <3> DEFINE v == [h.driver EXCEPT ![target] = lines]
    <3>1. Put(h) = [h EXCEPT !.driver = v]
      BY <2>2
    <3>2. DOMAIN v = DOMAIN h.driver /\ v[target] = lines
      BY <2>2
    <3> HIDE DEF v, Put
    <3>3. /\ [h EXCEPT !.driver = v].size = h.size /\ [h EXCEPT !.driver = v].driver = v
          /\ Sizes([h EXCEPT !.driver = v])
      BY <1>2 DEF Sizes
    <3> QED BY <2>2, <3>1, <3>2, <3>3
  <2> QED BY <2>1, <2>2
<1>3. ASSUME NEW h, NEW o \in GetSelection(h, target), o.faults = 0 PROVE o.st = Got(h)
  BY <1>3, GetSelectionIs
<1>4. ASSUME NEW h, NEW o \in SetSelection(h, target, lines), o.faults = 0 PROVE o.st = Put(h)
  BY <1>4, SetSelectionIs
<1> HIDE DEF Got, Put
<1>5. CASE lines = 0
  <2>1. out \in GetSelection(g, target)
    BY <1>5 DEF Select
  <2>2. out.st = Got(g)
    BY <1>3, <2>1
  <2> QED BY <1>1, <1>5, <2>2 DEF Selected
<1>6. CASE lines # 0
  <2>1. PICK get \in GetSelection(g, target) :
          \E set \in {Outcome(o.st, o.ret, get.faults + o.faults) :
                        o \in SetSelection(get.st, target, lines)} :
            out \in {Outcome(o.st, o.ret, set.faults + o.faults) : o \in GetSelection(set.st, target)}
    BY <1>6 DEF Select, Then
  <2>2. PICK set : /\ set \in {Outcome(o.st, o.ret, get.faults + o.faults) :
                                 o \in SetSelection(get.st, target, lines)}
                   /\ out \in {Outcome(o.st, o.ret, set.faults + o.faults) :
                                 o \in GetSelection(set.st, target)}
    BY <2>1
  <2>3. PICK o1 \in SetSelection(get.st, target, lines) :
          set = Outcome(o1.st, o1.ret, get.faults + o1.faults)
    BY <2>2
  <2>4. PICK o2 \in GetSelection(set.st, target) :
          out = Outcome(o2.st, o2.ret, set.faults + o2.faults)
    BY <2>2
  <2>5. /\ set.faults = get.faults + o1.faults /\ out.faults = set.faults + o2.faults
        /\ set.st = o1.st /\ out.st = o2.st
    BY <2>3, <2>4 DEF Outcome
  <2>6. get.faults \in Nat /\ o1.faults \in Nat /\ o2.faults \in Nat
    BY GetSelectionFaults, SetSelectionFaults
  <2>7. get.faults = 0 /\ o1.faults = 0 /\ o2.faults = 0
    BY <2>5, <2>6
  <2>8. get.st = Got(g) /\ o1.st = Put(get.st) /\ out.st = Got(o1.st)
    BY <1>3, <1>4, <2>5, <2>7
  <2>9. PICK a, b, c : a = Got(g) /\ b = Put(a) /\ c = Got(b) /\ c = out.st
    BY <2>8
  <2>10. /\ Sizes(a) /\ a.size = g.size /\ a.driver = g.driver
         /\ target \notin DOMAIN g.driver => a = g
    BY <1>1, <2>9
  <2>11. /\ Sizes(b) /\ b.size = a.size /\ DOMAIN b.driver = DOMAIN a.driver
         /\ target \notin DOMAIN a.driver => b = a
         /\ target \in DOMAIN a.driver => b.driver[target] = lines
    BY <1>2, <2>9, <2>10
  <2>12. /\ Sizes(c) /\ c.size = b.size /\ c.driver = b.driver
         /\ target \notin DOMAIN b.driver => c = b
         /\ target \in DOMAIN b.driver => c[target] = b.driver[target]
    BY <1>1, <2>9, <2>11
  <2> QED BY <2>9, <2>10, <2>11, <2>12 DEF Selected
<1> QED BY <1>5, <1>6

(* A driver that can do the size asked for makes it; what is composed is what *)
(* is cropped when either can be selected.                                    *)
LEMMA GeometryIs ==
  ASSUME NEW align, NEW targets, NEW g, g = geometryInit(align, targets),
         NEW lines \in Nat, lines % align = 0, NEW crop \in Nat,
         NEW out \in prepareGeometry(g, lines, crop), out.faults = 0
  PROVE  /\ out.st.size = lines
         /\ crop # 0 /\ ("crop" \in targets \/ "compose" \in targets) => out.st.compose = crop
<1> DEFINE full == lines - (lines % align)
           D == [t \in targets |-> full]
           f == [size |-> full, crop |-> lines, compose |-> None, align |-> align, driver |-> D]
<1>1. full = lines
  OBVIOUS
<1>2. [streamSetFormat(g, lines) EXCEPT !.crop = lines] = f
  <2>1. g = [size |-> None, crop |-> None, compose |-> None, align |-> align,
             driver |-> [t \in targets |-> None]]
    BY DEF geometryInit
  <2>2. g.align = align /\ DOMAIN g.driver = targets
    BY <2>1
  <2>3. streamSetFormat(g, lines) = [g EXCEPT !.size = full, !.driver = D]
    BY <2>2 DEF streamSetFormat
  <2> HIDE DEF full, D
  <2>4. PICK n : g = [size |-> None, crop |-> None, compose |-> None, align |-> align, driver |-> n]
    BY <2>1
  <2>5. PICK u : u = streamSetFormat(g, lines)
    OBVIOUS
  <2>6. u = [size |-> full, crop |-> None, compose |-> None, align |-> align, driver |-> D]
    <3>1. PICK w : w = [g EXCEPT !.size = full]
      OBVIOUS
    <3>2. w = [size |-> full, crop |-> None, compose |-> None, align |-> align, driver |-> n]
      BY <2>4, <3>1
    <3>3. u = [w EXCEPT !.driver = D]
      BY <2>3, <2>5, <3>1
    <3>4. [w EXCEPT !.driver = D]
            = [size |-> full, crop |-> None, compose |-> None, align |-> align, driver |-> D]
      BY <3>2
    <3> QED BY <3>3, <3>4
  <2>7. [u EXCEPT !.crop = lines]
          = [size |-> full, crop |-> lines, compose |-> None, align |-> align, driver |-> D]
    BY <2>6
  <2> QED BY <2>5, <2>7
<1> HIDE DEF full
<1>3. Sizes(f) /\ f.size = lines /\ f.driver = D /\ DOMAIN f.driver = targets /\ f.crop = lines
  BY <1>1 DEF Sizes
<1> HIDE DEF f
<1>4. PICK cropped \in Select(f, "crop", crop) :
        out \in {Outcome(o.st, o.ret, cropped.faults + o.faults) :
                   o \in Select([cropped.st EXCEPT !.compose = cropped.st.crop], "compose", crop)}
  BY <1>2 DEF prepareGeometry, Then, setCrop, setCompose
<1>5. PICK o \in Select([cropped.st EXCEPT !.compose = cropped.st.crop], "compose", crop) :
        out = Outcome(o.st, o.ret, cropped.faults + o.faults)
  BY <1>4
<1>6. out.st = o.st /\ out.faults = cropped.faults + o.faults
  BY <1>5 DEF Outcome
<1>7. cropped.faults = 0 /\ o.faults = 0
  <2>1. cropped.faults \in Nat /\ o.faults \in Nat
    BY SelectFaults
  <2> QED BY <1>6, <2>1
<1>8. PICK c : c = cropped.st
  OBVIOUS
<1>9. Selected(c, f, "crop", crop)
  BY <1>3, <1>7, <1>8, SelectIs
<1>10. PICK h : h = [c EXCEPT !.compose = c.crop]
  OBVIOUS
<1>11. /\ Sizes(h) /\ h.size = c.size /\ h.driver = c.driver /\ h.compose = c.crop
  BY <1>9, <1>10 DEF Selected, Sizes
<1>12. Selected(o.st, h, "compose", crop)
  <2>1. o \in Select(h, "compose", crop)
    BY <1>5, <1>8, <1>10
  <2> QED BY <1>7, <1>11, <2>1, SelectIs
<1>13. out.st.size = lines
  BY <1>3, <1>6, <1>9, <1>11, <1>12 DEF Selected
<1>14. DOMAIN h.driver = targets /\ DOMAIN c.driver = targets
  BY <1>3, <1>9, <1>11 DEF Selected
<1>15. ASSUME crop # 0, "compose" \in targets PROVE out.st.compose = crop
  BY <1>6, <1>12, <1>14, <1>15 DEF Selected
<1>16. ASSUME crop # 0, "crop" \in targets, "compose" \notin targets PROVE out.st.compose = crop
  <2>1. o.st = h
    BY <1>12, <1>14, <1>16 DEF Selected
  <2>2. c.crop = crop
    BY <1>3, <1>9, <1>16 DEF Selected
  <2> QED BY <1>6, <1>11, <2>1, <2>2
<1> QED BY <1>13, <1>15, <1>16

(* The sizes that the drivers must be able to do for the pumps to fit: the    *)
(* sensor's at the camera and at the input of the ISP, the encoder's at the   *)
(* ISP's output and at the encoder; and the ISP can select one of the two.    *)
SizesSuit ==
  /\ \A d \in {"camera", "ispOut"} : \A hw \in Hardware[d] : SENSOR_HEIGHT % hw.align = 0
  /\ \A d \in {"ispCap", "encoder"} : \A hw \in Hardware[d] : ISP_CROP_HEIGHT % hw.align = 0
  /\ \A hw \in Hardware["ispOut"] : "crop" \in hw.targets \/ "compose" \in hw.targets

Lines(d) == IF d \in {"camera", "ispOut"} THEN SENSOR_HEIGHT ELSE ISP_CROP_HEIGHT

Right(d, g) == g.size = Lines(d) /\ (d = "ispOut" => g.compose = ISP_CROP_HEIGHT)

DeviceSized(d) ==
  \E hw \in Hardware[d] : \A e \in Ends :
    IF Past(PreparedAt(d, e)) THEN Right(d, streams[d].geometry[e])
    ELSE streams[d].geometry[e] = geometryInit(hw.align, hw.targets)

Sized == faults = 0 /\ ~failed => \A d \in DOMAIN streams : DeviceSized(d)

(* What is asked for of each stream but that of ispCap *)
LEMMA HeightsAre ==
  ASSUME Place, Call("prepare")
  PROVE  /\ TheCall.dev # "ispCap" => TheCall.height = Lines(TheCall.dev)
         /\ TheCall.dev = "ispOut" => TheCall.crop = ISP_CROP_HEIGHT
         /\ TheCall.crop \in Nat /\ TheCall.dev \in {"camera", "ispOut", "ispCap", "encoder"}
<1>1. Position(node, next) /\ TheCall.call = "prepare"
  BY Here
<1>2. /\ Calls["cam"][8].dev = "camera" /\ Calls["cam"][8].height = SENSOR_HEIGHT
      /\ Calls["cam"][8].crop = 0
      /\ Calls["isp"][6].dev = "ispOut" /\ Calls["isp"][6].height = SENSOR_HEIGHT
      /\ Calls["isp"][6].crop = ISP_CROP_HEIGHT
      /\ Calls["isp"][9].dev = "ispCap" /\ Calls["isp"][9].crop = 0
  BY DEF Calls
<1>3. /\ Calls["enc"][3].dev = "encoder" /\ Calls["enc"][3].height = ISP_CROP_HEIGHT
      /\ Calls["enc"][3].crop = 0
      /\ Calls["enc"][5].dev = "encoder" /\ Calls["enc"][5].height = ISP_CROP_HEIGHT
      /\ Calls["enc"][5].crop = 0
  BY DEF Calls
<1>4. /\ \A i \in 1..8 : Calls["cam"][i].call = "prepare" => i = 8
      /\ \A i \in 1..9 : Calls["isp"][i].call = "prepare" => i \in {6, 9}
      /\ \A i \in 1..5 : Calls["enc"][i].call = "prepare" => i \in {3, 5}
      /\ \A i \in 1..3 : Calls["uvc"][i].call # "prepare"
  BY DEF Calls
<1>5. node = 1 \/ node = 2 \/ node = 3 \/ node = 4
  BY <1>1 DEF Position
<1>6. ISP_CROP_HEIGHT \in Nat
  BY DEF ISP_CROP_HEIGHT
<1>7. CASE node = 1
  BY <1>1, <1>2, <1>4, <1>7, NodesAre DEF Position, TheCall, Lines
<1>8. CASE node = 2
  BY <1>1, <1>2, <1>4, <1>6, <1>8, NodesAre DEF Position, TheCall, Lines
<1>9. CASE node = 3
  BY <1>1, <1>3, <1>4, <1>9, NodesAre DEF Position, TheCall, Lines
<1>10. CASE node = 4
  BY <1>1, <1>4, <1>10, NodesAre DEF Position, TheCall
<1> QED BY <1>5, <1>7, <1>8, <1>9, <1>10

LEMMA HeightIs ==
  ASSUME IInv, Sized, faults = 0, Call("prepare")
  PROVE  Height = Lines(TheCall.dev)
<1>1. Place /\ Files /\ ~failed /\ ~exited /\ Fits(node, next, TheCall) /\ Position(node, next)
  BY Here DEF IInv
<1>2. CASE TheCall.dev # "ispCap"
  BY <1>1, <1>2, HeightsAre DEF Height
<1>3. CASE TheCall.dev = "ispCap"
  <2>1. OpenedAt["ispCap"] = <<2, 7>> /\ node = 2 /\ next > 7
    <3>1. /\ OpenedAt[TheCall.dev][1] = node /\ OpenedAt[TheCall.dev][2] < next
      BY <1>1, Here DEF Fits
    <3>2. OpenedAt["ispCap"] = <<2, 7>>
      BY DevicesAre
    <3> QED BY <1>3, <3>1, <3>2
  <2>2. PreparedAt("ispOut", "output") = <<2, 6>> /\ OpenedAt["ispOut"] = <<2, 1>>
    BY PreparedAtIs, DevicesAre DEF Ends
  <2>3. Past(PreparedAt("ispOut", "output")) /\ Past(OpenedAt["ispOut"])
    BY <1>1, <2>1, <2>2 DEF Past, Position
  <2>4. "ispOut" \in DOMAIN streams
    BY <1>1, <2>3, DevicesAre, OpenDevices DEF Files, Passed
  <2>5. DeviceSized("ispOut")
    BY <1>1, <2>4 DEF Sized
  <2>6. streams["ispOut"].geometry["output"].compose = ISP_CROP_HEIGHT
    BY <2>3, <2>5 DEF DeviceSized, Right, Ends
  <2> QED BY <1>3, <2>6 DEF Height, Lines
<1> QED BY <1>2, <1>3

LEMMA SizesFrame ==
  ASSUME Files, Sized, faults = 0, ~failed, UNCHANGED streams,
         \A d \in Devices, e \in Ends : Past(PreparedAt(d, e))' <=> Past(PreparedAt(d, e))
  PROVE  Sized'
<1> SUFFICES ASSUME NEW d \in DOMAIN streams PROVE DeviceSized(d)'
  BY DEF Sized
<1>1. d \in Devices
  BY OpenDevices
<1>2. PICK hw \in Hardware[d] : \A e \in Ends :
        IF Past(PreparedAt(d, e)) THEN Right(d, streams[d].geometry[e])
        ELSE streams[d].geometry[e] = geometryInit(hw.align, hw.targets)
  BY DEF Sized, DeviceSized
<1>3. \A e \in Ends :
        IF Past(PreparedAt(d, e))' THEN Right(d, streams'[d].geometry[e])
        ELSE streams'[d].geometry[e] = geometryInit(hw.align, hw.targets)
  BY <1>1, <1>2
<1> QED BY <1>3, Zenon DEF DeviceSized, Right

LEMMA OpenSizes ==
  ASSUME IInv, Sized, faults = 0, Call("deviceOpen"),
         NEW caps, NEW hw, NEW cs, NEW k, DeviceOpened(caps, hw, cs, k)
  PROVE  Sized'
<1> DEFINE dev == TheCall.dev
<1>0. Place /\ Files
  BY DEF IInv
<1>1. /\ Proceed /\ hw \in Hardware[dev]
      /\ streams' = [d \in DOMAIN streams \cup {dev} |->
                       IF d = dev THEN Opened(caps, hw) ELSE streams[d]]
  BY DEF DeviceOpened
<1>2. ~failed /\ dev \in Devices \ Passed /\ open = Passed
  BY <1>0, <1>1, Here, OpeningPasses DEF Files
<1> HIDE DEF dev
<1>3. /\ DOMAIN streams' = DOMAIN streams \cup {dev} /\ dev \notin DOMAIN streams
      /\ streams'[dev] = Opened(caps, hw) /\ \A d \in DOMAIN streams : streams'[d] = streams[d]
  BY <1>0, <1>1, <1>2, OpenDevices
<1> SUFFICES ASSUME NEW d \in DOMAIN streams' PROVE DeviceSized(d)'
  BY DEF Sized
<1>4. d \in Devices
  BY <1>0, <1>2, <1>3, OpenDevices
<1>5. \A e \in Ends : Past(PreparedAt(d, e))' <=> Past(PreparedAt(d, e))
  BY <1>0, <1>1, <1>4, OtherPrepares
<1>6. CASE d = dev
  <2>1. \A e \in Ends : ~Past(PreparedAt(d, e))
    BY <1>0, <1>2, <1>6, OpenedFirst
  <2>2. \A e \in Ends : streams'[d].geometry[e] = geometryInit(hw.align, hw.targets)
    BY <1>3, <1>6, OpenedFits
  <2>3. \A e \in Ends :
          IF Past(PreparedAt(d, e))' THEN Right(d, streams'[d].geometry[e])
          ELSE streams'[d].geometry[e] = geometryInit(hw.align, hw.targets)
    BY <1>5, <2>1, <2>2
  <2>4. hw \in Hardware[d]
    BY <1>1, <1>6
  <2> QED BY <2>3, <2>4, Zenon DEF DeviceSized, Right
<1>7. CASE d \in DOMAIN streams
  <2>1. PICK h \in Hardware[d] : \A e \in Ends :
          IF Past(PreparedAt(d, e)) THEN Right(d, streams[d].geometry[e])
          ELSE streams[d].geometry[e] = geometryInit(h.align, h.targets)
    BY <1>2, <1>7 DEF Sized, DeviceSized
  <2>2. \A e \in Ends :
          IF Past(PreparedAt(d, e))' THEN Right(d, streams'[d].geometry[e])
          ELSE streams'[d].geometry[e] = geometryInit(h.align, h.targets)
    BY <1>3, <1>5, <1>7, <2>1
  <2> QED BY <2>2, Zenon DEF DeviceSized, Right
<1> QED BY <1>3, <1>6, <1>7

LEMMA PrepareSizes ==
  ASSUME SizesSuit, IInv, Sized, faults = 0, Call("prepare"), NEW x, NEW y, NEW z, NEW k,
         PreparedBy(x, y, z, k), faults' = 0, Proceed
  PROVE  Sized'
<1> DEFINE dev == TheCall.dev
           end == TheCall.end
           r == streams[dev]
           q == [r EXCEPT ![end] = x, !.geometry[end] = y, !.memory[end] = z]
<1>0. Place /\ Files /\ ~failed /\ ~failed'
  BY Here DEF IInv, Proceed
<1>1. /\ dev \in DOMAIN streams /\ dev \in Devices /\ end \in Ends
      /\ x.state \in States /\ x.alloc \in {0} \cup Grants
      /\ streams' = [streams EXCEPT ![dev] = q]
      /\ k \in Nat /\ faults' = faults + k
      /\ \/ \E sized \in prepareGeometry(r.geometry[end], Height, TheCall.crop) :
              y = sized.st /\ sized.faults <= k
         \/ Fail
  BY DEF PreparedBy
<1>2. ~Fail
  BY <1>0 DEF Fail
<1>3. k = 0
  <2>1. k \in Nat /\ faults' = faults + k
    BY <1>1
  <2> QED BY <2>1
<1>4. PICK sized \in prepareGeometry(r.geometry[end], Height, TheCall.crop) :
        y = sized.st /\ sized.faults <= k
  BY <1>1, <1>2
<1>5. sized.faults = 0
  <2>1. sized.faults \in Nat
    BY GeometryFaults
  <2> QED BY <1>3, <1>4, <2>1
<1>6. PICK hw \in Hardware[dev] : \A e \in Ends :
        IF Past(PreparedAt(dev, e)) THEN Right(dev, r.geometry[e])
        ELSE r.geometry[e] = geometryInit(hw.align, hw.targets)
  BY <1>0, <1>1 DEF Sized, DeviceSized
<1>7. r.geometry[end] = geometryInit(hw.align, hw.targets)
  <2>1. ~Past(PreparedAt(dev, end))
    <3>1. PreparedAt(dev, end) = <<node, next>>
      BY <1>0, Here DEF Fits
    <3> QED BY <1>0, <3>1 DEF Past, Place
  <2> QED BY <1>1, <1>6, <2>1
<1>8. Right(dev, y)
  <2>1. Height = Lines(dev) /\ dev \in {"camera", "ispOut", "ispCap", "encoder"}
    BY <1>0, HeightIs, HeightsAre
  <2>2. Lines(dev) \in Nat /\ Lines(dev) % hw.align = 0
    BY <2>1 DEF Lines, SizesSuit, SENSOR_HEIGHT, ISP_CROP_HEIGHT
  <2>3. TheCall.crop \in Nat
    BY <1>0, HeightsAre
  <2>4. PICK g : g = geometryInit(hw.align, hw.targets)
    OBVIOUS
  <2>5. sized \in prepareGeometry(g, Lines(dev), TheCall.crop)
    BY <1>4, <1>7, <2>1, <2>4
  <2>6. /\ sized.st.size = Lines(dev)
        /\ TheCall.crop # 0 /\ ("crop" \in hw.targets \/ "compose" \in hw.targets)
             => sized.st.compose = TheCall.crop
    BY <1>5, <2>2, <2>3, <2>4, <2>5, GeometryIs
  <2>7. dev = "ispOut" => y.compose = ISP_CROP_HEIGHT
    <3>1. dev = "ispOut" => TheCall.crop = ISP_CROP_HEIGHT
      BY <1>0, HeightsAre
    <3>2. dev = "ispOut" => "crop" \in hw.targets \/ "compose" \in hw.targets
      BY DEF SizesSuit
    <3> QED BY <1>4, <2>6, <3>1, <3>2 DEF ISP_CROP_HEIGHT
  <2> QED BY <1>4, <2>6, <2>7 DEF Right
<1>9. PreparedDevice(q, r, end, x, y, z)
  BY <1>0, <1>1 DEF PreparedDevice, IInv, StreamsFit, DevicesFit
<1> HIDE DEF q
<1>10. q.geometry[end] = y /\ \A o \in Ends \ {end} : q.geometry[o] = r.geometry[o]
  BY <1>9, PreparedDeviceFits
<1>11. /\ DOMAIN streams' = DOMAIN streams /\ streams'[dev] = q
       /\ \A d \in DOMAIN streams \ {dev} : streams'[d] = streams[d]
  BY <1>1
<1> SUFFICES ASSUME NEW d \in DOMAIN streams PROVE DeviceSized(d)'
  BY <1>11 DEF Sized
<1>12. d \in Devices
  BY <1>0, OpenDevices
<1>13. \A e \in Ends : Past(PreparedAt(d, e))' <=>
                         Past(PreparedAt(d, e)) \/ (d = dev /\ e = end)
  BY <1>0, <1>12, PreparePasses
<1> HIDE DEF dev, end
<1>14. CASE d = dev
  <2>1. \A e \in Ends :
          IF Past(PreparedAt(d, e))' THEN Right(d, streams'[d].geometry[e])
          ELSE streams'[d].geometry[e] = geometryInit(hw.align, hw.targets)
    <3> SUFFICES ASSUME NEW e \in Ends
                 PROVE  IF Past(PreparedAt(d, e))' THEN Right(d, streams'[d].geometry[e])
                        ELSE streams'[d].geometry[e] = geometryInit(hw.align, hw.targets)
      OBVIOUS
    <3>1. CASE e = end
      BY <1>8, <1>10, <1>11, <1>13, <1>14, <3>1
    <3>2. CASE e # end
      BY <1>1, <1>6, <1>10, <1>11, <1>13, <1>14, <3>2
    <3> QED BY <3>1, <3>2
  <2>2. hw \in Hardware[d]
    BY <1>14
  <2> QED BY <2>1, <2>2, Zenon DEF DeviceSized, Right
<1>15. CASE d # dev
  <2>1. PICK h \in Hardware[d] : \A e \in Ends :
          IF Past(PreparedAt(d, e)) THEN Right(d, streams[d].geometry[e])
          ELSE streams[d].geometry[e] = geometryInit(h.align, h.targets)
    BY <1>0 DEF Sized, DeviceSized
  <2>2. \A e \in Ends :
          IF Past(PreparedAt(d, e))' THEN Right(d, streams'[d].geometry[e])
          ELSE streams'[d].geometry[e] = geometryInit(h.align, h.targets)
    BY <1>11, <1>13, <1>15, <2>1
  <2> QED BY <2>2, Zenon DEF DeviceSized, Right
<1> QED BY <1>14, <1>15

LEMMA NextSized == ASSUME SizesSuit, IInv, Sized, Next PROVE Sized'
<1>0. Place /\ Place' /\ Files /\ StreamsFit
  BY NextPlace DEF IInv
<1> SUFFICES ASSUME faults' = 0, ~failed' PROVE Sized'
  BY DEF Sized
<1>1. CASE NodeMade
  <2>1. ~failed /\ faults = 0 /\ UNCHANGED streams
    BY <1>1 DEF NodeMade, Opening
  <2> QED BY <1>0, <1>1, <2>1, SizesFrame, TurnPrepares
<1>2. CASE CloseAll
  BY <1>2 DEF CloseAll
<1>3. CASE /\ Position(node, next) /\ ~failed /\ ~exited
           /\ Proceed \/ Fail
           /\ faults' \in faults..MaxFaults
  <2>1. faults = 0 /\ ~failed /\ Proceed
    BY <1>0, <1>3 DEF Fail, Place
  <2>2. ASSUME NEW name, name # "prepare", Call(name), UNCHANGED streams PROVE Sized'
    BY <1>0, <2>1, <2>2, SizesFrame, OtherPrepares
  <2>3. CASE subdevOpen
    BY <2>2, <2>3 DEF subdevOpen
  <2>4. CASE subdevSet
    BY <2>2, <2>4 DEF subdevSet
  <2>5. CASE deviceOpen
    <3>1. Call("deviceOpen")
      BY <2>5 DEF deviceOpen
    <3>2. PICK caps, hw, cs, k : DeviceOpened(caps, hw, cs, k)
      BY <1>0, <2>1, <2>5, DeviceOpens DEF Fail
    <3> QED BY <2>1, <3>1, <3>2, OpenSizes
  <2>6. CASE CheckCapabilities
    BY <2>2, <2>6 DEF CheckCapabilities
  <2>7. CASE Query
    BY <2>2, <2>7 DEF Query
  <2>8. CASE Prepare
    <3>1. Call("prepare")
      BY <2>8 DEF Prepare
    <3>2. PICK x, y, z, k : PreparedBy(x, y, z, k)
      BY <1>0, <2>8, PrepareIs
    <3> QED BY <2>1, <3>1, <3>2, PrepareSizes
  <2>9. CASE Gain
    BY <2>2, <2>9 DEF Gain, SetControl
  <2>10. CASE Flip
    BY <2>2, <2>10 DEF Flip, SetControl
  <2>11. CASE NoFlip
    BY <2>2, <2>11 DEF NoFlip
  <2>12. CASE PrepareNone
    BY <2>1, <2>12 DEF PrepareNone, Fail
  <2> QED BY <1>1, <1>2, <2>3, <2>4, <2>5, <2>6, <2>7, <2>8, <2>9, <2>10, <2>11, <2>12 DEF Next
<1> QED BY <1>1, <1>2, <1>3, CallSteps

(* When no ioctl fails and the drivers can do the sizes that are written into *)
(* the program, each pump joins two streams of one size (Pilatform.c:22-35,   *)
(* UVC.c:721), for every set of such drivers: nothing compares the sizes.     *)
THEOREM PumpsFit == ASSUME SizesSuit PROVE Spec => []SizesAgree
<1>1. Init => Sized
  BY DEF Init, Sized
<1>2. IInv /\ Sized /\ [Next]_vars => Sized'
  <2>1. CASE IInv /\ Sized /\ Next
    BY <2>1, NextSized
  <2>2. CASE Sized /\ UNCHANGED vars
    <3>1. \A d, e : Past(PreparedAt(d, e))' <=> Past(PreparedAt(d, e))
      BY <2>2 DEF vars, Past
    <3>2. UNCHANGED <<faults, failed, streams>>
      BY <2>2 DEF vars
    <3> QED BY <2>2, <3>1, <3>2 DEF Sized, DeviceSized
  <2> QED BY <2>1, <2>2
<1>3. IInv /\ Sized => SizesAgree
  <2> SUFFICES ASSUME IInv, Sized, AllMade, faults = 0 PROVE SizesAgree
    BY DEF SizesAgree
  <2>1. Place /\ Files /\ ~failed /\ open = Devices
    BY AllPast, AllPrepared DEF IInv
  <2>2. ASSUME NEW d \in Devices \ {"sensor"}, NEW e \in Ends, PreparedAt(d, e) # <<5, 1>>
        PROVE  streams[d].geometry[e].size = Lines(d)
    <3>1. Past(PreparedAt(d, e))
      BY <2>1, <2>2, AllPast, PlacesAre
    <3>2. DeviceSized(d)
      BY <2>1, OpenDevices DEF Sized
    <3> QED BY <3>1, <3>2 DEF DeviceSized, Right
  <2>3. /\ PreparedAt("camera", "capture") # <<5, 1>>
        /\ PreparedAt("ispOut", "output") # <<5, 1>> /\ PreparedAt("ispCap", "capture") # <<5, 1>>
        /\ PreparedAt("encoder", "output") # <<5, 1>> /\ PreparedAt("encoder", "capture") # <<5, 1>>
    BY PreparedAtIs, DevicesAre DEF Ends
  <2>4. /\ "camera" \in Devices \ {"sensor"} /\ "ispOut" \in Devices \ {"sensor"}
        /\ "ispCap" \in Devices \ {"sensor"} /\ "encoder" \in Devices \ {"sensor"}
        /\ "capture" \in Ends /\ "output" \in Ends
    BY DevicesAre DEF Ends
  <2>5. /\ streams["camera"].geometry["capture"].size = Lines("camera")
        /\ streams["ispOut"].geometry["output"].size = Lines("ispOut")
        /\ streams["ispCap"].geometry["capture"].size = Lines("ispCap")
        /\ streams["encoder"].geometry["output"].size = Lines("encoder")
        /\ streams["encoder"].geometry["capture"].size = Lines("encoder")
    BY <2>2, <2>3, <2>4
  <2> QED BY <2>5 DEF SizesAgree, Lines, ISP_CROP_HEIGHT, UVC_HEIGHT
<1> QED BY <1>1, <1>2, <1>3, AlwaysIInv, PTL DEF Spec

-----------------------------------------------------------------------------
(* The flips *)

(* A control that can be set to 1 *)
Able(c) == c.type \in Settable /\ 1 \in c.min..c.max

H(cs) == v4l2ControlGet(cs, "HFLIP")
V(cs) == v4l2ControlGet(cs, "VFLIP")

(* A list of controls has the two flips. *)
Flips(cs) == H(cs) # 0 /\ V(cs) # 0

(* A sensor that has both flips can set both, and powers on with both alike.  *)
FlipsAlike ==
  \A driver \in Drivers["sensor"] : Flips(driver) =>
    /\ Able(driver[H(driver)]) /\ Able(driver[V(driver)])
    /\ driver[H(driver)].actual = driver[V(driver)].actual

RotatedBy(cs) ==
  LET i == v4l2ControlGet(cs, "ROTATION") IN i # 0 /\ cs[i].value = 180

(* Between the two calls the picture is mirrored, when it is to be turned.    *)
Flipped(cs) ==
  Flips(cs) =>
    /\ Able(cs[H(cs)]) /\ Able(cs[V(cs)])
    /\ IF Past(<<1, 2>>) /\ ~Past(<<1, 3>>) /\ RotatedBy(cs)
       THEN cs[H(cs)].actual = 1
       ELSE cs[H(cs)].actual = cs[V(cs)].actual

FlipsFit ==
  faults = 0 /\ ~failed /\ "sensor" \in DOMAIN controls => Flipped(controls["sensor"])

LEMMA SameControls ==
  ASSUME NEW cs, NEW ds, Len(cs) = Len(ds), \A i \in 1..Len(cs) : ds[i].id = cs[i].id, NEW id
  PROVE  v4l2ControlGet(ds, id) = v4l2ControlGet(cs, id)
<1>1. {i \in 1..Len(cs) : cs[i].id = id} = {i \in 1..Len(ds) : ds[i].id = id}
  OBVIOUS
<1> QED BY <1>1 DEF v4l2ControlGet

LEMMA OtherControls ==
  ASSUME NEW cs \in Seq(Cached), NEW a, NEW b, a # b,
         v4l2ControlGet(cs, a) # 0
  PROVE  v4l2ControlGet(cs, a) \in 1..Len(cs) /\ v4l2ControlGet(cs, a) # v4l2ControlGet(cs, b)
<1>1. /\ v4l2ControlGet(cs, a) \in 0..Len(cs) /\ cs[v4l2ControlGet(cs, a)].id = a
  BY ControlAt
<1>2. v4l2ControlGet(cs, b) # 0 => cs[v4l2ControlGet(cs, b)].id = b
  BY ControlAt
<1> QED BY <1>1, <1>2

LEMMA OneSet ==
  ASSUME NEW cs \in Seq(Cached), NEW id, v4l2ControlGet(cs, id) # 0,
         Able(cs[v4l2ControlGet(cs, id)]),
         NEW out \in v4l2ControlSetById(cs, id, 1), out.faults = 0
  PROVE  out.st[v4l2ControlGet(cs, id)].actual = 1
<1> DEFINE i == v4l2ControlGet(cs, id)
           c == cs[i]
           ds == [cs EXCEPT ![i].value = 1, ![i].known = TRUE, ![i].actual = Clamp(cs[i], 1)]
<1>1. i \in 1..Len(cs) /\ c \in Cached
  BY ControlAt
<1>2. out \in v4l2ControlSet(cs, i, 1)
  BY DEF v4l2ControlSetById
<1>3. c.min \in Int /\ c.max \in Int
  BY <1>1 DEF Cached
<1>4. Clamp(c, 1) = 1
  BY <1>3 DEF Clamp, Able
<1>5. i # 0 /\ c.type \in Settable
  BY DEF Able
<1> HIDE DEF i
<1>6. out = Outcome(ds, 0, 0)
  <2>1. out \in {Outcome(cs, -ENODEV, 1)} \cup {Outcome(ds, 0, 0)}
    BY <1>2, <1>4, <1>5 DEF v4l2ControlSet
  <2>2. out # Outcome(cs, -ENODEV, 1)
    <3> HIDE DEF ds
    <3> QED BY DEF Outcome
  <2> HIDE DEF ds
  <2> QED BY <2>1, <2>2
<1>7. out.st = ds
  BY <1>6 DEF Outcome
<1> DEFINE d == [c EXCEPT !.value = 1, !.known = TRUE, !.actual = Clamp(cs[i], 1)]
<1>8. ds = [cs EXCEPT ![i] = d]
  BY <1>1
<1>9. d.actual = 1
  BY <1>1, <1>4 DEF Cached
<1> HIDE DEF d, ds
<1>10. ds[i] = d
  BY <1>1, <1>8
<1> QED BY <1>7, <1>9, <1>10 DEF i

(* What is asked for by the calls on the flips *)
LEMMA FlipCalls ==
  ASSUME Place, NEW name, Call(name)
  PROVE  /\ name = "flip" => \/ node = 1 /\ next = 2 /\ TheCall.id = "HFLIP"
                             \/ node = 1 /\ next = 3 /\ TheCall.id = "VFLIP"
         /\ name # "flip" => <<node, next>> \notin {<<1, 2>>, <<1, 3>>}
         /\ name = "control" => TheCall.id \notin {"HFLIP", "VFLIP", "ROTATION"}
<1>1. Position(node, next) /\ TheCall.call = name
  BY Here
<1>2. /\ \A i \in 1..8 : Calls["cam"][i].call = "flip" => i \in {2, 3}
      /\ \A i \in 1..9 : Calls["isp"][i].call # "flip"
      /\ \A i \in 1..5 : Calls["enc"][i].call # "flip"
      /\ \A i \in 1..3 : Calls["uvc"][i].call # "flip"
  BY DEF Calls
<1>3. /\ Calls["cam"][2].call = "flip" /\ Calls["cam"][2].id = "HFLIP"
      /\ Calls["cam"][3].call = "flip" /\ Calls["cam"][3].id = "VFLIP"
      /\ Calls["cam"][4].id = "ANALOGUE_GAIN"
      /\ Calls["isp"][3].id = "RED_BALANCE" /\ Calls["isp"][4].id = "BLUE_BALANCE"
      /\ Calls["isp"][5].id = "DIGITAL_GAIN"
  BY DEF Calls
<1>4. /\ \A i \in 1..8 : Calls["cam"][i].call = "control" => i = 4
      /\ \A i \in 1..9 : Calls["isp"][i].call = "control" => i \in {3, 4, 5}
      /\ \A i \in 1..5 : Calls["enc"][i].call # "control"
      /\ \A i \in 1..3 : Calls["uvc"][i].call # "control"
  BY DEF Calls
<1>5. node = 1 \/ node = 2 \/ node = 3 \/ node = 4
  BY <1>1 DEF Position
<1>6. CASE node = 1
  BY <1>1, <1>2, <1>3, <1>4, <1>6, NodesAre DEF Position, TheCall
<1>7. CASE node = 2
  BY <1>1, <1>2, <1>3, <1>4, <1>7, NodesAre DEF Position, TheCall
<1>8. CASE node = 3 \/ node = 4
  BY <1>1, <1>2, <1>4, <1>8, NodesAre DEF Position, TheCall
<1> QED BY <1>5, <1>6, <1>7, <1>8

(* The calls on other controls, and those that leave them alone *)
LEMMA FlippedFrame ==
  ASSUME Place, NEW name, name # "flip", Call(name), Proceed,
         NEW cs, NEW ds, Flipped(cs), Flips(ds) => Flips(cs),
         Flips(ds) => /\ H(ds) = H(cs) /\ V(ds) = V(cs)
                      /\ ds[H(ds)] = cs[H(cs)] /\ ds[V(ds)] = cs[V(cs)],
         RotatedBy(ds) <=> RotatedBy(cs)
  PROVE  Flipped(ds)'
<1>1. /\ Past(<<1, 2>>)' <=> Past(<<1, 2>>)
      /\ Past(<<1, 3>>)' <=> Past(<<1, 3>>)
  BY FlipCalls, Advances
<1> QED BY <1>1 DEF Flipped

LEMMA KeptFlips ==
  ASSUME NEW cs \in Seq(Cached), NEW ds, NEW i, Kept(cs, ds, i)
  PROVE  /\ H(ds) = H(cs) /\ V(ds) = V(cs) /\ (Flips(ds) <=> Flips(cs))
         /\ H(cs) # 0 => (Able(cs[H(cs)]) => Able(ds[H(cs)]))
         /\ V(cs) # 0 => (Able(cs[V(cs)]) => Able(ds[V(cs)]))
         /\ H(cs) # 0 /\ i # H(cs) => ds[H(cs)] = cs[H(cs)]
         /\ V(cs) # 0 /\ i # V(cs) => ds[V(cs)] = cs[V(cs)]
         /\ i # v4l2ControlGet(cs, "ROTATION") => (RotatedBy(ds) <=> RotatedBy(cs))
<1>1. \A id : v4l2ControlGet(ds, id) = v4l2ControlGet(cs, id)
  BY SameControls DEF Kept
<1>2. \A id : v4l2ControlGet(cs, id) \in 0..Len(cs)
  BY ControlAt
<1>3. H(ds) = H(cs) /\ V(ds) = V(cs) /\ H(cs) \in 0..Len(cs) /\ V(cs) \in 0..Len(cs)
  BY <1>1, <1>2 DEF H, V
<1>4. \A j \in 1..Len(cs) : /\ Able(cs[j]) => Able(ds[j])
                            /\ j # i => ds[j] = cs[j]
  BY DEF Kept, Able
<1>5. i # v4l2ControlGet(cs, "ROTATION") => (RotatedBy(ds) <=> RotatedBy(cs))
  BY <1>1, <1>2, <1>4 DEF RotatedBy
<1> QED BY <1>3, <1>4, <1>5 DEF Flips

LEMMA RotatedIs == Rotated <=> RotatedBy(controls["sensor"])
BY DEF Rotated, RotatedBy, Value

LEMMA FlipSets ==
  ASSUME IInv, FlipsFit, Flip, faults' = 0
  PROVE  FlipsFit'
<1> DEFINE cs == controls["sensor"]
<1>0. Place /\ Files /\ ControlsFit
  BY DEF IInv
<1>1. Call("flip") /\ Rotated /\ SetControl(TheCall.id, 1) /\ TheCall.dev = "sensor"
      /\ ~failed /\ Proceed
  <2>1. Call("flip") /\ Rotated /\ SetControl(TheCall.id, 1)
    BY DEF Flip
  <2>2. TheCall.dev = "sensor" /\ ~failed
    BY <1>0, <2>1, Here DEF Fits
  <2>3. Proceed
    BY <2>1 DEF SetControl
  <2> QED BY <2>1, <2>2, <2>3
<1>2. PICK ds, k : /\ SetBy(ds, v4l2ControlGet(cs, TheCall.id), k)
                   /\ \E out \in v4l2ControlSetById(cs, TheCall.id, 1) : ds = out.st /\ k = out.faults
  BY <1>1, SetControlIs
<1>3. "sensor" \in DOMAIN controls
  BY <1>1, SetControlIs
<1>4. cs \in Seq(Cached)
  BY <1>0, <1>3 DEF ControlsFit
<1>5. /\ controls' = [controls EXCEPT !["sensor"] = ds]
      /\ Kept(cs, ds, v4l2ControlGet(cs, TheCall.id))
      /\ k \in Nat /\ faults' = faults + k
  BY <1>1, <1>2 DEF SetBy
<1>6. faults = 0 /\ k = 0
  <2>1. faults \in Nat
    BY <1>0 DEF Place
  <2> QED BY <1>5, <2>1
<1>7. Flipped(cs) /\ RotatedBy(cs)
  BY <1>1, <1>3, <1>6, RotatedIs DEF FlipsFit
<1> HIDE DEF cs
<1>9. controls'["sensor"] = ds
  BY <1>3, <1>5
<1>10. ASSUME Flips(ds)
       PROVE  /\ Able(ds[H(ds)]) /\ Able(ds[V(ds)])
              /\ IF Past(<<1, 2>>)' /\ ~Past(<<1, 3>>)' /\ RotatedBy(ds)
                 THEN ds[H(ds)].actual = 1
                 ELSE ds[H(ds)].actual = ds[V(ds)].actual
  <2>1. /\ Flips(cs) /\ H(ds) = H(cs) /\ V(ds) = V(cs) /\ H(cs) # 0 /\ V(cs) # 0
    BY <1>4, <1>5, <1>10, KeptFlips DEF Flips
  <2>2. /\ Able(cs[H(cs)]) /\ Able(cs[V(cs)])
        /\ IF Past(<<1, 2>>) /\ ~Past(<<1, 3>>) /\ RotatedBy(cs)
           THEN cs[H(cs)].actual = 1
           ELSE cs[H(cs)].actual = cs[V(cs)].actual
    BY <1>7, <2>1 DEF Flipped
  <2>3. Able(ds[H(ds)]) /\ Able(ds[V(ds)])
    BY <1>4, <1>5, <2>1, <2>2, KeptFlips
  <2>4. CASE node = 1 /\ next = 2 /\ TheCall.id = "HFLIP"
    <3>1. Past(<<1, 2>>)' /\ ~Past(<<1, 3>>)'
      BY <1>1, <2>4 DEF Past, Proceed
    <3>2. v4l2ControlGet(cs, "HFLIP") # v4l2ControlGet(cs, "ROTATION")
      BY <1>4, <2>1, OtherControls DEF H
    <3>3. RotatedBy(ds)
      BY <1>4, <1>5, <1>7, <2>4, <3>2, KeptFlips
    <3>4. ds[H(cs)].actual = 1
      <4>1. PICK out \in v4l2ControlSetById(cs, "HFLIP", 1) : ds = out.st /\ out.faults = 0
        BY <1>2, <1>6, <2>4 DEF cs
      <4> QED BY <1>4, <2>1, <2>2, <4>1, OneSet DEF H
    <3> QED BY <2>1, <2>3, <3>1, <3>3, <3>4
  <2>5. CASE node = 1 /\ next = 3 /\ TheCall.id = "VFLIP"
    <3>1. Past(<<1, 3>>)' /\ Past(<<1, 2>>) /\ ~Past(<<1, 3>>)
      BY <1>1, <2>5 DEF Past, Proceed
    <3>2. v4l2ControlGet(cs, "VFLIP") # v4l2ControlGet(cs, "HFLIP")
      BY <1>4, <2>1, OtherControls DEF V
    <3>3. ds[H(cs)] = cs[H(cs)]
      BY <1>4, <1>5, <2>1, <2>5, <3>2, KeptFlips DEF H
    <3>4. ds[V(cs)].actual = 1
      <4>1. PICK out \in v4l2ControlSetById(cs, "VFLIP", 1) : ds = out.st /\ out.faults = 0
        BY <1>2, <1>6, <2>5 DEF cs
      <4> QED BY <1>4, <2>1, <2>2, <4>1, OneSet DEF V
    <3>5. cs[H(cs)].actual = 1
      BY <1>7, <2>2, <3>1
    <3> QED BY <2>1, <2>3, <3>1, <3>3, <3>4, <3>5
  <2> QED BY <1>0, <1>1, <2>4, <2>5, FlipCalls
<1>11. Flipped(controls["sensor"])'
  BY <1>9, <1>10 DEF Flipped
<1> QED BY <1>11 DEF FlipsFit

(* The calls on the sensor's other control, and on the controls of the ISP *)
LEMMA GainKeeps ==
  ASSUME IInv, FlipsFit, Gain, faults' = 0
  PROVE  FlipsFit'
<1> DEFINE cs == controls["sensor"]
<1>0. Place /\ Files /\ ControlsFit
  BY DEF IInv
<1>1. Call("control") /\ SetControl(TheCall.id, TheCall.value) /\ TheCall.value \in Int
  BY <1>0, ValuesAre DEF Gain
<1>2. Proceed /\ ~failed /\ TheCall.id \notin {"HFLIP", "VFLIP", "ROTATION"}
  BY <1>0, <1>1, Here, FlipCalls DEF SetControl
<1>3. PICK es, k : SetBy(es, v4l2ControlGet(controls[TheCall.dev], TheCall.id), k)
  BY <1>1, SetControlIs
<1>4. TheCall.dev \in DOMAIN controls
  BY <1>1, SetControlIs
<1>5. /\ controls' = [controls EXCEPT ![TheCall.dev] = es]
      /\ Kept(controls[TheCall.dev], es, v4l2ControlGet(controls[TheCall.dev], TheCall.id))
      /\ k \in Nat /\ faults' = faults + k
  BY <1>3 DEF SetBy
<1>6. faults = 0
  <2>1. faults \in Nat
    BY <1>0 DEF Place
  <2> QED BY <1>5, <2>1
<1> SUFFICES ASSUME "sensor" \in DOMAIN controls PROVE Flipped(controls["sensor"])'
  BY <1>5 DEF FlipsFit
<1>7. Flipped(cs) /\ cs \in Seq(Cached)
  BY <1>0, <1>2, <1>6 DEF FlipsFit, ControlsFit
<1>8. PICK ds : ds = controls'["sensor"]
  OBVIOUS
<1>9. /\ Flips(ds) => /\ Flips(cs) /\ H(ds) = H(cs) /\ V(ds) = V(cs)
                       /\ ds[H(ds)] = cs[H(cs)] /\ ds[V(ds)] = cs[V(cs)]
      /\ RotatedBy(ds) <=> RotatedBy(cs)
  <2>1. CASE TheCall.dev = "sensor"
    <3> DEFINE i == v4l2ControlGet(cs, TheCall.id)
    <3>1. ds = es /\ Kept(cs, ds, i)
      BY <1>4, <1>5, <1>8, <2>1
    <3>2. /\ H(cs) # 0 => i # H(cs)
          /\ V(cs) # 0 => i # V(cs)
          /\ v4l2ControlGet(cs, "ROTATION") # 0 => i # v4l2ControlGet(cs, "ROTATION")
      BY <1>2, <1>7, OtherControls DEF H, V
    <3>3. CASE i = 0
      <4>1. \A j \in 1..Len(cs) : ds[j] = cs[j]
        BY <3>1, <3>3 DEF Kept
      <4>2. /\ H(ds) = H(cs) /\ V(ds) = V(cs) /\ (Flips(ds) <=> Flips(cs))
            /\ v4l2ControlGet(ds, "ROTATION") = v4l2ControlGet(cs, "ROTATION")
        <5>1. Len(cs) = Len(ds) /\ \A j \in 1..Len(cs) : ds[j].id = cs[j].id
          BY <3>1, <4>1 DEF Kept
        <5>2. \A id : v4l2ControlGet(ds, id) = v4l2ControlGet(cs, id)
          BY <5>1, SameControls
        <5> QED BY <5>2 DEF H, V, Flips
      <4>3. \A id : v4l2ControlGet(cs, id) \in 0..Len(cs)
        BY <1>7, ControlAt
      <4> QED BY <4>1, <4>2, <4>3 DEF Flips, H, V, RotatedBy
    <3>4. CASE i # 0
      <4>1. i # v4l2ControlGet(cs, "ROTATION")
        BY <3>2, <3>4
      <4> QED BY <1>7, <3>1, <3>2, <4>1, KeptFlips DEF Flips
    <3> QED BY <3>3, <3>4
  <2>2. CASE TheCall.dev # "sensor"
    <3>1. ds = cs
      BY <1>5, <1>8, <2>2
    <3> QED BY <3>1
  <2> QED BY <2>1, <2>2
<1>10. /\ Past(<<1, 2>>)' <=> Past(<<1, 2>>)
       /\ Past(<<1, 3>>)' <=> Past(<<1, 3>>)
  BY <1>0, <1>1, <1>2, FlipCalls, Advances
<1>11. Flips(ds) =>
         /\ Able(ds[H(ds)]) /\ Able(ds[V(ds)])
         /\ IF Past(<<1, 2>>)' /\ ~Past(<<1, 3>>)' /\ RotatedBy(ds)
            THEN ds[H(ds)].actual = 1
            ELSE ds[H(ds)].actual = ds[V(ds)].actual
  BY <1>7, <1>9, <1>10 DEF Flipped
<1> QED BY <1>8, <1>11 DEF Flipped

LEMMA SensorFlips ==
  ASSUME FlipsAlike, NEW cs, NEW k, CreatedFor("sensor", cs, k)
  PROVE  Flips(cs) => /\ Able(cs[H(cs)]) /\ Able(cs[V(cs)])
                      /\ cs[H(cs)].actual = cs[V(cs)].actual
<1> SUFFICES ASSUME Flips(cs)
             PROVE  /\ Able(cs[H(cs)]) /\ Able(cs[V(cs)])
                    /\ cs[H(cs)].actual = cs[V(cs)].actual
  OBVIOUS
<1>1. PICK driver \in Drivers["sensor"] :
        /\ driver \in Seq(DriverControl) /\ Len(cs) = Len(driver)
        /\ \A i \in 1..Len(driver) : Describes(cs[i], driver[i])
  BY DEF CreatedFor
<1>2. cs \in Seq(Cached)
  BY DEF CreatedFor
<1>3. \A i \in 1..Len(cs) : driver[i].id = cs[i].id
  BY <1>1 DEF Describes
<1>4. H(driver) = H(cs) /\ V(driver) = V(cs)
  BY <1>1, <1>3, SameControls DEF H, V
<1>5. H(cs) \in 1..Len(cs) /\ V(cs) \in 1..Len(cs)
  BY <1>2, ControlAt DEF Flips, H, V
<1>6. /\ Able(driver[H(cs)]) /\ Able(driver[V(cs)])
      /\ driver[H(cs)].actual = driver[V(cs)].actual
  BY <1>4 DEF Flips, FlipsAlike
<1>7. Describes(cs[H(cs)], driver[H(cs)]) /\ Describes(cs[V(cs)], driver[V(cs)])
  BY <1>1, <1>5
<1> QED BY <1>6, <1>7 DEF Describes, Able

LEMMA NextFlips == ASSUME FlipsAlike, IInv, FlipsFit, Next PROVE FlipsFit'
<1>0. Place /\ Place' /\ Files /\ StreamsFit
  BY NextPlace DEF IInv
<1> SUFFICES ASSUME faults' = 0, ~failed', "sensor" \in DOMAIN controls'
             PROVE  Flipped(controls["sensor"])'
  BY DEF FlipsFit
<1>1. ASSUME faults = 0, ~failed, "sensor" \in DOMAIN controls,
             controls'["sensor"] = controls["sensor"],
             Past(<<1, 2>>)' <=> Past(<<1, 2>>), Past(<<1, 3>>)' <=> Past(<<1, 3>>)
      PROVE  Flipped(controls["sensor"])'
  BY <1>1 DEF FlipsFit, Flipped
<1>2. CASE NodeMade
  <2>1. ~failed /\ faults = 0 /\ UNCHANGED controls
    BY <1>2 DEF NodeMade, Opening
  <2>2. Position(1, 2) /\ Position(1, 3)
    BY NodesAre DEF Position
  <2>3. /\ Past(<<1, 2>>)' <=> Past(<<1, 2>>)
        /\ Past(<<1, 3>>)' <=> Past(<<1, 3>>)
    BY <1>0, <1>2, <2>2, Turns
  <2> QED BY <1>1, <2>1, <2>3
<1>3. CASE CloseAll
  BY <1>3 DEF CloseAll
<1>4. CASE /\ Position(node, next) /\ ~failed /\ ~exited
           /\ Proceed \/ Fail
           /\ faults' \in faults..MaxFaults
  <2>1. faults = 0 /\ ~failed /\ Proceed
    BY <1>0, <1>4 DEF Fail, Place
  <2>2. ASSUME NEW name, name # "flip", Call(name), "sensor" \in DOMAIN controls,
               controls'["sensor"] = controls["sensor"]
        PROVE  Flipped(controls["sensor"])'
    <3>1. /\ Past(<<1, 2>>)' <=> Past(<<1, 2>>)
          /\ Past(<<1, 3>>)' <=> Past(<<1, 3>>)
      BY <1>0, <2>1, <2>2, FlipCalls, Advances
    <3> QED BY <1>1, <2>1, <2>2, <3>1
  <2>3. CASE subdevOpen
    <3>1. PICK cs, k : SensorOpened(cs, k)
      BY <2>1, <2>3, SensorOpens DEF Fail
    <3>2. controls'["sensor"] = cs /\ CreatedFor("sensor", cs, k)
      BY <3>1 DEF SensorOpened
    <3>3. ~Past(<<1, 2>>)'
      <4>1. node = 1 /\ next = 1
        BY <1>0, <2>3, Here, DevicesAre DEF subdevOpen, Fits
      <4> QED BY <2>1, <4>1 DEF Past, Proceed
    <3>4. Flips(cs) => /\ Able(cs[H(cs)]) /\ Able(cs[V(cs)])
                       /\ cs[H(cs)].actual = cs[V(cs)].actual
      BY <3>2, SensorFlips
    <3> QED BY <3>2, <3>3, <3>4 DEF Flipped
  <2>4. CASE subdevSet
    BY <2>2, <2>4 DEF subdevSet
  <2>5. CASE deviceOpen
    <3>1. Call("deviceOpen")
      BY <2>5 DEF deviceOpen
    <3>2. PICK caps, hw, cs, k : DeviceOpened(caps, hw, cs, k)
      BY <1>0, <2>1, <2>5, DeviceOpens DEF Fail
    <3>3. TheCall.dev # "sensor"
      BY <1>0, <3>1, Here DEF Fits
    <3>4. controls'["sensor"] = controls["sensor"] /\ "sensor" \in DOMAIN controls
      BY <3>2, <3>3 DEF DeviceOpened
    <3> QED BY <2>2, <3>1, <3>4
  <2>6. CASE CheckCapabilities
    BY <2>2, <2>6 DEF CheckCapabilities
  <2>7. CASE Query
    BY <2>2, <2>7 DEF Query
  <2>8. CASE Prepare
    BY <2>2, <2>8 DEF Prepare
  <2>9. CASE Gain
    BY <2>9, GainKeeps DEF FlipsFit
  <2>10. CASE Flip
    BY <2>10, FlipSets DEF FlipsFit
  <2>11. CASE NoFlip
    <3>1. Call("flip") /\ ~Rotated /\ UNCHANGED controls
      BY <2>11 DEF NoFlip
    <3>2. Flipped(controls["sensor"]) /\ ~RotatedBy(controls["sensor"])
      BY <2>1, <3>1, RotatedIs DEF FlipsFit
    <3> QED BY <3>1, <3>2, Zenon DEF Flipped
  <2>12. CASE PrepareNone
    BY <2>1, <2>12 DEF PrepareNone, Fail
  <2> QED BY <1>2, <1>3, <2>3, <2>4, <2>5, <2>6, <2>7, <2>8, <2>9, <2>10, <2>11, <2>12 DEF Next
<1> QED BY <1>2, <1>3, <1>4, CallSteps

(* With every sensor whose two flips can be set and start alike, and with no  *)
(* failing ioctl, the picture is turned or left alone, never mirrored         *)
(* (Pilatform.c:77-85): the flips differ only between the two calls.          *)
THEOREM PictureIsTurned == ASSUME FlipsAlike PROVE Spec => []FlipsTogether
<1>1. Init => FlipsFit
  BY DEF Init, FlipsFit
<1>2. IInv /\ FlipsFit /\ [Next]_vars => FlipsFit'
  <2>1. CASE IInv /\ FlipsFit /\ Next
    BY <2>1, NextFlips
  <2>2. CASE FlipsFit /\ UNCHANGED vars
    BY <2>2 DEF vars, FlipsFit, Flipped, Past
  <2> QED BY <2>1, <2>2
<1>3. IInv /\ FlipsFit => FlipsTogether
  <2> SUFFICES ASSUME IInv, FlipsFit, AllMade, faults = 0, Flips(controls["sensor"])
               PROVE  controls["sensor"][H(controls["sensor"])].actual
                        = controls["sensor"][V(controls["sensor"])].actual
    BY DEF FlipsTogether, Flips, H, V
  <2>1. Place /\ Files /\ ~failed /\ open = Devices
    BY AllPast, AllPrepared DEF IInv
  <2>2. "sensor" \in DOMAIN controls
    BY <2>1, OpenDevices, DevicesAre
  <2>3. Position(1, 3)
    BY NodesAre DEF Position
  <2>4. Past(<<1, 3>>)
    BY <2>1, <2>3, AllPast
  <2>5. Flipped(controls["sensor"])
    BY <2>1, <2>2 DEF FlipsFit
  <2> QED BY <2>4, <2>5 DEF Flipped
<1> QED BY <1>1, <1>2, <1>3, AlwaysIInv, PTL DEF Spec
====================================================================================
