--------------------------------- MODULE Pipeline ---------------------------------
(***************************************************************************)
(* main.c: the event loop that starts and stops the pipeline of four nodes   *)
(*                                                                           *)
(*            cam --> isp --> enc --> uvc --> USB host                       *)
(*                                                                           *)
(* as the host asks for it, through the events of the uvc-gadget driver.     *)
(* The program has one thread; the host and the drivers act between its      *)
(* ioctls.  What the pumps move while the pipeline runs is Pump's subject;   *)
(* here a pump exists or it does not.                                        *)
(***************************************************************************)
EXTENDS Node, Pollinator, Led

CONSTANTS MaxHostEvents,   \* bound: events the host causes
          MaxFaults        \* bound: ioctls that fail without need

ASSUME MaxHostEventsAssumption == MaxHostEvents \in Nat
ASSUME MaxFaultsAssumption == MaxFaults \in Nat

VARIABLES
  nodes,       \* the streams of p->cam, isp, enc, uvc, with their drivers'
  pumps,       \* whether p->cam_to_isp, isp_to_enc, enc_to_uvc are not NULL
  pol,         \* p->pol
  fd_bits,     \* p->fd_bits
  led,         \* Led.c: g
  pc,          \* what the loop does next
  step,        \* the node that pipelineStart or pipelineStop is at
  events,      \* uvc driver: events not yet dequeued
  edge,        \* epoll: the events' readiness has not been reported yet
  wants,       \* host: it has asked for the stream
  hostEvents,  \* events the host has caused
  faults       \* ioctls that failed without need

hostVars == <<wants, hostEvents>>
vars == <<nodes, pumps, pol, fd_bits, led, pc, step, events, edge, hostVars, faults>>

(* The order in which pipelineStart and pipelineStop go through the nodes     *)
Order == <<"uvc", "enc", "isp", "cam">>

(* Descriptors; the encoder and the gadget have one device for both ends.     *)
CamFd == 3
IspInFd == 4
IspOutFd == 5
EncFd == 6
UvcFd == 7

CAM_TO_ISP == "CAM_TO_ISP_BIT"
ISP_TO_ENC == "ISP_TO_ENC_BIT"
ENC_TO_UVC == "ENC_TO_UVC_BIT"
UVC_EVENTS == "UVC_EVENTS_BIT"

Transfer == {"READ", "WRITE"}

(* piOpenCamera, piOpenISP and piOpenEncoder have prepared their streams;     *)
(* the gadget's is prepared when the host asks for it.                        *)
Prepared(capture) ==
  [streamInit(capture) EXCEPT !.state = "PREPARED", !.count = Requested,
                              !.alloc = Requested, !.made = Requested]

Init ==
  /\ nodes = [cam |-> [output |-> Prepared(TRUE)],
              isp |-> [output |-> Prepared(TRUE), input |-> Prepared(FALSE)],
              enc |-> [output |-> Prepared(TRUE), input |-> Prepared(FALSE)],
              uvc |-> [input |-> streamInit(FALSE)]]
  /\ pumps = FALSE
  /\ pol = pollinatorMonitorFd(pollinatorCreate, UvcFd, {"EXCEPT"}, {UVC_EVENTS})
  /\ fd_bits = {}
  /\ led = ledInit
  /\ pc = "poll" /\ step = 1
  /\ events = << >> /\ edge = FALSE
  /\ wants = FALSE /\ hostEvents = 0
  /\ faults = 0

-----------------------------------------------------------------------------
(* The host, and the driver's event queue *)

(* The driver keeps two events of each type and drops the oldest of the type  *)
(* for a third (v4l2_event_subscribe with elems 2).                           *)
MaxOfType == 2

QueueEvent(q, type) ==
  LET Same == {i \in 1..Len(q) : q[i] = type}
      kept == IF Cardinality(Same) < MaxOfType THEN q
              ELSE [i \in 1..Len(q)-1 |-> IF i < Min(Same) THEN q[i] ELSE q[i + 1]]
  IN  Append(kept, type)

HostEvent(type) ==
  /\ pc # "exited"
  /\ hostEvents < MaxHostEvents
  /\ hostEvents' = hostEvents + 1
  /\ events' = QueueEvent(events, type)
  /\ edge' = TRUE
  /\ UNCHANGED <<nodes, pumps, pol, fd_bits, led, pc, step, faults>>

(* The host starts or stops the video stream, or sends a control request.     *)
HostToggle == HostEvent(IF wants THEN "STREAMOFF" ELSE "STREAMON") /\ wants' = ~wants
HostControl == HostEvent("SETUP") /\ UNCHANGED wants

-----------------------------------------------------------------------------
(* pipelineProcess *)

(* epoll_wait reports the gadget when an event has come in since it last did  *)
(* (EPOLLET), and any monitored descriptor when a buffer is done or its       *)
(* stream is off (EPOLLERR); it times out when there is nothing.              *)
Poll ==
  /\ pc = "poll"
  /\ \E ready \in SUBSET DOMAIN pol.epoll :
       /\ edge /\ events # << >> => UvcFd \in ready
       /\ fd_bits' = pollinatorPoll(pol, ready)
  /\ edge' = FALSE
  /\ \E half \in {0, 1} : led' = ledBlinkUpdate(led, half)
  /\ pc' = IF UVC_EVENTS \in fd_bits' THEN "events" ELSE "pumps"
  /\ UNCHANGED <<nodes, pumps, pol, step, events, hostVars, faults>>

(* epoll_wait fails, which it does not retry but for EINTR: the LED is        *)
(* updated and the program exits.                                             *)
PollFailed ==
  /\ pc = "poll"
  /\ faults < MaxFaults /\ faults' = faults + 1
  /\ fd_bits' = {}
  /\ \E half \in {0, 1} : led' = ledBlinkUpdate(led, half)
  /\ pc' = "exited"
  /\ UNCHANGED <<nodes, pumps, pol, step, events, edge, hostVars>>

Exited == pc = "exited" /\ UNCHANGED vars

(* The pumps whose bit is set run, those that still exist: the events handled *)
(* before may have destroyed them.                                            *)
RunPumps ==
  /\ pc = "pumps"
  /\ pc' = "poll"
  /\ UNCHANGED <<nodes, pumps, pol, fd_bits, led, step, events, edge, hostVars, faults>>

(* A step whose ioctls end in the outcome `out` of node n *)
Spends(out) == faults + out.faults <= MaxFaults /\ faults' = faults + out.faults

-----------------------------------------------------------------------------
(* uvcProcessEvents: events are handled until there are none *)

EventsDone ==
  /\ pc = "events"
  /\ events = << >>
  /\ pc' = "pumps"
  /\ UNCHANGED <<nodes, pumps, pol, fd_bits, led, step, events, edge, hostVars, faults>>

(* DQEVENT fails for another reason than that there is no event: the loop is  *)
(* left, with the events still queued.                                        *)
EventsFailed ==
  /\ pc = "events"
  /\ faults < MaxFaults /\ faults' = faults + 1
  /\ pc' = "pumps"
  /\ UNCHANGED <<nodes, pumps, pol, fd_bits, led, step, events, edge, hostVars>>

(* Mutant of EventSetup: the loop is left after a request. *)
EventSetupLeaves ==
  /\ pc = "events"
  /\ events # << >> /\ Head(events) = "SETUP"
  /\ events' = Tail(events)
  /\ pc' = "pumps"
  /\ UNCHANGED <<nodes, pumps, pol, fd_bits, led, step, edge, hostVars, faults>>

(* UVC_EVENT_SETUP: the response is sent; when that fails the loop is left,   *)
(* with the events behind still queued.                                       *)
EventSetup ==
  /\ pc = "events"
  /\ events # << >> /\ Head(events) = "SETUP"
  /\ events' = Tail(events)
  /\ \/ UNCHANGED <<pc, faults>>
     \/ pc' = "pumps" /\ faults < MaxFaults /\ faults' = faults + 1
  /\ UNCHANGED <<nodes, pumps, pol, fd_bits, led, step, edge, hostVars>>

(* The gadget's stream is prepared, again and again; a failure is only logged. *)
uvcPrepare ==
  \E out \in deviceStreamPrepare(nodes.uvc.input) :
    Spends(out) /\ nodes' = [nodes EXCEPT !.uvc.input = out.st]

(* UVC_EVENT_STREAMON: uvcPrepare, then pipelineStart.                        *)
EventStreamon ==
  /\ pc = "events"
  /\ events # << >> /\ Head(events) = "STREAMON"
  /\ events' = Tail(events)
  /\ uvcPrepare
  /\ pc' = "start" /\ step' = 1
  /\ UNCHANGED <<pumps, pol, fd_bits, led, edge, hostVars>>

(* Mutant of EventStreamoff: the LED is left alone. *)
EventStreamoffBlinks ==
  /\ pc = "events"
  /\ events # << >> /\ Head(events) = "STREAMOFF"
  /\ events' = Tail(events)
  /\ pc' = "stop" /\ step' = 1
  /\ UNCHANGED <<nodes, pumps, pol, fd_bits, led, edge, hostVars, faults>>

(* UVC_EVENT_STREAMOFF: pipelineStop lets the LED shine steadily first.       *)
EventStreamoff ==
  /\ pc = "events"
  /\ events # << >> /\ Head(events) = "STREAMOFF"
  /\ events' = Tail(events)
  /\ led' = ledBlinkEnable(led, FALSE)
  /\ pc' = "stop" /\ step' = 1
  /\ UNCHANGED <<nodes, pumps, pol, fd_bits, edge, hostVars, faults>>

-----------------------------------------------------------------------------
(* pipelineStart and pipelineStop *)

(* Mutant of StartNode: what nodeStart returns is ignored. *)
StartNodeAnyway ==
  /\ pc = "start"
  /\ step <= Len(Order)
  /\ \E out \in nodeStart(nodes[Order[step]]) :
       Spends(out) /\ nodes' = [nodes EXCEPT ![Order[step]] = out.st]
  /\ step' = step + 1
  /\ UNCHANGED <<pumps, pol, fd_bits, led, pc, events, edge, hostVars>>

(* The first node that fails ends the start; those before it keep streaming,  *)
(* and the event loop goes on.                                                *)
StartNode ==
  /\ pc = "start"
  /\ step <= Len(Order)
  /\ \E out \in nodeStart(nodes[Order[step]]) :
       /\ Spends(out)
       /\ nodes' = [nodes EXCEPT ![Order[step]] = out.st]
       /\ IF out.ret = 0 THEN step' = step + 1 /\ UNCHANGED pc
                         ELSE pc' = "events" /\ step' = 1
  /\ UNCHANGED <<pumps, pol, fd_bits, led, events, edge, hostVars>>

(* All nodes stream: the pumps are created.                                   *)
StartPumps ==
  /\ pc = "start"
  /\ step > Len(Order)
  /\ pumps' = TRUE
  /\ pc' = "monitor" /\ step' = 1
  /\ UNCHANGED <<nodes, pol, fd_bits, led, events, edge, hostVars, faults>>

(* Every node is stopped, whatever that returns. *)
StopNode ==
  /\ pc = "stop"
  /\ step <= Len(Order)
  /\ \E out \in nodeStop(nodes[Order[step]]) :
       Spends(out) /\ nodes' = [nodes EXCEPT ![Order[step]] = out.st]
  /\ step' = step + 1
  /\ UNCHANGED <<pumps, pol, fd_bits, led, pc, events, edge, hostVars>>

StopPumps ==
  /\ pc = "stop"
  /\ step > Len(Order)
  /\ pumps' = FALSE
  /\ pc' = "unmonitor" /\ step' = 1
  /\ UNCHANGED <<nodes, pol, fd_bits, led, events, edge, hostVars, faults>>

(* Mutant of Registrations: the gadget's events are forgotten on a stop. *)
RegistrationsAllOff == [
  monitor |-> <<
    <<CamFd, Transfer, {CAM_TO_ISP}>>,
    <<IspInFd, Transfer, {CAM_TO_ISP}>>,
    <<IspOutFd, Transfer, {ISP_TO_ENC}>>,
    <<EncFd, Transfer, {ISP_TO_ENC, ENC_TO_UVC}>>,
    <<UvcFd, Transfer \cup {"EXCEPT"}, {ENC_TO_UVC, UVC_EVENTS}>> >>,
  unmonitor |-> <<
    <<CamFd, {}, {}>>, <<IspInFd, {}, {}>>, <<IspOutFd, {}, {}>>, <<EncFd, {}, {}>>,
    <<UvcFd, {}, {}>> >>]

(* The registrations that end the start and the stop: descriptor, events and  *)
(* the bits its callback sets                                                 *)
Registrations == [
  monitor |-> <<
    <<CamFd, Transfer, {CAM_TO_ISP}>>,
    <<IspInFd, Transfer, {CAM_TO_ISP}>>,
    <<IspOutFd, Transfer, {ISP_TO_ENC}>>,
    <<EncFd, Transfer, {ISP_TO_ENC, ENC_TO_UVC}>>,
    <<UvcFd, Transfer \cup {"EXCEPT"}, {ENC_TO_UVC, UVC_EVENTS}>> >>,
  unmonitor |-> <<
    <<CamFd, {}, {}>>, <<IspInFd, {}, {}>>, <<IspOutFd, {}, {}>>, <<EncFd, {}, {}>>,
    <<UvcFd, {"EXCEPT"}, {UVC_EVENTS}>> >>]

(* Changing the gadget's registration makes epoll look at it again.           *)
Register ==
  /\ pc \in DOMAIN Registrations
  /\ step <= Len(Registrations[pc])
  /\ LET r == Registrations[pc][step]
     IN  /\ pol' = pollinatorMonitorFd(pol, r[1], r[2], r[3])
         /\ edge' = (edge \/ (r[1] = UvcFd /\ events # << >>))
  /\ step' = step + 1
  /\ UNCHANGED <<nodes, pumps, fd_bits, led, pc, events, hostVars, faults>>

(* A start ends by making the LED blink.                                      *)
RegisterDone ==
  /\ pc \in DOMAIN Registrations
  /\ step > Len(Registrations[pc])
  /\ led' = IF pc = "monitor" THEN ledBlinkEnable(led, TRUE) ELSE led
  /\ pc' = "events" /\ step' = 1
  /\ UNCHANGED <<nodes, pumps, pol, fd_bits, events, edge, hostVars, faults>>

-----------------------------------------------------------------------------

pipelineProcess ==
  \/ Poll \/ PollFailed \/ RunPumps
  \/ EventsDone \/ EventsFailed \/ EventSetup \/ EventStreamon \/ EventStreamoff
  \/ StartNode \/ StartPumps \/ StopNode \/ StopPumps \/ Register \/ RegisterDone

Next == pipelineProcess \/ Exited \/ HostToggle \/ HostControl

(* The loop keeps running until it exits: each of its ioctls returns, and     *)
(* epoll_wait after 5 s at the latest. Nothing is assumed of the host.        *)
Spec == Init /\ [][Next]_vars /\ WF_vars(pipelineProcess)

-----------------------------------------------------------------------------
(* Properties *)

Streams == UNION {Range(nodes[n]) : n \in DOMAIN nodes}

AllStreaming == \A st \in Streams : st.state = "STREAMING"

(* The loop's variables have their types.                                     *)
TypeOK ==
  /\ DOMAIN nodes = Range(Order)
  /\ \A st \in Streams : st.state \in States /\ st.queued \subseteq 0..st.made-1
  /\ {pumps, edge, wants} \subseteq BOOLEAN
  /\ led \in [enabled : BOOLEAN, on : BOOLEAN]
  /\ fd_bits \subseteq {CAM_TO_ISP, ISP_TO_ENC, ENC_TO_UVC, UVC_EVENTS}
  /\ pc \in {"poll", "events", "start", "stop", "monitor", "unmonitor", "pumps", "exited"}
  /\ step \in 1..6
  /\ Range(events) \subseteq {"STREAMON", "STREAMOFF", "SETUP"}
  /\ faults \in 0..MaxFaults

(* Whenever pumpPump may run, all the streams it moves buffers between are    *)
(* streaming, in the program's eyes and in the driver's, after any mix of     *)
(* failed starts, failed stops and repeated events (main.c:353 "stream might  *)
(* have stopped already, but we'd still have lingering bits").                *)
PumpsOnLiveStreams ==
  pumps /\ pc # "stop" => AllStreaming /\ \A st \in Streams : st.on

(* pipelineStart creates pumps only where there are none: it never forgets    *)
(* one it has (main.c:243-245 assign without destroying).                     *)
NoPumpLeak == pc = "start" /\ step > 1 => ~pumps

(* The LED blinks just while there are pumps (main.c:283, 290) and is lit     *)
(* when it does not, through repeated, failed and overtaken starts and stops: *)
(* it shows the user whether the camera is watching.                          *)
LedShowsPumps ==
  pc \in {"poll", "events", "pumps"} => (led.enabled <=> pumps) /\ (pumps \/ led.on)

(* The pollinator's table and the epoll set agree through every start and     *)
(* stop.                                                                      *)
MonitorAgrees == TableAgrees(pol)

(* The table has the memory for its slots, and no more slots than there are   *)
(* descriptors: they are taken again through any number of starts and stops   *)
(* (array.h:52-64, pollinator.c:50-59).                                       *)
TableBounded == pol.fds.size <= pol.fds.capacity /\ pol.fds.size <= 5

(* Whenever the loop waits, the transfers are monitored, each with the bits   *)
(* of its pumps, just if there are pumps; the gadget's events always are.     *)
MonitorsPumps == pc = "poll" =>
  /\ DOMAIN pol.epoll = {UvcFd} \cup (IF pumps THEN {CamFd, IspInFd, IspOutFd, EncFd} ELSE {})
  /\ "EXCEPT" \in pol.epoll[UvcFd].events
  /\ pollinatorPoll(pol, {UvcFd}) = {UVC_EVENTS} \cup (IF pumps THEN {ENC_TO_UVC} ELSE {})
  /\ pumps => pollinatorPoll(pol, {EncFd}) = {ISP_TO_ENC, ENC_TO_UVC}

(* When the host stops asking, the pipeline ends up as the host last wanted   *)
(* it: running with every stream on, or stopped with every stream off, even   *)
(* when the driver had to drop events - unless an ioctl failed (main.c:       *)
(* 382-388).                                                                  *)
FollowsHost ==
  <>[](faults = 0 => pumps = wants /\ \A st \in Streams : st.on = wants)

(* The events the driver holds are all dequeued, again and again, unless an   *)
(* ioctl failed; and after each failure the program survives the next event   *)
(* of the host gets the loop going again, the events that were left behind    *)
(* included (UVC.c:788-811).                                                  *)
EventsHandled ==
  \A n \in 0..MaxFaults :
    faults = n /\ pc # "exited" /\ (n = 0 \/ edge) ~> events = << >> \/ faults > n
====================================================================================
