-------------------------------- MODULE UvcControl --------------------------------
(***************************************************************************)
(* The control pipe of the gadget (UVC.c): the host sends a request, the     *)
(* uvc-gadget driver queues it as a SETUP event, the program dispatches it   *)
(* and sends a response.  A request that the program stalls is explained by  *)
(* the error code control.  A SET_CUR goes on with a data phase: its data    *)
(* come as a DATA event of their own, which does not say what they are for.  *)
(* The host gives up on a request that is not answered in time.  The program *)
(* looks for events when epoll tells it to, once for each time there are new *)
(* ones.                                                                     *)
(***************************************************************************)
EXTENDS Sequences, FiniteSetsExt, Integers

CONSTANTS Asks,          \* the requests of the host: pairs of control and request
          MaxRequests,   \* bound: requests the host sends
          MaxTimeouts,   \* bound: requests the host gives up
          MaxFaults      \* bound: ioctls of the program that fail of themselves

ASSUME MaxRequestsAssumption == MaxRequests \in Nat
ASSUME MaxTimeoutsAssumption == MaxTimeouts \in Nat
ASSUME MaxFaultsAssumption == MaxFaults \in Nat

None == "None"

Gets == {"GET_CUR", "GET_MIN", "GET_DEF", "GET_MAX", "GET_RES"}

NO_ERROR == 0
INVALID_CONTROL == 6
INVALID_REQUEST == 7
NO_CONTROL == -1

(* default_dispatch_table: what each control can do.  GET_INFO of the         *)
(* brightness reports no capability either: nothing sets its v4l2 control.    *)
info_caps == [ErrorCode |-> {"GET"}, AeMode |-> {"GET"}, Brightness |-> {},
              Probe |-> {"GET", "SET"}, Commit |-> {"GET", "SET"}]

(* set_data *)
HasSetData == {"Brightness", "Probe", "Commit"}

VARIABLES
  asked,       \* host: the request it waits for, or None
  sent,        \* host: requests sent so far
  timeouts,    \* host: requests given up so far
  prevCode,    \* history: the error code of the request answered before `answer`
  answer,      \* host: the request answered last, with the response it got
  events,      \* driver: SETUP and DATA events not yet dequeued
  dropped,     \* driver: SETUP events dropped
  edge,        \* epoll: events were queued since it last reported the gadget
  loop,        \* the program waits in epoll, or is in uvcProcessEvents
  data_phase_control,  \* uvc->usb.data_phase_control
  bRequestErrorCode,   \* uvc->usb.bRequestErrorCode
  response,    \* the response about to be sent, or NoResponse
  faults,      \* ioctls that failed of themselves so far
  handed       \* history: the last call of set_data, with the control the data were sent to

hostVars == <<asked, sent, timeouts, prevCode, answer>>
driverVars == <<events, dropped, edge>>
usbVars == <<loop, data_phase_control, bRequestErrorCode, response, faults, handed>>
vars == <<hostVars, driverVars, usbVars>>

Nothing == [of |-> 0, control |-> None, request |-> None]
NoResponse == [of |-> 0, code |-> NO_ERROR, data |-> NO_ERROR]

Init ==
  /\ asked = Nothing /\ sent = 0 /\ timeouts = 0
  /\ prevCode = NO_ERROR
  /\ answer = [asked |-> Nothing, of |-> 0, code |-> NO_ERROR, data |-> NO_ERROR]
  /\ events = << >> /\ dropped = 0 /\ edge = FALSE /\ loop = "wait"
  /\ data_phase_control = None /\ bRequestErrorCode = NO_ERROR
  /\ response = NoResponse /\ faults = 0
  /\ handed = [to |-> None, from |-> None]

-----------------------------------------------------------------------------
(* The host and the driver *)

Idle == asked = Nothing

(* The driver keeps two events of each type and drops the oldest of the type  *)
(* for a third.                                                               *)
MaxOfType == 2

QueueEvent(e) ==
  LET Same == {i \in 1..Len(events) : events[i].type = e.type}
      full == Cardinality(Same) >= MaxOfType
  IN  /\ events' = Append(IF full THEN [i \in 1..Len(events)-1 |->
                                          IF i < Min(Same) THEN events[i] ELSE events[i + 1]]
                                  ELSE events, e)
      /\ dropped' = IF full /\ e.type = "SETUP" THEN dropped + 1 ELSE dropped
      /\ edge' = TRUE

(* A request aborts the one the host gave up, if any. *)
HostAsks ==
  /\ Idle
  /\ sent < MaxRequests
  /\ sent' = sent + 1
  /\ \E a \in Asks :
       LET req == [of |-> sent + 1, control |-> a[1], request |-> a[2]]
       IN  /\ asked' = req
           /\ QueueEvent([type |-> "SETUP", req |-> req])
  /\ UNCHANGED <<timeouts, prevCode, answer, usbVars>>

HostGivesUp ==
  /\ ~Idle
  /\ timeouts < MaxTimeouts
  /\ timeouts' = timeouts + 1
  /\ asked' = Nothing
  /\ UNCHANGED <<sent, prevCode, answer, driverVars, usbVars>>

(* The driver gives a response to whatever request the host waits for: one    *)
(* that is not a stall starts the data stage of a SET_CUR, whose data become  *)
(* an event.                                                                  *)
Receive(resp) ==
  /\ prevCode' = answer.code
  /\ answer' = [asked |-> asked, of |-> resp.of, code |-> resp.code, data |-> resp.data]
  /\ asked' = Nothing
  /\ IF asked.request = "SET_CUR" /\ resp.code = NO_ERROR
     THEN QueueEvent([type |-> "DATA", req |-> asked])
     ELSE UNCHANGED driverVars

-----------------------------------------------------------------------------
(* usbUvcDispatchRequest and the handlers of the table *)

(* The get handlers *)
get(control, request) ==
  CASE control = "ErrorCode" -> IF request = "GET_CUR" THEN NO_ERROR ELSE INVALID_REQUEST
    [] control = "AeMode" -> IF request \in {"GET_CUR", "GET_DEF", "GET_RES"}
                             THEN NO_ERROR ELSE INVALID_REQUEST
    [] control = "Brightness" -> INVALID_CONTROL
    [] OTHER -> NO_ERROR

usbUvcDispatchRequest(control, request) ==
  IF control \notin DOMAIN info_caps THEN NO_CONTROL
  ELSE CASE request \in {"GET_LEN", "GET_INFO"} -> NO_ERROR
         [] request = "SET_CUR" ->
              IF "SET" \in info_caps[control] THEN NO_ERROR ELSE INVALID_REQUEST
         [] request \in Gets ->
              IF "GET" \in info_caps[control] THEN get(control, request) ELSE INVALID_REQUEST
         [] OTHER -> INVALID_REQUEST

(* Mutant of ErrorCode: the dispatcher's own value is kept as an error code.  *)
ErrorCodeRaw(result) == result

(* bRequestErrorCode after a request *)
ErrorCode(result) == IF result = NO_CONTROL THEN INVALID_REQUEST ELSE result

-----------------------------------------------------------------------------
(* The program *)

(* The gadget's descriptor is edge-triggered.  *)
Poll ==
  /\ loop = "wait"
  /\ edge
  /\ edge' = FALSE
  /\ loop' = IF events = << >> THEN "wait" ELSE "events"
  /\ UNCHANGED <<hostVars, events, dropped, data_phase_control, bRequestErrorCode, response, faults, handed>>

EventsDone ==
  /\ loop = "events" /\ response = NoResponse
  /\ events = << >>
  /\ loop' = "wait"
  /\ UNCHANGED <<hostVars, driverVars, data_phase_control, bRequestErrorCode, response, faults, handed>>

(* VIDIOC_DQEVENT fails: the events stay queued, and epoll reported them.     *)
EventsFailed ==
  /\ loop = "events" /\ response = NoResponse
  /\ faults < MaxFaults
  /\ faults' = faults + 1
  /\ loop' = "wait"
  /\ UNCHANGED <<hostVars, driverVars, data_phase_control, bRequestErrorCode, response, handed>>

Event(type) ==
  /\ loop = "events" /\ response = NoResponse
  /\ events # << >> /\ Head(events).type = type

(* Mutant of processEventSetup: the data phase of a request before lives on. *)
processEventSetupKeepsPhase ==
  /\ Event("SETUP")
  /\ events' = Tail(events)
  /\ LET req == Head(events).req
         result == usbUvcDispatchRequest(req.control, req.request)
     IN  /\ data_phase_control' = IF req.request = "SET_CUR" /\ result = NO_ERROR
                                  THEN req.control ELSE data_phase_control
         /\ response' = [of |-> req.of, code |-> ErrorCode(result), data |-> bRequestErrorCode]
         /\ bRequestErrorCode' = ErrorCode(result)
  /\ UNCHANGED <<hostVars, dropped, edge, loop, faults, handed>>

(* Mutant of processEventSetup: a control that is not found leaves the code.  *)
processEventSetupKeepsCode ==
  /\ Event("SETUP")
  /\ events' = Tail(events)
  /\ LET req == Head(events).req
         result == usbUvcDispatchRequest(req.control, req.request)
     IN  /\ data_phase_control' = IF req.request = "SET_CUR" /\ result = NO_ERROR
                                  THEN req.control ELSE None
         /\ response' = [of |-> req.of, code |-> ErrorCode(result), data |-> bRequestErrorCode]
         /\ bRequestErrorCode' = IF result = NO_CONTROL THEN bRequestErrorCode ELSE result
  /\ UNCHANGED <<hostVars, dropped, edge, loop, faults, handed>>

(* Mutant of processEventSetup: a control that is not found is not answered.  *)
processEventSetupIgnores ==
  /\ Event("SETUP")
  /\ events' = Tail(events)
  /\ LET req == Head(events).req
         result == usbUvcDispatchRequest(req.control, req.request)
     IN  /\ data_phase_control' = IF req.request = "SET_CUR" /\ result = NO_ERROR
                                  THEN req.control ELSE None
         /\ response' = IF result = NO_CONTROL THEN NoResponse
                        ELSE [of |-> req.of, code |-> ErrorCode(result), data |-> bRequestErrorCode]
         /\ bRequestErrorCode' = ErrorCode(result)
  /\ UNCHANGED <<hostVars, dropped, edge, loop, faults, handed>>

(* A request ends the data phase of the one before, and a SET_CUR opens its   *)
(* own.  The response carries the error code control's value, which is the    *)
(* code of the request before; the other controls' values are left out.       *)
processEventSetup ==
  /\ Event("SETUP")
  /\ events' = Tail(events)
  /\ LET req == Head(events).req
         result == usbUvcDispatchRequest(req.control, req.request)
     IN  /\ data_phase_control' = IF req.request = "SET_CUR" /\ result = NO_ERROR
                                  THEN req.control ELSE None
         /\ response' = [of |-> req.of, code |-> ErrorCode(result), data |-> bRequestErrorCode]
         /\ bRequestErrorCode' = ErrorCode(result)
  /\ UNCHANGED <<hostVars, dropped, edge, loop, faults, handed>>

(* UVCIOC_SEND_RESPONSE.  When no request waits for it the response is lost,  *)
(* or fails, and uvcProcessEvents returns with the events behind it queued.   *)
SendResponse ==
  /\ response # NoResponse
  /\ IF Idle
     THEN loop' \in {"events", "wait"} /\ UNCHANGED <<hostVars, driverVars>>
     ELSE Receive(response) /\ UNCHANGED <<sent, timeouts, loop>>
  /\ response' = NoResponse
  /\ UNCHANGED <<data_phase_control, bRequestErrorCode, faults, handed>>

(* UVCIOC_SEND_RESPONSE fails though the host waits for it. *)
SendResponseFailed ==
  /\ response # NoResponse /\ ~Idle
  /\ faults < MaxFaults
  /\ faults' = faults + 1
  /\ response' = NoResponse
  /\ loop' = "wait"
  /\ UNCHANGED <<hostVars, driverVars, data_phase_control, bRequestErrorCode, handed>>

(* Mutant of processEventData: the data are answered as a request is. *)
processEventDataAnswers ==
  /\ Event("DATA")
  /\ events' = Tail(events)
  /\ handed' = IF data_phase_control \in HasSetData
               THEN [to |-> data_phase_control, from |-> Head(events).req.control]
               ELSE handed
  /\ data_phase_control' = None
  /\ response' = [of |-> Head(events).req.of, code |-> NO_ERROR, data |-> bRequestErrorCode]
  /\ UNCHANGED <<hostVars, dropped, edge, loop, bRequestErrorCode, faults>>

(* The data go to set_data of the control whose data phase is open, if any;   *)
(* a set_data that is missing or a closed phase is not fatal.                 *)
processEventData ==
  /\ Event("DATA")
  /\ events' = Tail(events)
  /\ handed' = IF data_phase_control \in HasSetData
               THEN [to |-> data_phase_control, from |-> Head(events).req.control]
               ELSE handed
  /\ data_phase_control' = None
  /\ UNCHANGED <<hostVars, dropped, edge, loop, bRequestErrorCode, response, faults>>

processEvent == processEventSetup \/ SendResponse \/ SendResponseFailed \/ processEventData
uvcProcessEvents == processEvent \/ EventsDone \/ EventsFailed

Next == HostAsks \/ HostGivesUp \/ Poll \/ uvcProcessEvents

(* The program's loop goes on.  *)
Spec == Init /\ [][Next]_vars /\ WF_vars(Poll \/ uvcProcessEvents)

-----------------------------------------------------------------------------
(* Properties *)

Requests == [of : 0..MaxRequests, control : {a[1] : a \in Asks} \cup {None},
             request : {a[2] : a \in Asks} \cup {None}]

(* The variables have their types, and the driver's queue its bound.          *)
TypeOK ==
  /\ asked \in Requests /\ answer.asked \in Requests
  /\ sent \in 0..MaxRequests /\ timeouts \in 0..MaxTimeouts /\ dropped \in 0..MaxRequests
  /\ Len(events) <= 2 * MaxOfType
  /\ \A i \in 1..Len(events) : events[i].type \in {"SETUP", "DATA"} /\ events[i].req \in Requests
  /\ edge \in BOOLEAN /\ loop \in {"wait", "events"}
  /\ data_phase_control \in DOMAIN info_caps \cup {None}
  /\ faults \in 0..MaxFaults
  /\ {bRequestErrorCode, prevCode, answer.code} \subseteq {NO_ERROR, INVALID_CONTROL, INVALID_REQUEST}

(* Data reach the control that they were sent to (UVC.c:320, 353, 653, 743),  *)
(* late responses and requests given up included, unless the driver had to    *)
(* drop a request.                                                            *)
DataReachesItsControl == dropped = 0 => handed.to = handed.from

(* A response says nothing of the request it is for, and answers what the    *)
(* host waits for (UVC.c:701).  It is for that request or one before, and the *)
(* program's answers never fall behind by more requests than the host gave    *)
(* up, whatever responses failed, data came in between and events were        *)
(* dropped: a patient host gets the answers to what it asked.                 *)
AnswersMatch == answer.asked.of - answer.of \in 0..timeouts

(* "Last request error code as per 4.2.1.2 of UVC 1.5 spec" (UVC.c:315): a    *)
(* host that reads the error code is told how its request before went, the    *)
(* stall of a control that does not exist included.                           *)
ErrorCodeTells ==
  timeouts = 0 /\ answer.asked.control = "ErrorCode" /\ answer.asked.request = "GET_CUR"
    => answer.data = prevCode

(* Request n is in the driver's queue, and epoll has yet to tell of it.        *)
Announced(n) ==
  edge /\ \E i \in 1..Len(events) : events[i].type = "SETUP" /\ events[i].req.of = n

(* Every request is answered, by a stall at least, also when the host gave up *)
(* earlier ones, whose responses failed and ended the loop over the events    *)
(* (UVC.c:806), when their events were dropped, or when ioctls failed before  *)
(* it came: it is excused only by an ioctl that fails while it waits.         *)
Answered ==
  \A n \in 1..MaxRequests, f \in 0..MaxFaults :
    asked.of = n /\ Announced(n) /\ faults = f ~> asked.of # n \/ faults > f
===================================================================================
