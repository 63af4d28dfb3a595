# malincam in TLA+

malincam turns a Raspberry Pi with a camera into a USB webcam. One thread moves
frames through four V4L2 devices,

    sensor --> camera --> ISP --> encoder --> USB gadget --> host
               (unicam)   bcm2835  JPEG       (uvc-gadget)

by passing dma-buf descriptors between them, and starts and stops this chain as
the USB host asks. The modules in this directory model that program: its buffer
carousel, the life of its streams, its event loop, the control requests of the
host and the start of the program. TLC checks them on small instances; TLAPS
proves, for every value of the constants, that the buffer carousel is safe and implements
what is promised of it, that the chain of pumps loses no wake-up and implements a channel
to the host, that streams, pumps, LED and the descriptors that are monitored agree through
whatever fails, that data, answers and error codes belong to the right request, and that the
start ends clean or ready for the event loop.

`PROJECT.json` maps every definition to the lines it models and every run to its
properties.

## 1. Inventory

### Components

| component | source | state it keeps | operations |
|---|---|---|---|
| pump | `pump.c` | `next_in_queue`, `acquired_to_source[]`, `available` | `pumpCreate`, `pumpPump`, `pumpDestroy` |
| array | `array.h` | items, `size`, `capacity` | init, append, resize, reserve |
| queue | `queue.c` | ring of slots, `front`, `size` | `queueInit`, `queuePush`, `queuePop`, `queuePeek` |
| stream | `device.c` | state, `buffers_count`, array of buffers; in the driver: buffers made, queued, done, streaming | prepare, start, stop, pull (DQBUF), push (QBUF) |
| sizes of a stream | `device.c` | `format`, `crop`, `compose`; in the driver: what it made of them | part of prepare |
| device, subdevice | `device.c`, `subdev.c` | descriptor, streams, controls, pads | open, query, set, close |
| device controls | `V4l2Control.c` | list of controls with a cached value | enumerate, get, set |
| node | `Node.c` | one or two streams | `nodeStart`, `nodeStop` |
| pollinator | `pollinator.c` | table of descriptors and callbacks, an epoll set beside it | monitor, forget, poll |
| pipeline | `main.c` | four nodes, three pumps, `fd_bits` | create, process (one turn of the loop), start, stop |
| gadget | `UVC.c` | `data_phase_control`, `bRequestErrorCode` | process events: SETUP, DATA, STREAMON, STREAMOFF |
| platform | `Pilatform.c` | - | open the camera, the ISP, the encoder |
| LED | `Led.c` | enabled, on | enable blinking, update |
| printing | `v4l2-print.c` | - | names and dumps, a third of the code |

### How they interact

There is one thread. `main` loops over `pipelineProcess`: wait in epoll, handle
the gadget's events, call each pump whose bit was set. The gadget's events call
back into `pipelineStart` and `pipelineStop`, which start and stop the nodes,
make and destroy pumps and register descriptors with the pollinator; the bits
that the wait returned are still in use after that.

What is concurrent is outside the program. Each driver fills or reads the
buffers it was given and finishes them at any time; the gadget's driver queues
events as the host acts, and drops some; the host gives up on a request that is
not answered. Everything the program learns, it learns from one ioctl at a time,
so that ioctls are the atomic steps of `Pump`, `Chain`, `Pipeline` and `UvcControl`.

### What is hard

* A buffer's memory is shared by two drivers. It must be in one place; which
  place that is, is kept in two index maps and two kernel queues that change one
  ioctl at a time.
* `available` is never empty: `queuePop` moves the front of the ring and does not
  count the item out. Why the pump still works is not written down anywhere (it
  is a round-robin counter, and drivers of this chain finish in order).
* Each ioctl may fail; some failures are undone, some are logged, some leave the
  rest of a start or of an event loop undone.
* epoll is edge-triggered: what a turn of the loop leaves in a driver, by an early
  return or because it came a moment later, is not reported again.
* The gadget's driver keeps two events of a type and drops the oldest; responses and
  data do not say what they are for.
* Nothing compares the sizes of two streams that a pump joins, and a driver may make
  another size of what it is asked for.

The hazards are listed with their lines in `PROJECT.json`.

### What makes each component correct

* pump: one holder for each buffer, a record of loans that is exact, no write
  into a buffer that is being read, frames in order and at most once, buffers
  lost only through failures, its ASSERTs never reached.
* array: an append keeps the items and has memory for the new one.
* stream: its state is the driver's state; its count fits its array; it can be
  started again.
* pipeline: pumps only over streams that stream; it ends up as the host wants;
  no event stays in the driver; frames go from the camera to the host in order, at
  most once, and each or a newer one arrives.
* pollinator: table and epoll set agree; what should be monitored is.
* gadget: data and error codes belong to the right request; each is answered.
* start: all or nothing for each node; what the event loop takes for granted.

## 2. The modules

| module | models | used by |
|---|---|---|
| `Queue` | `queue.c`, one operator for each function | `Pump` |
| `Pump` | `pump.c` with the two drivers it joins | `MCPump`, `PumpProofs` |
| `FrameRelay` | abstract: what a pump promises | refined by `Pump` |
| `PumpProofs` | theorems about `Pump` | |
| `Chain` | the three pumps, the loop of `main.c` that calls them and four devices | `MCChain`, `ChainProofs` |
| `ChainProofs` | theorems about `Chain` | |
| `FrameChannel` | abstract: what the running pipeline promises the host | refined by `Chain` |
| `Array` | `array.h`, operators | `Pollinator`, `ArrayProofs` |
| `ArrayProofs` | theorems about `Array` | `PipelineProofs` |
| `Outcomes` | an operation whose ioctls may fail, as the set of its outcomes | the next four |
| `DeviceStream` | the stream part of `device.c`, operators over a stream | `StreamClient`, `Node`, `Startup` |
| `Geometry` | the sizes of a stream in `device.c`, operators | `Startup` |
| `StreamClient` | any sequence of calls on a stream | `MCStreamClient`, `StreamProofs` |
| `StreamLemmas` | what each operation of `DeviceStream` keeps | `StreamProofs`, `PipelineProofs`, `StartupProofs` |
| `StreamProofs` | theorems about `StreamClient` | |
| `Node`, `Pollinator`, `Led` | `Node.c`, `pollinator.c`, `Led.c`, operators | `Pipeline` |
| `Pipeline` | `main.c` with host and event queue; composes the three above and `DeviceStream` | `MCPipeline`, `PipelineProofs` |
| `PipelineProofs` | theorems about `Pipeline` | |
| `UvcControl` | control requests of `UVC.c` with host and driver | `MCUvcControl`, `UvcControlProofs` |
| `UvcControlProofs` | theorems about `UvcControl` | |
| `V4l2Control`, `PassTable` | `V4l2Control.c`, the table of `pump.c`, operators | `Startup` |
| `Startup` | `pipelineCreate` and all it opens | `MCStartup`, `StartupProofs` |
| `StartupProofs` | theorems about `Startup` | |

A component that is called by others is a module of operators over a record;
`Pump`, `StreamClient`, `Pipeline` and `Startup` give them a life.

### Pump

Variables are the pump's own (`nextInQueue`, `acquired`, `available`, `pulled` for
the local `buf`, and `pc` for the next ioctl), the drivers' queues (`srcQ` and
`dstQ` in queue order, of which the first `srcDone` and `dstDone` await DQBUF) and
a history of frame numbers. `attached` says which source buffer a destination
buffer last imported: it is what the destination's driver really reads, whatever
the pump's own map says.

Each of the three loops of `pumpPump` becomes the actions between two ioctls:
`PullDst`, `ReturnSource`, `ReturnSourceFailed`; `PullSrcFirst`, `PullSrcNewer`,
`SkipOlder`, `SkipFailed`; `PassNothing`, `Pass`, `PassFailed`. A DQBUF may find
nothing at any time (`PullDstNone`, `PullSrcNone`), because of EAGAIN or of an
error, which the code treats alike. A QBUF of a buffer that the driver has is
refused; any other fails only as an injected fault. `Call` may come at any time:
the event loop calls a pump more often than there is something to do.

A pump begins with `pumpCreate`, which pushes every destination buffer on
`available`, one by one, while the drivers already work; the rest waits for it.

`FrameRelay` forgets ioctls, maps and rings: a buffer is empty, full, in the relay
or in the sink, and a frame is given up only for a newer one. The refinement
mapping (`place` in `Pump`) derives a buffer's place from the drivers' queues
alone, not from the pump's maps, so that a map that goes wrong shows.

### Chain

Three pumps in a row are too many buffers to follow one by one. `Chain` counts them
and follows frames: for each pump, how many buffers of the source are free, which
frames are filled, which ones the destination has still to read, how many read
buffers await DQBUF. Counting loses nothing as long as the destination's driver
finishes in order, since the buffer that the pump takes next is then the one that has
been out longest (`TargetFree` in `PumpProofs`); it is in the driver just if all are.

Each action is a DQBUF with the QBUF that answers it, or the DQBUF that ends a loop,
which finds nothing or fails: `Reclaim`, `ReclaimEnd`, `Collect`, `CollectEnd`, `Pass`,
`PassNot` for the three loops of `pumpPump`. That a failing `epoll_wait` ends the program is
left to `Pipeline`. `Proceed` takes the pumps whose bits are
set in the order of `main.c:354-381`. A device that finishes a buffer, at any moment,
makes epoll look at its descriptor (`ready`); `Poll` reports those that really have a
buffer, turns them into bits (`Bits`: the encoder's descriptor wakes two pumps) and
forgets the rest. Among the events the host may stop and start the stream: the drivers
then drop all buffers, new pumps hold none, and `fd_bits` still has what was reported
before (`Restart`, `Monitor`).

`FrameChannel` forgets pumps and devices: frames are under way, and the oldest reaches
the host unless it is skipped for a newer one.

### Array and Pollinator

An array has as many slots as memory was allocated for: a write beyond them is not kept,
so that a growth that is too small shows as a slot that does not read back. The
pollinator's table is such an array, of items of 32 bytes; its growth at 1, 2 and 3 slots
is the corner where half as much again is nothing.

### DeviceStream, Node, Pipeline

A stream is a record of the program's fields (`state`, `count`, `alloc`) and of
the driver's (`made`, `queued`, `on`). Each operation is the set of its outcomes,
one for each ioctl that may fail. A node applies an operation to both of its ends,
with the undo of a failed start.

`Pipeline` takes one step for each node that is started or stopped, for each event
and for each registration with epoll; between any two of them the host may queue an
event. The edge that epoll owes (`edge`) is set by an event and by a change of the
gadget's registration, and taken by `Poll`. A failing `epoll_wait` ends the program
(`PollFailed`, `Exited`), a failing VIDIOC_DQEVENT the loop over the events
(`EventsFailed`). What the pumps move is the subject of `Pump`
and `Chain`: here they exist or not.

### UvcControl

A request is a number with a control and a request code. The host asks, waits and may
give up; the driver queues SETUP and DATA events, two of each at most, and hands a
response to whichever request waits. `processEventSetup` and `SendResponse` are the
two sides of the ioctl of `UVC.c:701`, between which the host may give up. The program
looks at its events when epoll says so (`Poll`), handles them until none is left
(`EventsDone`), or leaves early because a response had nobody waiting for it or because an
ioctl failed (`EventsFailed`, `SendResponseFailed`). The driver
passes on class requests only, so that the check of the request's type (`UVC.c:660`) never
fires. Values are left out, except the error code's.

### Startup

The calls of the four open functions are data (`Calls`), and an action handles each
kind of call, on streams (`DeviceStream`) and controls (`V4l2Control`). Drivers
differ: they have the streams that are wanted, with one plane or several, or not; their
controls are there or not, readable or not, settable or not, wide enough or not; they can
crop and compose or not, and round sizes. The sensor's pad is read when it is opened, and
where that fails it is left to chance which pad its format is set for (`FormatPad`).

`Geometry` adds what preparing does to sizes, each told by its number of lines: the format
asked for is rounded by the driver, the crop and the compose rectangle are set and read
back, and what fails of that changes nothing and is not noticed. It is kept apart from
`DeviceStream` because only the start depends on it.

## 3. The runs

| run | question | bounds | expected |
|---|---|---|---|
| `pump_fifo` | is the carousel safe with the configuration of the program, and a relay of frames? | 3+3 buffers, 6 frames, 2 failed QBUFs, destination in order | pass |
| `pump_bigsource` | is `available` a queue of empty buffers? | 3+2 buffers, 4 frames | violation |
| `pump_outstanding` | is the outstanding frame always the newest one dequeued? | 3+3 buffers, 4 frames, 1 failed QBUF | violation |
| `chain_flow` | are the three pumps a channel to the host, and does it flow? | 2 buffers for each stream, 3 frames, 1 failed ioctl, 1 restart | pass |
| `chain_stalled` | does the camera always go on? | 3 buffers, 4 frames, 1 failed ioctl | violation |
| `stream_calls` | does a stream survive any sequence of calls? | 3 buffers asked for, 3 or 4 granted, 2 failures | pass |
| `stream_short` | and if the driver grants fewer? | 2 to 4 granted | violation |
| `pipeline_host` | does the event loop follow the host? | 6 host events, 1 failure, 1 buffer for each stream | pass |
| `uvc_control` | are requests, data and error codes matched, and answered? | 4 requests, 2 timeouts, 1 failed ioctl | pass |
| `startup_open` | does the start end clean or ready? | 2 failures, 2 buffers asked for and 3 granted, 1 to 3 kinds of each device | pass |
| `startup_range` | are values out of range refused? | no failure | violation |

The bounds. In `pump_fifo` six frames are twice the buffers of a source, so that every
buffer is written, read, returned and written again while an older one is still out; two
faults let one recover from (or compound) the other. In `chain_flow` two buffers are the
least with which a pump holds one while another is in a driver; three frames are one more,
so that a pump meets two at once and gives one up. In `chain_stalled` the camera has three
buffers, as in the program, and a fourth frame is the one it has no buffer for. Four
toggles overflow the driver's two events of a type, and six events leave room for requests
between them. Four requests and two timeouts are enough for a late response to meet the
next request, for one SETUP event to be dropped and for a late response to leave events
behind; the failed ioctl may be any DQEVENT or a response that the host waits for. In `Pipeline` one buffer stands for three, since only whether buffers are left
queued matters there. The drivers of `startup_open` grant more buffers than asked for, as
they may; the program takes what it gets. Deadlock is checked except in `uvc_control`,
where the host may stop asking, and in the two runs of `Startup`, which ends.

### What the violations show

* `pump_bigsource`: `available` never runs empty (`queue.c:48`), though `pump.h:22`
  calls it the available empty buffers. With more source than destination buffers
  the pump queues a buffer that the destination has. The configuration of the
  program (3 and 3) hides it; the proofs say under which condition it stays hidden.
  The same root shows in `queueGetSize`, which is not the number of items that
  `queue.h:14` promises; and a full queue returns a positive `ENOMEM` where
  `queue.h:23` promises a negative number.
* `pump_outstanding`: a newer frame takes the place of the one that waits only after that
  one's buffer is back at the source (`pump.c:254-275`). When this QBUF fails, the newer
  frame's buffer is forgotten, and the older frame is passed on by a later call.
* `chain_stalled`: an ioctl of a pump that fails makes it return, or end its loop, before
  the drivers have no finished buffer left. If they finish no other, epoll stays silent and
  the loop waits for ever with the camera out of buffers, though every device is able and
  the host reads on; only a restart by the host helps.
* `stream_short`: preparing a stream again overwrites `buffers_count` before the
  request is refused, so that after a smaller grant it exceeds the array.
* `startup_range`: `v4l2ControlSet` checks no range and caches what was asked for.

### Conditions on properties that hold

`FollowsHost` is conditional on no ioctl having failed: the program has no retry.
`EventsHandled` says that the events are all dequeued again and again, and after a failure
that the program survives as soon as the host causes another event: a failed response or a
failed VIDIOC_DQEVENT leaves the loop over the events early, and edge-triggered epoll does
not report what stays behind. `Answered` is conditional in the same way: an ioctl that fails
while a request waits may leave it without an answer, but not a request that comes later.
`NoLostWakeup` and `Freshness` are conditional on no ioctl having failed since the last
restart, which is the point of `chain_stalled`. `StartableUnlessSpoilt` leaves out capture
streams one of whose starts failed: their buffers are queued before STREAMON, stay queued
in state PREPARED when that or one of the QBUFs fails, where a stop does nothing, and the
next start is refused; no other failure leads there.
`CacheTruthful` allows the driver's value to be the cached one moved into the control's
range, which is what `v4l2ControlSet` leaves behind (`startup_range`).
`DataReachesItsControl` holds unless the driver dropped a SETUP event; with two timeouts in
a row it may, and then data do reach another control. `AnswersMatch` allows an answer to be
late by as many requests as were given up; `ErrorCodeTells` is for a host that waits: after
a timeout the interface gives the program no way to tell. `PassTargetFree` needs a
destination that finishes in order and has as many buffers as the source. `SizesAgree` is
for a start without failing ioctls on an ISP that can crop its input to the size the
encoder can do; on one that cannot, or after a selection that failed unnoticed, the
encoder is given frames of another size. `FlipsTogether` too is for a start without failing
ioctls, and `ReadyForPipeline` expects the sensor's format only where its pad was read.

### Fairness

`Pipeline`: weak fairness of the loop as a whole (`WF_vars(pipelineProcess)`): the
thread runs until it exits, each ioctl returns, and `epoll_wait` has a timeout of 5 s. Nothing is
assumed of the host, which may stop at any time. `UvcControl`: weak fairness of the loop
over the events and of the wait that an edge ends. `Chain`: weak fairness of the loop, and
of each device: it works on as long as it has buffers (the camera streams by itself, the
codecs are given jobs by their queues), and the host reads on; no fairness of restarts.
`Pump` and the others have safety properties only.

## 4. What is proved

`PumpProofs`, for any numbers of buffers, frames and faults, from the
assumptions that `Pump` names (`SrcCount` and `DstCount` positive, bounds natural):

| theorem | statement |
|---|---|
| `TypeCorrect` | `Spec => []TypeOK` |
| `CustodyHolds` | `Spec => []OneHolder` |
| `LoansKept` | `Spec => []LoansRecorded` |
| `AssertsNeverFail` | `Spec => []AssertsHold`, the ASSERTs of `pump.c:233` and `305` |
| `NeverTorn` | `Spec => NoTearing`, in any order of completion |
| `LossBounded` | `Spec => []LossOnlyByFault` |
| `TargetFree` | with `InOrder` and `SrcCount <= DstCount`: `Spec => []PassTargetFree` |
| `RelayImplemented` | `Spec => RelaySpec`: the pump implements `FrameRelay` |

All but `TargetFree` hold in whatever order the destination finishes its buffers and for
any two numbers of buffers, so that no run repeats them with another configuration. With
them goes `ArrayProofs.AppendKeeps`: appending to an array of any size and capacity, of items
of any size, keeps the items and finds memory for the new one (`Grows`: the capacity really
grows, also from 1).

The argument. `TypeOK` is inductive with the fact that `available` stays full and only
its front moves. `OneHolder` and `LoansRecorded` are not inductive alone and are proved
together (`Custody`): that a buffer returned to the source is nowhere else needs the
loans to be exact, and that a loan is exact needs the buffer dequeued to have been in
the destination's queue once. `NoTearing` follows from them: the source writes only into
buffers in its queue, and what the destination reads is on loan. For `LossOnlyByFault`
the set of lost buffers grows by at most one element in the two steps that count a fault,
or that cannot happen since the buffer would be in the driver's queue already.
`TargetFree` needs a further invariant: in order, the destination's queue is a run of
consecutive indices (modulo `DstCount`) that ends just before the front of `available`;
were the buffer at the front in it, the run would have all `DstCount` buffers, each with
a different source buffer on loan, and the pump would hold one more.
`RelayImplemented` needs the frames to be in order (`OrderInv`): what waits is newer than
what was passed, what the pump holds is older than what the driver has, and the driver has
it in the order of capture. A step then moves one buffer between the places of `FrameRelay`,
or none; that a returned buffer was in the relay's sink follows from `Custody`.

### The chain

`ChainProofs`, for any numbers of buffers, frames, failing ioctls and restarts:

| theorem | statement |
|---|---|
| `ChainTypeOK` | `Spec => []TypeOK`: buffers are lost by failed ioctls only |
| `WakeUpsKept` | `Spec => []NoLostWakeup` |
| `ChannelImplemented` | `Spec => ChannelSpec`: `Chain` implements `FrameChannel` |

`NoLostWakeup` speaks of the moment the loop waits; the invariant says why it holds then.
Whatever awaits DQBUF will be dequeued before the loop waits again, or epoll will look at its
descriptor (`Awake`): the pump is one that still has to run in this turn, or it is in a stage
before the loop over that queue (`WillRun`), or the descriptor is in `ready`. Each pump empties
a queue before it leaves its stage; a buffer that is finished after that sets its descriptor
in `ready` anew; `Poll` turns `ready` into bits, of which every descriptor has those of the
pumps at its ends (`Descriptors`). That a pump never keeps a frame needs the count of
buffers (`Counts`): with a frame at the pump, the destination lacks one of as many buffers,
so that the frame can be passed.

For `ChannelImplemented` the frames stand in a line of twelve places, four for each pump: the
source's driver, the pump, the destination's driver, the device, which is the host's at the
end (`Line`). The invariant is that a frame farther along is older, across places (`Ordered`)
and within the queues (`Increasing`), and none is newer than the last captured. Every step
moves the oldest frame of one place to the next (`Moves`), lets one enter or takes some away;
three lemmas keep the order (`MoveOrdered`, `EnterOrdered`, `FewerOrdered`). A frame in two
places would have to be older than itself (`OnePlace`), so that what leaves a place is under
way no more, and what the host gets is the oldest of all and newer than its last. No wake-up
matters for it: beside the order the theorem needs only the types.

### Streams and the pipeline

`StreamProofs` and `PipelineProofs`, for any number of buffers asked for and any grants of the
drivers, any sequence of calls or host events and any number of failing ioctls. `Enough` says
that the driver grants at least as many buffers as it is asked for; without it `stream_short`
shows `CountWithinArray` violated.

| theorem | statement |
|---|---|
| `StreamTypeOK`, `StreamStateAgrees` | `Spec => []TypeOK`, `Spec => []StateAgrees` |
| `CountFits` | `Enough => (Spec => []CountWithinArray)` |
| `Startable` | `Enough => (Spec => []StartableUnlessSpoilt)` |
| `PumpsMoveLiveStreams` | `Spec => []PumpsOnLiveStreams` |
| `PumpsNeverLeak` | `Spec => []NoPumpLeak` |
| `LedTellsTheUser` | `Spec => []LedShowsPumps` |
| `PipelineTypeOK` | `Spec => []TypeOK` |
| `TableAgreesWithEpoll` | `Spec => []MonitorAgrees` |
| `TableStaysSmall` | `Spec => []TableBounded` |
| `LoopListens` | `Spec => []MonitorsPumps` |

The argument. Program and driver reach a small set of states together (`Coherent`), which every
outcome of every operation keeps, the failing ones included (`StreamLemmas`, one lemma for each
operation). A node's undo keeps it for both of its ends. For the pipeline it has to be known
besides where a start or a stop stands: nodes before the one that is at hand have been
started or stopped, and pumps exist only while all four stream (`PumpsFit`); the LED
is switched in the same step as the pumps (`LedFits`).

For the pollinator the invariant is that table and epoll set point at each other (`Linked`):
an entry of the set has the index of the slot with its descriptor, a slot that is taken has
an entry. `TableBounded` follows from it, though nothing in `pollinator.c` bounds the table:
the slots that are taken hold different descriptors, of which the program has five, so that a
sixth slot is never added (`RoomLeft`). A slot that was added or
taken again is the one read back, by the lemmas of `ArrayProofs`. `MonitorsPumps` is about the
moments between starts and stops; the invariant says of each descriptor what it is monitored
for while the five registrations are made one by one (`EntriesFit`): those before `step` as the
new mode wants them, those from `step` on as the old one left them. A registration changes its own
descriptor only (`MonitorLeaves`).

### Requests of the host

`UvcControlProofs`, for any numbers of requests, of timeouts and of failing ioctls
(`MaxRequests`, `MaxTimeouts`, `MaxFaults` natural):

| theorem | statement |
|---|---|
| `UvcTypeOK` | `Spec => []TypeOK` |
| `DataRightlyTaken` | `Spec => []DataReachesItsControl` |
| `AnswersAreTheirs` | `Spec => []AnswersMatch` |
| `ErrorCodeIsTold` | `Spec => []ErrorCodeTells` |

None of the three is inductive, since a request leaves traces in the driver's queue, in the
program and in the answer that is under way. The invariant follows them there. `TwoOfType`: the
queue never has three events of a type. `Numbered`: the requests that are still to be answered
are in the order in which they were sent, the response in progress before the events in the
queue, and none is older than the number of timeouts explains; an answer that arrives is then
as late as `AnswersMatch` allows. `Told`: until the first timeout the code that the program
keeps is that of the last answer, also between the two sides of the ioctl of `UVC.c:701`,
unless that ioctl failed and the host waits for ever (`Stuck`).
`Phases`: as long as no SETUP was dropped, the last SETUP before data in the queue, or the
control the program remembers if there is none, is that of the request the data belong to
(`Follows`); a timeout leaves old data behind, and a new SETUP behind those.

### The start

`StartupProofs`, for any kinds of devices and drivers (`Capabilities`, `Hardware`, `Drivers`),
any grants of buffers and any number of failing ioctls. `DriversAssumption` gives the controls of
a driver the fields of `struct v4l2_query_ext_ctrl`; the other assumptions are that numbers are
natural and that at least one buffer is asked for and granted.

| theorem | statement |
|---|---|
| `StartupTypeOK` | `Spec => []TypeOK` |
| `FailuresClose` | `Spec => []FailedOpenCloses` |
| `CachesAreTruthful` | `Spec => []CacheTruthful` |
| `PipelineReady` | `Spec => []ReadyForPipeline` |
| `PumpsFit` | `SizesSuit => (Spec => []SizesAgree)` |
| `PictureIsTurned` | `FlipsAlike => (Spec => []FlipsTogether)` |

The argument. The calls of the four open functions stand in a line, and the invariant is about
which of them were made (`Past`). A device is opened by one call (`OpenedAt`) and a stream
prepared by at most one (`PreparedAt`), so that what is open is what was passed, unless the
node has failed and closed what it had (`Files`); a stream whose call was passed can be started, with
the memory a pump needs, and any other is as `streamInit` made it (`EndsFit`). That a pass function
is there follows from the kinds of memory alone: the table has an entry for one plane and
for several at each end. Controls are truthful from the moment they are enumerated
(`ControlsFit`), as a set caches what it set only when the driver took it.

The last two are about drivers as much as about the program, which compares no sizes and sets a
flip without asking whether it can. `SizesSuit`: the camera and the ISP's input can do
990 lines, the ISP's output and the encoder 976 (each a multiple of what the driver
rounds to), and the ISP can crop or compose. `FlipsAlike`: a sensor that has both flips can set both
to 1 and starts with both alike. TLC finds them true of the drivers of `startup_open`; with a camera
that rounds its 990 lines to a multiple of 16 the sizes do differ. The invariants are `Sized`, which
says of each prepared stream that it has its size and of others that they have none
yet, and `FlipsFit`, by which the flips differ only between the two calls that set them.

### Only model-checked

Each safety invariant and each action property of a passing run is a theorem, and so are both
refinements. Liveness (`FollowsHost`, `EventsHandled`, `Answered`, `Freshness`) under fairness
and all that needs ENABLED is out of the prover's reach; so is induction over data, and with it
what a recursive definition computes: no module that is proved about declares a RECURSIVE
operator.

## 5. What is not modelled, and why

* `v4l2-print.c`, the names in `UVC.c`: output, a third of the code, without state. The
  macros of `common.h`; its ASSERTs are properties of `Pump`.
* Pixel formats, widths, planes beyond "one or several", values of controls reported to
  the host: data that no property tells apart. Three flaws lie there and are listed as
  hazards: planes compared with themselves (`pump.c:156`), planes exported from plane 0
  (`device.c:313`), a pointer to a dead stack frame (`device.c:440`). The format lists that
  `deviceStreamQueryFormats` collects are read by nobody.
* `pipelineDestroy`, `nodeDestroy`, `pollinatorDestroy`, `queueFinalize`: never reached,
  `pipelineProcess` returns 0 or exits. Descriptors and memory of dma-bufs at the end of the
  program. The code under `TEST_UVC_ONLY` and `#if 0`.
* Writes to the LED's files in sysfs, whose failures are logged.
* `gadget.sh`, the kernel's drivers beyond what the code relies on. Those parts are marked
  external in the map: the vb2 queues, the event queue of v4l2, the clamping of controls,
  the devices of `Chain`.

## 6. Plan

Done: array, queue, pump, abstract relay and the proof that the pump implements it; the chain
of pumps and its abstract channel; stream and its sizes; node, pollinator, LED, pipeline;
gadget requests; controls and start. The safety properties of all of them are proved.

Left, in this order:

1. The request path of `UvcControl` inside `Pipeline`, so that the early return of
   `uvcProcessEvents` and late responses meet starts and stops.
2. An abstract specification of the event loop (the host's wish, the pumps, the loss of an
   event) that `Pipeline` implements, with its proof.
