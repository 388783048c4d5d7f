# The X30 gateway and its console in TLA+

This directory holds a model of the gateway that drives the X30 quadruped, and of the console the
operator drives it with: what the threads of the one, and the timers, posted calls and messages of
the other, may do to each other.  It is checked with TLC and, where the statement matters for every
number of clients, loads, gaits, streams or messages, proved with TLAPS.  All paths below are relative
to `src/`.

1. [The system](#1-the-system)
2. [Inventory: components, state, hazards, properties](#2-inventory)
3. [Modules and how they correspond to the code](#3-modules)
4. [Runs: questions, bounds, answers](#4-runs)
5. [Fairness](#5-fairness)
6. [Proofs](#6-proofs)
7. [Where the code disagrees with its documents](#7-where-the-code-disagrees-with-its-documents)
8. [What is not modelled](#8-what-is-not-modelled)
9. [Plan](#9-plan)

## 1. The system

`rk3588/` is one C++ process, `x30_gateway`, on a computer on the robot's back.  Downwards it
talks UDP to the motion host (43897/43893), UDP to the gas box and the lamp board, TCP to the
body monitor, to the water cannon and to a ROS master, and HTTP to a camera.  Upwards it serves
a web console and a WebSocket to any number of tablets and browsers (`web/`, and the same page
inside `android-app/`).  The tablet can also drive the robot past the gateway over its own radio.

The page exists twice, as `web/` and as `android-app/app/src/main/assets/web/`: byte for byte the same
files, copied by the `copyWebAssets` task (`android-app/app/build.gradle:34`).  A browser loads the one
from the gateway, the App the other from its assets.  A definition of the model stands for the same
passage of both; `PROJECT.json` names one of the two for each.

Who runs concurrently in the gateway:

| thread | code | does |
| --- | --- | --- |
| one per connection | `WsServer::SessionLoop` → `RobotService::OnConnect/OnMessage/OnDisconnect` | every command of a client, to the end, including the replies and broadcasts it causes |
| `StateLoop`, 10 Hz | `robot_service.cpp:1504` | pushes state, expires the lease |
| `TxLoop`, 50 Hz | `motion_client.cpp:130` | heartbeats, toggles that are due, velocity frames |
| receive threads | `HandleDatagram`, `ApplyRosBasicState`, `ApplyBodyMonitor` | telemetry of three channels |
| `WorkerLoop` | `gait_coordinator.cpp:76` | one gait switch at a time, seconds long |
| `PayloadSwitch::Worker` | `payload_switch.cpp:184` | one load at a time |
| others | PTZ, cannon, cloud, ROS, gas, terrain | see the inventory |

They share state under a mutex per component (`control_mutex_`, `state_mutex_`, `axis_mutex_`,
`mutex_` of the registry, of the coordinator and of the switch) and never hold one while calling
into another component or writing to a socket.  That keeps them from deadlocking on each other,
and it makes every handler a *sequence* of critical sections with gaps between them.  The gaps are
what the gateway's modules are about: a unit test runs a handler as if it were atomic.

The page is one JavaScript thread.  Its handlers *are* atomic; what interleaves is everything they leave
behind: timers (20 Hz control loop, 100 ms claim, 280 ms flush, 9 s menu, animation frames),
promises, messages on a socket that drops, scripts the App posts into the page, calls the page posts to
threads of the App (`RadioLink`, the UI thread with `NativeVideo`, the queue of `CameraCgi`).  Several parties
keep a copy of the same fact (who holds control, which path is used, whether the dog stands, which
gait it has, whether the stick is pushed) and refresh it at different times.  The console's modules are
about those copies.

## 2. Inventory

Each entry names state, operations, interactions, what is hard, and what must hold.

**RobotService, the control lease** (`robot_service.cpp`).
State: `controller_`, `lease_expiry_`.  Operations: `TryClaim`, `ReleaseControl` (yield,
disconnect), `TouchLease` (every message), `HoldsControl` (every command), expiry in `StateLoop`
and in `OnConnect`.  Interacts with MotionClient (`SetCommanding`, `ReleaseAxes`) after unlocking,
and with all clients through hello, replies and the control broadcast.  Hard: a holder may vanish
without closing its connection; a claim may come between a release and its consequences.
Must hold: exclusivity; a velocity ends with the control it was sent under; the gateway falls
silent when nobody is left; the holder is heard; clients are told who holds control.

**MotionClient** (`motion_client.cpp`).  State: `stepping_`, `step_sent_`, `step_at_`,
`motion_phase_`, `sit_at_`, `last_stand_sit_`, `motion_command_at_`, `commanding_`, the axes and their
deadline.  Operations: the commands, `SetVelocity`, `AdoptPosture`, `SetCommanding`, `TxLoop`, reports.
Hard: standing/sitting and marching/stopping are *toggles* on the wire, telemetry is late and
contradictory, so the memory must be right.  Must hold: the fields of the memory agree; no
velocity without a march; a report of standstill does not end a march; a start and a sit are resolved.
(That a late report does not revive a march just stopped does not hold: section 7.)

**GaitCoordinator** (`gait_coordinator.cpp`).  State: `pending_*`, `queued_*`, `apply_queued_requested_`,
`busy_` (an atomic outside the mutex).  Operations: `Request`, `ApplyQueuedWhenWalking`, `ClearQueued`,
`WorkerLoop`/`Execute`.  Hard: the slot, the queue and `busy_` are handed between three kinds of thread
with two windows in which `busy_` says too little.  Must hold: no accepted request is displaced or left
unanswered; a gait written down and asked for again is not forgotten; a standing robot gets no gait.

**MediaRegistry and media plans** (`media_registry.cpp`, `SendMediaPlan` in `robot_service.cpp`).  State: what each
client decodes and selected, `full_holder_`.  Operations: `media_caps`, `media_select`, `media_plan`,
connect, disconnect.  Hard: a plan is built under the mutex and sent after it by any session thread.
Must hold: the slot is never held by somebody gone nor snatched; everybody hears of a new holder;
only one client pulls the full-rate stream.

**PayloadSwitch** (`payload_switch.cpp`).  State: the job, each load's status, the mailbox `last_ack_`,
the lamp socket's buffer.  Hard: bursts of repeated frames, and answers that are lost, late or
surplus.  Must hold: one busy load, each request reported, the status shown is true.

**WsServer** (`ws_server.cpp`).  State: `clients_`, session threads.  Its part in the lease and the
plans (who receives what, removal before `OnDisconnect`) is in those modules.  Hard besides: session
threads that have ended stay joinable and are not reclaimed (`ws_server.cpp:372`).

**CloudBridge** (`cloud_bridge.cpp`): subscribers per client, a supervisor that starts and stops the
ROS node, two topic threads that share a parse and an encode buffer, the switch from the body to the
registered cloud.  Its subscribers are modelled as the console sees them.  Must hold: the node runs iff somebody subscribes; no frame is mixed from two clouds;
a dead registered topic gives way to the body cloud.

**CannonClient / CannonRelay** (`cannon_client.cpp`): one TCP connection that the device grants to one peer;
wanted state, age of the wish, the relay of a tablet.  Must hold: a stop reaches the cannon; stale wishes
are not sent; relay and loop do not interleave bytes.

**PtzClient** (`ptz_client.cpp`): latest wish, last sent, `sent_stop`.  Must hold: after the operator lets go
the camera stops, although requests get lost.

**RosClient, XML-RPC** (`ros_client.cpp`, `xmlrpc.cpp`): a thread per topic, reconnects, one `connected_` flag.

**BodyMonitor, TerrainClient, GasClient/UWB, Localiser, PointCloud, GatewayConfig, JSON/protocol/UDP**: polling,
fire-and-forget requests, a bounded tag table, numerical code, text and byte conversions.

**Console: paths and control** (`web/app.js`, `ControlActivity.java`, `GatewayStore`).  State: `radioPath` and the App's
stored path, `holder`, `radioAcquirePending`, `meshAcquirePending`, RadioLink's queue of posted calls, the UI thread's.
Operations: the path button, `adoptRadioPath`, `waitRadioReleased`, `finishRadioAcquire`, `requestControl`, hello and
control messages, the loop's `syncNativeRadioPath`.  Hard: the path is kept twice and switched faster than
the hand-over ends; answers are lost with connections.  Must hold: on MESH the radio falls silent;
control comes back; 2.4G comes up; the two heartbeats do not overlap.

**Console: posture** (`web/app.js`, `RadioLink.java`, `robot_service.cpp`).  State: three memories of whether the dog
stands (gateway, RadioLink, page), the lock, the hand-over value `poseHandoff`.  Hard: one toggle stands the
dog up, lays it down and unloads it, and telemetry lies after standing up.  Must hold: no key does the
opposite of what it says; the button comes to tell the truth.

**Console: point cloud** (`web/cloud.js`).  State: `wanted`, `subscribed`; the voxels, the frame they are in, floors and
trail.  Hard: a socket that drops, frames that come late, other consoles, changes of the odometry source.
Must hold: an unsubscribed page costs no bandwidth; a shown cloud flows; the map is of one frame.

**Console: gait menu** (`web/app.js`).  State: `gait`, `gaitBefore`, `gaitPending`, `meshGaitSeen`.  Hard: it shows a choice before it
is true, and results, telemetry and timers correct it.  Must hold: it comes to tell the truth.

**Console: sticks** (`web/gamepad.js`, `G20Rc.java`, `RadioLink.java`).  State: the channels at each stage.  Must hold: a
dog whose operator has let go is told to stop.

**Console: pictures** (`web/media.js`, `web/dogcam24.js`, `web/ptzball.js`, `NativeVideo.java`, `CameraCgi.java`).  State: the pulls of a
tile; what the App's player was asked for; what the ball was told last.  Must hold: tile and player show the
view that is selected; the ball stops when its stick is let go; the gateway knows what a console can decode, and
nobody keeps the full-rate slot for a picture that does not need it.

**Console: cannon** (`web/app.js`, `ControlActivity.java`, `CannonLink.java`).  State: `cannonFiring` and the aim of the page, the
command and its age in CannonLink, the thread's connection and `sentIdle`.  Hard: the cannon keeps its valve as the
last frame left it, the frame that shuts it is written once, and button, HOME key, mode, hidden page and
emergency stop all end the fire.  Must hold: the valve shuts once everything is let go.

**Console: settings** (`web/settings.js`).  State: the armed and confirmed save, `pendingDiff`, `waitingRestart`.  Must hold: a
confirmed save ends and claims are free again.

**Deployment, tools, simulators**: scripts.

`PROJECT.json` lists every component with its status, and every hazard at its line with the property that
covers it or the reason why none does yet.

## 3. Modules

| module | stands for | composes / used by |
| --- | --- | --- |
| `ExclusiveControl` | what the gateway promises about control | implemented by `ControlLease` |
| `ControlLease` | RobotService's lease, its session threads and `StateLoop`; the part of MotionClient a release must reach; who is told | `MCControlLease`, `ControlLease_proofs` |
| `Motion` | MotionClient: memory of march and posture, commands, `TxLoop`, reports | `MCMotion`, `Motion_proofs` |
| `Gait` | GaitCoordinator: slot, queue, `busy_`, the worker | `MCGait`, `Gait_proofs` |
| `Media` | MediaRegistry, plans, session threads | `MCMedia`, `Media_proofs` |
| `Payload` | PayloadSwitch, its links and loads | `MCPayload`, `Payload_proofs` |
| `Console` | page, App, RadioLink's thread, gateway: which path drives the dog | `MCConsole`, `Console_proofs` |
| `Posture` | page, App, RadioLink, gateway and dog: who knows whether it stands | `MCPosture`, `Posture_proofs` |
| `CloudView`, `CloudMap` | the page's subscription to the point cloud; the map it builds | `MCPage`, `Page_proofs` |
| `GaitMenu` | the gait menu against coordinator and dog | `MCPage`, `Page_proofs` |
| `Sticks` | from the thumb to the velocity that is sent, in a browser and in the App on both paths | `MCPage`, `Page_proofs`, and a run of its own |
| `Ball` | the surveillance ball under the small stick, the queue of its calls | `MCPage`, `Page_proofs` |
| `Pictures` | the App's main picture: the page's wish and NativeVideo's player | `MCPage`, `Page_proofs` |
| `Tiles` | a browser's video tile | `MCPage`, `Page_proofs` |
| `MainView` | what the pages report and select, against what the registry makes of it | `MCPage`, `Page_proofs` |
| `Cannon` | from button and key to the valve: page, CannonLink's thread, its connection, the cannon | `MCPage`, `Page_proofs` |
| `Settings` | saving the gateway's configuration from the panel | `MCPage`, `Page_proofs` |

Conventions.  A step is one critical section, one call into another component, or one write to
sockets; threads have a program counter where a handler has more than one of them.  Fields keep the
code's names without the underscore; operators keep the name of the function they stand for.
An operator marked *Mutant* in its comment is used by no specification: it is the mapped definition as a
plausible mistake would have left it, kept to show that a property notices.  Variables marked *history*
are read only by properties.

**ControlLease.**  `controller`, `lease` (ticks until `lease_expiry_`), `commanding`, `axes` and
`deadline` (who wrote the velocity that may still be sent, ticks until `axis_deadline_`), `conn`, `pc`,
`snap` (the holder a thread has read and not yet written), `view` (the holder a client was told),
`silent` (clients that will send nothing more, connections open).  `Receive` is the `TouchLease` at the
head of `OnMessage`; `TryClaim`, `ReleaseControl`, `CheckVelocity`/`SetVelocity`, `EmergencyStop` are the handlers;
`ReleaseAxes` and `StopCommanding` follow a release outside `control_mutex_`; `ReadHolder`, `SendReply` and
`BroadcastControlState` tell the clients.  Steps that only take mutexes are assumed to end within one tick
(hundreds of milliseconds); steps that write to sockets may take as long as they like (the send time-out is
2 s).

**Motion.**  The four fields that remember the march are one record `march`; `sitAt`, `stood`, `cmdAge`
(age of `motion_command_at_` against the 800 ms and 2.5 s the code compares it with), `axes`, `commanding`.
The threads are the session thread of the client in control (`Operator`), another session thread
(`Other`: emergency stop, release, claim), `TxLoop` and the receivers.  Telemetry is not stored: a step that
reads it reads any element of the constant `Telemetry`, and the operators from `JointsLocked` to
`ViewPhase` merge the channels as `MotionClient::View` does.  Every check the code does on a `View` of the past
stays a step of its own (`ViewBeforeStart`, `CheckBeforeSit`, …).

**Gait.**  `pending`, `queued`, `queuedHandler`, `applyAsked`, `busy`, the worker's place, its `job` and
`result`, and MotionClient's march as one Boolean.  `Check` to `WaitGaitConfirmed` are the stages of `Execute` up to
its waits, whose outcome (confirmed, timed out, refused) is a choice.  `walked` is history: the
robot marched, or the client said so, since the request was made.

**Media.**  `caps`, `selected`, `fullHolder` are the registry; `todo` and `hand` what a session thread still has to
build and has built; `view` the last plan a client received.  A plan in `hand` may be stale when it is sent.
`Forget` merges the read of `had_slot` with the section after it: only the thread itself could change
that answer in between.

**Payload.**  `status`, `job`, the worker and its burst, `mailbox` (`last_ack_`), `socket` (datagrams nobody
has read yet), `acks` (answers under way), `device` (what the loads really do).  `SendFrame` chooses what
becomes of a frame; the loads and links are external.  The `late` of an answer is history: the job it
answers is over.

**Console.**  `path` and `native` are the two copies of the chosen path, `pushed` the scripts that will tell the page,
`posted` the `setEnabled` calls RadioLink's thread has yet to carry out.  `up` and `down` are the messages on
the socket, lost with it (`onWsClose`).  The gateway is its lease alone: `controller` may be this page, another
console, nobody, or a *ghost*, this page's last connection of whose death the gateway has not heard.
RadioLink is started past the hand-over in two ways: `radioCmd`, and a picture.  `startNative` asks for it (`starting`),
`NativeVideoStart` is the App's UI thread, which runs `NativeVideo.start` and with it `setEnabled(true)` some time later,
perhaps after the path has changed to MESH and both of its stops are done.  Nobody stops RadioLink then: the history
`aside` remembers that a start past the hand-over landed on MESH, and `MeshSilencesRadio` excuses it.
A claim and its answers are what `ControlLease` does in detail.

**Posture.**  `dog` is the truth; `gwUp`, `rcUp`/`rcKnown`/`rcLocked` and `posture`/`handoff`/`poseMem`/`locked` are what gateway,
RadioLink and page hold.  `source` says what the gateway goes by: its `"memory"`, or reports of ROS or the body monitor
`"beside"` a live telemetry that says sitting, or `"instead"` of it.  As in `MotionClient::View` (`motion_client.cpp:970`), reports
beside the telemetry count only when they say more than lying; for a dog that lies the memory decides there too, while the
claim's posture is turned down (`robot_service.cpp:642`).  The history `refused` remembers that news of a lying dog was.
`StandSitToggle` is the motion host's single code.
The connection stays up and nobody else moves the dog: `Console` has those interleavings, here they would
hide the question.  The histories `hasty` and `lockMoved` name the two things an operator must not do, `refused` the one
in which the gateway is at fault, and the properties are claimed without them: he is hasty if he switches the path before what he did last shows (the
answer to the claim of the last switch counts, `Unseen`), or presses a key `TooSoon`: while the switch or, on 2.4G, the
hand-over is going on, or one too many on top of an emergency stop or of locked joints.

**CloudView, CloudMap.**  `wanted` and `subscribed` against `CloudBridge::subscribers_` (`mine`, `others`); `hand` is a ROS thread that has
copied the subscribers and not yet sent.  In the map a voxel is not there, seen, or a wall; which of them
frames confirm or time removes is a choice (`pruneVoxels`, `ingestPersist`).  `cellFrame` is history: the frame in
which a voxel's coordinates were taken.

**GaitMenu.**  `menu`, `gaitBefore`, `gaitPending`, `gaitSeen` are the page's; the coordinator is one `job`, one `wish` (kept for the
march) and a gait `sent` that the dog takes or not.  `astray` is history: an answer was lost with the socket,
a failure put back another gait than the dog's, a kept gait was forgotten, or the first reading was taken for
a default.  In each of these the code has no way to correct the menu until the dog's gait changes.

**Sticks.**  A stick is in the middle or pushed, at each stage: thumb, `ch` (G20Rc), `channels` (gamepad.js), `screen` and `scr`
(RadioLink's copy), `ordered` (what the dog was told last).  `driving` stands for all that lets axes through; while
it is off nothing is sent and the gateway's deadline or the end of the march stops the dog.

**Ball.**  `thumb` is the small stick, `lastMoveKey` and `armAt` what `move` remembers, `fireQueue` and `fetching` the calls in
CameraCgi.  A call may reach the ball or fail.  `lostStop` is history: the last stop was displaced by a later
call or never arrived; nothing in the code repeats it.

**Pictures, Tiles.**  `calls` are posted to the UI thread, `errors` to the page; `pulls` counts promises under way for each
stream.  `crossed` is history: promises of two streams were under way together, and the last to end wins.

**MainView.**  `reports` counts promises of `reportCaps` that are not kept yet, `mail` what is on the socket, `blanks` the plans
without a source on the way back; `knownH265`, `chosen`, `slotHolder` are the registry as `Media` has it, without its
threads.  Plans that name a source change only tiles and are left out.

**Cannon.**  `cmd` and `fresh` are what `set` stored and whether it is older than `STALE_MS`; `taken` is the snapshot the thread
carries through a connect of up to three seconds; `tcp` may be `dead`: a connection to nobody that still takes frames.
`onWire` is the last frame not read yet.  `shutLost` is history: a frame that shuts was lost, or no connection could be
had; the code does not notice the first and cannot help the second.

**Settings.**  `flushTimers`, `pendingDiff` and the messages race for the one `config_set`; `forsaken` is history: the save in
progress cannot be seen to its end (panel closed, socket down or gateway about to restart when it was
confirmed).

**MCPage.**  These ten parts share one page but do not read each other's state, so their product would only
multiply the states.  The variable `part` chooses which of them a behaviour is about; the others stay as
they begin.  Each has its own next-state relation and fairness, and one run checks them all.

## 4. Runs

| run | asks | instance | result |
| --- | --- | --- | --- |
| `lease` | types; a velocity ends with its control; silence follows the last controller; the lease implements `ExclusiveControl`; a crashed tablet's control ends for good | 2 clients and `StateLoop`; lease 2 ticks, watchdog 1 | holds |
| `motion` | the march memory is consistent; at most one late velocity frame; no report of standstill ends a march; a start and a sit are resolved | 2 session threads, `TxLoop`, reports of every state, 9 kinds of telemetry | holds |
| `motion_sit` | does sitting down during a march send the stop first? | same | violated |
| `gait` | no gait is forgotten; accepted requests are answered | walk, stair, multi-frame stair gait; 2 session threads | holds |
| `gait_standing` | is a gait sent only if the robot marched since it was chosen? | same | violated |
| `media` | no absent holder; news reach everybody | 2 clients, 2 cameras, caps may change | holds |
| `payload` | one busy load; every job reported; only an answer to an earlier job can make the status lie | a lamp and a pump, bursts of 2, 2 answers under way | holds |
| `console` | on MESH the radio is silent; an App on MESH regains control; an App on 2.4G gets its radio | one App, its gateway and another console; 2 switches, 1 lost connection, 2 messages under way, 3 posted calls, 1 start waiting for the UI thread | holds |
| `console_overlap` | does RadioLink stay off while the page waits for another holder, or the yield? | 1 switch, no loss, 3 messages | violated |
| `posture` | does no key do the opposite; does the button come to tell the truth? | the App begins on either path; 2 keys, 2 switches; a gateway with its memory only, with reports beside and instead of the telemetry | holds |
| `page` | twelve questions about ten parts of the page (below) | see the bounds | holds |
| `sticks_frozen` | does a dog stop whose operator has let go, whatever becomes of the G20? | the App on 2.4G | violated |

The properties of `page`: `UnsubscribedIsSilent` and `ShownCloudFlows` (subscription), `MapIsOfOneFrame` (map),
`MenuComesTrue` (gait menu), `LettingGoStops` (sticks), `BallStops` (ball), `PictureFollowsView` (the App's picture),
`TileShowsPlan` (tile), `SaveEnds` (settings), `ValveShuts` (cannon), `CapsAreKnown` (main view), and the types, among them that the floor the map is cut at exists.

The passing runs explore 420 000 (`lease`), 208 000 (`motion`), 132 000 (`gait`), 99 000 (`media`, up to
symmetry), 433 000 (`payload`), 407 000 (`console`), 948 000 (`posture`) and 225 000 (`page`) distinct states and are
exhaustive for their instances.  Each property of a passing run has a mutant of a mapped definition that
violates it (`PROJECT.json`, "mutants").

Why the bounds are enough.

* *Lease*: the races are between one client that loses control, one that gains it and `StateLoop`.  With one
  tick the lease and the watchdog would end at the same instant; two ticks let the watchdog end first.  A slot
  of `Clients` that connects again is a new connection.  `CHECK_DEADLOCK FALSE`: once every client has gone
  silent and the gateway has quieted down, nothing is left to happen.
* *Motion*: `MCTelemetry` has one record for each way the channels steer the code (agreeing, lagging,
  contradicting, gone).  One operator suffices since only the holder commands; the other thread covers
  what needs no control.  `late` is capped at 2, one above what the property allows.  The 300 ms hold-offs
  and the 8 s window after standing up are choices in the guards, so both outcomes are explored.
* *Gait*: one gait per path through `Execute` and two different ones in slot and queue.
* *Media*: a camera with an H.265 main stream is refused to a client that decodes H.264 only, another with
  a single H.264 stream is granted.  Client symmetry is sound: the clients are interchangeable and the
  run checks safety only.
* *Payload*: with two frames the first answer ends the job and the second is the surplus one; a third frame adds
  only another surplus answer.  `Capacity` bounds the answers under way or unread, further ones are lost, which
  the link may do anyhow.  A lamp and a pump cover both ways an answer comes back.
* *Console*: two switches are a way there and back, faster than the hand-over; `MaxPending` and `MaxPosted` let every
  pair of messages and the three calls of one handler be under way together.  One start waits for the UI thread at a
  time, but any number follow each other, each run before, between or after the stops of a switch.  Bounds appear as guards of those who
  act unasked (`Spare`), never of a message that is already on its way.  The invariant is proved without bounds.
* *Posture*: a key before, between or after two switches, and a lock, from either path: an App that begins on 2.4G has a
  gateway whose memory is of another day.  `MaxPresses`, `MaxFlips` make the system stop in the end, hence
  `CHECK_DEADLOCK FALSE`.
* *Page*: two voxels (two floors), three odometry sources with the LIO's, a trail of 3 cut to 2; 4 messages and 2
  losses for the subscription, so that a late frame meets the request after the next connection; two gaits, two
  choices, one loss; three kinds of console for the sticks, which need no other bound; the ball's queue is bounded
  by the code itself; 4 posted calls and 2 errors; two streams with 2 pulls of each; 2 messages and 2 flush timers
  for the settings; 2 posted runs of `onCannonFire`, a press and its release; 2 reports under way and 2 selections for
  the main view (a wish is posted only while the socket has room for the reports under way, too), an old connection's and a new one's, of one console (what it reports depends on nobody else).  A part with all choices made stops, hence `CHECK_DEADLOCK FALSE`.

## 5. Fairness

In the gateway only its threads and the passing of time are fair; no client, operator, load or report owes a step.

* `ControlLease!Fairness`: a session thread inside a handler goes on, the steps after a release are done,
  `StateLoop` runs ten times a second, clocks advance.  Socket writes end because the server sets a send
  time-out.
* `Motion!Fairness`: `TxLoop` keeps its 50 Hz, and deadlines come due.  It is weak fairness: while `commanding` is
  off TxLoop owes nothing, which is why `StartResolves` and `SitResolves` end in `~commanding`.
* `Gait!Fairness`, `Payload!FairSpec`: each wait of a worker has a deadline, so the worker's current step is
  always enabled in the end.
* `Media`: safety only.

In the console, timers fire, handlers of what has arrived run, and the App's threads carry out what is posted to
them; no operator has to press, no connection to hold, no call to succeed.

* `Console!Fairness`: the 20 Hz loop, `waitRadioReleased`, the claim timer, messages in their order, RadioLink's thread,
  the gateway's answers, and a socket that is opened again (`RECONNECT_MS`).  `MeshTakesBack` and `RadioComesUp` are
  claimed for behaviours in which the path stays and nobody else holds control, in the end.
* `PostureFairness`: the same loops; `StateReport` is the 10 Hz `StateLoop`.
* `PageFairness`: that of each part.  `onChannels` is strongly fair: a G20 that is connected again and again stays
  connected for a tenth of a second at some time, and is read.  Calls to the ball end, in success or not
  (`fetchReaches \/ fetchFails`).  CannonLink's thread runs and the cannon reads; 800 ms pass without a call for certain
  only outside the cannon's mode, in which the loop calls 20 times a second.  The main view needs its own
  promises, frames and messages only.  The map and the tile have safety properties only.

## 6. Proofs

The `*_proofs` modules prove for every set of clients, gaits, cameras, loads, streams, voxels and odometry sources,
every lease length, every burst and any number of messages, switches and losses what the passing runs check on instances.  They use the assumptions on constants that the
component modules name (`ClientsAssumption`, `TicksAssumption`, `ThreadsAssumption`, `TelemetryAssumption`,
`GaitsAssumption`, `NoGaitAssumption`, `MediaAssumption`, `ItemsAssumption`, `NothingAssumption`, `ConsoleAssumption`,
`PostureAssumption`, `CloudAssumption`, `MapAssumption`, `TilesAssumption`, `GaitMenuAssumption` with a cycle of at least two
gaits, and those of the page's other parts); TLC evaluates each of these in the runs.

| theorem | statement | argument |
| --- | --- | --- |
| `ControlLease_proofs!VelocityEndsWithControl` | `[]AxesEndWithControl` | not inductive alone: `SetVelocity` runs after the check of control.  `AxesInv` adds `CheckedVelocity`: between the check and the write the lease is full, because the message that carried the velocity renewed it and no tick passes during prompt steps |
| `SilenceFollowsRelease` | `[]SilenceFollows` | inductive with `TypeOK`: each of the four paths that clear `controller` leaves its thread on the way to `StopCommanding` |
| `LeaseIsExclusive` | `Spec => Exclusive!Spec` | every step of the lease maps to a step of `ExclusiveControl` or to a stutter under `holder <- Holder` |
| `Motion_proofs!MarchMemoryHolds` | `[]MarchMemory` | inductive with `TypeOK` over all eleven writers |
| `AtMostOneLateFrame` | `[]OneLateFrame` | `LateInv`: a frame is late only if the gate was passed before the memory was cleared, and TxLoop has to pass the gate again before the next one |
| `ReportsEndNoMarch` | `MarchEndsByCommand` | not by the action alone: `ReconcileReportedMotionLocked` takes a report of torque standing for the end of a march unless the phase is starting or walking, and the phase is a field of its own.  `Consistent` adds that a march under way has the phase walking; then one step per action |
| `Gait_proofs!NoGaitIsForgotten` | `[]NoForgottenGait` | `IInv` adds `BusyIsExecuting`: `busy_` implies that the worker will still reach `Finish` |
| `RequestsAreNotDisplaced` | `AcceptedIsNotDisplaced` | every writer of `pending` finds it empty, or is the worker that takes it; the property is in no run |
| `Media_proofs!HolderIsKnown`, `FirstComeFirstServed` | `[]NobodyAbsentHolds`, `SlotIsNotSnatched` | per action; the second is in no run |
| `OnePlanAtATime` | `[]OneInHand` | a thread has at most one plan in hand; a lemma about the model's `Send` |
| `EveryoneHears` | `[]NewsReachesAll` | the three witnesses (a thread about to list the clients, one with the client on its list, one with a fresh plan for it in hand) hand over to each other |
| `Payload_proofs!NoLoadStaysBusy` | `[]BusyIsTheJob` | `WorkInv` adds that the worker's copy is the job and that a burst lasts while frames are left |
| `OnlyLatenessMisleads` | `[]OnlyLateAnswersMislead` | `TruthInv` adds: answers that are not late and accept tell what the load does, and so does a success not yet shown |
| `Console_proofs!MeshIsSilent` | `[]MeshSilencesRadio` | `RadioInv`: when page and App agree on MESH and nothing that bypassed the hand-over has landed on MESH, the *last* call posted to RadioLink's thread is a stop, or none is left and it is off.  The property alone is not inductive: it says nothing while calls are under way |
| `ConsoleTypeCorrect` | `[]ConsoleTypeOK` | not inductive alone: `Lost` adds that without a connection the wire is empty, so that no message can make the page a holder then.  Who posts asks for room first, and an answer takes the place of what it answers |
| `ControlPassesThroughNobody` | `[]TakesTurns` | `Hearsay`: the last thing said is what the gateway decided last, and whoever is said to hold control and no longer does is followed by "nobody"; a connection begins with a page that holds nothing |
| `NoFreeGatewayIsForgotten` | `[]~saving` implies `[]FreeGatewayIsClaimed` | with `Hearsay`: a page that has heard everything knows that the gateway is free, and each handler that reads the last message, ends a wait or lets the timer run out then claims |
| `NoStartIsForgotten` | `[]RadioIsOwed` | `StartOwed`: `radioPending` waits for somebody, or RadioLink's last call is a start, or `manual_mode` is still to come; `WaitInv`: who waits for its own yield has it on its way or the answer, and who waits for nobody cannot come to hold control.  That the wait ends when another console yields needs `TakesTurns` |
| `Posture_proofs!NoKeyIsTakenForItsOpposite` | `NoOppositeMove` | `PostureInv`, see below |
| `PageFollowsController` | `[]Link` | the last answer on its way says who is in control, or the page knows; the fact is in no run |
| `Page_proofs!TileIsRight` | `[]TileShowsPlan` | the invariant says for a tile with pulls under way which connection they can leave behind |
| `UnsubscribedPageIsSilent` | `[]UnsubscribedIsSilent` | `SubInv`: the *last* request on the socket decides, or the gateway's entry if there is none: for a page that holds itself unsubscribed it is no subscription.  Besides, only a gateway without clouds denies them, and it enters nobody |
| `TheMapIsOfOneFrame` | `[]MapIsOfOneFrame` | per action: whatever changes the frame of the next cloud empties the map in the same step |
| `RegisteredWallsStay` | `RegisteredMapStays` | per action: pruning spares walls in persistent mode, and a registered map drops body clouds; the property is in no run |
| `PageTypeCorrect` | `[]PageTypeOK` | for the whole page, part by part; see below |
| `PageKeepsItsPromises` | `[]` of the three properties above | a step of the page is a step of one part and leaves the variables of the others alone |

The proof modules of the gateway's components also prove `TypeCorrect`, `Posture_proofs` proves `PostureTypeCorrect`, and
`TilesTypeCorrect` is the tile's own.

*The posture.*  `NoOppositeMove` is about single steps and says nothing of the memories, so the proof rests on an
invariant `MemoryInv` that says whose memory is right.  It has a case for each pair of the paths of page and App:
on MESH (`OnMesh`) the gateway knows the posture (by reports, by its memory, or because it senses a dog that stands), or else it has not heard the page yet, the page is not in control, and
the claim that carries the posture comes before any key; while the App has switched and the page has not noticed
(`Leaving`, `Returning`), nothing but reports and calls to stop RadioLink is under way and the page's memory is the truth;
on 2.4G (`OnRadio`) RadioLink knows, or the posture is handed over ahead of every key, or an emergency stop has reached the
dog through the gateway first and its second half is still posted.  `PostureInv` joins it with the types and `Link`.
`hasty` was made precise with this proof: TLC's and the prover's counterexamples to earlier versions of the invariant
are the three behaviours that end section 7.

*The page's types.*  Where a part's types are not inductive, its invariant says why its queue stays within its bound.
`BallInv`: at most one turn and one zoom wait for the ball, and a stop waits alone.  `SaveInv`: a pending diff has a place
on the wire, and without a connection the wire is empty.  `ViewInv`: the selections and reports on the socket and the
promises of reports together fit, and a lost connection holds none.  `MenuInv`: no more timers than choices.

Besides the listed theorems, `Page_proofs`, `Console_proofs` and `Posture_proofs` state the lemmas on queues they share
(the head taken, a message appended, two runs of calls joined).

Model-checked only: the liveness properties (`GatewayFallsSilent`, `StartResolves`, `SitResolves`, `AcceptedIsAnswered`,
`EveryJobIsReported`, `MeshTakesBack`, `RadioComesUp`, `ButtonTellsTruth`, `ShownCloudFlows`, `MenuComesTrue`, `LettingGoStops`,
`BallStops`, `PictureFollowsView`, `SaveEnds`, `ValveShuts`, `CapsAreKnown`), since TLAPS does not reason about `ENABLED` here.  Of two of
them, `MeshTakesBack` and `RadioComesUp`, the part that is about states is proved: what must happen is always under way
(`FreeGatewayIsClaimed`, `RadioIsOwed`).  Every invariant and action property of the passing runs is a theorem.

## 7. Where the code disagrees with its documents

Four disagreements have a run in which TLC finds the behaviour; `PROJECT.json` quotes the sentences.

* `motion_sit`: a march that begins between two sections of `SitDown` is forgotten instead of stopped.
* `gait_standing`: `apply_queued_requested_` outlives the march it was set for and sends a gait to a standing robot.
* `console_overlap`: the App is switched to 2.4G while another console holds control.  The page waits, and says so, but the
  hello or control message that tells it who holds control also calls `ensureManualMode` (`app.js:1050`), whose `manual_mode`
  goes through `radioCmd`, and that starts RadioLink (`ControlActivity.java:374`) beside the heartbeats the gateway sends for the
  other console.  The dog camera's picture starts it too (`NativeVideo.java:197`).
* `sticks_frozen`: with the G20's connection lost, or its reads failing, while the stick is pushed, RadioLink goes on
  sending the last channels.  The page, which looks at `connected`, zeroes; on MESH the dog stops unless reads fail
  silently.

Ten more are stated in the modules and have no run of their own.  TLC shows each of them when the formula is
added to the configuration that is named.

* `HolderIsHeard` (invariant, `ControlLease.cfg`): `SetCommanding(false)` of a release (`robot_service.cpp:337`) may come
  after another client's claim.  The new holder holds control while the gateway sends neither heartbeats nor
  axes, until it claims again; `motion_client.hpp:204` says commanding is on with a claim.
* `IndicatorsAgree` (invariant, `ControlLease.cfg`): an expired lease that `OnConnect` notices (545) is not broadcast, against
  `robot_service.cpp:1535`, and holders read by one thread may reach a socket after newer ones.
* `SitEndsWithControl` (invariant, `Motion.cfg`): a sit toggle that was put off survives the release and goes out with
  the next claim, against `README.md:261`.
* `StopsStay` (property, `Motion.cfg`): `motion_command_at_` is renewed by starting, stopping and torque standing, not by an
  emergency stop, a sit, an unload or a claim that says the dog lies.  A report of marching (4) that was under way
  when one of them ended the march is then taken for news (`motion_client.cpp:382`), and the gateway remembers a march
  nobody asked for until something ends it.
* `OneFullStream` (invariant, `Media.cfg` with three clients, `CapsReports <- NoCapsReports` and `VIEW Present`): a plan that
  has gone stale overwrites a newer one, and two clients pull the full stream, against `media_registry.hpp:8`.
* `StatusIsTrue` (invariant, `Payload.cfg`): surplus answers of one job are taken for the next one's, whose state they do
  not tell, against `payload_switch.hpp:8`.
* `RefusalIsHarmless` (property, `Posture.cfg` with `Starts = {"mesh"}`): the dog stands up over MESH, lies down over 2.4G, and
  the path goes back to MESH.  A gateway with reports of ROS or the body monitor turns down the claim's posture
  (`robot_service.cpp:642`), but as the telemetry says sitting and the reports say 0, it goes by its own memory of standing
  (`motion_client.cpp:991`): the button says that the dog stands, and `sit_down` stands it up.  The refusal is there so that
  an old posture does not replace a true one (`robot_service.cpp:640`).
* `UnloadsOnlyLocked` (property, `Posture.cfg` with `Starts = {"radio"}` and `MaxPresses = 3`): `stop` (`RadioLink.java:1526`) keeps
  `emergency`: after a lock over 2.4G and an unload over MESH, standing up over 2.4G unloads a dog that stands,
  against `RadioLink.java:682`.
* `LeavingStops` (property, `Page.cfg`): with the small stick pushed, leaving the ball's view ends the calls that would stop
  the ball, against `app.js:2381`; it is stopped only if the screen's sticks had it.
* `BallLeavesSlot` (property, `Page.cfg` with `Consoles = {"desk"}` and `Shells = {}`): a browser that changes to the ball sends
  no `media_select` (`media.js:320`), so that the dog's camera, which it selected before or when the gateway's first
  plan came, keeps the full-rate slot, against `media.js:319`.  Selecting the ball would free it, since a browser
  reports no H.265.

None of these contradicts a theorem: the mutexes keep the promises that concern one component's own state,
and the disagreements are about what happens after leaving a mutex, or about copies nobody refreshes.

What else was met while modelling the console, and is named by a history variable or a premise rather than
hidden: `meshAcquirePending` stays set when `waitRadioReleased` gives up, and the page then never claims by itself
(`MeshTakesBack`); a picture asked for under 2.4G whose start the UI thread runs after the stops of a switch to MESH leaves
RadioLink on, as does a key pressed over the radio while the gateway is away (`aside`); a failed pull closes the connection of another, and the last of two crossed pulls wins
(`crossed`); a stop to the ball that is displaced or fails is not repeated (`lostStop`); nor is the idle frame that shuts the cannon's valve, when the connection takes it and
loses it (`shutLost`); closing the settings panel
within 280 ms of confirming loses the save and blocks claims until the page is reloaded (`forsaken`); a failed
gait puts back the gait of before the last *button*, which keys do not update (`astray`); voxels entered before the
first pose stay in the map (`"none"` in `MapIsOfOneFrame`).

And three ways for a hasty operator to have a key do the opposite, found while proving that there are no others
(`hasty` in `Posture`): switching back to 2.4G before the claim of the last switch is answered leaves the page in
control while it is on 2.4G (`app.js:365`, `904`), so that after the next switch a key goes out before the claim that
carries the posture; two presses of standing up over 2.4G with locked joints: the second stands the dog up at once,
`standUp` does not remove `standTask` (`RadioLink.java:684`), and `standNow` then lays the dog down; and an emergency stop
pressed while two keys are still posted overtakes them through the gateway.

## 8. What is not modelled

* Of modelled components: queued gait and body height in MotionClient, save data, WalkHold, the control mode and
  terrain settings of a gait switch, Start/Stop of PayloadSwitch and the learnt peer address, HTTP and
  framing in WsServer.  Nothing modelled reads them to decide, except WalkHold, which can refuse a `step` and
  is part of the plan.
* Encodings (JSON, UDP frames, XML-RPC, point clouds), numerical code (scan matching, voxel filter), parsing of
  the configuration: no property here depends on them.
* In the gateway's modules the consoles appear as clients that may send any message at any time; in the console's
  modules the gateway is what the page can see of it.  The two meet in the messages, not in one state space.
* Of the page: drawing (panels, the cloud's camera and markers), wording and speech, recording, the probe of raw
  channels, the dispatch of the G20's keys other than those for posture, gait and walking, the cannon's pressure.  Talking
  through the page (`media.js`, `talkStart`) has no button in the HTML; in the App it is native (`CameraTalk.java`), audio
  processing that decides nothing here.
* Of the App: RadioLink's own march, heights, telemetry and registration, the network CannonLink binds to, the native
  socket, speech.
* Orders on the wire inside the motion host are unknown; the models speak of what gateway and RadioLink send.

## 9. Plan

In this order; each new component gets a module, a passing run with mutants, and a proof module for its
invariants.

1. `Bridge`: the supervisor of `CloudBridge`, two topic threads and their shared buffers.  Abstract: the node runs iff
   somebody subscribes.  Properties: no mixed frame, the body cloud comes back, nobody is served by a stopped node.
2. `CannonRelay`: the gateway's loop and a tablet's relay contend for the connection that `Cannon` gives to CannonLink
   alone.  Liveness: a stop is sent once the relay is gone.
3. `Ptz`: wish against last sent over a lossy link.  Liveness: the camera stops.
4. `Readiness`: LIO readiness behind WalkHold, composed with the commands of `Motion`.
5. `Operator`: ControlLease, Motion and Gait composed, with the operator's identity in the queued gait and the
   pending toggles; the abstract specification is that nothing one operator asked for is carried out under the
   next.
6. `Walk`: RadioLink's march against the page's walk cycle, as `Posture` does for standing.
7. `Ros`, `Sessions`: topic threads and the `connected_` flag; session threads that are never reclaimed.

Theorems worth having next: what must be under way when the other liveness properties promise something, as for the
two paths (a valve that is open while nobody fires, a picture that is not the selected view's, a menu that is not true);
that no frame of a relay is interleaved with the loop's in `CannonRelay`; the refinement of `Operator`.
