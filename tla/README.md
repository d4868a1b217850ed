# eCam: a TLA+ verification project

eCam is a camera module for a factory robot and the server that tells the robot
where to go.  The robot (ESP32-S3, C and C++) takes pictures, finds QR codes in
them, and talks to the server over Wi-Fi and HTTP; the server (ASP.NET Core, C#)
keeps a map of waypoints, plans routes as lists of tasks, hands the tasks out
one by one and records what each robot reports.

This directory models the parts of the system that have state, checks them with
TLC on small instances and proves the most important invariants with TLAPS for
all instances.  `PROJECT.json` maps each definition to the lines it models.

## 1. The system

| Part | Source | State | Operations |
|---|---|---|---|
| Manager API | `Server/.../MainManagerAPIController.cs` | tables `tasks`, `current_status`; per request a DbContext and local variables | `NavigationTasks` (plan a route), `NextTask`, `UpdateCurrentStatus` |
| Navigation | `NavigationAPIController.cs`, `Pathfinder.cs`, `CommandConstructor.cs` | a copy of the map per request | read the map, shortest path, commands of a route |
| Table controllers | `WaypointsAPIController.cs`, `TasksAPIController.cs`, `CurrentStatusAPIController.cs` | tables `waypoints`, `tasks`, `current_status` | get, put, post, delete |
| Communication client | `api_communication.c`, `main.c` | the global buffer `request`; per call a task with a socket and an address list | `api_get_nexttask`, `api_update_status`, `http_get_task` |
| Wi-Fi station | `wifi_connection.c` | retry counter, event group | event handler, start, wait |
| Camera frame path | `updated_driver_files/cam_hal.c`, `ll_cam.c` | frames with their `en` flags, event queue, frame queue, driver state, DMA engine | two interrupt handlers, `cam_task`, `cam_take`, `cam_give` |
| Camera bring-up | `esp_camera.c`, and `cam_init`, `cam_config`, `cam_deinit`, `ll_cam_config` | `cam_obj` with its handles, `s_state`, the I2C driver, the sensor's clock, a DMA channel | `esp_camera_init`, `esp_camera_deinit` |
| QR pose pipeline | `QrPosing/.../who_camera.c`, `QR_Posing.c` | a queue of frames, the codes found, the best one | take, find the codes, report over UART, return |
| QR recognition | `code_recognition/main/app_main.c` | none between pictures | take, decode, return |
| Floor detection | `FloorDetection/.../main` | input tensor, display buffer | take, classify, display |
| Image capture tool | `RAW_crop_resize_AND_serial.cpp`, MATLAB scripts | none | one picture over a serial line |

How they interact.  The client calls the manager API by HTTP; that is the only
channel between robot and server, and a request or its answer may be lost.  On
the server, concurrent requests share nothing but the three tables.  On the
robot, the two client calls share one buffer and the network that the Wi-Fi
station joins and loses; the interrupt handlers, `cam_task` and the application
share the driver's object without a lock; the camera task and the pose task of
the QR application share a queue of frames.

What is hard.  *Server*: two requests interleaved at their database calls; a
save that succeeds followed by one that fails; values read before an `await` and
used after it; exceptions that leave a request half done.  *Client*: a buffer
rewritten while it is being sent; a retry loop with five ways to fail; a network
that goes in the middle of it; a timeout that looks like the end of an answer.
*Wi-Fi*: events that queue up while the retries are counted.  *Camera*: an
interrupt that changes the driver's state between any two of its statements, two
bounded queues and frames that must neither be lost nor written while they are
read; an initialisation of twenty steps any of which may fail, after which up to
three clean-ups run.  *QR*: state that outlives the frame it belongs to, and a
search that leaves the picture at its borders.  `PROJECT.json` lists the hazards
one by one.

What makes each part correct: a planned route is in the table whole or not at
all, and leaves it only in the clean-up of a report sent for its robot, unless
it is edited by hand; no planned hop goes nowhere.  A call on a table takes effect once, at one moment.
The client leaks nothing and ends, and never sends an earlier call's request.
The station tries as often as configured and tells main.  Each camera frame has
one owner, is never recorded over while another party has it, and frames keep
coming; a camera that could not be brought up leaves nothing behind.  A reported
code is in the picture at hand.

## 2. Modules

| Module | Models | Notes |
|---|---|---|
| `Navigation` | the map, its conversion, paths, commands | constant operators only; the path finding library is external: any shortest way |
| `ManagerAPI` | the three manager handlers, and edits of the three tables | extends `Navigation` |
| `Table` | what the API of one table promises | abstract |
| `CrudAPI` | the handlers of the three table controllers | extends `Table`, implements its `Spec` |
| `ApiClient` | the client's calls and tasks | network and server external |
| `WifiConnection` | the station's event handler and main's wait | radio, DHCP and event loop external |
| `Robot` | `app_main`: station and client together | extends `ApiClient` and `WifiConnection` |
| `FrameSource` | what the camera driver promises the tasks above it | abstract |
| `CamHal` | interrupt handlers, `cam_task`, `cam_take`, `cam_give` | ESP32-S3, `psram_mode` = 1; implements `FrameSource` |
| `CamLifecycle` | bringing the camera up and shutting it down, with every failure | |
| `QrSearch` | the search for the frames of codes in a picture | constant operators only |
| `QrPipeline` | start-up, camera task, queue and pose task of the QR application | extends `QrSearch`, built on `FrameSource` |
| `...Proofs` | theorems about the module they are named after | |
| `MC...` | instances for TLC | constants only |

Definitions whose name ends in `Fault` (and `OnDisconnectedUncounted`,
`OnDisconnectedSilent`, `LlCamConfigBusy`, `UpdListForeign`) are wrong versions of a definition
that follows them.  No specification uses them; `PROJECT.json` pairs each with a
property that catches it.

**ManagerAPI.**  `waypoints`, `statuses` and `tasks` are the tables, as sets of
rows; `nextTaskID` is the database's counter.  `req[r]` is the request in slot
`r`: idle with its last result, or in a handler, with `pc` naming what the
handler does next and the handler's local variables beside it.  A step is one
query or one `SaveChangesAsync`; a save is a transaction.  Two points of the code
shape the model.  Every manager request builds a `NavigationAPIController`,
whose constructor reads and converts the whole map, so a map that cannot be
converted fails reports and questions too (`Admit`).  And a DbContext that has
read a row returns the same object when the row is queried again: the rows that
`WaypointsFromListAsync` queries have the values of the first reading, and only
a row deleted meanwhile makes the query throw (`NavReadWaypoint`).  `routes`
is history for the properties, as is `seen` in a report.  The controllers of the
three tables write to them between any two steps, one commit each
(`EditWaypoints`, `EditTasks`, `EditStatuses`); `edited` is history, too: the
ids of the tasks written by hand.  What the properties say of planned tasks they
say of those that were left alone (`Unedited`); an operator may delete or move
any other.  That keys are unique is the database's doing and written into the
steps; no property claims it.

**Table and CrudAPI.**  In `Table`, `rows` maps each key to its row or to `NULL`,
`call` and `reply` are what each request asks and is told, and `disturbed` is
history: the requests whose row appeared or vanished while they were under way.
Every call takes effect in one step; an edit or a deletion may end in an
exception only if it was disturbed.  `CrudAPI` adds `pc` and cuts the handlers at
their statements: a PUT is an UPDATE and, if that found no row, a second query;
a DELETE is a query and then a DELETE.  The three controllers differ in the table
and the name of the key only.  Keys come from the client: keys generated by the
database, when a POST leaves them 0, are never equal to a present one and make
an insert simpler, so they are left out.

**ApiClient.**  `request` is whose request the buffer holds: a call's, none, or a
torn one.  Each call clears it, builds it in two steps and creates a task, or
fails to, unnoticed; the task looks up, connects, measures (`strlen`), writes,
sets the timeout and reads, and starts over where the code says `continue`.
`held` is what the task has to release.  `up` is whether the network is within
reach; while it is not, connecting fails and writing may.  Failures
with a network are bounded by `MaxFaults`.

**WifiConnection.**  The radio posts events into a queue, the event loop hands
them to the three branches of `event_handler`, main waits for a bit.

**Robot.**  `app_main` starts its calls when `wifi_connect` has returned, which
it does with and without a connection; `up` is now the station's doing.  Every
step is a step of one part while the other part's variables stand still, `up`
apart.

**CamHal.**  Actions are cut wherever one party touches what another reads: the
two queues, `state`, the DMA engine, the `en` flags.  `isr` is how far an
interrupt handler has got, since it may run on the other core; `pc` is where
`cam_task` is; `site` tells from which case `cam_start_frame` was called.
Statements that only touch locals, or that commute with everything the other
parties do (stopping the DMA engine and clearing `en`, lines 165-183), are one
step.  `jpeg_mode` and both queue lengths are constants, so that both pixel
formats and both grab modes are covered.  `Prompt` restricts the environment:
interrupts arrive only while the event queue has room, which is what its length
was chosen for.  Without it an overflow can strike between any two steps.
The block counter `cnt` is kept as zero or one, all that its tests distinguish.

**FrameSource.**  The queue of recorded frames, the frames that were handed out,
and the one being recorded.  The refinement mapping of `CamHal` counts what
`cam_task` has in its hands as the driver's own, and the frame `cam_take` is
searching for an end marker as handed out, so that giving it up is a `Give`.
The QR application builds the vendored copy of the driver, whose hand-over of
frames is the same, line by line, but which copies through a DMA buffer unless
the clock is 16 MHz and gives up waiting after 4 s; that is why `QrPipeline`
is built on `FrameSource` and not on `CamHal`.

**CamLifecycle.**  `heap` is what is allocated, `cam` the handles in `cam_obj`
that are not NULL, `s_state` whether that pointer is set; a step is one
allocation or one call that may fail.  `done` counts the allocations of
`cam_config`, of which there are two per frame.  `link` are the DMA channels
whose link address is not 0, which is how the driver tells that a channel is in
use; `others` are the ones that were in use before.  `twice` collects what was
freed without being allocated.  The I2C driver is a thing of its own: `SCCB_Init`
is skipped when the configuration gives it no pin and does not look whether the
installation succeeded, which it does not without memory or while somebody else
has a driver on the port (`foreign`); `noBus` records that such a call was made.
`esp_camera_deinit` deletes the driver regardless.  `xclk` is the sensor's clock:
on the ESP32-S3 the macros of `esp_camera.c` that switch it are empty, it is started
in `ll_cam_config`, and nothing stops it, so no property says that it is off
after a failure.  `CamDeinit` is `cam_deinit` with its early
return; `LlCamConfig` includes the call of it deep inside `ll_cam_dma_init`.

**QrSearch and QrPipeline.**  A picture is the set of its white pixels, and what
happens to be in memory on both sides of the array, since the search reads there
(`IsWhite`): any set of cells, chosen when the picture is converted and the same
for one search (the constant `Surroundings` has the sets to choose from).  The
branch that has a near code decoded, which only prints its text, is left out.  The scans, the edge that may descend a row per column, the side, the
areas already noted and the five places for codes follow the code, with size and
thresholds as constants.  Each of its `while` loops is a function from the loop's
variables to what a round makes of them (`TopStep`, `SideStep`, `ScanStep`,
`RowStep`), which leaves them as they are where the code leaves the loop, and
`Rounds` applies it often enough; so a proof can treat every loop by the same
two lemmas.  `QrPipeline` runs it in the pose task; `boot` is
`app_main`, whose two registrations may fail unnoticed.

## 3. Runs

| Run | Checks | Bounds |
|---|---|---|
| `manager` | `TypeOK`, `RoutesWhole`, `OldTasksDeleted` | two robots, two requests in flight, two routes; robots and requests symmetric |
| `table_edits` | `RoutesWhole`, `HopsNotNull`, `CleanUpHitsOwnTasks` | two robots, one request at a time, one route; three waypoints in a row, with a detour, a deletion, a re-insertion and a missing distance; the route's second task edited, moved, deleted and inserted again; statuses written and deleted |
| `two_routes`, `late_report` | one statement of a comment each; **violated** | one robot, two requests in flight |
| `tables` | `TypeOK`, `RowsAccounted`, `ImplementsTable` | three overlapping calls of any kind, two keys, two values, one row present |
| `robot` | `RobotTypeOK`, `NothingLeaks`, `SendsOwnOrLater`, `AttemptsBounded`, `CallsAfterWifi`, `FailAfterAllRetries`, `MainProceeds`, `AllCallsEnd` | the two calls of `app_main`, two failures anywhere, the default five retries, two lost connections, three waiting events |
| `client_unanswered` | a statement of a comment; **violated** | the same calls, no failures |
| `camera_overflow` | `TypeOK`, `OneOwner`, `NeverOverwritten`, `ImplementsFrameSource` | three frames, frame queue of two, event queue of two, overflow allowed, JPEG |
| `camera_prompt` | `ReadsWhatIsRecorded`, `FramesKeepComing` | two raw frames (the QR application's setting), no overflow |
| `lifecycle` | `TypeOK`, `NothingLost`, `FreedOnce`, `RunningIsComplete`, `OthersUndisturbed` | two frames, five DMA channels with any of them in use, three calls of `esp_camera_init` |
| `pipeline` | `TypeOK`, `FramesAccounted`, `ReportsWhatIsSeen`, `ReportIsVisible`, `SingleCodeReported`, `ReportsKeepComing` | two frames, a queue of one, pictures of eight by eight pixels: twelve of them, with codes level, slanted, at a border, too small, or two at a time, and six contents of the memory around them |
| `spot` | a statement of a comment; **violated** | one frame with a white spot at the lower border |

Why the bounds are enough.  Two requests are the least that interleave, and every
property of the manager is about one request against the rest; under edits one
request is enough, since each edit is a commit of its own; three calls on a
table let a row be deleted and inserted again under a third; the theorems below
remove both bounds.  Two failures and two lost connections let each task
fail at a different step, and let a task that has already started over meet
another outage.  One task of the route, in the middle of it, is enough for the tasks
API to edit: it can be moved to the other robot, deleted, and its key be taken
again between a listing and the deletion.  A frame queue shorter than the number of frames is needed to fill it
at all, and three frames let one be recorded, one be queued and one be out when
that happens.  Three calls of `esp_camera_init` are a failure, a success with a
shut-down, and what comes after either.  The queue of the QR application holds two
frames and there are two, so it is never full; the run has a shorter one in which
the camera task does wait.  Eight pixels leave room for two codes
with a margin at thresholds of two pixels, and the pictures were chosen for the
branches of the search; the theorems about the search hold for pictures, margins
and thresholds of any size.

What the violated runs show (each quoted in `PROJECT.json`):

- A second route for a robot repeats the order numbers, after which `NextTask`
  throws instead of finding the next task.
- A route planned and acknowledged while an awaiting robot's report is served is
  deleted as if it were old.
- The client's task ends without an answer when its read times out.  Neither
  request has the empty line that ends the headers, so a server waits for more.
- A white spot at the lower border of the picture, too low for a code, is
  reported as one when the memory behind the picture happens not to be 0.

Four more disagreements are plain from the code and have no run.  `NextTask`
for a robot that never reported ends in a null dereference, where the comment
promises `NotFound` (`NextReadStatus`).  A report writes the status of the robot
in its body, whatever robot its URL names (`UpdAdd`, `UpdModify`); the tasks it
deletes are those of the URL's robot.  `esp_camera_init` returns `ESP_OK` also
when its task could not be created (`CreateCamTask`), and then no frame ever
comes.  A status report never carries the task id, because the branch for it is empty
(`api_communication.c:186`); the server takes the robot to be awaiting.

### Fairness

`Robot`: weak fairness of `app_main`, of each task, of the event loop, and of the
end of an attempt to connect, which the radio gives up by itself; FreeRTOS runs
ready tasks, lwIP bounds the blocking calls, and the receive timeout ends a
read.  Nothing is assumed of what follows an association: a DHCP server may
never answer, and the station then stays associated without an address and main
waits.  That it does not is the premise of `MainProceeds`
(`[]<>(station # "associated")`).  `AllCallsEnd` is about networks that come to
stay: without one the tasks retry for ever, as they should.  `CamHal`: weak
fairness of `cam_task` and the handlers, of the VSYNC interrupt (the sensor's
clock), and of the application taking frames and returning each one it has.
`FramesKeepComing` also assumes `Prompt`: if every second event could overflow,
the driver could be thrown back to idle for ever.  `QrPipeline`: weak fairness
of both tasks; of the driver, that recordings end and that frames are
delivered and can be taken again and again (strong fairness, since the driver
may take a queued frame away and start a recording in between); that
the real driver does so is `FramesKeepComing`.

Deadlock is not checked where the program comes to an end: `robot` (main returns
and the tasks delete themselves), `tables` and `lifecycle` (the bounded calls are
used up), `pipeline` and `spot` (a task that could not be created leaves the other
waiting).

## 4. Proofs

`ManagerAPIProofs`, for any sets of robots, waypoints and request slots:
`TypeCorrect`, `RoutesStayWhole`, `HopsNeverNull`, `CleanUpIsOwn`,
`OldTasksAreDeleted`, with any edits of the three tables.  All rest on `Invariance`
(`Spec => []IInv`).  `RoutesWhole` alone is not inductive: a delete removes what
was *listed* earlier, so the invariant says of each handler that its list holds
routes whole, contains only rows of its own robot that were once saved, and
includes everything the robot still has of what it had on arrival, the rows
edited by hand apart (`ReportInv`); of the tables, that every row that was not
edited is one of a route, that no two routes share a task id, and that the counter
is ahead of all ids planned or edited (`TablesInv`); of a planner, that its path runs along connections
of the rows it tracks (`PlanInv`), which is why no hop is "null".

`CrudAPIProofs`, for any finite set of requests and any keys and values:
`CrudTypeCorrect`, `ControllersImplementTable`, `RowsBalance`.  The refinement
needs to know that a request past its first statement is still pending, and
that one whose first statement saw its row absent (PUT) or present (DELETE) either
still would or has been disturbed since; that is what makes the exception at its
second statement one that `Table` allows.  `RowsBalance` counts: each step adds at
most one request to one of the two sets of acknowledged calls of a key.

`ApiClientProofs`, for any script of calls and any number of failures:
`ClientLeaksNothing`, `NothingStaleIsSent`.  For the second, main is always in
the calls in order (`MainInCalls`), and the buffer holds what the call
that main is in or has made last put there, or what it left torn (`BufferInv`);
a task exists only after its call has completed the buffer, so that what it
measures is its own call's or a later one's, and for the last call its own.
`WifiConnectionProofs`, for any number of retries: `AttemptsAreBounded`,
`FailureIsFinal`.  The invariant ties attempts to the retry counter and says that
at most one of these is under way: an event that leads to an attempt, or an
attempt that will end in an event.  `RobotProofs`: `RobotImplementsParts`
(every behaviour of the whole is one of each part), so that all of the above
holds of the whole (`RobotIsSafe`), and `RobotTypeCorrect`, `CallsWaitForWifi`.

`CamHalProofs`, for any number of frames, any queue lengths and both formats:
`CameraTypeCorrect`, `FramesHaveOneOwner`, `FramesNeverOverwritten`,
`FramesRecordedWhole`, from `CameraInvariance`, and
`DriverImplementsFrameSource`.  Ownership is not inductive either.  `DmaInv`
adds that the DMA engine runs only on `cam_task`'s current frame while it is
enabled, and that the current frame is still enabled whenever `cam_task` would
hand it over, also when an interrupt has stopped the engine meanwhile; `StateInv`
that the handlers can only move the state to IDLE; and `PromptInv` that without
overflows nobody but `cam_task` moves it.  Two lemmas say what sending and
receiving do to the elements of a queue without duplicates.  There is one lemma
per action.  The refinement follows from the same invariant: an enabled or
just recorded frame is in nobody else's hands, hence `FrameSource`'s own.

`CamLifecycleProofs`, for any number of frames, channels and calls:
`LifecycleTypeCorrect`, `FailureReleasesAll`, `NothingFreedTwice`,
`RunningHasAll`, `OthersKeepTheirs`.  The invariant says
that what is allocated is what the handles lead to, the I2C driver perhaps
excepted, that those of `cam_obj` are all among what `cam_deinit` frees and
disjoint from what `s_state` leads to, how far `cam_config` has got, that past
the probe there is a driver on the I2C port, and that the link addresses are the
others' and, while it runs, the camera's own.

`QrPipelineProofs`, for any frames and queue lengths, any size of picture, any
thresholds and any codes in the pictures: `PipelineTypeCorrect`,
`FramesStayAccounted`, `NothingInvented`, `SingleCodeIsReported`,
`WidestCodeIsReported`.

- *The pipeline.*  `PipelineInvariant` proves `IInv`.  `FramesAccounted` counts,
  which is not inductive; `Custody` says instead that neither queue has a frame
  twice, that a frame is in one place only, and in which of its states a task
  has one.  `Fresh` says that what the pose task has worked out so far, be it the
  black and white picture, the codes noted or the report, is of the picture
  that is *now* in its frame: the driver does not record into a frame that was
  taken.  From it, every report is `Search` of the picture at hand, started
  with an empty list.
- *Loops.*  `RoundsStep` and `RoundsEnd` are the rule for loops: what each round
  preserves holds at the end, and if each round that does anything lowers a
  rank, then after as many rounds as the rank the loop has ended.  They need an
  induction over numbers, which is had from the least element of a set
  (`LeastNumber`, `Induction`), and that the recursive function in `Rounds`
  exists (`HistoryExists`).
- *Nothing is invented.*  `TopLineSound` and `SideLineSound` say what has been
  looked at when the two lines end, `NoteIsSound` that a note made from them is
  backed by white pixels, and `ScanStepSound` to `SearchSound` carry this through
  the scans to all notes in the list, whichever cells of the memory around the
  picture are not zero, as long as no code reaches the last row; where one does,
  `spot` shows that the claim is false.
- *A code is found.*  `EdgePixels` says which pixels of a picture of one code are
  an upper edge.  The first scan, left to right, comes to the left end of the
  code in the row where that begins; there the edge is followed along the whole
  width (`WayAlongCode`), the side is long enough (`FirstEdge`), and the code is
  noted in full (`FoundInRow`).  If its left half is the lower one, a row before
  may have noted the right half; that is one note only and does not cover
  the left end (`HalfRow`).  No note is wider (`NotesNarrow`) and none is taken
  back (`WideKept`), so `Widest` chooses it.  Of a code that is too small
  nothing is noted (`SmallNotNoted`).
- *Separate codes.*  `WidestCodeIsReported` is about any number of codes with a
  black column or `TopMargin` black rows between any two (`Separate`).  Each of
  them then *stands* by itself (`Stands`, `PictureApart`): an edge that begins on
  it stays on it, descends only where it does, and its side ends with it
  (`TopStepInside`, `EdgeInside`).  So every note, of either scan, is a part of
  one code (`NotePart`, `NoteOwned`), which is the first half of
  `ReportsWhatIsSeen`.  For the second half, a note made before the scan comes to
  the left end of a code does not cover that end and, if the code is the widest,
  is narrower (`Aside`, `NoteAside`).  When the scan does come there, the whole
  code is noted (`NoteWhole`); and it does, because after an edge it moves on at
  most by the rows of that code, which takes it beyond the end only if the code
  *hides* the other one and has not been noted yet (`NotBeyond`, `RowReaches`).
  `Searched` is the invariant of the scan over the rows: in the first row of the
  widest code it is noted, or the level codes that hide it are; then it is noted
  in the next row.  `SearchFindsWidest` has it in the list at the end.

Assumptions used: `NULL` is none of the values it stands beside, the initial map
has unique ids and rows of the right type, counts and queue lengths are
positive, requests to the tables are finitely many; for the search
(`SearchAssumption`), that the margin is more than a row, that the side is
followed inside of an edge of the least length, and that there is room for two
codes, as there is with the arguments 5, 20, 5 of `register_lcd`; and that the
codes lie within the picture and `Surroundings` outside of it
(`PipelineAssumption`).  TLC evaluates them in every
run.

Only model-checked: the liveness properties (`MainProceeds`, `AllCallsEnd`,
`FramesKeepComing`, `ReportsKeepComing`), since the prover has no
rules for fairness; and what the shortest path is.

What `ReportsWhatIsSeen` leaves out is what the code does not do.  Two codes that
touch are one edge to the search.  With more notes than five places the widest
code may find none left (`Len(l1) < MaxCodes`); parts of codes take places too.
And a code can be missed although there is room: after the edge of a tall code
the scan moves on by the length of the side, beyond the left end of a code next
to it (`QR_Posing.c:181`).  A level code is covered by its own note in the next
row, and the neighbour is found there; but a slanted one, or one that is
itself hidden, may hide it again.  `Shown` excludes those pictures, and with them
some in which a later row finds the code after all; without it the property is
false.

## 5. Not modelled

Register tables of the sensor, pin set-up, static pages and server start-up
have no behaviour to check.  Inference, QR decoding and the path finding
library are external.  Text (JSON, HTTP lines, commands) is kept as its parts,
never as characters.  `psram_mode` = 0 of the driver is not compiled for this
target.  Vendored components, mechanical design and business files are left out.

- *Client and server together.*  The requests the client sends never end their
  headers (`HeadersEnd` is false for both), so a server never runs a handler for
  them: a composition would have nothing to show beyond `client_unanswered`.
- *A lost database connection.*  Every statement may throw; each handler lets
  the exception end the request, as it does the ones modelled.
- *A second `esp_camera_init` without a shut-down* is outside the driver's
  contract, and no program here makes it.  Interrupts that are still
  under way while `esp_camera_deinit` runs are not modelled either.
- *Floor detection.*  Between its two tasks a display buffer is shared without
  any synchronisation, and the queue's items are larger than the pointers sent
  through it, so that each exchange also overwrites what stands beside the
  receiver's pointer on its stack.  A model would have to invent the build's
  layout; the hazards are listed.
- *The image capture tool* takes one picture and prints it.

## 6. Plan

Done: `Navigation`, `ManagerAPI`; `Table`, `CrudAPI`; `ApiClient`,
`WifiConnection`, `Robot`; `FrameSource`, `CamHal`, `CamLifecycle`; `QrSearch`,
`QrPipeline`; and the proofs above.  What is left, in this order:

1. `CamHal` and `CamLifecycle` together: a shut-down while the application waits
   for a frame or an interrupt handler is running.
2. `FloorDisplay`: the display buffer shared by classifier and display task, once
   the size of the queue's items is settled in the code.
3. `ll_cam_calc_rgb_dma` as an operator, checked over the sensor's frame sizes.
