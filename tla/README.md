# Models and proofs of esp-rainmaker-common

TLA+ specifications of this library: of the parts that run concurrently, of those
that must survive failures and restarts, and of the algorithms a slip in which
only a server would notice; the TLC configurations that check them, and TLAPS
proofs of the properties that matter most. `PROJECT.json` lists the same facts in a form tools can read: which lines
each definition stands for, what each run checks, which change to the code each
property would notice (the mutants), and the hazards of the code.

    tlc -config WorkQueue.cfg WorkQueue.tla
    tlc -config Components.cfg MCComponents.tla
    tlapm WorkQueueProofs.tla

## The system

esp-rainmaker-common is a set of components used by ESP RainMaker firmware on
FreeRTOS. In the paths below `components/` and `src/` are directories of the
repository.

| Part | State it keeps | Operations | Hard behaviour |
| --- | --- | --- | --- |
| Work queue, `components/rmaker_work_queue` | handle, `state`, a FreeRTOS queue, the worker task | init, start, stop, deinit, add_task; global and per instance | no lock at all: worker, producers and callers interleave at every access; parking, resuming and deleting a task |
| MQTT glue, subscriptions, `src/esp-mqtt/esp-mqtt-glue.c` | the subscription table, `connected`, parked SUBACKs, the retry timer | subscribe, unsubscribe, the events of esp-mqtt, the retry round | three threads over one table; SUBACKs before their request is recorded; lost requests; reconnects; timer commands outside the lock |
| MQTT glue, lifetime, same file | `mqtt_data`, `deleting`, `busy`, the client | init, deinit, begin_op/end_op | operations use `mqtt_data` outside the lock while deinit frees it |
| MQTT glue, connection and data, same file | `connected`, `connecting`, the long message being assembled | connect, disconnect, update_config, publish, the delivery of messages | flags written by two tasks; messages cut off between their parts; wildcards |
| AWS request signing, `components/rmaker_aws_sign` | temporary credentials, the host and region, a kept-alive connection, three mutexes | set host, refresh, sign, send a request | credentials changed during a fetch; a reused connection that is dead; retry once; a response of unknown length |
| SigV4, same component | none | sign, presign | canonical forms on which signer and service must agree to the byte |
| Port of the signer, same component | the table of operations, an atomic state | install | tasks that install at once, with no mutex yet |
| Command-response, `components/rmaker_cmd_resp` | the table of command handlers | register, deregister, handle a request, answer it later | values cut into TLVs; roles; an answer put off |
| System control, `components/rmaker_system_ctrl` | reboot and reset timers | reboot, Wi-Fi reset, factory reset, at once or later | timers checked, created and started by two tasks without a lock; a reset whose callback reboots |
| Time, `components/rmaker_time_sync` | SNTP started, the stored time zone, `TZ` | init, wait, set time zone, conversions, search of the zones | failures between the steps; a factory reset or a power loss among them |
| Console, factory data, APN3 string, common events | (almost) none | input and output | none worth a model |

They interact by calls and shared objects: the timer of the MQTT glue puts a
retry round into the global work queue (`esp_mqtt_glue_sub_retry_timer_cb`),
applications subscribe from work functions or from the callbacks of the MQTT
task, and all parts post events to the default event loop. System control and
time share the NVS partition: a factory reset closes and erases what the time
zone is stored in. The signer calls the operations of whatever port is installed.

What makes each of them correct:

* work queue: what was accepted runs once and in order; a stop takes effect, a
  start and a deinit return; the worker is resumed or deleted only when parked;
* subscriptions: every entry is brought to an acknowledged subscription at the
  broker and stays attended to until it is; entries of one topic agree; nothing
  else is unsubscribed;
* lifetime: nothing is used after it is freed, deinit comes to an end;
* signing: a request is never signed with the credentials of another host or
  role, and never sent twice once an answer has begun;
* response buffer: the body is whole and terminated, or the call fails;
* SigV4: the service computes the signature that was sent from what it received;
* connection and data: the flags follow the client; a message reaches exactly the
  callbacks whose filter it matches, and reaches them whole;
* command-response: a handler runs when the role may, on all of its data, and its
  answer is complete and carries the id of its request;
* system control: a reboot or reset that was accepted comes;
* time: the zone in force is the one the next boot sets, whatever failed; the two
  conversions of a time agree with the calendar and so with each other.

## Modules

| Module | Models |
| --- | --- |
| `WorkQueueFifo` | what a work queue promises: a FIFO that serves at times |
| `WorkQueue` | `work_queue.c`, one action per access of shared state |
| `MCWorkQueue` | `WorkQueue` with a history variable for the drain property |
| `WorkQueueProofs` | theorems about `WorkQueue` |
| `MqttGlue` | subscriptions and retries of `esp-mqtt-glue.c` |
| `MCMqttGlue` | its instances for TLC |
| `MqttGlueProofs` | theorems about `MqttGlue` |
| `MqttGlueLife` | lifetime of `mqtt_data` in the same file |
| `MqttGlueLifeProofs` | theorems about `MqttGlueLife` |
| `AwsSign` | one signing handle: credentials, pooled connection, mutexes (`esp_rmaker_aws_sign_creds.c`, `..._send_request.c`) |
| `MCAwsSign` | its instance for TLC |
| `AwsSignProofs` | theorems about `AwsSign` |
| `Accum` | the response buffer, `esp_rmaker_aws_sign_accum.c`, and what `send_request` makes of it |
| `PortInstall`, `PortInstallProofs` | tasks that install a port, `esp_rmaker_aws_sign_port.c`; theorems about it |
| `SigV4`, `SigV4Server` | the signer, `esp_rmaker_aws_sign_sigv4.c`; the service that checks it |
| `SigV4Proofs` | theorems about the two |
| `MqttSession`, `MqttSessionProofs` | the connection, its flags and long messages, `esp-mqtt-glue.c`; theorems about it |
| `MqttTopics` | which subscriptions a topic concerns, `esp-mqtt-glue.c` |
| `CmdResp` | `cmd_resp.c` |
| `SystemCtrl` | `system_ctrl.c` |
| `TimeSync` | zones, SNTP and waits of `time_sync.c` |
| `Device` | `SystemCtrl` and `TimeSync` over one NVS partition |
| `Clock` | the conversions of a time, the refresh window of credentials, the search of the zone table |
| `Components`, `ComponentsProofs` | the parts from `Accum` on, one at a time; theorems about them |
| `MCComponents` | its instance for TLC |

### WorkQueue

`live`, `state` and `queue` are the handle, `p_work_queue->state` and
`handles.queue`. `wpc` says where the worker task is: at the loop condition
(`check`), in `xQueueReceive` (`receive`), in a work function (`run`), past the
loop (`exit`), between its write of the state and `vTaskSuspend` (`parking`), or
`suspended`. `op` and `cpc` give the control call a task is in and its place in
it; the worker is itself a caller (`Worker`), because a work function may call
the API of its own queue, and `IsOwnWorker` is the check the code makes for
this. `accepted` and `ran` are history variables.

`stop` is three actions (read the state, write it, send the wake entry), since
the code does not synchronise them; `start` is either `StartExisting`, the wait
and the resume, or `StartCreate` and `StartSet`, between which the new task may
already run. `wait_stopped` is shared by start and deinit, as in the code:
`WaitState` polls the state, `WaitSuspended` polls the task. The wake entry is
`Wake`, a member of the queue like any other, and stale ones survive a restart.

A call that returns without changing anything is a stuttering step. Allocation
and task creation may fail, which is such a step too. Each entry is accepted at
most once per instance: this is the bound on producers.

### MqttGlue

One action per critical section of `s_glue_lock`, per call into esp-mqtt and per
timer command. The application tasks, the MQTT task and the worker of a retry
round all send topics by the same steps, `Reserve`, `Send`, `Record`, as
`esp_mqtt_glue_send_subscribe` does, and set the timer by `Plan` (under the
lock) and `Command` (after it). `msgId` 0 is the reservation, -1 in the code.

esp-mqtt, the broker and the network are external. `Send` decides what becomes
of a request: accepted, rejected, dropped from the outbox with a report, lost,
or not sent. `replies` are the events still to come; `Subscribed` and `Deleted`
are the handler's cases for them, in any order. While the MQTT task is inside
the handler, calls of others into esp-mqtt wait (`ApiFree`): esp-mqtt holds its
API lock then, as the comment on `s_glue_lock` says. A disconnect ends the
requests and the broker's subscriptions of that connection; parked SUBACKs stay,
as in the code. Time is a choice: an armed timer may fire at any moment, and any
of the outstanding requests may by then be older than the outbox expiry.

Message ids come from the bounded set `Ids`, which has one for every entry,
thread, parked SUBACK and trouble; a request waits while none is free, which only
a broker that never answers can bring about.

Left out: the values of QoS and of the backoff, the events posted to the event
loop, failures of allocation, and `unsubscribe_all`. `disconnect` and
`update_config` are in `MqttSession`.

### MqttGlueLife

Instances are numbered, so that a freed one can be told from its successor.
`BeginOp` and `EndOp` are the two functions of the code; what an operation does
in between is in `MqttGlue`. `init` is `InitCall`, `Publish` and `Register`,
`deinit` is `DeinitCall`, `WaitBusy`, `Destroy`, `Free`. The event handler is not
counted as an operation in the code and is not here (`Deliver`, `Delivered`);
the operations its callbacks make are those of the thread `Mqtt`. `InitReturned` is asked of
the callers, and an assumption of all results: deinit is not called while init
has published the instance but not yet registered its handler.

### AwsSign

One handle and the tasks that use it. An action goes from one lock, one call
into the network or one failure to the next: `SendCall`, `LockRequest`, `Check`,
`LockCreds`, `Fetch`, `Sign`, `Reuse` or `Open`, `SetHeaders`, `Perform`,
`Answered`, `Finish` are the steps of a request that succeeds. `creds_refresh`
may also be called by itself, and `set_cred_host` takes both mutexes in the
order of the code. `gen` names the credential host as `cred_host_gen` does in the
code, and `region` is the `gen` whose region the handle holds, since both are set
by the same call. `region_mutex` is held for one copy at a time, so the two copies
made under it are single steps; `get_region`, which only reads, is left out.

What is signed is represented by what goes into the signature: the contents of
the struct and the region. `conn`, `headers`, `auth` and `token` are what the
pooled connection holds, `peer` whether the server still keeps it open, and
`unread` the answers in it. Any failure may happen where the code checks for one:
an untrusted clock, a failed fetch, no memory, a connection that does not open,
a header that cannot be set, a transfer that breaks off before or after the
answer has begun. Time is a choice: a struct becomes due (`NearExpiry`) and a
connection idle too long (`Open` in place of `Reuse`) at any moment.

`Finish` also gives the locals of the task their initial values, and forgets the
signature's headers (every request sets all of them before it performs) and
whose answer an unread one was: what idle tasks hold would only multiply states.

Asked of the callers (`MayUse`): tasks share a credentials struct only through
`send_request`, as the note in `esp_rmaker_aws_sign.h:313` says; a task may
refresh a struct of its own. Left out: create and destroy beside other calls, a
region of the request's own, the assembly of the URL. The body of the answer is in `Accum`.

### Accum, PortInstall

`Accum` is one transfer after another: `Hint` and `Sink` are the callbacks a port
makes, with a declared length that may be wrong, pieces in any order of sizes and
an allocation that may fail at each; `Succeeds` and `Fails` are the two ways
`http_perform` returns, after which `send_request` looks at `status` and
`gotResponse`. A port may go on after it was told to stop, so `Sink` has no guard
on `status`. Bytes are numbered: `text` says which are held.

`PortInstall` has one action per access of `s_port_state` or of the table.
`Claimed` is the compare and exchange. Ports are told apart by which groups of
their operations are complete, as `port_prepare` asks. The removal of a port is left out:
only tests call it.

### SigV4, SigV4Server

`SigV4` is the signer as operators: `Sigv4` and `PresignUrl` take a request and
return what goes on the wire, with the key, scope and canonical request in place
of their HMAC. Texts are short sequences of symbols, an escape is two of them, and
`Put` is the sink that copies a chunk only if the terminator still fits.
`SigV4Server` is written from the wire alone: it splits a query, decodes and sorts
it, walks a path with a stack, groups headers by name. `Verified` and
`Agrees` compare the two; the inputs are paths of up to four segments with
empty, `.` and `..` ones, up to two parameters, up to three headers of which some
share a name in two spellings, and the boundaries of `MAX_HEADERS` and the expiry.

### MqttSession, MqttTopics

`client` is esp-mqtt's own state and `event` the event its task has under way, at
the entry of the handler or before its case: between the two the handler has
cleared `connecting` and not yet set a flag. `connect`, `disconnect` and
`update_config` belong to one task, which is asked of the callers. A
stop waits for the event and the connect attempt under way (`CanStop`), and the
flags are cleared only after it. `long` is `long_data`, static in the code: it
outlives a connection, a deinit and the next init, and `LongData` has the failed
allocation of a first part and the parts that then find nothing. `PublishDropped`
is what `publish` looks at.

`MqttTopics` compares the character loop of `mqtt_topic_matches` with MQTT's
definition by levels (`Levels`, `LevelsMatch`), in which `+` matches any single
level, for topics and filters of up to five characters, in which a `+` is a
whole level as the glue asks. The two do not agree: a `+` at the end of a filter
misses an empty level at the end of a topic (`EmptyEnd`), against the rule and
the comment of the function. `ReachesMatchingSaveEmptyEnd` claims the match with
exactly this exception, and so do its theorems. Topics that begin with `$` are
not told apart.

### CmdResp

One call of `response_handler` is one action, since nothing else touches its
state in between: `Refuse`, `Run` or `Defer`, by what the role, the table and the
handler say. TLVs are kept as types and values, `Chunk` being the 255 bytes of
one; `AddTlv` and `Value` are the code's, with the sizes they compute, so a
buffer allotted by `EncodedSize` can turn out too small. Requests come from
`Message`, the TLVs of `test_send`. `Context` is `cmd_ctx` as `strlen` sees it.

### Device: SystemCtrl, TimeSync

The application task and the timer daemon are each at a place in
`esp_rmaker_reboot` (`callers`), one action per access of `reboot_timer`, since
the reset callback calls it too. `orphan` is a timer that was overwritten and
still runs. A restart loses the RAM of both modules (`Sync!Reset`) and finds the
partition as it was; `PowerLoss` may come at any moment. `owed` is what was
accepted and has not come.

In `TimeSync` the steps of `set_timezone` are actions (`Store`, `SetEnv`,
`StoreName`), because a factory reset or a power loss may fall between them and
each NVS write may fail. A zone stands for its POSIX string and its name, `Sleep` for one
`vTaskDelay` of the wait, with the unsigned subtraction of the code.

### Clock

`DaysFromCivil` and `TimegmDays` are the two date computations of the repository,
`RefreshTime` what `creds_refresh` stores, `TzNameCmp` and `TzSearch` the search of
the zones. They are compared with the calendar (`NextDay`), with each other and
with a search by definition, on the dates where they could differ: February,
century years, both sides of the epoch. Sorted tables of up to five of seven names
stand for the table of the code.

### Components, MCComponents

The parts above neither call nor share anything, so a behaviour exercises the one
chosen by `part` in its initial state, in full, and the number of states is a sum
instead of a product. The algorithms are a part too: each state of it has one
input. `Components` is for any values of the constants, `MCComponents` has those of
the run.

## Runs

| Run | Constants | Shows |
| --- | --- | --- |
| `wq_core` | 3 entries, `Size` 2, one controlling task, work functions that call start and deinit | `TypeOK`, `TouchesOnlyParked`, `StopHasWorker`, `RunningHasWorker`, the refinement `FifoSpec`, and `CallsReturn`, `StopParks`, `DrainsWhileRunning` under fairness |
| `wq_stop` | the same, work functions call stop | `CallsReturn` fails |
| `wq_drain` | as `wq_core` | `StopDrains` fails |
| `mqtt_shared` | two topics, two callbacks, one application task, one connection, three calls (the third only while the table holds one topic), no trouble | `TypeOK`, `SameTopicAgrees`, `AckedIsActive`, `EarlyAckTaken`, `ResentOnConnect` |
| `mqtt_retry` | one topic, one trouble, two calls | `RetriedUntilAcked` |
| `mqtt_stranded` | as `mqtt_retry` | `NeverStranded` fails |
| `mqtt_reservation` | one topic, two connections, one trouble, one call | `AckedIsActive` fails |
| `mqtt_prefix` | two topics, one a prefix of the other | `UnsubscribesItsTopic` fails |
| `mqtt_life` | four threads with operations, two controllers, two instances | `TypeOK`, `BusyCounts`, `OpsFindItValid`, `HandlerFindsItValid`, `OneTeardown`, `DeinitReturns` |
| `aws_sign` | two tasks, one of them with a struct of its own, three requests to two targets with two role aliases, two credential hosts | `TypeOK`, `SignedAsConfigured`, `WireIsExact`, `AnswerIsOwn`, `NotResent`, `CallsReturn` |
| `components` | see below | `TypeOK` and `EnvIsStored` of the device, `PromisedRebootComes`, `PromisedResetComes`; `RequestAnswered`; `BodyHeld`; `PortInstalledOnce`; `FlagsFollowClient`, `DeliveredWhole`; `ReachesMatchingSaveEmptyEnd`, `SignatureVerified`, `ClocksAgree`, `RenewedInTime`, `ZoneFound` |
| `cmd_reqid` | as `components`, request ids of the full length | `OwnReqId` fails |

Bounds. In the work queue, `Size` 2 with three entries makes the queue full with
and without wake entries in it, and an entry can be queued in each of the phases
of a stop; the proofs cover every size and number of entries. In the MQTT glue,
`MaxConnects`, `MaxCalls` and `MaxTrouble` bound how often the link comes up,
applications call and something goes wrong (a request refused, lost or slower
than the expiry, a timer command dropped, a parked SUBACK outliving its time).
One connection still includes its loss at any point and requests sent while
disconnected. Two entries are what it takes for entries to share a topic or not,
and two parked SUBACKs are more than can be parked at once there. `mqtt_shared`
has no trouble and one application task: with a second connection and a trouble
`AckedIsActive` fails, which is `mqtt_reservation`. In the lifetime model, two
instances and two controllers suffice for a second deinit to meet the first,
or the next instance; nothing depends on more, and the proofs need no bound. In
the signing model two tasks suffice, as all of a request happens under
`request_mutex`: one is inside and the other waits or refreshes a struct of its
own. The requests differ in target, headers and alias, so that a request can
meet a connection of another target, headers left by another and a struct of
another alias; the second host is what a change of it needs.

`components` (252,826 states) has: a device with a zone to set and another as
default, waits of three ticks in pieces of two, which takes a last piece that is
shorter; two command slots and two commands, values around one and two full TLVs
(three bytes in place of 255), one answer at a time put off; a response limit of
six bytes that is no doubling of the first capacity, two, with pieces of one, two
and five bytes and declared lengths up to one past the limit; two tasks that install four
ports, two of them complete; messages of one, two and three parts; five headers;
a default life of credentials of 20 and a margin of 5, with expiries before, at and
up to three margins after the time of the fetch. `Word` makes the 32-bit ticks 16
wide, enough to see a wrap, and `cmd_reqid` takes ids as long as their array.

Symmetry is used in `mqtt_shared`, which checks invariants only, over topics (of
which none is a prefix of another there) and callbacks, which are never compared
but for equality.

Deadlock is checked for the work queue, the signing handle and the components.
`wq_stop` switches it off, because what it shows ends in a real one: the deinit
that waits for ever is all that is left. The MQTT runs switch it off, since the bounds end the
behaviours, and so does the lifetime run (`MaxInits`).

Fairness. A FreeRTOS task that is ready runs again, so the worker and callers
inside a call are weakly fair; nobody has to call. In `MqttGlue` a thread that
waits for esp-mqtt's API lock gets it if it is free again and again (strong
fairness of the application and work steps), esp-mqtt reports what it knows, and
an armed timer fires and eventually finds an unanswered request older than the
expiry; events that need the network (a connection, any event for `Rearm`) are
not assumed. In `MqttGlueLife` operations and handlers end and a teardown that
can go on again and again does (`esp_mqtt_client_destroy` stops the MQTT task
between two events). In `AwsSign` a task inside a call goes on: every call into
the network ends, by its timeout at the latest; a FreeRTOS mutex that is free
again and again is given to each waiting task in turn (strong fairness of the
steps that lock). In `Device` a timer that is started fires (strong fairness of
`FireReboot` and `FireReset`: the daemon takes timers that are due in the order of
their times, so neither is passed over for ever by the other), and a caller inside
`esp_rmaker_reboot` and a callback that has rebooted go on.
`PromisedRebootComes` excepts the reboot whose timer the other caller
deletes when its own start fails (`lost`), which the code does.

## What disagrees with the code's own words

* `wq_stop`: a work function may stop its queue (the README of the component
  forbids only deinit and start there). Its stop can fall between the read and
  the write of the state in the controller's stop or deinit; if the worker parks
  at that moment, the controller writes `STOP_REQUESTED` for a parked worker and
  waits for ever, while the README says that deinit "blocks until the worker has
  parked".
* `wq_drain`: "the worker parks after it runs all entries that are in the
  queue" does not hold for a stop that is written after a pass found the queue
  empty and before the state is read again.
* `mqtt_stranded`: "retries never stop while the connection is up" does not hold
  when a timer stop, decided while all was acknowledged, is issued after another
  thread has armed the timer.
* `mqtt_reservation`: a reservation is recognised by `REQUESTED` and -1, which a
  reconnect sets again; the outcome of the old connection is then recorded on
  the new reservation, and the entry can say that it is acknowledged when the
  broker has no such subscription.
* `mqtt_prefix`: unsubscribe compares a prefix of the entry's topic.
* `cmd_reqid`: a request id of 32 bytes, the length `esp_rmaker_cmd_resp.h:47`
  allows, fills `cmd_ctx.req_id` and leaves no terminator; `strlen` runs on into
  `user_role` (`cmd_resp.c:358`), and the answer carries an id the request did not.

One more disagreement has no run of its own and is an exception that a property
makes by name:

* `ReachesMatchingSaveEmptyEnd` (run `components`): the comment of
  `mqtt_topic_matches` says that "'+' matches a single level"
  (`esp-mqtt-glue.c:193`), and by MQTT a level may be empty. The loop (207) ends
  when the topic is used up, before it sees a `+` at the end of the filter: `a/+`
  misses a message for `a/`, which the broker delivers, and so does `+/+` one for
  `/`. An empty level further up is taken, as by `a/+/b` of `a//b`. With
  `LevelsMatch` alone on the right-hand side the property fails.

### Met while modelling, without a run

Read in the code and kept out of the models, or in them as what may happen. None
is claimed as a property.

* Work queue: wake entries of earlier stops take slots, so `add_task` can fail with
  fewer than `size` tasks queued (`work_queue.c:142`); a work function that always
  adds another keeps its pass, and with it a stop, from ending (77); between the
  creation of the task and the write of `RUNNING`, a work function's stop finds
  `INIT_DONE` and is refused (307).
* MQTT glue: callbacks are collected under the lock and called after it, so one can
  be called after its unsubscribe returned (269); an UNSUBSCRIBE is sent after the
  lock is released and can follow the SUBSCRIBE of another task for the same
  topic (677); a retry round works on copies and can subscribe a topic at the
  broker whose entry was removed meanwhile (462); `update_config` leaves the client
  stopped when `esp_mqtt_set_config` fails.
* Command-response: the table has no lock; `cmd_info` is used after the handler
  returned, which may have deregistered itself (411); `parse_response` terminates
  200 bytes of data one past its array (515); `test_send` leaves out data
  that does not fit its buffer without saying so.
* System control: a start that fails deletes whatever timer `reboot_timer` points to
  by then; a reset waiting in its timer is forgotten by a restart that comes first;
  both resets return `ESP_OK` also when they could not be started; without memory
  for the delay the reset callback reboots at once.
* Time: with SNTP started by the application, `time_sync_init` returns before it
  applies the stored zone (193); `set_timezone_posix` leaves the name of
  the zone before, so name and POSIX string can differ; the header promises that
  fractions of seconds are accepted (`esp_rmaker_time_sync.h:74`), `sscanf`
  accepts none; the second before the epoch is taken for a failure; a month of
  -12 indexes past its table; the comment on `tz_name_cmp` has the sign reversed.

## Proofs

`WorkQueueProofs`, for every size, set of entries and set of callers:

* `Typing`: `TypeOK` is inductive by itself. No assumption.
* `TouchesOnlyParkedHolds`, assuming `OneController`: one task makes the control
  calls (besides the worker). The inductive invariant `LifeInv` ties the place of
  the controller to that of the worker: after `WaitSuspended` nobody but the
  controller itself could resume the worker, because a work function's start is
  refused, so it stays suspended until the controller's own next step.
* `StopHasWorkerHolds`, `RunningHasWorkerHolds`, assuming also `NoWorkStop`: work
  functions do not stop their queue. `StopInv` adds to `LifeInv` what the state
  may be for each pair of places, in particular that between the controller's
  read of `RUNNING` and its write the worker cannot have parked. Without
  `NoWorkStop` the property is false, as `wq_stop` shows; `OneController` is
  needed for the same reason (two stops race).
* `ImplementsFifo`, assuming `OneController`: `Spec => FifoSpec`. The invariant
  `QueueInv` says that the entries in the queue, wake entries left out, are what
  was accepted and has not run, in order; it is kept by positions rather than by
  recursion over the queue. Each step is an abstract step or a stutter.

`MqttGlueLifeProofs`, for every set of threads and number of instances, assuming
only that the set of threads is finite: `Typing`, `Counting`, `OpsAlwaysValid`,
`HandlerAlwaysValid` and `TeardownIsAlone`, all from one inductive invariant. It
adds to the properties that an instance exists with its client from `Publish` to
`Destroy`, that past `WaitBusy` nobody is inside and none can enter since
`deleting` holds, and that a call of a controller and the phase of the instance
belong together. `busy` never falls below zero only because it counts the
threads inside, so type correctness needs `BusyCounts`.

`AwsSignProofs`, for every finite set of tasks and any requests, targets, headers,
aliases and structs, assuming only `AwsSignAssumption` (the sets are what their
names say, the structs tasks share and those they own differ): `Typing`,
`SignedRight`, `WireAlwaysExact`, `AnswersAreOwn`, `NeverResent`. The inductive
invariant has five parts. `Calls` ties the place of a task to its call and each
mutex to the places that hold it; from it follows the lemma `Alone`, that the owner of
`request_mutex` is alone in all that it protects, on which every other part
rests. `Wire` says what the pooled connection holds at each place of its user,
`Answers` that an answer is in it only while its call waits for it,
`Signed` that the struct of a request under way is of the host and alias in force
and the signature made from it. `Types` needs `gen` and the host changes under
way to be within `MaxHosts`.

`MqttGlueProofs`, for every finite set of topics, callbacks and application tasks,
any prefix relation among topics and any number of reconnects and troubles,
assuming only `MqttGlueAssumption`: `Typing` (never more entries than
`MAX_MQTT_SUBSCRIPTIONS`, never more parked SUBACKs than slots), `TopicsAgree`,
`EarlyAcksTaken`, `AllResent`. The inductive invariant adds to the properties that
a thread has topics left to send only on its way to them (`Pending`), and states
agreement and resending with the exception that makes them inductive: the entries
of a topic agree, and are sent, unless some thread still has the topic to send.
`AckedIsActive` needs more, since with a trouble it is false (`mqtt_reservation`).
`ActiveIfClear`: in every behaviour in which nobody subscribes to a topic between
the removal of its last entry and its UNSUBSCRIBE (`ClearToUnsubscribe`), it holds
as long as there was no trouble, across any number of reconnects and
application tasks. The invariant `CoverInv` says that while connected the topic of
each entry is subscribed at the broker, or some thread is about to send it, or the
handler is about to collect all of them. `ActiveWhenAlone` shows that a single
application task keeps `ClearToUnsubscribe`, so for it, as in `mqtt_shared`, there
is no hypothesis but that there was no trouble.

`PortInstallProofs`, for any tasks and ports: `OneWholePort` and `InstalledStays`.
The invariant says that between the claim and the release exactly one task
installs, and what the table holds at its place.

`MqttSessionProofs`: `FlagsAlwaysFollow`, for any messages; its invariant ties each
event to the state the client was put in and each mark to a client that is stopped.
`AlwaysDeliveredWhole`, assuming that every message has at least one part
(`SomeParts`): what is kept of a message that has come in part is its beginning or
nothing, and what is kept between messages may be anything, since a first part
does not use it.

`SigV4Proofs`, for every request that `IsRequest` describes: texts over the symbols of
`Order`, of any length; any path that begins with a slash; any numbers of parameters
and of headers, with repeated names in any case; any service, region, token and
lifetime; a payload that the signer hashes itself (`override` is empty). Assuming only
`MaxHeadersAssumption`:

* `HeaderVerifies` (`Agrees`): the signer refuses exactly the requests with a header of
  its own name, or with more headers than it has room for. Otherwise its signature and
  its signed names are those the service computes from the headers on the wire.
* `UrlVerifies` (`Verified`): for a URL that is not refused, the service computes the
  signature from the path and the query it receives, reads the path back, and finds
  each parameter of the caller as often as it was given, and the token.

The two sides are different programs, so each stage of the signer is brought to one
form and the server's definition to the same one. A loop over a sequence is a fold
(`FoldMade`, `FoldGrows`); `SeqInd` is induction over sequences, stated of a set of
sequences, and derived from the least element of a set of naturals. The stages:

* escapes: reading back what was encoded gives the text (`DecodedEncoded`), and
  encoding twice is the signer's double encoding (`EncodedTwice`);
* the path: the signer drops each segment that a later `..` removes, by counting, the
  server walks a stack; both leave the same segments (`NormalizedIs`), also when the
  server walks the path still escaped (`ServerPathEncoded`);
* header values: squeezing spaces in one pass keeps just the spaces between words
  (`TrimmedPlain`);
* sorting: the insertion sort leaves a sorted sequence (`SortedByIs`) and the order of
  equal elements (`MappedSorted`), so values of one name stay in order;
* the query: the buffer that `build_query` computes is never too small
  (`BuildQueryIs`), the text is split into the parameters it was made of
  (`ServerParamsIs`), and they stand where the server's order puts them
  (`ServerQueryBuilt`); parameters are counted by `BuiltCarries`;
* headers: the runs of the sorted headers are the server's lines (`HeadersAgree`), and
  the signed names the server's names (`SignedAgree`). The order of the wire is another
  one than the signer's, but no name has values in two of its parts (`WireSame`).

`ComponentsProofs`. Of the device, for any zones, default and waits, assuming
`DeviceAssumption`: `Typing` and `ZoneIsStored`. The invariant says that the zone
being set is already stored wherever `TZ` or the name is about to be, unless the
partition was closed, which then stays closed and empty until the next boot.

The others assume `ComponentsAssumption` (the sets and numbers are what
their names say, a message has a part, a default life is of two seconds at least).
`PartsAreTheirOwn` says that a behaviour of the whole is one of each part, so the
theorems of `PortInstallProofs` and `MqttSessionProofs`, instantiated, carry over:
`OnePortInstalled`, `FlagsFollow`, `WholeMessages`. The others are of loops, which
the model has as recursive functions. A loop has a number that goes down at each
step, and a set of naturals that is not empty has a least element: from this
`LoopEnds` and `RecursionEnds` show, once for all, that the function of such a loop
exists and is what its definition says, and `Downwards` that what each step keeps
holds at every place. They stand for the induction over data that the provers do
not have. By them:

* `WholeResponse`: for any limit, first capacity and sizes of pieces; the doubling
  of the capacity ends with more than is needed, so there is always room for the
  terminator, and no piece is left out of a response that succeeds;
* `AlwaysRenewedInTime`: for any default life of two seconds or more, and any
  positive margin;
* `AlwaysOnCalendar`: `DayFollows` and `Conversions` show of each day of every
  year, before and after the epoch, that the day after it has the number after its
  own, and that both conversions give it the same one;
* `AlwaysFound`: `TzNameCmp` is the order of the names without case and repeated
  underscores, and the search finds a name where it stands in every sorted
  table, of any length and of names of any length;
* `AlwaysReachesSaveEmptyEnd`: on every topic and every filter whose `+` are whole
  levels, of any length, the character loop matches just when the levels do and it
  is not a `+` that meets an empty level at the end of both (`MatchesLevels`): the
  exception above is the only difference from MQTT's rule;
* `AlwaysVerified`: by `HeaderVerifies` and `UrlVerifies`, since every input of the
  signer is a request (`InputsAreRequests`);
* `AlwaysAnswered`: for any table, any size of a TLV, and ids, data and responses of
  any length. `SizeOfPieces` and `PiecesBehind` say of a value cut into TLVs how many
  bytes they take and that they are read back as the value, wherever they stand; so
  `EncodedSize` is enough for each value (`AnswerSays`) and the context and the data
  are those of the request (`MessageRead`). `TableInv` says that no two slots hold
  one command, so that `Judged`, the search and the role, is right of any table with
  holes; `DeferredInv` keeps the context of a request put off. Two hypotheses:
  requests fit the buffer of `test_send` (`RequestsAssumption`), which leaves a value
  that does not fit out of the message, and ids leave room for their terminator
  (`ShortIds`). Without the second the answer carries another id, as `cmd_reqid`
  shows.

Model-checked only: every liveness property (fairness and `ENABLED` are out of the
reach of TLAPS). A hash of the payload that the caller gives (`override`) is in the
model and in neither the runs nor the theorems: the service would have to trust it.

## Hazards no property covers

* `esp-mqtt-glue.c:980`: `disconnect`, `connect` and `update_config` use `mqtt_data`
  without `glue_begin_op`, and `init` registers its handler after it has published
  the instance (1132); a `deinit` beside them frees both under them. No property
  holds here without asking the callers to order these calls, which the models do.
* `esp-mqtt-glue.c:819`: the mqtt task posts events with `portMAX_DELAY` while it
  holds esp-mqtt's lock. With the event queue full and the event task waiting for
  that lock in an operation, neither goes on. The event loop is outside the
  repository and its queue is in no model.

## Not modelled

* Console (`rmaker_console`): a line editor over the UART and commands that print.
* Common events: the definition of an event base.
* Factory data: reads of NVS partitions, without state of its own.
* APN3 PPI string: the formatting of a constant.
* Adapters of the signer to ESP-IDF (HTTP client, JSON, mutexes, crypto): calls
  without state of their own; `Accum`, `AwsSign` and `PortInstall` model what the
  component sees of them.
* HMAC, SHA-256 and the reading of the digits of a time or of a JSON answer.
* The entries of the zone table, and local time.
* Work queue: task-creation variants and the validation of the configuration. The
  deletion of the task, of the queue and of the handle in deinit is one step, as
  callers may not use a handle that is being deinitialised.
* MQTT glue: `unsubscribe_all`, the client's configuration and last will, the values of
  QoS and backoff. When the work queue refuses a retry round it runs in the timer
  daemon (494), beside one that may be in the work queue: in the model rounds are
  taken by the work queue, one at a time, and a timer that fires while a round is
  queued waits for it.
* Signing: create and destroy beside other calls, a region of the request's own. Names
  of query parameters are told apart as they are, so a caller's parameter named as
  one of presign's in another case (734) is not among the inputs.
* Command-response: bytes that are no sequence of TLVs, `parse_response`, handlers
  that change the table, the timestamp of a request (364), which is handed to
  the handler and decides nothing here, and the registration of command 0.
* System control: a factory reset that cannot erase the partition (91), whose result
  the code ignores; in the model the erase succeeds.
* Time: a read of the stored zone that fails though the key is there (79), without
  memory or for an error of NVS. `time_sync_init` would then set the default zone and
  keep the stored one, and `EnvIsStored` would not hold until the next boot.

## Plan

1. the bounded queue of the event loop beside `MqttGlue`, for the deadlock at 819,
   and `connect`, `disconnect` and `update_config` as uncounted users of
   `MqttGlueLife`, for the hazard at 980;
2. `unsubscribe_all`, and handlers that deregister commands;
3. create and destroy of a signing handle beside the calls of other tasks.
