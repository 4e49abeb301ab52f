# A formal model of the OpenTrickler Pico firmware

The firmware (`src/`) drives a powder trickler from an RP2040/RP2350: it reads a
scale over UART, runs a coarse and a fine stepper motor towards a target weight,
opens and closes a servo gate, shows menus on an encoder display or an LVGL touch
screen, keeps its settings in an EEPROM, and serves a REST interface from an
lwIP HTTP server. It runs under FreeRTOS with SMP on two cores, so tasks of any
priority run at the same time and lower priority is no mutual exclusion.

This directory holds TLA+ modules translated from that code, TLC configurations
that check them on small instances, and TLAPS proofs for every value of the
constants. `PROJECT.json` lists the runs, the source lines behind every
definition, the hazards, the findings and the theorems.

## 1. Inventory

### Tasks and other actors

| actor | created in | runs |
|---|---|---|
| menu task | `app.cpp` | menus, and inside them the whole charge, cleanup and calibration modes |
| scale listener | `scale.c` / driver | reads UART frames, publishes the weight |
| coarse and fine stepper task | `motors.c` | one speed command at a time, ramps |
| servo gate task | `servo_gate.c` | one gate command at a time, ramps |
| lwIP / httpd | `wireless.c` | REST handlers, one at a time, concurrent with all others |
| timer daemon | FreeRTOS | the motor tap callback |
| encoder ISR | `encoder.cpp` | posts button events to a queue |
| render tasks, NeoPixel task | display code | drawing only |

### Components

| component | state it keeps | operations | shared with | hard behaviour | what makes it correct |
|---|---|---|---|---|---|
| motor speed (`motors.c`) | command queue (2), DIR pin, previous velocity | `motor_set_speed`, stepper task | charge mode, cleanup, REST, timer | the overwrite is three queue operations | the last command wins; direction follows the sign |
| motor enable and tap (`motors.c`) | EN pins, `tap_*` globals, one timer | `motor_enable`, `motor_tap`, timer callback | charge mode, cleanup, REST | one timer and one set of globals for two motors | a pulse ends; the enable state is restored |
| servo gate (`servo_gate.c`) | queue (1), binary semaphore, `gate_state`, `prev_ratio` | `servo_gate_set_state`, gate task | charge mode, cleanup, REST | timeouts on both sides; the semaphore is given before the state is published | a wait that returns in time means the gate is there |
| charge mode (`charge_mode.cpp`) | `charge_mode_state`, `charge_mode_event`, filters, simulation | zero, complete, removal, return; REST config and state | nearly everything | polling loops with early exits; REST writes the state behind the task's back | outside the mode the motors are off and the gate closed; the trickle stops at the cut-off |
| cleanup mode (`cleanup_mode.cpp`) | state, speeds | knob loop, REST | motors, gate, encoder queue | reads `gate_state` and the mode without a lock | everything off on exit |
| menu (`menu.cpp`, `mui_menu.c`) | `exit_state` | form loop, dispatch | encoder queue | `exit_state` is written by several tasks | every requested mode is entered |
| encoder (`encoder.cpp`) | event queue (5), override flag | ISR, blocking wait, REST buttons | menu, charge, cleanup, tuning | events dropped when full; each consumer swallows foreign events | a reset reaches the running mode |
| AI tuning (`ai_tuning.c`, `rest_ai_tuning.c`) | session, ML history | start, record, next drop, apply, cancel | charge mode, REST, profile | REST and charge task in the same session; a mutex only some paths take | bounded number of drops; cancel undoes; recommendations in range |
| scale core (`scale.c`) | weight, semaphore, mutex, simulation | block wait, REST action, driver tasks | charge mode, calibration | a binary semaphore that stays given | a wait returns a fresh weight |
| scale drivers (`*_scale.c`) | frame buffers | parse a frame, zero, force zero | scale core | framing errors | a frame is parsed only when complete |
| profiles (`profile.c`) | profile table, current index, mutex | select, update, save | charge mode, REST | fallback to unprotected access | a reader never sees a half-written profile |
| EEPROM (`eeprom.c`, `cat24c256_eeprom.c`) | 32 KB, mutex | page writes, CRC, save handlers | every configuration | a multi-page write is not atomic; the AI tuning's saves compose in one static copy, outside the mutex | a save is written as one copy; a torn write is detected |
| flash storage (`flash_storage.c`) | tuning history | save, load | AI tuning | erase, then program | a torn write is detected |
| HTTP server (`http_rest.c`) | connections, an answer buffer per endpoint (one for all of the AI tuning's), a list of handlers | accept, receive, send, poll, decode and cut a URI | every REST handler, TCP's memory | partial writes, peers that stop, closes that fail | a peer gets one answer, a request is executed once, a connection ends |
| charge events (`charge_mode.cpp`) | one word of flags | set, clear, poll | charge mode, REST | read and write of a word on two cores | a flag is seen once |
| display lock (`display.c`) | mutex | acquire, release | render tasks | release without a successful acquire | at most one owner |
| system control (`system_control.c`) | flags | save, reboot, erase | REST, EEPROM | reboot before the response | what was saved is there after a reboot |
| error ring (`error.c`) | ring | report, read, clear | all tasks | overwrites at its limit | the newest errors are kept |
| float ring buffer (`FloatRingBuffer.cpp`) | ring, count | enqueue, mean, deviation | charge mode, calibration | wrap-around | statistics over the last values only |
| DHCP server (`dhcpserver.c`) | lease table | discover, request | network | table full, expiry | one address, one client |
| calibration (`and_scale_calibrate.c`) | step | dialogue | encoder queue, display | renders without the display mutex | it can be left |
| TMC2209 driver set-up (`motors.c`) | registers | init, verify, CRC | UART | 8-bit write counter | a driver that answers is accepted |
| display front ends, NeoPixel, Wi-Fi, DNS, web pages | view state | drawing, sockets | | I/O | |

### How they interact

The menu task is the only one that executes charge mode, cleanup mode and the
menus, so these exclude each other; each is a loop polling the encoder queue, the
shared mode variable, and the scale. REST handlers run in the lwIP thread and
write the same variables: the mode, `exit_state`, the encoder queue, the tuning
session, motor speeds and enables. Motors and gate are reached through queues
served by tasks of higher priority. The timer daemon ends a motor tap.


## 2. Modules

Four groups of modules: the drive (motors and gate), the modes of operation, the
memory, and the links to operator, scale and network. Each looks at one part in the
detail that decides there and is abstracted in the others.

| module | models | extends |
|---|---|---|
| `MotorSpeed` | one motor's command queue and stepper task | |
| `MotorTap` | the timed pulse on both motors, its timer, the modes that own them | |
| `ServoGate` | the gate's queue, semaphore and task, with any callers | |
| `CleanupGate` | the menu task as one of these callers, going through cleanup mode | `ServoGate` |
| `TricklerState` | the state shared by menu, modes, REST and buttons, and the calls on it | |
| `ChargeMode`, `CleanupMode`, `RestRequests` | `charge_mode_menu`, `cleanup_mode_menu`, the REST handlers | `TricklerState` |
| `Trickler` | the menu loop and the three modules above, interleaved; the refinement | all of them |
| `DispenseCycle` | the abstract specification: the phases of a charge and who may feed in each | |
| `AiTuning` | a tuning session, record by record, with REST in between | |
| `TuningHistory` | the history of charges, its suggestions, its copy in the flash | |
| `ProfileGains` | the gains of the selected profile, their readers and writers | |
| `EepromRecords`, `EepromStore` | which record is saved by whom and how; saving, loading, erasing, resets between any two pages | the former |
| `MenuForms` | the forms of the encoder display, the menu task between them and the modes, the calibration dialogue | |
| `ScaleLink` | from the bytes of a scale to the weight a wait returns, for each driver's framing | |
| `ScaleSim` | the simulated scale and the waits of charge mode | |
| `HttpServer` | connections, partial writes, polls, closes | |
| `HttpUri` | from a URI to handler and parameters | |
| `DhcpLeases` | the lease table of the access point | |
| `ErrorLog` | the ring of errors, its reporters and its reader | |
| `ChargeEvents` | the flags charge mode raises and the page polls | |
| `DeviceMC`, `LinksMC` | several components with no state in common, in one run | as named there |
| `MotorsMC` | `MotorSpeed` and `MotorTap` in one run | both |
| other `*MC` | constants of the instances TLC checks | |
| `SettingsProofs` | theorems | `TuningHistory`, `MenuForms`, `ProfileGains` |
| `LinkProofs` | theorems | `HttpServer`, `HttpUri`, `DhcpLeases`, `ScaleLink`, `ErrorLog` |
| other `*Proofs` | theorems | the module of that name (`ServoGateProofs`: and `CleanupGate`) |

What one module assumes another shows: `Trickler` and `MotorTap` take a motor to
have the speed last asked of it, which is what `MotorSpeed` proves for calls that
do not overlap; `Trickler` takes the gate to be where it was last sent, which is
`AtRestAsCommanded` of `ServoGate` once it is at rest; `Trickler` lets a recorded
drop move the session anywhere `AiTuning` can, and a measurement be any reading, which
is what `ScaleLink` allows (a weight of before the wait included) and what
`ScaleSim` shows of the simulated one. `MenuForms` says what starts a mode, `Trickler`
what the mode does.

### State and actions against the code

- **MotorSpeed.** `queue` is `stepper_speed_control_queue`. A call is `SetSpeed`,
  `Send`, and, if the queue is full, `Discard` and `Resend`: the three queue
  operations of `motor_set_speed`, between which other callers run. The stepper
  task is `Receive`, then `RampToSpeed`, or `RampToStandstill`, `ToggleDirection`
  and `RampToSpeed`. Velocities are signed integers; a ramp is one step, since
  nothing reads its intermediate rates. `recent` is history: the calls no later
  call followed.
- **MotorTap.** `motor_tap` is `Save`, `Enable`, `Run`, `Select`, `Arm`; the
  callback is `Fire`, `Stop`, `RestoreCoarse`, `RestoreFine`. The menu task is
  reduced to what it does to motors: `EnterMode`, `Drive`, `LeaveMode`.
- **ServoGate.** `servo_gate_set_state` is `SetState` (drain the semaphore),
  `Send` or `SendTimeout`, and `WaitReady` or `WaitTimeout`. The gate task is
  `Receive`, `RampStep`, `Arrive`, `Signal`, `Publish`: the semaphore is given
  before `gate_state` is written, as in the code. The ratio is open, closed or
  between. `CleanupGate` adds the menu task: `LeaveCleanup` comes at any moment and
  decides from `gate_state` as it is then; `early` remembers that the gate was on its
  way and `gate_state` did not say open.
- **Trickler group.** `pc` is the place in the menu task's code; a step ends where
  the task waits, or where what it did can be seen by another task. A measurement
  is one of: none in time, far, near, full. Settings REST can change at any
  moment (reverse, pulses, precharge) go either way at each use. A REST handler
  reads what it decides on when it starts, and `http` holds what it still has to
  do, one step each. The queue drops events sent without a timeout.
- **AiTuning.** A recorded drop is `Check`, `Count` or `GiveUp`, `Dispatch`, a move
  and a narrowing of the search, and `Clamp`. Start takes the mutex the record
  holds; apply and cancel do not, so they fall anywhere, and cancel itself is two
  steps. Gains are integers in a unit in which every halving is exact.

- **TuningHistory.** `ai_tuning_record_charge` is `Put`, `Advance`, `Count`, `Check`,
  `SumUp`, `Suggest`, `Has`, then the save: `Copy` into the one buffer and `Program`.
  The HTTP server's `Clear`, and `Apply` with its steps, fall between any two of them. The
  flash has two pages; a power loss while they are programmed leaves none or the first,
  and an erased word is not a number, which `Clamp` turns into the minimum as `fminf` and
  `fmaxf` do.
- **ProfileGains.** A pair of gains holds the numbers of the edits that wrote its parts.
  Reader and writer look up the profile first, ask for the mutex next, and copy part
  by part; who does not get the mutex in time goes on without it.
- **EepromStore.** A record is its pages, a page the version of the edit it holds.
  `EepromRecords` gives each record's properties as the code has them: what its save
  writes (the values in memory, a copy of its own composed on the stack, or the one static copy
  of all its saves, as the AI tuning's), whether a load checks a checksum, whether a refused
  load writes the defaults back, which request edits which pages, whether `eeprom_save_all`
  saves it. A save is `Compose`, `Take` (or `TakeTimesOut`) and one `WritePage` per page,
  `AllSaved` after the last; `static` is the shared copy, which `Compose` overwrites also
  while the other task writes from it. `PowerLoss` and a failing page or read come at any step.
- **MenuForms.** A form is its number in `fds_data`; `Ways` is the table of the fields
  that lead from form to form, `LeavesWith` that of the fields that leave for a mode. The
  cursor may be on any field, so a press does whatever one of them does. An override
  left in the queue, a request in the middle of posting one, and a restart that
  reloads the records are actions of their own.
- **ScaleLink, ScaleSim.** A byte is the frame it belongs to and its place in it; `Kept`
  and `Accepted` are the four ways the drivers find the beginning of a frame. One byte of
  the line may be lost, and another no sooner than `Apart` bytes later. The simulation
  is its phases and the real numbers of calls they last.
- **HttpServer.** One thread runs every callback to its end, so a callback is an action.
  What TCP holds and a connection's state take units from one heap; `Writable` is what
  TCP's send buffer and the limit of one write allow, or what halving that finds memory for.
  An answer is in the buffer its endpoint's handler composes in (`BufferOf`), identified by
  its number, and is sent from there, later parts included. The endpoints of the AI tuning
  have one buffer in common (`ai_tuning_json_buffer`), so that a request for any of them
  rewrites the answers of the others that are not yet written (`Overtake`).
- **HttpUri.** A URI is a sequence of symbols, which a page writes parameter by parameter and
  character by character; decoding, which comes first, resolves escapes and drops what does not
  fit, cutting comes after. A pair begins at the text's first place and behind each `&`.
- **DhcpLeases.** Time is a clock that wraps; the server keeps the end of a lease in
  coarser blocks and compares by a signed difference. A client gives its address up
  when its lease ends; an acknowledgement may be lost.
- **ErrorLog, ChargeEvents.** An action is one access to a shared variable, as nothing is
  locked.

A definition named `X_Variant` (or `X_` and a word) is `X` with a plausible mistake. `PROJECT.json` lists
which property has to fail when `X` is replaced by it.

## 3. Runs

| run | checks | instance |
|---|---|---|
| `motors` | speed: `TypeOK`, `LatestCommandWins`, `TurnsAsCommanded`, `TurnOnlyAtStandstill`, `Settles`; tap: `PulseEnds`, `EnableRestored` | three callers, queue of 2, four calls, velocities -1, 0, 1; any selections, no overlapping pulses |
| `servo_gate` | `TypeOK`, `AtRestAsCommanded`, `WaitMeansThere`, `EveryCallReturns`, `ClosedUnlessEarly` | menu task and one other, four calls, ramps that can outlast the timeouts, a reset at any moment |
| `trickler` | `TypeOK`, `StillWhenWaiting`, `OffInMenu`, `NoFeedOnClosedGate` | all requests but the gate's; the state is overwritten with exit, zero (start of the simulation) and complete; queue 1, two missing measurements |
| `trickler_cycle` | `CoarseStaysCut`, `Implements`, `ResetEnds` | requests that keep charge mode's order; queue 2 |
| `ai_tuning` | `Converges`, `TriesInRange` | ranges of 8 and 16 units, step 2, a cancel anywhere |
| `eeprom` | `SavedStays`, `NoRollback`, `CheckedLoadsWhole`, `EveryRequestEnds` | one record of each kind with an edit and a fault (of the kind with a copy of its own and no checksum an edit alone), one with two edits, and two records together |
| `device` | history: `FlashIsCurrent`, `HoldsLatest`, `SuggestionFits`; gains: `ReadsWhole`; forms: `TargetAsShown`, `RunsWhatWasAsked`, `SavesWhereLoaded`; leases: `OneHolder`; frames: `WholeFrames`; errors: `ShowsTheLatest` | four charges on a ring of three; two profiles; two requests; three clients for two addresses; six frames per framing; two reporters, four reports |
| `links` | `OneAnswer`, `ExecutedOnce`, `EveryConnectionEnds`, `RequestArrives`, `SimCharges` | two connections, two endpoints with one buffer and a page, memory for less than two answers, a send buffer for less than one; requests of up to three parameters; the simulation with its real lengths |

`motors`, `device` and `links` each hold components that have no state in common: a variable
`focus`, which no step changes, says which of them moves, so that their state spaces
add up and do not multiply.

**Why the bounds are enough.** Three callers are the number that can be in
`motor_set_speed` at once in the firmware (menu task, HTTP server, timer), and the
queue is the firmware's own; four calls fill it, overwrite it and leave a call in
between. In `servo_gate` four calls let cleanup open and close around two calls of
another task, which is enough to take its signal. `FailLimit` is 10 in the code; two
already gives a counted miss, a reset of the count and the emergency stop, and
nothing depends on the count otherwise. The event queue holds 5 in the code:
with 1 it is full at every event, with 2 a reset waits behind another event; a
longer queue only delays. The ranges of `ai_tuning` give each search at least
two halvings, and with `MaxDrops` = 11 the limit is never what ends a search.
`AiTuningMC` evaluates that the default ranges need 23 of the 30 drops allowed.

In `device` a ring of three wraps with the fourth charge, its first page holds two
of them, and two are enough for a suggestion, so that there are counts on both sides of
each limit; the code has 10, 7 and 3. The clock of the leases wraps at 18 with leases
of 5 in blocks of 3, which keeps the order of 49.7 days, 24 hours and 65.5 seconds, and
27 ticks pass one wrap and a lease after it. Six frames let a lost byte be followed by
the next, `Apart` = 8 being two frames. In `links` a heap of four holds one connection
and its answer of three parts, or two connections and two parts: answers are
cut everywhere, and a connection is refused; a send buffer of two parts cuts them with
memory free. Two endpoints of one buffer and a page are the three ways two URIs relate: the
same buffer asked by the same or by another URI, and none. Eleven symbols of a URI are less than what
three parameters need. `eeprom` needs two edits to tell an older version from a newer
one, and one fault to tear a record that the next start then meets; two faults in one
behaviour are not looked at.

The fault model of `ScaleLink` is one lost byte at a time, at least eight bytes after
the last one lost and after the listener joined. A burst as long as a frame is
not covered: then two frames look like one to every driver. At 19200 baud a
listener that polls a 32-byte FIFO every 20 ms loses bytes when it is late, so that
losses are real. `ScaleSim` assumes a target of more than 5 grains, and takes a
measurement together with what charge mode does with it.

`CHECK_DEADLOCK FALSE` is also set in `device` and `links`, whose components stop at
their bounds, and for the same reason in `motors` and `servo_gate`: their calls are
bounded, so they stop when the last has returned and the task waits on its queue.

**What the exceptions say.** Some properties name the case in which the code does not
keep them, and a second definition states the property without the exception, which
fails: `HoldsLatest` (`mixed`: a request fell into a record; `HoldsLatestAlways`),
`ReadsWhole` (`apart`: somebody went on without the mutex; `ReadsAlwaysWhole`), `OneAnswer`
(`overtaken`: that endpoint, or another that composes in the same buffer, was asked before
the answer was written; `OneAnswerAlways`), `ClosedUnlessEarly` (`early`: the reset came
while the gate was opening; `ClosedAfterCleanup`, which is the run `gate_reset`), `RequestArrives` (an escaped `&`, a trailing space,
a URI too long; `ParamsAlwaysArrive`), `TargetAsShown` (a request changed the decimals;
`TargetAlwaysAsShown`), `ShowsTheLatest` (two at the log at once; `AlwaysShowsTheLatest`).
`GainsAlwaysInRange` (a clear between a suggestion and its flag puts a zero gain into a
profile) and `AddressesReturn` (a lease nobody asks about for half a turn of the clock
looks valid again) are of the same kind. All but `ClosedAfterCleanup` are stated and not in a run; one
more of them the code promises, where `profile.c:229` calls the read of the gains
thread-safe, which it is as long as everybody asks for the mutex and gets it.

`SavedStays` is about saves that write one and the same thing from their first page to their
last. It says nothing of a save during which that changes: an edit of a record written from
memory, or, for the AI tuning's record, another save that composes the one static copy in
the meantime (`ai_tuning.c:45`, composed at `:667` before the mutex is taken). The pages written
before and after are then of two versions, in spite of the mutex. The second save writes
all pages again, unless its wait for the mutex times out or the power goes; then the
mixture stays, and no checksum tells. `WritesOneCopy` says that this does not
happen; it holds for the records with a copy of their own, and `EepromStoreMixed.cfg` refutes it
for the AI tuning's.

**What the restrictions on requests say.** `StillWhenWaiting` and
`NoFeedOnClosedGate` hold for requests that write the state at every moment (any
value, by the theorems; exit, zero and complete in the run), but
not for those that command the hardware themselves: a speed set by REST is
executed at once, and a gate closed by REST during a charge closes. In run
`trickler` the speed REST sets is therefore 0, and the request that moves the gate
is left to `trickler_cycle`. `CoarseStaysCut` holds whatever states are written (theorem
`CutCorrect`). `Implements` and `ResetEnds` need more: a client that writes "wait for
complete" into the state during a charge begins another charge, out of the order of the
abstract cycle; they are checked, and `Implements` is proved, for clients that write
nothing but exit.

**Fairness.** Liveness is stated under weak fairness of tasks and never of users,
scale or clients. `MotorSpeed`: the stepper task, of higher priority than all its
callers but the timer daemon, and each call, which does not block. `ServoGate`: the
gate task and each call; a blocked call ends at its timeout at latest, which is what
`WaitTimeout` is. `Trickler`: the menu task and the HTTP thread run
whenever a step of theirs is possible; where they block (the form and cleanup mode on an
event, a handler on room in the queue) no step is enabled, and nothing is assumed. A ramp, a move and a reading take bounded
time; that the scale may never answer is part of the model. `EepromStore`: each task's
next step, and the start; a wait for the mutex ends in its timeout. `HttpServer`: lwIP's
timers, that is, polls, and for what is not acknowledged retransmissions until TCP gives
up; nothing is assumed of peers. `ScaleSim`: the menu task's next measurement.

With several workers TLC checks liveness also on the part of the graph it has so far;
the properties also hold with `-lncheck final`, where it looks for a counterexample once,
on the whole graph.

### Where the code does not do what it says

| run | shows |
|---|---|
| `gate_reset` | Cleanup mode left while the gate it opened is still on its way, before the gate task has published that it is open, leaves the gate open; a comment at the exit says that it is closed there. |
| `trickler_cancel` | A cancelled session leaves charge mode running if its reset did not fit in the event queue. |
| `eeprom_crc` | A record without a checksum, torn by a loss of power between two pages, is loaded as a mixture of two saves; the repository's README says that every setting has one. |
| `charge_events` | A flag raised on the other core between the poll's capture and its clear is lost, which the capture is said to avoid. |

More configurations, run by hand (`tlc -config X.cfg M`), each end in a counterexample; a configuration whose
own property is another is to be run with the one named here:

| configuration | module | property | shows |
|---|---|---|---|
| `TricklerStart.cfg` | `TricklerMC` | `StartRuns` | A session starts without charge mode if its event did not fit in the queue. |
| `MotorTapCharge.cfg` | `MotorsMC` | `EnabledInMode` | A pulse begun in the menu and ended in charge mode disables the motor of the charge. |
| `MotorTapTwo.cfg` | `MotorsMC` | `PulseEnds` | A tap of the other motor during a pulse takes over the only timer, and the first motor turns on. |
| the same with `OneMotor` | `MotorsMC` | `EnableRestored` | A tap during a pulse saves the enable state that pulse made, and the motor stays enabled. |
| `AiTuningCancel.cfg` | `AiTuningMC` | `StaysCancelled` | A cancel during the recording of a drop is undone by the rest of it. |
| the same with `Serial = TRUE` | `AiTuningMC` | `AppliedStays` | A cancel after an apply takes the applied gains back, in memory only. |
| `AiTuningRange.cfg` | `AiTuningMC` | `RecommendedInRange` | A slow drop that ends a search raises Kp, and the gain is recommended before it is clamped. |
| `EepromStoreMixed.cfg` | `EepromStoreMC` | `WritesOneCopy` | The menu's save of the AI tuning's record changes the one static copy while a request's save writes from it: two versions are mixed. |
| `EepromStoreCrc.cfg` | `EepromStoreMC` | `RepliesBeforeReset` | A requested reset happens inside the handler that composed the reply, before it is sent. |
| `ScaleGng.cfg` | `ScaleLink` | `WholeFrames` | The polling driver empties the UART before it asks, but keeps the part of a late frame it has already taken, and takes a weight from two frames. |

The passing runs hold where these conditions do not arise: `motors` with pulses that
do not overlap, `TriesInRange` about what is tried and not what is recommended,
`device` with a polled scale that answers in time.

## 4. Theorems

All are proved for every value of the constants that satisfies the named
assumptions of the modules. Each follows from an inductive invariant.

| theorem | states | inductive invariant |
|---|---|---|
| `MotorSpeedProofs!LatestCommand` | `LatestCommandWins` | `LatestInv`: if what the motor will do is not from a latest call, then some call has yet to send, or has made room and finds it |
| `MotorSpeedProofs!Direction` | `TurnsAsCommanded` | `DirectionInv`: pin, flag and sign agree, phase by phase |
| `MotorSpeedProofs!StandstillTurn` | `TurnOnlyAtStandstill` | the same |
| `ServoGateProofs!AtRestCorrect` | `AtRestAsCommanded` | `AtRestInv`: the last accepted command is in the queue, in the task or in `gate_state` |
| `ServoGateProofs!WaitCorrect` | `WaitMeansThere` | `AloneInv`: while nobody else calls, the semaphore is given only by this move |
| `ServoGateProofs!ClosedCorrect` | `ClosedUnlessEarly` | `OpenedInv`: while nobody else has called since cleanup opened the gate, the command on its way or obeyed last is the menu task's, to open in cleanup mode and to close after, unless the reset was early; on `MenuIsACaller`, by which every behaviour with cleanup mode is one of `ServoGate` |
| `MotorTapProofs!PulseCorrect` | `PulseEnds` | `PulseInv`: what turns in the menu is what the pulse will still stop; with `Alone` or `Same` |
| `MotorTapProofs!EnableCorrect` | `EnableRestored` | `EnableInv` with `Alone` |
| `TricklerProofs!TypeCorrect` | `TypeOK` | with `HttpInv`: at most three effects of a request are pending, each with an argument of its kind |
| `TricklerProofs!OffCorrect` | `OffInMenu` | inductive as it stands, for all requests |
| `TricklerProofs!StillCorrect` | `StillWhenWaiting` | `MotorInv`: which motor may turn at each place of the menu task |
| `TricklerProofs!GateCorrect` | `NoFeedOnClosedGate` | `GateInv`, on `MotorInv`: from where to where in a charge the gate is open |
| `TricklerProofs!CutCorrect` | `CoarseStaysCut` | `CutInv`: the flag that lets the coarse motor run is down only between the cut and the end of the charge |
| `TricklerProofs!CycleImplemented` | `Implements` | the refinement of `DispenseCycle`, initial state and each step of menu task, handler and interrupt, on `MotorInv` |
| `AiTuningProofs!TriesCorrect` | `TriesInRange` | `TryInv`: exempts only the motor whose handler is running, and only until its clamp |
| `AiTuningProofs!ConvergesCorrect` | `Converges` | `ConvergeInv`: drops recorded and drops the remaining halvings still need, at each step of a record |
| `SettingsProofs!FlashCorrect` | `FlashIsCurrent` | `CopyInv`: what is in memory, in the one buffer and in each page of the flash, by how far a save has come |
| `SettingsProofs!LatestHeldCorrect` | `HoldsLatest` | `HoldInv`: slot by slot from the write index backwards, the charges recorded last, with the half-stored one at each of its three steps |
| `SettingsProofs!SuggestionCorrect` | `SuggestionFits` | the same |
| `SettingsProofs!RunsCorrect` | `RunsWhatWasAsked` | `AskedInv`: the state the menu task will take up stands for a mode somebody asked for since it last looked |
| `SettingsProofs!TargetCorrect` | `TargetAsShown` | `ShownInv`: from the confirmation to the start, the digits are those shown |
| `SettingsProofs!SavesCorrect` | `SavesWhereLoaded` | `EditorInv`: while the editor is open and no request moved the selection, what it holds is of the selected profile |
| `SettingsProofs!ReadsCorrect` | `ReadsWhole` | `TypeInv`, `WholeInv`: what the holder of the mutex has copied so far, part by part |
| `EepromStoreProofs!SavedCorrect` | `SavedStays` | `StoreInv`: of every task what it has taken and how many pages it has written, of the start what it has loaded (`BootInv`, `TaskInv`), and of every page which save wrote it, from memory, from its own copy or from the shared one (`SaveInv`) |
| `EepromStoreProofs!NoRollbackCorrect` | `NoRollback` | `NewestInv`: no page in the EEPROM is newer than the memory of a record that is saved in place, unless the memory holds defaults |
| `EepromStoreProofs!LoadsWholeCorrect` | `CheckedLoadsWhole` | `WholeInv`: a checksum that fits is that of one save |
| `LinkProofs!AnswersCorrect` | `OneAnswer` | `AnswerInv`: what a peer has seen and what is left add up to one answer, which the buffer still holds |
| `LinkProofs!OnceCorrect` | `ExecutedOnce` | the same, and per action what it does to the connection |
| `LinkProofs!ArrivesCorrect` | `RequestArrives` | `UriInv`: where in the URI each parameter lies, and that nothing else lies there; `TableInv`: a handler's place in the table is its age |
| `LinkProofs!OneHolderCorrect` | `OneHolder` | `LeaseInv`: who uses an address has its slot, whose expiry, in whole blocks and modulo the wrap, is no earlier than the client's |
| `LinkProofs!WholeCorrect` | `WholeFrames` | `LinkInv`: the listener is in step with the line, or behind it by lost bytes and sure to notice, or past a lost newline; `StreamInv`: how far apart losses are |
| `LinkProofs!LatestCorrect` | `ShowsTheLatest` | `LogInv`: the slots from the head backwards are the errors reported last, with the half-stored one at each of its steps |

and `TypeCorrect` for `MotorSpeed`, `ServoGate` and `AiTuning`.

The invariants are needed because the properties alone say nothing about the steps in
between: that a drop is in range after `Clamp` says nothing of the gain a handler moves just
before; that no motor turns while the operator handles the pan does not follow from
itself, as the step before the wait has to have stopped it; that the ring shows the
latest errors between reports says nothing of the moment when the slot is written and the
head not yet moved.

How the longer arguments go:

- *Rings* (`TuningHistory`, `ErrorLog`). Place `k` back from the write index is computed modulo
  the size; the lemmas `OneAround`, `Around`, `HeldPlace` say what one step of the index does
  to every such place. All else is which of the three steps of storing (put, advance, count)
  has been taken.
- *Answers* (`HttpServer`). `Continues` says that what is written next continues the beginning a
  peer has seen, `Sends` what one call of `http_send` does, `Others` that a connection a
  step does not touch keeps its part, also when a buffer is written
  anew (those that still send from it, whatever their endpoint, are then in `overtaken`). Nothing is
  assumed of how endpoints share buffers.
- *A URI* (`HttpUri`). The page builds it step by step, so that the induction is one over steps: the
  invariant names the place of every parameter. The rest is about one text: `Found` and `FoundAt` say
  what `strchr` finds, `Cuts` that pairs begin where parameters do (`Ordered`: the nth start is
  the nth place), `PieceIs` that each piece is the pair that was meant.
- *Frames* (`ScaleLink`). By framing: from where in a frame the driver may be listening, what it
  has kept, and why the byte that closes a frame cannot close another. Losses are at least a
  frame apart, so that what is kept is at most one short.
- *Leases* (`DhcpLeases`). The end of a slot's lease counts to the end of its block, so it is no
  earlier than the client's own; and as a lease and a block together are less than half the
  wrap, the server's signed difference has the sign of the true one (`RunsNotExpired`), however
  often the clock has wrapped.
- *Refinement* (`Trickler`). Each step of `ChargeMode` moves the phase of `DispenseCycle`
  one on or leaves it; `PhaseOf` and `FeedOf` turn the mapping into facts about places once,
  `Same`, `Advancing`, `Staying`, `Standing` are the four ways a step can map.
- *Halvings* (`AiTuning`). `Converges` compares a counter with a recursive function of the width
  of the search. What the function is for every width is proved without induction: `DropsDefined`
  takes the least width at which it would not be what it should, and shows that there is none.

Assumptions beyond those the modules name, and what they stand for:

- `NoDriving` (`StillCorrect`, `GateCorrect`, `CutCorrect`, `CycleImplemented`): no client sets
  a speed other than 0 for cleanup mode. The handler commands the motor at once, in whatever mode
  the menu task is; a motor then turns in charge mode too.
- no request of a gate position (`GateCorrect`): such a request is executed at once as well.
- `ExitOnly` (`CycleImplemented`): clients write no state but exit, and do not start the simulation,
  which writes "wait for zero"; any other state moves a charge out of its order (section 3).
- pulses do not overlap, or all select the same motors (`PulseCorrect`, `EnableCorrect`):
  `MotorTapTwo.cfg` is the counterexample.
- `Apart >= FrameLength`, and a polled scale answers before the next question (`WholeCorrect`): the
  fault model of section 3; `ScaleGng.cfg` is the counterexample without the latter.

Only model-checked: everything under fairness (`Settles`, `EveryCallReturns`,
`ResetEnds`, `EveryRequestEnds`, `EveryConnectionEnds`, `SimCharges`), which is outside the
proof system. Every other property of a passing run is a theorem.

## 5. Not modelled, and the plan

`PROJECT.json` lists every component with its status and, where it is not modelled, the
reason. The build modelled is the one for the Mini 12864 display. Not modelled:

- the display lock: who fails to get it only draws;
- the float ring buffer: sequential, and about floating-point sums;
- the DNS server: it keeps no state between packets;
- the set-up of the TMC2209 drivers, Wi-Fi's start and stop, the LEDs, the touch
  display (LVGL's state), web pages: input and output;
- start-up, which runs before the scheduler.

Left out of what is modelled: sizes of a pulse and lengths of a ramp; floating-point
filters and the PID formula (`Trickler` takes a measurement as far, near or full); names
and speeds of profiles and the loop of `ai_tuning_start` over all profiles; where on a
page the cursor is; the keys the calibration presses on the scale.

What is left to do: pure functions against reference definitions (statistics of the ring
buffer, quadrature decoding, speed to step period, the CRC and the counter of the TMC2209).
