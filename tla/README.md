# RoverLink: a formal model

TLA+ specifications of the RoverLink firmware (ESP-IDF, C, `src/main`): TLC
checks them on small instances, TLAPS proves theorems about all of it for every
value of the constants.  Line numbers refer to the files under `src/main`
unless another directory is named.

## 1. The system

An ESP32 (two cores, 32 bit) drives a two-wheeled vehicle.  A host sends velocity requests,
regulator settings, poses to display and update URLs over UART and MQTT; the
vehicle answers with wheel, battery and IMU telemetry.

| Component | State | Operations | Talks to |
|---|---|---|---|
| control loop (`app_main.c`, core 1, priority 12) | `set_lin/ang`, `last_cmd_us`, `last_us`, `v_filt_*`, `loop_count` | `control_task` | takes the command mailboxes, calls PID, kinematics, motors, odometry; overwrites the snapshot queue |
| regulator (`pid.c`) | `ugv_pid_t` per wheel | init, tunings, limits, min drive, reset, compute | control loop |
| kinematics (`kinematics.c`) | constants | `cmd_vel_to_wheels` | control loop |
| motors (`motor.c`) | two direction inputs and a duty per channel | set, stop | control loop |
| mailboxes (`comms.c`) | three one-slot queues, `s_cmd_display_recv_us` | push, take | both transports push; control loop and display take |
| UART link (`uart_link.c`, priority 7) | automaton, `s_last_good_rx_us` | `uart_rx_task`, `uart_link_recent_rx` | pushes; its stamp gates MQTT velocity |
| WiFi and MQTT (`comms.c`) | `s_wifi_retries`, event bits, `s_mqtt_connected` | `wifi_evt` (event-loop task), `mqtt_evt` (client task), `comms_init` | pushes, `ota_mark_healthy`, `ota_start` |
| update (`ota.c`) | `s_validated`, `s_in_progress`, timer; otadata and slots in flash | `ota_init`, watchdog callback (esp_timer task), `ota_mark_healthy`, `ota_task` | bootloader |
| odometry (`odometry.c`) | pose under a spinlock | `update_wheels`, `update_imu`, `reset`, `get` | control loop, IMU task, display |
| telemetry (`app_main.c`, priority 8) | `seq`, `tick` | `telemetry_task` | snapshot queue, INA219, publishers |
| IMU (`app_main.c` priority 10, `imu.c`, `ak09918.c`, `qmi8658.c`) | `s_last_mag` | `imu_task` | odometry, publishers |
| display (`display.c`, priority 5) | cached pose | `display_task` | pose mailbox, odometry |
| encoders (`encoder.c`) | one PCNT unit per wheel, counting in hardware | `setup_unit`, `encoder_left/right_ticks` | control loop reads |
| panel driver (`oled.c`) | `s_fb`; the panel's own registers | `oled_text`, `oled_flush`, `oled_init` | display task, I2C |
| battery monitor (`ina219.c`) | the chip's calibration | `ina219_init`, `ina219_read` | display and telemetry tasks, I2C |
| I2C bus (`i2c_bus.c`) | none | one transaction per call, each may fail | all I2C drivers |
| host tools (`src/tools`) | none | bench scripts | UART, MQTT |

What is hard: seven tasks on two cores share one-slot queues and unlocked
64-bit stamps; the control loop must stop a vehicle whose host went away;
a line without flow control loses bytes; power may fail anywhere in an update;
the session and the association end at different moments; builds choose rates
that round.

What makes each part right:
- control loop: no motor runs on an old command; stop means stop; resuming is
  soft; the integral stays inside its envelope.
- command path: UART has precedence within its window.
- uplink: an image on trial is confirmed or rolled back, there is always a
  bootable image, an update always ends, the vehicle comes back online.
- UART: bounded loss after a disturbance, nothing damaged is believed, in both
  directions.
- display: a lost host becomes visible in bounded time.
- sensors and odometry: every turn of the vehicle is accounted for, across the
  counter's limits and failed reads; tilt does not drift.
- telemetry: packets in order and in time, for every build offered.
- IMU: the freshness flag is true; the magnetometer does not get stuck.
- panel and battery: a failed transfer leaves no wrong frame and no mixed pair
  for good.

`PROJECT.json` lists the hazards line by line with the properties aimed at them.

## 2. The modules

| Module | Models | Actions and their code |
|---|---|---|
| `FixedPoint`, `Kinematics`, `Pid`, `Motor` | the pure functions, on integers | operators with the C functions' names |
| `ControlTask` | `control_task`, its queues, its scheduling | `ControlStep` = one pass of the loop; `PostVel`, `comms_push_cmd_pid` = writes of the mailboxes; `TakeSnapshot` = telemetry's receive; `StartControl`, `Advance` = task creation and time |
| `DeadManSwitch` | abstract: motors run only on the authority of a recent command; the display shows the host's pose under the same contract | `Pass`, `Act` |
| `CommandPath` (extends `ControlTask`) | both transports, the preempt window | `Dispatch*` then `StampRx` (uart_link.c:194-196); `AdmitVel` then `WriteVel` (comms.c:51-56); `MqttPid` |
| `Ota` | `ota.c`, otadata, bootloader, resets; an image is good, cannot reach the broker, or aborts in `app_main` | `TimerExpires` then `RollBack` (the callback's check and the rest); `ota_mark_healthy` then `MarkValid`; `ota_start`, `Begin`, `Finish`, `Restart`, failures |
| `Connectivity` | association, client, session, `s_mqtt_connected` | `mqtt_init`; `wifi_evt`, `mqtt_evt` per event, with `esp_wifi_connect`, which may fail; driver and broker external |
| `Uplink` (extends both) | `app_main`'s boot sequence, and the session update and connectivity share | `Peripherals` = `app_main` after `comms_init`; MQTT connect raises the flag and confirms the image in one handler; a reset takes the session away |
| `Crc8`, `UartLink` | `crc8` with the polynomial division it is documented to be; `uart_rx_task`, `send_frame`; the mirror of both in `src/tools` | one operator per automaton state; `end` selects the receiver (vehicle or `uart_sniff.py`); `Lose`, `Damage`, `Invent` = the line |
| `Display` | `comms_push_cmd_display`, `display_task` | `Push`, `ReadClock`, `StoreHalf` = queue, clock and the two stores of the stamp (comms.c:64-65); `Drain`, `Clock`, `LoadHalf` (comms.c:72), `Show` = one frame |
| `Encoder` | `encoder.c` and the pulse counter | `WheelsTurn` = a quarter period of each encoder; `encoder_ticks` |
| `Odometry` | `odometry.c` | one operator per function, each under the spinlock |
| `Imu` | `imu_init`, and the IMU pass one transaction per step | `ReadMotion`, `ReadStatus`, `ReadMag`, `Publish`; `Sample` = the chip |
| `Sensors` (extends the three) | who feeds the pose estimate, and with what | `ControlPass` = odometry's part of `control_task`; `MotionRead`, `ImuUpdate` = `imu_task` |
| `Oled` | `oled.c` against a panel that parses commands | `SendCmd`, `SendFrame` = one transaction each; `oled_text` |
| `Panel` (extends `Oled`) | `display_task`'s drawing, `ina219.c`, the battery packet | `ina219_init`, `display_init`, `Draw`, `Flush`, `Telemeter` |
| `Telemetry` | pacing of snapshots and battery packets | `ControlPass`, `Received`, `TimedOut`, `TurnEnds` |
| `MC*` | values of the constants for TLC | |
| `FirmwareLemmas` | lemmas on `FixedPoint`, `Kinematics`, `Pid`, `Motor` | |
| `ControlTask_proofs` | theorems of `ControlTask`, then of `CommandPath` | |
| `Uplink_proofs` | theorems of `Ota`, then of `Uplink` | |
| `UartLink_proofs`, `Display_proofs`, `Telemetry_proofs`, `Sensors_proofs`, `Panel_proofs` | theorems of the module they name (`Sensors_proofs` of `Encoder`, `Odometry` and `Imu` too) | |

Conventions.  A variable has the source's name where it has one; a history
variable says so where it is declared.  Operators marked "Mutant" are plausible
bugs of the definition that follows them; each property is tested against one.
Time is a clock bounded by `MaxTime`; deadlines bound how far it may run.
Floats are integers: the properties compare signs, bounds and equality, never a
rounding, and integer division rounds down where the C code has a fraction.

The control loop's pass is atomic: it runs at the highest application priority
on its own core and meets other tasks only through FreeRTOS queues.  Elsewhere
the steps of two tasks that meet in shared data are split as far as section 7 does
not say otherwise: a check and the write it guards, a queue and its stamp, the two
words of the display's stamp, the transactions of a read.  The packets in
`velQ` carry the time they were written, which the code does not record: this is
what the dead-man's bound is measured from.

## 3. The runs

| Run | Question | Bounds and why they suffice |
|---|---|---|
| `control_timing` | dead-man's bound, commanded stop, soft resume, refinement of `DeadManSwitch` | period 2, latency 1, late start 1, timeout 3, 13 clock units: a command, its loss and a resume fit, at every phase; two velocities; the clamp of `MaxLin` bites |
| `control_regulator` | integral, stop and direction under retunes | three velocities (one saturates the wheels, one reverses), two gain sets (with integral and derivative; proportional with a floor above its clamp), left motor inverted, alpha 50 |
| `path_core` | what passes the preempt window and when | window 4, timeout 2, one unit from a dispatch to its stamp or from a check to its write, 7 clock units: the window opens, is kept open, expires and reopens, and between the first moments after a frame and the window's end there is time left |
| `uplink_faults` | boot, update, rollback, session and association together | retry budget 2, five losses in all, of associations, sessions, `esp_wifi_connect`, `mqtt_init` and power: the budget can be spent at the start and again later; resets by the code itself are unbounded; the three ESP-IDF calls of `ota.c` may fail; three kinds of image |
| `uart_faults` | loss and forgery after disturbances; the check byte | two disturbances: enough for a false header that reaches `LossBound` frames in either direction (one frame less is violated); payloads of 1, 2 and 6 bytes to the vehicle, as with the real 16 to 28 a false header reaches over two frames; a status of up to 15 bytes to the host, where it reaches over three; payloads with sync bytes and half-headers in them, and in either direction a frame that harbours a false header |
| `display_timing` | fallback to the firmware's pose; stale poses | two writers, which may be exchanged, timeout 2, period 1, a machine word of 3 units in 8: stores and loads of the stamp's halves meet two boundaries, and a mixture is stored, believed and replaced |
| `sensors` | where every turn of the vehicle goes; freshness flag; magnetometer | two failures (failed transactions and passes over a second late); counter limit 2 instead of 10000, so that it wraps within one turn; the right wheel goes 4 quarter periods either way, the left 1; left encoder inverted; eighths of a turn; both builds |
| `panel` | what the panel and the battery packet show after failures | four failures, x/y lines of 17, 20 and 23 characters: short of, next to and over the source indicator |
| `tel_pacing` | order, silent loss, battery pacing, rates | eight builds, twelve ticks per second: exact, rounded up, rounded down, zero |
| `ota_race` (violation) | see section 6 | two slots, no failing calls |
| `net_flag` (violation) | see section 6 | two losses |
| `odo_fused` (violation) | see section 6 | IMU build |

Deadlock is checked except where the clock's bound ends the behaviour
(`display_timing`, `tel_pacing`) or the system itself may come to rest: once the
WiFi retries are used up nothing happens before a reset (`uplink_faults`,
`net_flag`).

What the properties say, beyond their names:
- `DeadMan`: the bound is `HeartbeatTimeout + 2 * (Period + Jitter) + BootMax`,
  not the heartbeat timeout, since the code stamps a command when it is taken.
- `OneLeakPerWindow`: the preempt check is not atomic with the write, so one MQTT
  command, checked before the window opened, can be written while it is open; a
  second one cannot.  Packets written after a UART frame's dispatch and before its
  stamp (uart_link.c:194-196) find the window still closed: there may be any number.
- `UartPrecedence`: bounds those in time.  After a UART frame's dispatch an MQTT
  command reaches the queue only within twice the time that a task may take for
  what it handles (`HandleMax`), or when the window has run out.
- `TrialIsWatched`, `TrialEnds`: only a failing ESP-IDF call leaves an image on
  trial alone (`idf_failed`); no such failure is handled in `ota.c`.
- `ComesOnline`: what keeps a powered vehicle offline is a first association
  or a client that failed (`mqtt_init` is never called again), a retry budget
  used up (nothing tries again before a reset), an `esp_wifi_connect` that failed
  (comms.c:101, 105 do not look at it, and no event follows), a failing call of
  `ota.c`, or an image that was confirmed before it aborted.
- `Drives`: the image is confirmed when MQTT connects, which may be before
  `app_main` reaches its `ESP_ERROR_CHECK`s (app_main.c:326-330).  An image that
  aborts there after its confirmation boots for ever (`BootLoop`); an unconfirmed
  one falls back on its next boot.  A refused `esp_wifi_connect` leaves `app_main`
  waiting too.
- `WifiRecovers`: the driver never idles by accident, and an association lost
  after the vehicle was online leaves the whole retry budget.
- `YawAccount`: an equation between the encoders' ticks, the gyro and the yaw,
  with what was lost on the other side.  `owed` collects it: passes later than a
  second, skipped IMU passes (`dt` is a constant, app_main.c:263), and all
  turns of a QMI8658 that was not set up.
- `PanelFollows`: a panel that lost a byte of a command takes the first bytes of
  the next flush for its arguments; the flush after that is right again.  One
  such byte, 0x7F, also sets the start line, which nothing ever resets: the frame
  is then whole but shifted.  The property is about the memory only.
- `BatteryHonest`: of figures that were measured.  If the calibration did not get
  across, the current reads 0, where the log says "battery telemetry will be NaN"
  (app_main.c:334), or says nothing: a readback that differs is only logged
  (ina219.c:50-54).
- `LossBounded`: the firmware escapes nothing, so any byte behind the first may be
  0xA5.  A frame is `Harmless` if after every such byte there comes, within the
  frame, no type the receiver accepts or no size of it; harmless frames lost in a
  row are counted.  Any other frame starts the count again: it can hold a receiver
  that lost its place for as long as the host repeats it (a check byte 0xA5 is
  enough), as bytes are never looked at twice and the 100 ms read timeout does not
  reset the automaton.
- `StaleIsBrief`: a pose may be shown on the strength of a newer pose's stamp,
  for one frame.
- `FallsBack`, `StaleIsBrief`: `s_cmd_display_recv_us` is stored in two halves, by
  two tasks.  Two pushes that store theirs in turns on either side of a multiple of
  2^32 us leave a mixture in memory, up to that much (`Word`, 71 minutes) ahead of
  the clock, until the next pose.  `Ahead` adds the `Word` to both bounds for a frame
  that believed such a mixture (`frame.mixed`), and for no other: a value torn while
  it was loaded changes neither bound.
- `RatesRun`: Kconfig offers rates for which `telem_div` or `batt_div` is zero
  and both are divisors; the property states exactly for which ratios the loops
  run.

## 4. Fairness

Safety runs use none.  `NetFairSpec` and `UplinkFairSpec` assume that tasks run
(FreeRTOS schedules every ready task; none of these loops without blocking),
that the timer fires, that HTTP calls return (20 s time-out, ota.c:116), and
that the network answers in the end: an attempt to associate ends, a DHCP
request is granted, the broker accepts, a keep-alive without a network fails.
Losses are never owed and are bounded.  The DHCP assumption is needed:
`xEventGroupWaitBits` (comms.c:145) waits for ever for an address that never
comes, before motors, control loop and UART are started.  In `Uplink` fairness
is of the composed steps; an image that cannot reach the broker is never granted
a session.  `Sensors` assumes that `imu_task` runs (vTaskDelayUntil) and that the
magnetometer keeps sampling at its 100 Hz.

## 5. Proofs

Every safety invariant and action property the passing runs check is a theorem
for every value of the constants, but for what is named at the end of this
section.  Assumptions are the named ASSUMEs of the modules; theorems that need
more state it.  Most are ranges of the constants.  Those that say more:
- `UnitsAssumption`, `TurnAssumption` (`Sensors`): the instance's units make
  speeds and turns come out even, where the code's floats would round; between two
  passes the vehicle turns once at most, for `odometry.c` takes one turn off.
- `SizesAssumption`, `FramesAssumption` (`UartLink`): a type and a size are a byte, a
  command fits the payload buffer (ugv_packets.h), 0xA5 is no type, and a size only
  where longer ones are accepted too (the status text).  Of the payloads they say
  that they are bytes.

The heart is `IInv` of `ControlTask_proofs`:

- `TypeOK` alone is not inductive enough to bound anything.
- `LimitsInv`: limits are symmetric and hold the integral; needed because the
  integral is only re-clamped when it is used or retuned.
- `ClockInv`: the loop runs between its deadline and `Jitter` later, and its last
  pass was no more than `Period + Jitter` ago.
- `AgeInv`: a packet in the mailbox was written since the last pass (or the
  start), and what is in force was taken at most that much after it was written.
- `StaleInv`: a pass that found the heartbeat lost left both motors stopped and
  both regulators without a baseline.

`ControlStepIInv` shows that a pass preserves it, conjunct by conjunct, from
lemmas on the pass (`StepRequest`, `StepWheel`) which rest on lemmas about the
operators (`FirmwareLemmas`).  From `IInv` follow `TypeCorrect`, `DeadManHolds`,
`IntegratorBounded`, `CommandedStopHolds`; `SoftResumeHolds` (closed-loop
build) and `PwmBounded` add one step; `StopDropsIntegralHolds` adds
`BaselineInv` and assumes non-negative clamps, a latency below the period and
no pause of the loop beyond `pid_compute`'s limit of a second.
`PushesTowardHolds` follows the sign of the error through `pid_compute`, the
floor, the conversion and the wiring (`Agrees`); it assumes the closed loop and
clamps and floors that an `int16_t` holds, for a negative clamp drives backwards
and one beyond 32767 wraps (`FitsInv` carries the hypothesis through retunes).
`SwitchRefinement` maps `now`, `taken` and "some motor runs" onto the abstract
switch.  `CommandPath` is written with `ControlTask`'s actions, so its steps are
steps of `ControlTask` by construction (the lemma `PathRefinement`); that says
nothing of the window, it only carries the theorems over (`PathDeadMan`).
Of the window speak `OneLeakHolds`, which needs that a held MQTT packet was checked
before it opened, and `UartPrecedenceHolds`, from `PrecInv`: a stamp is written at
most `HandleMax` after its frame was heard, and a packet that is held was checked
before that stamp or after the window.  `PathTypeCorrect` says that no stamp is in
the future.  `SaturationKeepsTurn` and `ComputeFacts` state what the saturation and
the regulator return.

`Uplink_proofs` proves the update's promises from `OtaInv`, an invariant with one
conjunct per place the state lives in:
- `SlotInv`: what otadata calls valid and is complete was proven; a slot it knows
  nothing of holds no image.
- `OffInv`, `OnInv`: which slot is selected without and with power, and that an
  image on trial leaves the other slot alone.  Two of the promises speak of a
  running image only; what holds while the power is off carries them through a
  reset.
- `BootInv`, `WatchInv`: nothing runs before `ota_init`; who watches a trial.

From it follow `FallbackHolds`, `NextBootHolds` and `WatchHolds`, whichever ESP-IDF
calls fail.  `UplinkRefinesOta` shows that the composed uplink takes `Ota`'s steps
only: a failing `ESP_ERROR_CHECK` in `app_main` is one of its crashes, which needs
that `app_main` gets past `comms_init` in a running image only (`UplinkInv`).  So
the three hold in `Uplink` too (`UplinkUpdateSafe`); `UplinkRefinesNet` is the same
for `Connectivity`, whose steps the uplink takes, or resets; `FlagHolds` shows that the
publishers' gate is closed without a session.  `WifiRecoversHolds` rests on
`LinkInv`, which lists what may wait for `wifi_evt` in each state of the driver:
one event, or an address and its loss, so a start or a loss is always handled
while the driver is idle, and what is counted before an address is forgotten
with it.  Both hold for any retry budget and number of losses.
`UplinkTypeCorrect` adds `SessionInv`: the client has a session exactly while
MQTT is not down, and the tasks exist only where `app_main` got that far.

`UartLink_proofs` rests on `LinkInv`.  While a harmless frame is undisturbed a
receiver is `InStep` with it, or `OutOfStep`: it reads a false header that began
before the frame, or `Scans` what is left of it, where it may meet a sync byte and a
type, but no header.  Then the frames lost so far, what has passed of this one and what is
`Left` of the false payload are `Longest + 1` bytes at most, which gives
`LossBoundedHolds`; `RxOK` has the buffer's bound (`LinkTypeCorrect`).
`CleanLineHolds` is the other end: on a line never disturbed, every frame is
accepted, once and unchanged.

The check byte is the real one.  `Xor8` is arithmetic on bits (`MCUart` checks it
against `^^` for all 65536 pairs); `ShiftFacts` and `XorInjective` make one turn
of the loop injective in the register and in the byte, so a single changed byte
leads to another remainder and every equal byte behind it keeps the two apart
(`CrcDetectsOneByte`).  `BringDownByteXor`, eight steps of the long division,
gives `CrcIsRemainder`; the loops are recursive functions on `0..Len`, counted
through by `CountingUp` on `LeastNatural`, as the induction theorems of the
library cannot be instantiated.  `DamageInv` says that after the damage the receiver
`Rests`, or it `Follows` the frame with exactly one byte misread, and then the check
byte differs.  Two theorems use it, both for a line that only damages:
- `OneDamagedBodyByte`, for every table of frames, whatever false headers they
  harbour: if the damaged byte is none of the first three of a frame, the receiver
  stays in step and accepts nothing but the frame being sent.
- `OneDamagedByte`, for any byte.  A damaged header makes the receiver search the
  rest of the frame, so here each type has one size (`OneSize`), as all commands to the
  vehicle and all telemetry but the status text have, and the frames sent harbour
  no false header (`Plain`).  With one, what the receiver then reads as a frame has
  a check byte that fits by chance, once in 256.

`Display_proofs`: `PushInv` (a push that is under way has its pose queued or taken,
so no stamp is ahead of the newest pose by more than `WriteMax`), `LoopInv` (the
loop against its deadline) and `FrameInv`, which says of what is shown that it was
fresh when it was chosen or that a newer pose is queued.  `LoadInv` is
about a stamp loaded in two halves: a half that is no longer the one in memory was
loaded while a push was at work, so the frame's clock is no later than the newest
pose and `WriteMax`, and the frame is right to call it fresh; torn loads are no exception to the
bounds.  Torn stores are: where two producers leave a mixture, both bounds grow by
`Word`.  `WordsInv` shows that one producer never does, whose stores the
consumer may catch half-way but no other store interrupts: `OneTransportFallsBack`
has the bound without the `Word`.  `DisplayImplementsSwitch` maps
the clock, the newest pose and "the panel says H" onto the abstract switch the
control loop implements too: a pose is an authority that expires, after `Slack`
more where there are two transports.

`Telemetry_proofs`: `OrderInv` (the queue holds the newest snapshot, newer than the
last packet), `LossInv` (a snapshot waits no longer than a turn's work, and the
next is `PassesLeft` passes away), `BatteryInv` (what the turns left until the
next battery packet may take) and `HaltInv`, with the arithmetic of the rounded
divisors as lemmas on `period` and `\div`.

`Sensors_proofs`: `YawInv` is the account of every turn with equality taken modulo
a whole turn (`Same`), whose lemmas the control pass and the IMU pass share;
`EncoderInv` has the counters' halves; `ImuInv` relates the latch, the sample and
what was sent.  `WheelsAloneFollow` proves for builds without an IMU what
`odo_fused` refutes for those with one.

`Panel_proofs`: `FlushInv` lists, per byte of the address commands, what the panel
may still be waiting for (`Expected`), and, if nothing has failed since the
flush began, how much of the window is set (`Follows`); `FlagInv` and `BatteryInv`
relate the framebuffer to the figures of the turn.

Only model-checked: `NoForgery` for a lost or invented byte, and for a damaged
header of a status text or of a frame that harbours a false one.  There it
depends on the bytes of the frames sent (one fault displaces a header or
changes a status length, and eight bits detect what it then spans all but once
in 256), so the run says that no frame of the instance is such a case.
Out of the prover's reach:
liveness under fairness (`Drives`, `ComesOnline`, `TrialEnds`,
`UpdateEnds`, `MagDelivers`).

## 6. Where code and documentation differ

With a run that shows it:
- `ota_race`: ota.h:17 promises that `ota_mark_healthy` cancels the watchdog; a
  callback already past its test of `s_validated` (ota.c:51) still rolls back.
- `net_flag`: comms.h:52-53 says when `comms_mqtt_connected` is true; a short
  loss of the association clears the flag of a session that survives it, and
  telemetry stays silent.
- `odo_fused`: the comment at odometry.c:67-70 speaks of a weighted blend; the
  gyro's whole step is added to a yaw that has the wheels' step already.

Seen while modelling, stated exactly by a property that holds:
- The README's heartbeat section (src/README.md:143-144) gives the timeout as
  the bound; `DeadManBound` adds the time a command waits.
- uart_link.h:25-28 ties the preempt window to control traffic; any good frame,
  a pose too, opens it (uart_link.c:196, `DispatchDisplay`), and cmd/pid over MQTT
  is never held back.
- pid.h speaks of the output's saturation envelope; the stiction floor is applied
  after it and may exceed it (`PwmInEnvelope`, theorem `PwmBounded`).
- comms.h:15-18 says `comms_init` returns when the retry budget is exhausted;
  a DHCP server that never answers keeps it waiting (`Drives` needs
  fairness of `Lease`).
- app_main.c:339 and app_main.c:344 log that IMU telemetry or the display are
  disabled when their set-up failed; both tasks are created and go on
  (`Sensors`, `Panel`).
- src/README.md:147-149 says that the OLED falls back to the firmware's estimate when
  the host stops publishing; with poses from both transports whose stores of the
  stamp interleave across a multiple of 2^32 us (comms.c:65), it may do so only 71
  minutes later (`FallsBack`, `StaleIsBrief`).
- comms.c:101 and comms.c:105 ignore the result of `esp_wifi_connect`: if it fails no
  event follows, the driver stays idle, and `app_main` may wait for ever (`Drives`,
  `ComesOnline`).
- display.c:72 speaks of an indicator "pinned top-right"; far enough from the
  origin the x/y line covers it (`PanelFollows`).

Seen, outside every run: the conversion to `int16_t` (app_main.c:167) wraps for
a host that sets a clamp beyond 32767, before motor.c clamps.

## 7. Not modelled, and why

Pins, LEDC and GPIO configuration, topic names, NVS, glyphs, logging and
statistics: no control, or state nothing else reads.  Update progress reports and
URL checks: they change no state the properties tell apart.  The time a UART
write takes and full driver buffers: the calls block or drop inside ESP-IDF.
The pulse counter's hardware count and its accumulation in an interrupt are one
step: a read between the two is inside ESP-IDF.  Contention for the I2C bus:
a transaction that waits too long fails, which every model allows anyway.
Torn accesses of `s_last_good_rx_us` (modelled for the display's stamp only).
A publisher's test of the flag and its publish (comms.c:291-292) are one
test: the client drops a packet at QoS 0 if the session ended in between.
Packet age
before it reaches the vehicle (`host_timestamp_us` is ignored by the firmware).
The build without MQTT, whose `ota_init` confirms the image on the spot
(ota.c:82-87).  In `Telemetry` the control loop's passes are punctual: late wake-ups
and the passes `vTaskDelayUntil` then catches up (app_main.c:79) are left out, which
`ControlTask` has.  In `Sensors` the gyro's step is the turn since the last pass,
exactly, where the code multiplies a rate by the nominal `dt` (app_main.c:263): noise,
bias and jitter of a sensor are not modelled.
The open-loop build is in `ControlTask` and in the proofs, but in no run.

## 8. Plan

Done: control loop, regulator and their proofs; command path; update,
connectivity and boot, composed, with the update's proofs; UART framing in both
directions; display, panel and battery; encoders, IMU and odometry, composed;
telemetry; theorems of all of them.  Next:
1. safety properties of `ControlTask` carried from the wheels to what a
   telemetry packet says;
2. the length of a receiver's loss for frames that harbour a false header, when the
   host does not repeat them;
3. a run of the open-loop build, and one in which `int16_t` wraps
   (app_main.c:167);
4. the preempt window under torn reads of `s_last_good_rx_us`.
