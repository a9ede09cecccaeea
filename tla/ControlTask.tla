---------------------------- MODULE ControlTask ----------------------------
(***************************************************************************)
(* The control loop of app_main.c (control_task) with the one-slot command *)
(* queues it drains and the motors it drives.                              *)
(*                                                                         *)
(* One ControlStep is one pass of the for (;;) body.  The pass runs at the *)
(* highest application priority on a core of its own and touches the other *)
(* tasks only through FreeRTOS queues, so it is one step here.  Time is a  *)
(* clock the environment advances; vTaskDelayUntil's deadline is next_wake *)
(* and the scheduler wakes the task at most Jitter after it.               *)
(***************************************************************************)
EXTENDS Kinematics, Pid, Motor

CONSTANTS
    Period,            \* pdMS_TO_TICKS(1000 / CONFIG_UGV_CONTROL_HZ)
    Jitter,            \* bound on the wake-up latency of control_task
    BootMax,           \* bound on the time the transports run before the task
    HeartbeatTimeout,  \* HEARTBEAT_TIMEOUT_US
    MaxTime,           \* bound of the model: the last value of the clock
    VelCmds,           \* the ugv_cmd_vel_t packets a host may send
    PidCmds,           \* the ugv_cmd_pid_t packets a host may send
    TickDeltas,        \* encoder counts a wheel may move between two passes
    MaxLin, MaxAng,    \* CONFIG_UGV_MAX_LINEAR_MPS, CONFIG_UGV_MAX_ANGULAR_RPS
    Alpha,             \* CONFIG_UGV_VEL_FILTER_ALPHA_X100
    OpenLoop,          \* CONFIG_UGV_OPEN_LOOP
    OlScale,           \* CONFIG_UGV_OPEN_LOOP_PWM_PER_MPS
    OlDeadband,        \* CONFIG_UGV_PID_DEADBAND
    PidDefaults,       \* kp, ki, kd, clamp and min_drive of the build
    MotorInvert,       \* CONFIG_UGV_MOTOR_x_INVERT, per wheel
    TelemDiv,          \* telem_div: passes per telemetry snapshot
    NoMsg              \* an empty queue

PidGains == [kp: Int, ki: Int, kd: Int, clamp: Int, min_drive: Int]

ASSUME ControlAssumption ==
    /\ Period \in Nat \ {0}
    /\ Jitter \in Nat
    /\ BootMax \in Nat
    /\ HeartbeatTimeout \in Nat
    /\ MaxTime \in Nat
    /\ VelCmds \subseteq [linear_x: Int, angular_z: Int]
    /\ PidCmds \subseteq PidGains
    /\ TickDeltas \subseteq Int
    /\ MaxLin \in Nat
    /\ MaxAng \in Nat
    /\ Alpha \in 0..100
    /\ OpenLoop \in BOOLEAN
    /\ OlScale \in Nat
    /\ OlDeadband \in Nat
    /\ PidDefaults \in PidGains
    /\ PidDefaults.clamp >= 0
    /\ MotorInvert \in [Side -> BOOLEAN]
    /\ TelemDiv \in Nat \ {0}

\* An empty slot is not a full one: a full one is a record with the packet.
ASSUME NoMsgAssumption ==
    /\ NoMsg \notin [cmd: VelCmds, from_uart: BOOLEAN, at: Nat]
    /\ NoMsg \notin PidCmds

VARIABLES
    now,           \* esp_timer_get_time(); never 0 once a task runs
    velQ,          \* s_cmd_vel_q: NoMsg or the packet, its writer and the
                   \* time it was written (the last is not in the code)
    pidQ,          \* s_cmd_pid_q
    up,            \* control_task has been created and entered its loop
    next_wake,     \* the deadline vTaskDelayUntil waits for
    last_us,       \* time of the last pass (or of the task's start)
    last_cmd_us,   \* time of the pass that took the last velocity command
    set,           \* set_lin, set_ang
    v_filt,        \* filtered wheel speeds v_filt_l, v_filt_r
    pid,           \* s_pid_l, s_pid_r
    motor,         \* the two H-bridge channels
    loop,          \* loop_count modulo TelemDiv
    snapQ,         \* s_snapshot_q: NoMsg or the snapshot for telemetry_task
    odo,           \* arguments of the last odometry_update_wheels call
    taken          \* history: when the last command taken was written

vars == <<now, velQ, pidQ, up, next_wake, last_us, last_cmd_us, set, v_filt,
          pid, motor, loop, snapQ, odo, taken>>

Standstill == [linear_x |-> 0, angular_z |-> 0]

BuildPid == pid_init(PidDefaults.kp, PidDefaults.ki, PidDefaults.kd,
                     -PidDefaults.clamp, PidDefaults.clamp,
                     PidDefaults.min_drive)

Init ==
    /\ now = 1
    /\ velQ = NoMsg
    /\ pidQ = NoMsg
    /\ up = FALSE
    /\ next_wake = 0
    /\ last_us = 0
    /\ last_cmd_us = 0
    /\ set = Standstill
    /\ v_filt = Wheels(0, 0)
    /\ pid = Wheels(BuildPid, BuildPid)
    /\ motor = Wheels(Stopped, Stopped)
    /\ loop = 0
    /\ snapQ = NoMsg
    /\ odo = [v |-> Wheels(0, 0), dt |-> 0]
    /\ taken = 0

-----------------------------------------------------------------------------
(***************************************************************************)
(* The parts of one pass.                                                  *)
(***************************************************************************)

\* Applying a pending cmd/pid packet to one regulator.
Tuned(p) ==
    IF pidQ = NoMsg THEN p
    ELSE LET q == pid_set_output_limits(
                      pid_set_tunings(p, pidQ.kp, pidQ.ki, pidQ.kd),
                      -pidQ.clamp, pidQ.clamp)
         IN  IF pidQ.min_drive >= 0
             THEN pid_set_min_drive(q, pidQ.min_drive) ELSE q

\* Mutant: the host's velocity taken as it is.
RequestedUnclamped == IF velQ = NoMsg THEN set ELSE velQ.cmd

\* The velocity request after the mailbox has been read.
Requested ==
    IF velQ = NoMsg THEN set
    ELSE [linear_x  |-> clampf(velQ.cmd.linear_x, -MaxLin, MaxLin),
          angular_z |-> clampf(velQ.cmd.angular_z, -MaxAng, MaxAng)]

\* Mutant: a command, once taken, never expires.
NeverStale(t, c) == c = 0

\* The heartbeat test, at time t with the last command taken at time c.
Stale(t, c) == c = 0 \/ t - c > HeartbeatTimeout

\* Per-wheel setpoints v_set_l, v_set_r of a velocity request.
WheelSet(s) == kinematics_cmd_vel_to_wheels(s.linear_x, s.angular_z)

RawSpeed(ticks, dt) ==
    IF dt > 0 THEN kinematics_ticks_to_meters(ticks) \div dt ELSE 0

Filtered(v, raw) == v + (Alpha * (raw - v)) \div 100

\* CONFIG_UGV_OPEN_LOOP: the setpoint mapped to a PWM, with a deadband.
OpenLoopOut(v) ==
    LET out == clampf(v * OlScale, -PidDefaults.clamp, PidDefaults.clamp)
    IN  IF fabsf(out) < OlDeadband THEN 0 ELSE out

\* One wheel's regulator in this pass: the record it leaves and its output.
Regulate(p, setpoint, measurement) ==
    IF OpenLoop THEN [pid |-> Tuned(p), out |-> OpenLoopOut(setpoint)]
    ELSE pid_compute(Tuned(p), setpoint, measurement, now)

\* What odometry_update_wheels is fed in this pass.
OdometrySpeed(setpoint, measurement) ==
    IF OpenLoop THEN setpoint ELSE measurement

\* One pass of the loop; ticks are the encoder counts since the last pass.
ControlStep(ticks) ==
    /\ up
    /\ now >= next_wake
    /\ next_wake' = next_wake + Period
    /\ velQ' = NoMsg
    /\ pidQ' = NoMsg
    /\ last_cmd_us' = IF velQ = NoMsg THEN last_cmd_us ELSE now
    /\ taken' = IF velQ = NoMsg THEN taken ELSE velQ.at
    /\ set' = IF Stale(now, last_cmd_us') THEN Standstill ELSE Requested
    /\ v_filt' = [s \in Side |->
                    Filtered(v_filt[s], RawSpeed(ticks[s], now - last_us))]
    /\ last_us' = now
    /\ LET r == [s \in Side |->
                    Regulate(pid[s], WheelSet(set')[s], v_filt'[s])]
       IN  IF Stale(now, last_cmd_us')
           THEN /\ motor' = Wheels(Stopped, Stopped)
                /\ pid' = [s \in Side |-> pid_reset(r[s].pid)]
           ELSE /\ motor' = [s \in Side |->
                                motor_set_pwm(MotorInvert[s], r[s].out)]
                /\ pid' = [s \in Side |-> r[s].pid]
    /\ odo' = IF now - last_us > 0
              THEN [v |-> [s \in Side |->
                             OdometrySpeed(WheelSet(set')[s], v_filt'[s])],
                    dt |-> now - last_us]
              ELSE odo
    /\ loop' = (loop + 1) % TelemDiv
    /\ snapQ' = IF loop = 0
                THEN [t_us |-> now, vel |-> v_filt', set |-> WheelSet(set')]
                ELSE snapQ
    /\ UNCHANGED <<now, up>>

-----------------------------------------------------------------------------
(***************************************************************************)
(* The environment: the scheduler, the clock and the other tasks.          *)
(***************************************************************************)

\* app_main creates control_task after the transports are already running.
StartControl ==
    /\ ~up
    /\ up' = TRUE
    /\ last_us' = now
    /\ next_wake' = now + Period
    /\ UNCHANGED <<now, velQ, pidQ, last_cmd_us, set, v_filt, pid, motor,
                   loop, snapQ, odo, taken>>

\* comms_push_cmd_vel past its check: the queue slot is overwritten.
PostVel(c, from_uart) ==
    /\ velQ' = [cmd |-> c, from_uart |-> from_uart, at |-> now]
    /\ UNCHANGED <<now, pidQ, up, next_wake, last_us, last_cmd_us, set,
                   v_filt, pid, motor, loop, snapQ, odo, taken>>

comms_push_cmd_pid(c) ==
    /\ pidQ' = c
    /\ UNCHANGED <<now, velQ, up, next_wake, last_us, last_cmd_us, set,
                   v_filt, pid, motor, loop, snapQ, odo, taken>>

\* telemetry_task receives the snapshot.
TakeSnapshot ==
    /\ snapQ # NoMsg
    /\ snapQ' = NoMsg
    /\ UNCHANGED <<now, velQ, pidQ, up, next_wake, last_us, last_cmd_us, set,
                   v_filt, pid, motor, loop, odo, taken>>

\* Time passes, but not beyond the latest moment the pending wake-up (or the
\* creation of the task) can be delayed to.
Advance ==
    /\ now < MaxTime
    /\ IF up THEN now < next_wake + Jitter ELSE now < 1 + BootMax
    /\ now' = now + 1
    /\ UNCHANGED <<velQ, pidQ, up, next_wake, last_us, last_cmd_us, set,
                   v_filt, pid, motor, loop, snapQ, odo, taken>>

Next ==
    \/ Advance
    \/ StartControl
    \/ \E l, r \in TickDeltas : ControlStep(Wheels(l, r))
    \/ \E c \in VelCmds, u \in BOOLEAN : PostVel(c, u)
    \/ \E c \in PidCmds : comms_push_cmd_pid(c)
    \/ TakeSnapshot

Spec == Init /\ [][Next]_vars

-----------------------------------------------------------------------------
(***************************************************************************)
(* What the control loop promises.                                         *)
(***************************************************************************)

TypeOK ==
    /\ now \in Nat
    /\ velQ \in [cmd: VelCmds, from_uart: BOOLEAN, at: Nat] \cup {NoMsg}
    /\ pidQ \in PidCmds \cup {NoMsg}
    /\ up \in BOOLEAN
    /\ next_wake \in Nat
    /\ last_us \in Nat
    /\ last_cmd_us \in Nat
    /\ set \in [linear_x: -MaxLin..MaxLin, angular_z: -MaxAng..MaxAng]
    /\ v_filt \in [Side -> Int]
    /\ pid \in [Side -> PidState]
    /\ motor \in [Side -> Channel]
    /\ loop \in 0..(TelemDiv - 1)
    /\ snapQ \in [t_us: Nat, vel: [Side -> Int], set: [Side -> Int]] \cup {NoMsg}
    /\ odo \in [v: [Side -> Int], dt: Nat]
    /\ taken \in Nat

Driving == \E s \in Side : motor[s] # Stopped

(***************************************************************************)
(* The dead-man's bound.  A motor that turns was commanded no longer ago   *)
(* than the heartbeat timeout, two loop periods with their latency (one    *)
(* for the command to be taken, one for the loss to be noticed), and the   *)
(* time a command may wait for the task to be created.  The clock starts   *)
(* when the packet is written to the queue, not when it is taken.          *)
(***************************************************************************)
DeadManBound == HeartbeatTimeout + 2 * (Period + Jitter) + BootMax

DeadMan == Driving => /\ taken # 0
                      /\ now - taken <= DeadManBound

(***************************************************************************)
(* A velocity request of zero stops both wheels in the very pass that      *)
(* takes it, whatever the regulators hold (the stiction floor included).   *)
(***************************************************************************)
CommandedStop == set = Standstill => ~Driving

(***************************************************************************)
(* Resuming after a lost heartbeat is soft: the first pass that finds the  *)
(* regulators reset only takes a baseline, so no output computed from a    *)
(* measurement or an integral of before the stop reaches a motor.          *)
(***************************************************************************)
SoftResume ==
    [][ Stale(last_us, last_cmd_us)
          => \A s \in Side : motor'[s] = Stopped ]_vars

(***************************************************************************)
(* The integral stays inside the output envelope in force, through every   *)
(* change of the envelope (pid.h: "Integral is clamped to keep total       *)
(* output inside the saturation envelope").                                *)
(***************************************************************************)
IntegratorInEnvelope ==
    \A s \in Side : fabsf(pid[s].i_term) <= fabsf(pid[s].out_max)

(***************************************************************************)
(* A wheel whose setpoint is zero holds no integral, so the next move      *)
(* cannot start with a kick in the old direction (pid.c's comment on the   *)
(* commanded stop).  It needs a loop that is neither paused for more than  *)
(* Second nor run twice at one instant.                                    *)
(***************************************************************************)
StopDropsIntegral ==
    \A s \in Side : WheelSet(set)[s] = 0 => pid[s].i_term = 0

\* The PWM a channel was driven with, its wiring undone.
Pwm(s) ==
    LET d == (motor[s].in2 - motor[s].in1) * motor[s].duty
    IN  IF MotorInvert[s] THEN -d ELSE d

(***************************************************************************)
(* With the proportional gain alone a wheel is never driven away from its  *)
(* setpoint: the stiction floor, the saturation, the filter and the wiring *)
(* all keep the sign of the error.                                         *)
(***************************************************************************)
PushesTowardSetpoint ==
    \A s \in Side :
        pid[s].ki = 0 /\ pid[s].kd = 0 /\ pid[s].kp >= 0 /\ pid[s].i_term = 0
          => Pwm(s) * (WheelSet(set)[s] - v_filt[s]) >= 0

(***************************************************************************)
(* No duty exceeds the larger of the regulator's output limit and its      *)
(* stiction floor.                                                         *)
(***************************************************************************)
PwmInEnvelope ==
    ~OpenLoop => \A s \in Side :
        \/ motor[s].duty <= fabsf(pid[s].out_max)
        \/ motor[s].duty <= pid[s].min_drive

-----------------------------------------------------------------------------
(***************************************************************************)
(* The control loop implements the dead-man's switch.                      *)
(***************************************************************************)
Switch == INSTANCE DeadManSwitch
            WITH Bound <- DeadManBound, clock <- now, fed <- taken,
                 driving <- Driving

\* Every behaviour of the loop is one of the abstract switch: commands are
\* adopted in the order they were written and lapse on time.
ImplementsSwitch == Switch!ASpec
=============================================================================
