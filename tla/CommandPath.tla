---------------------------- MODULE CommandPath ----------------------------
(***************************************************************************)
(* How packets reach the control loop: the UART receiver task and the MQTT *)
(* client task both end in comms.c, whose only arbitration is the preempt  *)
(* window of comms_push_cmd_vel.  The two tasks and the control loop run   *)
(* on two cores at three priorities, so every pair of steps interleaves:   *)
(*                                                                         *)
(*   uart_rx_task   dispatch(type, payload)      -> a queue is written     *)
(*                  s_last_good_rx_us = now      -> the window opens       *)
(*   mqtt_task      uart_link_recent_rx()        -> admitted or dropped    *)
(*                  xQueueOverwrite(s_cmd_vel_q) -> the queue is written   *)
(*                                                                         *)
(* A packet dropped by the check changes nothing and is no step here.      *)
(***************************************************************************)
EXTENDS ControlTask

CONSTANTS
    PreemptWindow,  \* CONFIG_UGV_UART_PREEMPT_MS
    HandleMax       \* bound on the time from a frame's dispatch to its stamp,
                    \* and from the check of an MQTT packet to its write

ASSUME PathAssumption == PreemptWindow \in Nat /\ HandleMax \in Nat

VARIABLES
    s_last_good_rx_us,  \* stamp of the last good UART frame; 0: none
    uart,               \* "idle", or "dispatched": a frame is in its queue
                        \* and its stamp is still to be written
    mqtt,               \* NoMsg, or the velocity packet the MQTT task holds
                        \* past the check, and when it was checked
    leaked,             \* history: MQTT velocity packets written since the
                        \* window last opened, while it was open
    heard               \* history: when the last good UART frame was
                        \* dispatched; 0: none

pathvars == <<s_last_good_rx_us, uart, mqtt, leaked, heard>>

PathInit ==
    /\ Init
    /\ s_last_good_rx_us = 0
    /\ uart = "idle"
    /\ mqtt = NoMsg
    /\ leaked = 0
    /\ heard = 0

-----------------------------------------------------------------------------
uart_link_recent_rx ==
    /\ s_last_good_rx_us # 0
    /\ now - s_last_good_rx_us < PreemptWindow

\* uart_rx_task, a good CRC: dispatch of each of the three packet types.
DispatchVel(c) ==
    /\ uart = "idle"
    /\ PostVel(c, TRUE)
    /\ uart' = "dispatched"
    /\ heard' = now
    /\ UNCHANGED <<s_last_good_rx_us, mqtt, leaked>>

DispatchPid(c) ==
    /\ uart = "idle"
    /\ comms_push_cmd_pid(c)
    /\ uart' = "dispatched"
    /\ heard' = now
    /\ UNCHANGED <<s_last_good_rx_us, mqtt, leaked>>

\* The display queue is not part of this module.
DispatchDisplay ==
    /\ uart = "idle"
    /\ uart' = "dispatched"
    /\ heard' = now
    /\ UNCHANGED <<vars, s_last_good_rx_us, mqtt, leaked>>

\* Mutant: a frame opens the window but does not keep an open one open.
StampFirst ==
    /\ uart = "dispatched"
    /\ s_last_good_rx_us' = IF uart_link_recent_rx THEN s_last_good_rx_us ELSE now
    /\ uart' = "idle"
    /\ leaked' = IF uart_link_recent_rx THEN leaked ELSE 0
    /\ UNCHANGED <<vars, mqtt, heard>>

\* The rest of the frame's handling: the stamp, whatever the packet was.
StampRx ==
    /\ uart = "dispatched"
    /\ s_last_good_rx_us' = now
    /\ uart' = "idle"
    /\ leaked' = IF uart_link_recent_rx THEN leaked ELSE 0
    /\ UNCHANGED <<vars, mqtt, heard>>

\* Mutant: no check of the window.
AdmitAlways(c) ==
    /\ mqtt = NoMsg
    /\ mqtt' = [cmd |-> c, checked |-> now]
    /\ UNCHANGED <<vars, s_last_good_rx_us, uart, leaked, heard>>

\* handle_incoming, cmd/vel: comms_push_cmd_vel(&v, false) passes its check.
AdmitVel(c) ==
    /\ mqtt = NoMsg
    /\ ~uart_link_recent_rx
    /\ mqtt' = [cmd |-> c, checked |-> now]
    /\ UNCHANGED <<vars, s_last_good_rx_us, uart, leaked, heard>>

\* ... and writes the queue.
WriteVel ==
    /\ mqtt # NoMsg
    /\ PostVel(mqtt.cmd, FALSE)
    /\ mqtt' = NoMsg
    /\ leaked' = IF uart_link_recent_rx THEN leaked + 1 ELSE leaked
    /\ UNCHANGED <<s_last_good_rx_us, uart, heard>>

\* handle_incoming, cmd/pid: no check at all.
MqttPid(c) ==
    /\ mqtt = NoMsg
    /\ comms_push_cmd_pid(c)
    /\ UNCHANGED pathvars

\* Time passes only as long as neither task is away for more than HandleMax
\* in the middle of what it handles.
HandlersOnTime ==
    /\ uart = "dispatched" => now < heard + HandleMax
    /\ mqtt # NoMsg => now < mqtt.checked + HandleMax

\* The control loop, its scheduler and the clock.
ControlSide ==
    /\ \/ Advance /\ HandlersOnTime
       \/ StartControl
       \/ \E l, r \in TickDeltas : ControlStep(Wheels(l, r))
       \/ TakeSnapshot
    /\ UNCHANGED pathvars

PathNext ==
    \/ ControlSide
    \/ \E c \in VelCmds : DispatchVel(c) \/ AdmitVel(c)
    \/ \E c \in PidCmds : DispatchPid(c) \/ MqttPid(c)
    \/ DispatchDisplay
    \/ StampRx
    \/ WriteVel

PathSpec == PathInit /\ [][PathNext]_<<vars, pathvars>>

-----------------------------------------------------------------------------
PathTypeOK ==
    /\ TypeOK
    /\ s_last_good_rx_us \in 0..now
    /\ uart \in {"idle", "dispatched"}
    /\ mqtt \in [cmd: VelCmds, checked: 1..now] \cup {NoMsg}
    /\ leaked \in Nat
    /\ heard \in 0..now

(***************************************************************************)
(* The check and the write of comms_push_cmd_vel are two steps: what it    *)
(* does guarantee is that, however long frames keep the window open, at    *)
(* most one MQTT velocity packet is written while it is open, the one that *)
(* had passed the check before.  (Packets written after a frame's dispatch *)
(* and before the stamp that opens the window are not counted here: any    *)
(* number may be, see UartPrecedence.)                                     *)
(***************************************************************************)
OneLeakPerWindow == leaked <= 1

(***************************************************************************)
(* Kconfig: "a recent UART RX frame masks MQTT cmd_vel for                 *)
(* UGV_UART_PREEMPT_MS".  An MQTT velocity packet reaches the queue only   *)
(* when no frame was heard for the whole window, or in the first moments   *)
(* after one: the frame is dispatched before it is stamped, and a packet   *)
(* checked before the stamp is written after it.                           *)
(***************************************************************************)
UartPrecedence ==
    [][ velQ' # velQ /\ velQ' # NoMsg /\ heard # 0 =>
          \/ velQ'.from_uart
          \/ now - heard <= 2 * HandleMax
          \/ now - heard >= PreemptWindow ]_velQ
=============================================================================
