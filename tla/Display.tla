------------------------------ MODULE Display ------------------------------
(***************************************************************************)
(* The pose display: comms_push_cmd_display, called by the UART receiver   *)
(* and by the MQTT client, and the frame loop of display_task.             *)
(*                                                                         *)
(* A pose is represented by the time its packet was written to the queue.  *)
(* The producer writes the queue and then stamps s_cmd_display_recv_us;    *)
(* the consumer takes the queue, reads the clock and then reads the stamp. *)
(* Nothing makes either sequence atomic.  The stamp is an int64_t on a     *)
(* 32-bit core: storing and loading it are two accesses each, in an order  *)
(* the compiler chooses (here: any), and those of two producers and the    *)
(* consumer interleave.                                                    *)
(***************************************************************************)
EXTENDS Integers

CONSTANTS
    Writers,        \* the tasks that push poses
    Timeout,        \* CONFIG_UGV_DISPLAY_HOST_TIMEOUT_MS
    Period,         \* pdMS_TO_TICKS(1000 / CONFIG_UGV_DISPLAY_HZ)
    FrameMax,       \* bound on how late a frame is finished
    WriteMax,       \* bound on how long a push takes
    Word,           \* 2^32, in the instance's clock
    MaxTime         \* bound of the model: the last value of the clock

ASSUME DisplayAssumption ==
    /\ Timeout \in Nat \ {0}
    /\ Period \in Nat \ {0}
    /\ FrameMax \in Nat
    /\ WriteMax \in Nat
    /\ Word \in Nat \ {0}
    /\ MaxTime \in Nat \ {0}

None == 0       \* the clock is never 0 once a task runs

Half == {"hi", "lo"}    \* the two words of an int64_t

VARIABLES
    now,            \* esp_timer_get_time()
    dispQ,          \* s_cmd_display_q: None or the pose in it
    recv_us,        \* s_cmd_display_recv_us, word by word: the stamp each word
                    \* in memory is the half of
    writing,        \* per writer: None or the pose it has put in the queue and
                    \* not stamped yet
    stamp,          \* per writer: None or the clock it read for the stamp
    left,           \* per writer: the words of the stamp it has still to store
    pc,             \* where display_task is in its loop
    next,           \* the deadline vTaskDelayUntil waits for
    host_pkt,       \* the cached pose; None until seen_host
    now_us,         \* the local now of the frame
    recv,           \* the local recv, word by word; None: not loaded yet
    frame           \* the last frame shown: its source, the time the source was
                    \* chosen for, the pose (source "H"); history: whether a
                    \* mixture was in memory

pushvars == <<dispQ, recv_us, writing, stamp, left>>
taskvars == <<pc, next, host_pkt, now_us, recv, frame>>
vars == <<now, pushvars, taskvars>>

Init ==
    /\ now = 1
    /\ dispQ = None
    /\ recv_us = [h \in Half |-> None]
    /\ writing = [w \in Writers |-> None]
    /\ stamp = [w \in Writers |-> None]
    /\ left = [w \in Writers |-> {}]
    /\ pc = "sleep"
    /\ next = 1 + Period
    /\ host_pkt = None
    /\ now_us = 0
    /\ recv = [h \in Half |-> None]
    /\ frame = [src |-> "L", for |-> 0, pose |-> None, mixed |-> FALSE]

-----------------------------------------------------------------------------
(***************************************************************************)
(* comms_push_cmd_display(v), by the writer w.                             *)
(***************************************************************************)

Push(w) ==
    /\ writing[w] = None
    /\ writing' = [writing EXCEPT ![w] = now]
    /\ dispQ' = now
    /\ UNCHANGED <<now, recv_us, stamp, left, taskvars>>

\* Mutant: the clock in another unit than the consumer's.
ReadOtherClock(w) ==
    /\ writing[w] # None
    /\ stamp[w] = None
    /\ stamp' = [stamp EXCEPT ![w] = 1000 * now]
    /\ left' = [left EXCEPT ![w] = Half]
    /\ UNCHANGED <<now, dispQ, recv_us, writing, taskvars>>

ReadClock(w) ==
    /\ writing[w] # None
    /\ stamp[w] = None
    /\ stamp' = [stamp EXCEPT ![w] = now]
    /\ left' = [left EXCEPT ![w] = Half]
    /\ UNCHANGED <<now, dispQ, recv_us, writing, taskvars>>

\* The store of one word of the stamp; the second one ends the push.
StoreHalf(w, h) ==
    /\ h \in left[w]
    /\ recv_us' = [recv_us EXCEPT ![h] = stamp[w]]
    /\ left' = [left EXCEPT ![w] = @ \ {h}]
    /\ IF left[w] = {h}
       THEN /\ stamp' = [stamp EXCEPT ![w] = None]
            /\ writing' = [writing EXCEPT ![w] = None]
       ELSE UNCHANGED <<stamp, writing>>
    /\ UNCHANGED <<now, dispQ, taskvars>>

-----------------------------------------------------------------------------
(***************************************************************************)
(* display_task.                                                           *)
(***************************************************************************)

\* Mutant: the first pose is cached for good.
DrainOnce ==
    /\ pc = "sleep"
    /\ now >= next
    /\ host_pkt' = IF host_pkt = None THEN dispQ ELSE host_pkt
    /\ dispQ' = None
    /\ pc' = "drained"
    /\ UNCHANGED <<now, recv_us, writing, stamp, left, next, now_us, recv, frame>>

Drain ==
    /\ pc = "sleep"
    /\ now >= next
    /\ host_pkt' = IF dispQ # None THEN dispQ ELSE host_pkt
    /\ dispQ' = None
    /\ pc' = "drained"
    /\ UNCHANGED <<now, recv_us, writing, stamp, left, next, now_us, recv, frame>>

Clock ==
    /\ pc = "drained"
    /\ now_us' = now
    /\ pc' = "clocked"
    /\ UNCHANGED <<now, pushvars, next, host_pkt, recv, frame>>

\* comms_cmd_display_recv_us: the load of the first word, then of the other.
LoadHalf(h) ==
    /\ \/ pc = "clocked" /\ pc' = h
       \/ pc \in Half \ {h} /\ pc' = "loaded"
    /\ recv' = [recv EXCEPT ![h] = recv_us[h]]
    /\ UNCHANGED <<now, pushvars, next, host_pkt, now_us, frame>>

\* The number whose words are halves of the stamps in m.
High(t) == (t \div Word) * Word
Low(t) == t % Word
Value(m) == High(m["hi"]) + Low(m["lo"])

\* Memory was left with the words of two stamps that no single stamp has.
Mixed ==
    /\ High(recv_us["hi"]) # High(recv_us["lo"])
    /\ \A w \in Writers : stamp[w] = None

\* Mutant: a pose never goes stale.
UseHostForEver == host_pkt # None /\ Value(recv) # 0

\* (now - recv) < timeout_us in signed arithmetic: a stamp later than the
\* frame's clock counts as fresh.
UseHost ==
    /\ host_pkt # None
    /\ Value(recv) # 0
    /\ now_us < Value(recv) + Timeout

Show ==
    /\ pc = "loaded"
    /\ frame' = [src   |-> IF UseHost THEN "H" ELSE "L",
                 for   |-> now_us,
                 pose  |-> IF UseHost THEN host_pkt ELSE None,
                 mixed |-> Mixed]
    /\ next' = next + Period
    /\ pc' = "sleep"
    /\ recv' = [h \in Half |-> None]
    /\ now_us' = 0
    /\ UNCHANGED <<now, pushvars, host_pkt>>

-----------------------------------------------------------------------------
\* Time passes, but not beyond what the running frame and pushes may take.
Advance ==
    /\ now < MaxTime
    /\ now < next + FrameMax
    /\ \A w \in Writers : writing[w] # None => now < writing[w] + WriteMax
    /\ now' = now + 1
    /\ UNCHANGED <<pushvars, taskvars>>

Next ==
    \/ Advance
    \/ \E w \in Writers : Push(w) \/ ReadClock(w)
    \/ \E w \in Writers, h \in Half : StoreHalf(w, h)
    \/ Drain
    \/ Clock
    \/ \E h \in Half : LoadHalf(h)
    \/ Show

Spec == Init /\ [][Next]_vars

-----------------------------------------------------------------------------
TypeOK ==
    /\ now \in 1..MaxTime
    /\ dispQ \in 0..now
    /\ recv_us \in [Half -> 0..now]
    /\ writing \in [Writers -> 0..now]
    /\ stamp \in [Writers -> 0..now]
    /\ left \in [Writers -> SUBSET Half]
    /\ \A w \in Writers : /\ stamp[w] # None <=> left[w] # {}
                          /\ stamp[w] # None => writing[w] # None
    /\ pc \in {"sleep", "drained", "clocked", "loaded"} \cup Half
    /\ next \in Nat
    /\ host_pkt \in 0..now
    /\ now_us \in 0..now
    /\ recv \in [Half -> 0..now]
    /\ frame \in [src: {"H", "L"}, for: 0..now, pose: 0..now,
                  mixed: BOOLEAN]

\* The newest pose received: the one in the queue or else the last one taken.
Newest == IF dispQ # None THEN dispQ ELSE host_pkt

\* How much later than every stamp the value believed may be: two pushes that
\* stored their words in turns, across a Word boundary, leave one that is up
\* to a Word in the future, until another pose comes.
Ahead == IF frame.mixed THEN Word ELSE 0

(***************************************************************************)
(* README: when the host stops publishing, the OLED falls back to the      *)
(* firmware's estimate.  What is on the panel says "H" no longer than the  *)
(* timeout, one frame period and the latencies after the last pose - but   *)
(* for a stamp that two pushes left mixed in memory, which counts as fresh *)
(* for up to a Word (71 minutes) more.                                     *)
(***************************************************************************)
FallsBack ==
    frame.src = "H" =>
        now - Newest < Timeout + WriteMax + Period + FrameMax + Ahead

(***************************************************************************)
(* display.h: the panel "prefers values from the most recent cmd/display   *)
(* packet (host pose) if received within CONFIG_UGV_DISPLAY_HOST_TIMEOUT_  *)
(* MS".  The queue and the stamp are not read together, so a pose older    *)
(* than that may be shown on the strength of a newer one's stamp, but it   *)
(* is gone with the next frame, and a pose never replaces a newer one: the *)
(* newer pose is queued before it is stamped, so the frame after the one   *)
(* that believed the stamp finds it, or a newer one, in the queue.  A      *)
(* value torn while it was loaded is no exception; only one that was left  *)
(* mixed in memory keeps an old pose.                                      *)
(***************************************************************************)
StaleIsBrief ==
    [][ frame.src = "H" /\ frame'.src = "H" =>
          /\ frame'.pose >= frame.pose
          /\ frame.for - frame'.pose < Timeout + WriteMax + Ahead ]_frame
=============================================================================
