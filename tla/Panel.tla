------------------------------- MODULE Panel -------------------------------
(***************************************************************************)
(* What the vehicle shows and reports about itself: display_task drawing   *)
(* the pose and the battery on the panel of Oled, and the battery part of  *)
(* telemetry_task, both reading the INA219 (ina219.c).  Which pose is      *)
(* drawn is Display's subject, and any here.                               *)
(***************************************************************************)
EXTENDS Oled

CONSTANT Widths     \* characters of the x/y line, 7 and those of both numbers

ASSUME PanelAssumption == Widths \subseteq Nat

VARIABLES
    s_fb,       \* the frame buffer
    source,     \* use_host of this turn: "H" or "L"
    width,      \* length of the x/y line of this turn
    pair,       \* history: this turn's ina219_read succeeded
    stage,      \* app_main: "ina219_init", "display_init", then the "tasks"
    calibrated, \* the INA219 holds a calibration
    bt          \* the last battery packet

drawing == <<s_fb, source, width, pair>>
battery == <<calibrated, bt>>
vars == <<oledvars, drawing, stage, battery>>

\* The INA219 keeps its registers over a reset of the processor.
Init ==
    /\ OledInit
    /\ s_fb = oled_clear
    /\ source = "L" /\ width = 0 /\ pair = FALSE
    /\ calibrated \in BOOLEAN
    /\ stage = "ina219_init"
    /\ bt = [v |-> "NaN", i |-> "NaN"]

-----------------------------------------------------------------------------
(***************************************************************************)
(* ina219.c.  A value is "now" (of this call), "earlier" or "NaN"; without *)
(* a calibration the current register reads 0.                             *)
(***************************************************************************)

\* The configuration, then the calibration; a failed write ends it.  Both are
\* read back, but a mismatch (the chip did not take what it acknowledged) is
\* only logged.  app_main goes on in any case, and both tasks read the chip.
ina219_init ==
    /\ stage = "ina219_init"
    /\ stage' = "display_init"
    /\ Succeeds \/ Fails
    /\ calibrated' \in {calibrated, TRUE}
    /\ UNCHANGED <<panel, ram, next, clean, drawing, bt>>

\* What a call returns and leaves in the caller's variables: the voltage is
\* stored before the current is read.
ina219_read(old) ==
    {[ok |-> TRUE, v |-> "now", i |-> IF calibrated THEN "now" ELSE "zero"],
     [ok |-> FALSE, v |-> "now", i |-> old.i],
     [ok |-> FALSE, v |-> old.v, i |-> old.i]}

NaNs == [v |-> "NaN", i |-> "NaN"]

-----------------------------------------------------------------------------
display_init ==
    /\ stage = "display_init"
    /\ stage' = "tasks"
    /\ oled_init
    /\ UNCHANGED <<drawing, battery>>

-----------------------------------------------------------------------------
\* The four rows of display_task, the last one as ina219_read went.
Drawn(src, w, read) ==
    LET flag   == oled_text(oled_clear, 0, LastCol, 1, src)
        xy     == oled_text(flag, 0, 0, w, "xy")
        angles == oled_text(oled_text(xy, 1, 0, 18, "angles"), 2, 0, 10, "roll")
    IN  oled_text(angles, 3, 0, 15, IF read.ok THEN "V I" ELSE "----")

\* display_task up to oled_flush.
Draw ==
    /\ stage = "tasks" /\ next = 0
    /\ \E src \in {"H", "L"}, w \in Widths, read \in ina219_read(NaNs) :
          /\ IF read.ok THEN Succeeds ELSE Fails
          /\ s_fb' = Drawn(src, w, read)
          /\ source' = src /\ width' = w /\ pair' = read.ok
    /\ next' = 1
    /\ ram' = IF ram = "this" THEN "earlier" ELSE ram
    /\ UNCHANGED <<panel, clean, stage, battery>>

Flush ==
    /\ stage = "tasks"
    /\ oled_flush
    /\ UNCHANGED <<drawing, stage, battery>>

\* Mutant: the two variables live as long as the task.
LastPacket ==
    [k \in {"v", "i"} |-> IF bt[k] = "NaN" THEN "NaN" ELSE "earlier"]

\* What v and i are before telemetry_task calls ina219_read.
Before == NaNs

\* The battery part of telemetry_task; the result of the call is ignored.
Telemeter ==
    /\ stage = "tasks"
    /\ \E read \in ina219_read(Before) :
          /\ IF read.ok THEN Succeeds ELSE Fails
          /\ bt' = [v |-> read.v, i |-> read.i]
    /\ UNCHANGED <<panel, ram, next, clean, drawing, stage, calibrated>>

Next == ina219_init \/ display_init \/ Draw \/ Flush \/ Telemeter

Spec == Init /\ [][Next]_vars

-----------------------------------------------------------------------------
TypeOK ==
    /\ OledTypeOK
    /\ DOMAIN s_fb = Cells
    /\ source \in {"H", "L"} /\ width \in Widths \cup {0} /\ pair \in BOOLEAN
    /\ stage \in {"ina219_init", "display_init", "tasks"}
    /\ calibrated \in BOOLEAN
    /\ bt \in [v: {"now", "NaN"}, i: {"now", "zero", "NaN"}]

(***************************************************************************)
(* The panel recovers from any failure within two flushes: after two in a  *)
(* row that succeeded its memory holds this turn's frame, whole and at its *)
(* place, also if bytes of the first were taken for arguments of a command *)
(* that an earlier failure cut off.  (Only for a panel that oled_init set  *)
(* up, and but for its start line.)  The frame names its source unless the *)
(* x/y line takes all of the 21 cells.                                     *)
(***************************************************************************)
PanelFollows ==
    next = 0 /\ clean = 2 /\ panel.ready =>
        /\ ram = "this"
        /\ s_fb[<<0, LastCol>>] = IF width <= LastCol THEN source ELSE "xy"

(***************************************************************************)
(* Battery figures are never mixed up by a read that failed half-way: a    *)
(* packet has no value of an earlier turn and no current without its       *)
(* voltage, and the panel shows a pair or dashes.  (A current of 0 that    *)
(* was not measured is shown and sent whenever ina219_init did not get the *)
(* calibration across, which it reports only if a write failed.)           *)
(***************************************************************************)
BatteryHonest ==
    /\ bt.v # "earlier" /\ bt.i # "earlier"
    /\ bt.i # "NaN" => bt.v = "now"
    /\ \A c \in {3} \X (0..14) : s_fb[c] \in {"blank", "----"} \/ pair
=============================================================================
