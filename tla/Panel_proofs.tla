---------------------------- MODULE Panel_proofs ----------------------------
(***************************************************************************)
(* Proofs about Panel: that two successful flushes in a row bring the      *)
(* panel back from whatever an earlier failure left it expecting, and that *)
(* a failed read mixes up no battery figures, for any number of failures   *)
(* and every length of the x/y line.                                       *)
(***************************************************************************)
EXTENDS Panel, TLAPS

-----------------------------------------------------------------------------
(***************************************************************************)
(* The inductive invariant.                                                *)
(***************************************************************************)
\* The bytes of an address command.
Sent == {33, 0, 127, 34, 3}
Bounds == Sent \cup 0..7
Window == [from: Bounds, to: Bounds]

PanelState ==
    [expect: Waiting, cols: Window, pages: Window, line: {0, 63},
     col_at_start: BOOLEAN, page_at_start: BOOLEAN, ready: BOOLEAN]

\* The states before the tasks run: nothing was flushed, reported or drawn.
BootInv ==
    /\ stage # "tasks" => clean = 0 /\ next = 0 /\ bt = NaNs

\* What the panel may expect before the n-th byte, whatever it expected before
\* the first: the fourth byte begins a command at the latest.
Expected(n) ==
    CASE n = 2         -> {"col_start", "col_end", "page_end", "none"}
      [] n = 3         -> {"col_end", "none"}
      [] n \in {4, 7}  -> {"none"}
      [] n = 5         -> {"page_start"}
      [] n = 6         -> {"page_end"}
      [] OTHER         -> Waiting

ColumnsSet == panel.cols = Whole.cols /\ panel.col_at_start

\* Before the n-th byte of a flush that began with nothing expected.
Follows(n) ==
    /\ n = 1 => panel.expect = "none"
    /\ n = 2 => panel.expect = "col_start"
    /\ n = 3 => panel.expect = "col_end" /\ panel.cols.from = 0
    /\ n \in 4..7 => ColumnsSet
    /\ n = 6 => panel.pages.from = 0
    /\ n = 7 => panel.pages = Whole.pages /\ panel.page_at_start

FlushInv ==
    /\ panel.expect \in Expected(next)
    /\ clean > 0 => IF next = 0 THEN panel.expect = "none" ELSE Follows(next)
    /\ next = 0 /\ clean = 2 /\ panel.ready => ram = "this"

\* The flag's cell, from the first turn on; the flush of oled_init comes before.
FlagInv ==
    \/ clean = 0
    \/ clean = 1 /\ next = 0
    \/ s_fb[<<0, LastCol>>] = IF width <= LastCol THEN source ELSE "xy"

BatteryInv ==
    /\ bt \in {NaNs, [v |-> "now", i |-> "now"], [v |-> "now", i |-> "zero"],
               [v |-> "now", i |-> "NaN"]}
    /\ pair \/ \A c \in {3} \X (0..14) : s_fb[c] \in {"blank", "----"}

PanelInv ==
    /\ TypeOK /\ panel \in PanelState
    /\ BootInv /\ FlushInv /\ FlagInv /\ BatteryInv

-----------------------------------------------------------------------------
(***************************************************************************)
(* Drawing.                                                                *)
(***************************************************************************)
LEMMA TextAt ==
    ASSUME NEW fb, NEW row, NEW col, NEW length, NEW what, NEW c \in Cells
    PROVE  oled_text(fb, row, col, length, what)[c]
             = IF c[1] = row /\ c[2] \in col..(col + length - 1) THEN what ELSE fb[c]
BY DEF oled_text

LEMMA DrawnFacts ==
    ASSUME NEW src, NEW w \in Nat, NEW read
    PROVE  LET fb == Drawn(src, w, read)
           IN  /\ DOMAIN fb = Cells
               /\ fb[<<0, LastCol>>] = IF w <= LastCol THEN src ELSE "xy"
               /\ ~read.ok => \A c \in {3} \X (0..14) : fb[c] = "----"
<1> DEFINE flag   == oled_text(oled_clear, 0, LastCol, 1, src)
           xy     == oled_text(flag, 0, 0, w, "xy")
           turned == oled_text(xy, 1, 0, 18, "angles")
           angles == oled_text(turned, 2, 0, 10, "roll")
           last   == IF read.ok THEN "V I" ELSE "----"
           fb     == oled_text(angles, 3, 0, 15, last)
<1>1. Drawn(src, w, read) = fb
  BY DEF Drawn
<1>2. DOMAIN fb = Cells
  BY DEF oled_text
<1>3. fb[<<0, LastCol>>] = IF w <= LastCol THEN src ELSE "xy"
  <2> DEFINE c == <<0, LastCol>>
  <2>1. c \in Cells /\ c[1] = 0 /\ c[2] = 20
    BY DEF Cells, Rows, LastCol
  <2> HIDE DEF c
  <2>2. flag[c] = src
    BY <2>1, TextAt DEF LastCol
  <2> HIDE DEF flag
  <2>3. xy[c] = IF 20 \in 0..(0 + w - 1) THEN "xy" ELSE flag[c]
    BY <2>1, TextAt
  <2> HIDE DEF xy
  <2>4. turned[c] = xy[c]
    BY <2>1, TextAt
  <2> HIDE DEF turned
  <2>5. angles[c] = turned[c]
    BY <2>1, TextAt
  <2> HIDE DEF angles, last
  <2>6. fb[c] = angles[c]
    BY <2>1, TextAt
  <2>7. 20 \in 0..(0 + w - 1) <=> ~(w <= 20)
    OBVIOUS
  <2>. QED
    BY <2>2, <2>3, <2>4, <2>5, <2>6, <2>7 DEF c, LastCol
<1>4. ASSUME ~read.ok, NEW c \in {3} \X (0..14) PROVE fb[c] = "----"
  <2>1. c \in Cells /\ c[1] = 3 /\ c[2] \in 0..(0 + 15 - 1)
    BY DEF Cells, Rows, LastCol
  <2> HIDE DEF angles
  <2>. QED
    BY <1>4, <2>1, TextAt
<1>. QED
  BY <1>1, <1>2, <1>3, <1>4

-----------------------------------------------------------------------------
(***************************************************************************)
(* The panel's own automaton.                                              *)
(***************************************************************************)
LEMMA AddressBytes ==
    /\ DOMAIN addr_cmds = 1..6 /\ Len(addr_cmds) = 6
    /\ addr_cmds[1] = 33 /\ addr_cmds[2] = 0 /\ addr_cmds[3] = 127
    /\ addr_cmds[4] = 34 /\ addr_cmds[5] = 0 /\ addr_cmds[6] = 3
    /\ Range(addr_cmds) = Sent
<1>1. /\ DOMAIN addr_cmds = 1..6 /\ Len(addr_cmds) = 6
      /\ addr_cmds[1] = 33 /\ addr_cmds[2] = 0 /\ addr_cmds[3] = 127
      /\ addr_cmds[4] = 34 /\ addr_cmds[5] = 0 /\ addr_cmds[6] = 3
  BY DEF addr_cmds, SetColumns, SetPages
<1>2. Range(addr_cmds) = {addr_cmds[i] : i \in 1..6}
  BY <1>1 DEF Range
<1>3. 1..6 = {1, 2, 3, 4, 5, 6}
  OBVIOUS
<1> HIDE DEF addr_cmds
<1>. QED
  BY <1>1, <1>2, <1>3 DEF Sent

LEMMA WindowFacts ==
    /\ Whole.cols = [from |-> 0, to |-> 127] /\ Whole.pages = [from |-> 0, to |-> 3]
    /\ Whole.cols \in Window /\ Whole.pages \in Window
    /\ \A b \in Sent : b \in Bounds /\ b % 8 \in Bounds
    /\ 0 \in Bounds /\ 0 % 8 = 0 /\ 3 % 8 = 3
BY DEF Whole, Window, Bounds, Sent

LEMMA TakenFacts ==
    ASSUME NEW p \in PanelState, NEW b \in Sent
    PROVE  LET q == Taken(p, b)
           IN  /\ q \in PanelState /\ q.ready = p.ready
               /\ p.expect = "col_start" =>
                     q.expect = "col_end" /\ q.cols = [from |-> b, to |-> 0]
               /\ p.expect = "col_end" =>
                     /\ q.expect = "none" /\ q.col_at_start
                     /\ q.cols = [from |-> p.cols.from, to |-> b]
               /\ p.expect = "page_start" =>
                     q.expect = "page_end" /\ q.pages = [from |-> b % 8, to |-> 0]
               /\ p.expect = "page_end" =>
                     /\ q.expect = "none" /\ q.page_at_start
                     /\ q.pages = [from |-> p.pages.from, to |-> b % 8]
               /\ p.expect = "none" =>
                     q.expect = IF b = 33 THEN "col_start"
                                ELSE IF b = 34 THEN "page_start" ELSE "none"
               /\ p.expect \notin {"col_start", "col_end"} =>
                     q.cols = p.cols /\ q.col_at_start = p.col_at_start
<1> DEFINE q == Taken(p, b)
<1>1. p.expect \in Waiting /\ p.cols \in Window /\ p.pages \in Window
      /\ b \in Bounds /\ b % 8 \in Bounds /\ 0 \in Bounds
  BY WindowFacts DEF PanelState
<1>2. CASE p.expect = "col_start"
  <2> DEFINE win == [from |-> b, to |-> 0]
  <2>1. q = [p EXCEPT !.expect = "col_end", !.cols = win]
    BY <1>2 DEF Taken
  <2>2. win \in Window /\ "col_end" \in Waiting
    BY <1>1 DEF Window, Waiting
  <2> HIDE DEF q, win
  <2>3. q \in PanelState /\ q.ready = p.ready /\ q.expect = "col_end" /\ q.cols = win
    BY <2>1, <2>2 DEF PanelState
  <2>. QED
    BY <1>2, <2>3 DEF q, win
<1>3. CASE p.expect = "col_end"
  <2> DEFINE win == [from |-> p.cols.from, to |-> b]
  <2>1. q = [p EXCEPT !.expect = "none", !.cols.to = b, !.col_at_start = TRUE]
    BY <1>3 DEF Taken
  <2>2. win \in Window /\ [p.cols EXCEPT !.to = b] = win /\ "none" \in Waiting
    BY <1>1 DEF Window, Waiting
  <2>3. q = [p EXCEPT !.expect = "none", !.cols = win, !.col_at_start = TRUE]
    BY <2>1, <2>2 DEF PanelState
  <2> HIDE DEF q, win
  <2>4. q \in PanelState /\ q.ready = p.ready /\ q.expect = "none" /\ q.cols = win
        /\ q.col_at_start
    BY <2>2, <2>3 DEF PanelState
  <2>. QED
    BY <1>3, <2>4 DEF q, win
<1>4. CASE p.expect = "page_start"
  <2> DEFINE win == [from |-> b % 8, to |-> 0]
  <2>1. q = [p EXCEPT !.expect = "page_end", !.pages = win]
    BY <1>4 DEF Taken
  <2>2. win \in Window /\ "page_end" \in Waiting
    BY <1>1 DEF Window, Waiting
  <2> HIDE DEF q, win
  <2>3. q \in PanelState /\ q.ready = p.ready /\ q.expect = "page_end" /\ q.pages = win
        /\ q.cols = p.cols /\ q.col_at_start = p.col_at_start
    BY <2>1, <2>2 DEF PanelState
  <2>. QED
    BY <1>4, <2>3 DEF q, win
<1>5. CASE p.expect = "page_end"
  <2> DEFINE win == [from |-> p.pages.from, to |-> b % 8]
  <2>1. q = [p EXCEPT !.expect = "none", !.pages.to = b % 8, !.page_at_start = TRUE]
    BY <1>5 DEF Taken
  <2>2. win \in Window /\ [p.pages EXCEPT !.to = b % 8] = win /\ "none" \in Waiting
    BY <1>1 DEF Window, Waiting
  <2>3. q = [p EXCEPT !.expect = "none", !.pages = win, !.page_at_start = TRUE]
    BY <2>1, <2>2 DEF PanelState
  <2> HIDE DEF q, win
  <2>4. q \in PanelState /\ q.ready = p.ready /\ q.expect = "none" /\ q.pages = win
        /\ q.page_at_start /\ q.cols = p.cols /\ q.col_at_start = p.col_at_start
    BY <2>2, <2>3 DEF PanelState
  <2>. QED
    BY <1>5, <2>4 DEF q, win
<1>6. CASE p.expect = "none"
  <2>1. q = IF b = 33 THEN [p EXCEPT !.expect = "col_start"]
            ELSE IF b = 34 THEN [p EXCEPT !.expect = "page_start"]
            ELSE IF b = 127 THEN [p EXCEPT !.line = 63] ELSE p
    BY <1>6 DEF Taken, SetColumns, SetPages
  <2>2. /\ [p EXCEPT !.expect = "col_start"] \in PanelState
        /\ [p EXCEPT !.expect = "page_start"] \in PanelState
        /\ [p EXCEPT !.line = 63] \in PanelState
    BY DEF PanelState, Waiting
  <2>3. q \in PanelState
    BY <2>1, <2>2
  <2> HIDE DEF q
  <2>4. /\ q.ready = p.ready /\ q.cols = p.cols /\ q.col_at_start = p.col_at_start
        /\ q.expect = IF b = 33 THEN "col_start"
                      ELSE IF b = 34 THEN "page_start" ELSE "none"
    BY <1>6, <2>1 DEF PanelState
  <2>. QED
    BY <1>6, <2>3, <2>4 DEF q
<1>. QED
  BY <1>1, <1>2, <1>3, <1>4, <1>5, <1>6 DEF Waiting

-----------------------------------------------------------------------------
(***************************************************************************)
(* The steps.                                                              *)
(***************************************************************************)
\* What the type invariant says of the panel follows from its state's type.
LEMMA PanelTyped ==
    ASSUME NEW p \in PanelState
    PROVE  /\ p.expect \in Waiting /\ p.line \in {0, 63} /\ p.ready \in BOOLEAN
           /\ \A window \in {p.cols, p.pages} :
                 window \in [from: Range(addr_cmds) \cup 0..7, to: Range(addr_cmds) \cup 0..7]
<1>1. Range(addr_cmds) \cup 0..7 = Bounds
  BY AddressBytes DEF Bounds
<1>. QED
  BY <1>1 DEF PanelState, Window

LEMMA PanelsTyped == Panels \subseteq PanelState
<1>1. ASSUME NEW e \in Waiting, NEW r \in BOOLEAN
      PROVE  [expect |-> e, cols |-> Whole.cols, pages |-> Whole.pages, line |-> 0,
              col_at_start |-> FALSE, page_at_start |-> FALSE, ready |-> r] \in PanelState
  BY WindowFacts DEF PanelState
<1>. QED
  BY <1>1 DEF Panels

LEMMA InitInvariant == Init => PanelInv
<1> SUFFICES ASSUME Init PROVE PanelInv
  OBVIOUS
<1>1. /\ panel \in PanelState /\ ram = "torn" /\ next = 0 /\ clean = 0 /\ faults = 0
      /\ s_fb = oled_clear /\ source = "L" /\ width = 0 /\ pair = FALSE
      /\ calibrated \in BOOLEAN /\ stage = "ina219_init" /\ bt = NaNs
  BY PanelsTyped DEF Init, OledInit, NaNs
<1>2. OledTypeOK
  BY <1>1, PanelTyped, AddressBytes, OledAssumption DEF OledTypeOK
<1>3. TypeOK
  <2>1. DOMAIN s_fb = Cells /\ bt \in [v: {"now", "NaN"}, i: {"now", "zero", "NaN"}]
    BY <1>1 DEF oled_clear, NaNs
  <2>. QED
    BY <1>1, <1>2, <2>1 DEF TypeOK
<1>4. BootInv /\ FlagInv
  BY <1>1 DEF BootInv, FlagInv
<1>5. FlushInv
  BY <1>1 DEF FlushInv, Expected, PanelState
<1>6. BatteryInv
  <2>1. \A c \in {3} \X (0..14) : s_fb[c] = "blank"
    BY <1>1 DEF oled_clear, Cells, Rows, LastCol
  <2>. QED
    BY <1>1, <2>1 DEF BatteryInv, NaNs
<1>. QED
  BY <1>1, <1>3, <1>4, <1>5, <1>6 DEF PanelInv

\* The facts every step needs.
LEMMA Facts ==
    ASSUME PanelInv
    PROVE  /\ panel \in PanelState /\ panel.expect \in Waiting /\ panel.ready \in BOOLEAN
           /\ ram \in {"this", "earlier", "torn"} /\ next \in 0..7 /\ clean \in 0..2
           /\ faults \in 0..MaxFaults /\ MaxFaults \in Nat
           /\ DOMAIN s_fb = Cells
           /\ BootInv /\ FlushInv /\ FlagInv /\ BatteryInv
BY AddressBytes, OledAssumption DEF PanelInv, TypeOK, OledTypeOK, PanelState

LEMMA ReadFacts == \A old : \A read \in ina219_read(old) : read.ok \in BOOLEAN
<1> SUFFICES ASSUME NEW old, NEW read \in ina219_read(old) PROVE read.ok \in BOOLEAN
  OBVIOUS
<1> DEFINE measured == IF calibrated THEN "now" ELSE "zero"
<1>1. \/ read = [ok |-> TRUE, v |-> "now", i |-> measured]
      \/ read = [ok |-> FALSE, v |-> "now", i |-> old.i]
      \/ read = [ok |-> FALSE, v |-> old.v, i |-> old.i]
  BY DEF ina219_read
<1> HIDE DEF measured
<1>2. read.ok = TRUE \/ read.ok = FALSE
  BY <1>1
<1>. QED
  BY <1>2

\* A call that succeeds or fails leaves the bound of the model.
LEMMA Bounded ==
    ASSUME PanelInv, Fails \/ Succeeds PROVE faults' \in 0..MaxFaults
BY Facts DEF Fails, Succeeds

LEMMA Ina219InitInvariant == PanelInv /\ ina219_init => PanelInv'
<1> SUFFICES ASSUME PanelInv, ina219_init PROVE PanelInv'
  OBVIOUS
<1>1. /\ stage = "ina219_init" /\ stage' = "display_init"
      /\ calibrated' \in BOOLEAN
      /\ UNCHANGED <<panel, ram, next, clean, drawing, bt>>
      /\ faults' \in 0..MaxFaults
  <2>1. faults' \in 0..MaxFaults
    BY Bounded DEF ina219_init
  <2>2. calibrated' \in BOOLEAN
    <3>1. calibrated \in BOOLEAN
      BY DEF PanelInv, TypeOK
    <3>2. calibrated' = calibrated \/ calibrated' = TRUE
      BY DEF ina219_init
    <3>. QED
      BY <3>1, <3>2
  <2>3. /\ stage = "ina219_init" /\ stage' = "display_init"
        /\ UNCHANGED <<panel, ram, next, clean, drawing, bt>>
    BY DEF ina219_init
  <2>. QED
    BY <2>1, <2>2, <2>3
<1>2. clean = 0 /\ next = 0 /\ bt = NaNs
  BY <1>1, Facts DEF BootInv
<1>3. TypeOK' /\ panel' \in PanelState
  BY <1>1 DEF PanelInv, TypeOK, OledTypeOK, drawing
<1>4. BootInv' /\ FlagInv'
  BY <1>1, <1>2 DEF BootInv, FlagInv, NaNs
<1>5. FlushInv'
  BY <1>1, <1>2, <1>3 DEF FlushInv, Expected, PanelState
<1>6. BatteryInv'
  BY <1>1, <1>2, Facts DEF BatteryInv, NaNs, drawing
<1>. QED
  BY <1>3, <1>4, <1>5, <1>6 DEF PanelInv

LEMMA DisplayInitInvariant == PanelInv /\ display_init => PanelInv'
<1> SUFFICES ASSUME PanelInv, display_init PROVE PanelInv'
  OBVIOUS
<1>1. /\ stage = "display_init" /\ stage' = "tasks"
      /\ UNCHANGED <<ram, clean, drawing, battery>>
      /\ faults' \in 0..MaxFaults
  BY Bounded DEF display_init, oled_init
<1>2. clean = 0 /\ next = 0 /\ bt = NaNs
  BY <1>1, Facts DEF BootInv
<1>3. panel' \in PanelState /\ next' \in {0, 1}
  <2>1. [panel EXCEPT !.expect = "none", !.ready = TRUE] \in PanelState
    BY Facts DEF PanelState, Waiting
  <2>. QED
    BY <2>1, PanelsTyped DEF display_init, oled_init
<1>4. TypeOK'
  <2>1. OledTypeOK'
    BY <1>1, <1>2, <1>3, PanelTyped, AddressBytes DEF PanelInv, TypeOK, OledTypeOK
  <2>. QED
    BY <1>1, <2>1 DEF PanelInv, TypeOK, drawing, battery
<1>5. BootInv' /\ FlagInv'
  BY <1>1, <1>2, Facts DEF BootInv, FlagInv, battery
<1>6. FlushInv'
  BY <1>1, <1>2, <1>3 DEF FlushInv, Expected, PanelState
<1>7. BatteryInv'
  BY <1>1, <1>2, Facts DEF BatteryInv, NaNs, drawing, battery
<1>. QED
  BY <1>3, <1>4, <1>5, <1>6, <1>7 DEF PanelInv

LEMMA DrawInvariant == PanelInv /\ Draw => PanelInv'
<1> SUFFICES ASSUME PanelInv, Draw PROVE PanelInv'
  OBVIOUS
<1>1. /\ stage = "tasks" /\ next = 0 /\ next' = 1
      /\ ram' = IF ram = "this" THEN "earlier" ELSE ram
      /\ UNCHANGED <<panel, clean, stage, battery>>
  BY DEF Draw
<1>2. PICK src \in {"H", "L"}, w \in Widths, read \in ina219_read(NaNs) :
          /\ IF read.ok THEN Succeeds ELSE Fails
          /\ s_fb' = Drawn(src, w, read)
          /\ source' = src /\ width' = w /\ pair' = read.ok
  BY DEF Draw
<1>3. w \in Nat /\ read.ok \in BOOLEAN
  BY <1>2, ReadFacts, PanelAssumption
<1>4. /\ DOMAIN s_fb' = Cells
      /\ s_fb'[<<0, LastCol>>] = IF width' <= LastCol THEN source' ELSE "xy"
      /\ ~pair' => \A c \in {3} \X (0..14) : s_fb'[c] = "----"
  BY <1>2, <1>3, DrawnFacts
<1>5. faults' \in 0..MaxFaults
  BY <1>2, <1>3, Bounded
<1>6. TypeOK' /\ panel' \in PanelState
  <2>1. OledTypeOK'
    BY <1>1, <1>5, Facts, AddressBytes DEF PanelInv, TypeOK, OledTypeOK
  <2>. QED
    BY <1>1, <1>2, <1>3, <1>4, <2>1 DEF PanelInv, TypeOK, battery
<1>7. BootInv' /\ FlagInv'
  BY <1>1, <1>4, Facts DEF BootInv, FlagInv, battery
<1>8. FlushInv'
  BY <1>1, <1>6, Facts DEF FlushInv, Expected, Follows, PanelState
<1>9. BatteryInv'
  BY <1>1, <1>4, Facts DEF BatteryInv, battery
<1>. QED
  BY <1>6, <1>7, <1>8, <1>9 DEF PanelInv

\* What a flush leaves alone.
LEMMA FlushFrame ==
    ASSUME PanelInv, stage = "tasks", UNCHANGED <<drawing, stage, battery>>,
           panel' \in PanelState, ram' \in {"this", "earlier", "torn"},
           next' \in 0..7, clean' \in 0..2, faults' \in 0..MaxFaults
    PROVE  TypeOK' /\ BootInv' /\ BatteryInv'
<1>1. OledTypeOK'
  BY PanelTyped, AddressBytes DEF OledTypeOK
<1>2. TypeOK'
  BY <1>1 DEF PanelInv, TypeOK, drawing, battery
<1>3. BootInv' /\ BatteryInv'
  BY Facts DEF BootInv, BatteryInv, drawing, battery
<1>. QED
  BY <1>2, <1>3

\* One address byte: what the flush that began earlier expects of the panel.
LEMMA ByteTaken ==
    ASSUME PanelInv, next \in 1..6, panel' = Taken(panel, addr_cmds[next]), next' = next + 1,
           clean' = clean
    PROVE  panel' \in PanelState /\ FlushInv'
<1> DEFINE p == panel
           q == panel'
           b == addr_cmds[next]
<1>1. /\ p \in PanelState /\ b \in Sent /\ q = Taken(p, b)
      /\ p.expect \in Expected(next) /\ (clean > 0 => Follows(next)) /\ clean \in 0..2
  BY Facts, AddressBytes DEF FlushInv, Sent
<1>2. /\ q \in PanelState
      /\ p.expect = "col_start" =>
            q.expect = "col_end" /\ q.cols = [from |-> b, to |-> 0]
      /\ p.expect = "col_end" =>
            /\ q.expect = "none" /\ q.col_at_start
            /\ q.cols = [from |-> p.cols.from, to |-> b]
      /\ p.expect = "page_start" =>
            q.expect = "page_end" /\ q.pages = [from |-> b % 8, to |-> 0]
      /\ p.expect = "page_end" =>
            /\ q.expect = "none" /\ q.page_at_start
            /\ q.pages = [from |-> p.pages.from, to |-> b % 8]
      /\ p.expect = "none" =>
            q.expect = IF b = 33 THEN "col_start"
                       ELSE IF b = 34 THEN "page_start" ELSE "none"
      /\ p.expect \notin {"col_start", "col_end"} =>
            q.cols = p.cols /\ q.col_at_start = p.col_at_start
  BY <1>1, TakenFacts
<1>3. /\ Whole.cols = [from |-> 0, to |-> 127] /\ Whole.pages = [from |-> 0, to |-> 3]
      /\ 0 % 8 = 0 /\ 3 % 8 = 3
  BY WindowFacts
<1>4. next' = next + 1 /\ clean' = clean
  OBVIOUS
<1> HIDE DEF q
<1>5. CASE next = 1
  <2>1. b = 33 /\ next' = 2
    BY <1>4, <1>5, AddressBytes
  <2>2. q.expect \in {"col_start", "col_end", "page_end", "none"}
    BY <1>1, <1>2, <1>5, <2>1 DEF Expected, Waiting, PanelState
  <2>3. clean > 0 => q.expect = "col_start"
    BY <1>1, <1>2, <1>3, <1>5, <2>1 DEF Expected, Follows, ColumnsSet
  <2>. QED
    BY <1>2, <1>4, <2>1, <2>2, <2>3 DEF FlushInv, Expected, Follows, ColumnsSet, Whole, q
<1>6. CASE next = 2
  <2>1. b = 0 /\ next' = 3
    BY <1>4, <1>6, AddressBytes
  <2>2. q.expect \in {"col_end", "none"}
    BY <1>1, <1>2, <1>6, <2>1 DEF Expected, Waiting, PanelState
  <2>3. clean > 0 => q.expect = "col_end" /\ q.cols.from = 0
    BY <1>1, <1>2, <1>3, <1>6, <2>1 DEF Expected, Follows, ColumnsSet
  <2>. QED
    BY <1>2, <1>4, <2>1, <2>2, <2>3 DEF FlushInv, Expected, Follows, ColumnsSet, Whole, q
<1>7. CASE next = 3
  <2>1. b = 127 /\ next' = 4
    BY <1>4, <1>7, AddressBytes
  <2>2. q.expect = "none"
    BY <1>1, <1>2, <1>7, <2>1 DEF Expected, Waiting, PanelState
  <2>3. clean > 0 => q.cols = Whole.cols /\ q.col_at_start
    BY <1>1, <1>2, <1>3, <1>7, <2>1 DEF Expected, Follows, ColumnsSet
  <2>. QED
    BY <1>2, <1>4, <2>1, <2>2, <2>3 DEF FlushInv, Expected, Follows, ColumnsSet, Whole, q
<1>8. CASE next = 4
  <2>1. b = 34 /\ next' = 5
    BY <1>4, <1>8, AddressBytes
  <2>2. q.expect = "page_start"
    BY <1>1, <1>2, <1>8, <2>1 DEF Expected, Waiting, PanelState
  <2>3. clean > 0 => q.cols = Whole.cols /\ q.col_at_start
    BY <1>1, <1>2, <1>3, <1>8, <2>1 DEF Expected, Follows, ColumnsSet
  <2>. QED
    BY <1>2, <1>4, <2>1, <2>2, <2>3 DEF FlushInv, Expected, Follows, ColumnsSet, Whole, q
<1>9. CASE next = 5
  <2>1. b = 0 /\ next' = 6
    BY <1>4, <1>9, AddressBytes
  <2>2. q.expect = "page_end"
    BY <1>1, <1>2, <1>9, <2>1 DEF Expected, Waiting, PanelState
  <2>3. clean > 0 => q.cols = Whole.cols /\ q.col_at_start /\ q.pages.from = 0
    BY <1>1, <1>2, <1>3, <1>9, <2>1 DEF Expected, Follows, ColumnsSet
  <2>. QED
    BY <1>2, <1>4, <2>1, <2>2, <2>3 DEF FlushInv, Expected, Follows, ColumnsSet, Whole, q
<1>10. CASE next = 6
  <2>1. b = 3 /\ next' = 7
    BY <1>4, <1>10, AddressBytes
  <2>2. q.expect = "none"
    BY <1>1, <1>2, <1>10, <2>1 DEF Expected, Waiting, PanelState
  <2>3. clean > 0 => /\ q.cols = Whole.cols /\ q.col_at_start
                      /\ q.pages = Whole.pages /\ q.page_at_start
    BY <1>1, <1>2, <1>3, <1>10, <2>1 DEF Expected, Follows, ColumnsSet
  <2>. QED
    BY <1>2, <1>4, <2>1, <2>2, <2>3 DEF FlushInv, Expected, Follows, ColumnsSet, Whole, q
<1>. QED
  BY <1>5, <1>6, <1>7, <1>8, <1>9, <1>10

LEMMA SendCmdInvariant ==
    ASSUME PanelInv, stage = "tasks", SendCmd, UNCHANGED <<drawing, stage, battery>>
    PROVE  PanelInv'
<1> DEFINE q == Taken(panel, addr_cmds[next])
<1>1. next \in 1..6 /\ addr_cmds[next] \in Sent /\ ram' = ram
  BY AddressBytes DEF SendCmd, Sent
<1>2. faults' \in 0..MaxFaults
  BY Bounded DEF SendCmd
<1>3. q \in PanelState
  BY <1>1, Facts, TakenFacts
<1>4. CASE panel' = q /\ next' = next + 1 /\ clean' = clean
  <2>1. TypeOK' /\ BootInv' /\ BatteryInv' /\ panel' \in PanelState
    BY <1>1, <1>2, <1>3, <1>4, Facts, FlushFrame
  <2>2. FlagInv'
    BY <1>1, <1>4, Facts DEF FlagInv, drawing
  <2>5. FlushInv'
    BY <1>1, <1>4, ByteTaken
  <2>. QED
    BY <2>1, <2>2, <2>5 DEF PanelInv
<1>5. CASE panel' \in {panel, q} /\ next' = 0 /\ clean' = 0
  <2>1. TypeOK' /\ BootInv' /\ BatteryInv' /\ panel' \in PanelState
    BY <1>1, <1>2, <1>3, <1>5, Facts, FlushFrame
  <2>2. FlagInv' /\ FlushInv'
    BY <1>5, <2>1 DEF FlagInv, FlushInv, Expected, PanelState
  <2>. QED
    BY <2>1, <2>2 DEF PanelInv
<1>. QED
  BY <1>4, <1>5 DEF SendCmd

LEMMA SendFrameInvariant ==
    ASSUME PanelInv, stage = "tasks", SendFrame, UNCHANGED <<drawing, stage, battery>>
    PROVE  PanelInv'
<1>1. next = 7 /\ next' = 0 /\ panel.expect = "none"
  BY AddressBytes, Facts DEF SendFrame, FlushInv, Expected
<1>2. faults' \in 0..MaxFaults
  BY Bounded DEF SendFrame
<1>3. /\ panel' \in PanelState /\ panel'.expect = "none" /\ panel'.ready = panel.ready
      /\ ram' \in {"this", "earlier", "torn"}
  <2>1. \A a, b \in BOOLEAN :
           LET p == [panel EXCEPT !.col_at_start = a, !.page_at_start = b]
           IN  p \in PanelState /\ p.expect = panel.expect /\ p.ready = panel.ready
    BY Facts DEF PanelState
  <2>2. Fills(panel) \in BOOLEAN
    BY DEF Fills
  <2>. QED
    BY <1>1, <2>1, <2>2, Facts DEF SendFrame
<1>4. CASE clean' = 0
  <2>1. TypeOK' /\ BootInv' /\ BatteryInv'
    BY <1>1, <1>2, <1>3, <1>4, FlushFrame
  <2>2. FlagInv' /\ FlushInv'
    BY <1>1, <1>3, <1>4 DEF FlagInv, FlushInv, Expected, PanelState
  <2>. QED
    BY <1>3, <2>1, <2>2 DEF PanelInv
<1>5. CASE /\ clean' = IF clean = 2 THEN 2 ELSE clean + 1
           /\ ram' = IF Fills(panel) THEN "this" ELSE "torn"
  <2>1. TypeOK' /\ BootInv' /\ BatteryInv'
    BY <1>1, <1>2, <1>3, <1>5, Facts, FlushFrame
  <2>2. clean > 0 /\ panel.ready => ram' = "this"
    BY <1>1, <1>5, Facts DEF FlushInv, Follows, ColumnsSet, Fills
  <2>3. FlushInv'
    BY <1>1, <1>3, <1>5, <2>2, Facts DEF FlushInv, Expected, PanelState
  <2>4. FlagInv'
    BY <1>1, <1>5, Facts DEF FlagInv, drawing
  <2>. QED
    BY <1>3, <2>1, <2>3, <2>4 DEF PanelInv
<1>. QED
  BY <1>4, <1>5 DEF SendFrame

LEMMA TelemeterInvariant == PanelInv /\ Telemeter => PanelInv'
<1> SUFFICES ASSUME PanelInv, Telemeter PROVE PanelInv'
  OBVIOUS
<1>1. /\ stage = "tasks"
      /\ UNCHANGED <<panel, ram, next, clean, drawing, stage, calibrated>>
  BY DEF Telemeter
<1>2. PICK read \in ina219_read(NaNs) :
          /\ IF read.ok THEN Succeeds ELSE Fails
          /\ bt' = [v |-> read.v, i |-> read.i]
  BY DEF Telemeter, Before
<1>3. read.ok \in BOOLEAN
  BY <1>2, ReadFacts
<1>4. /\ bt' \in {NaNs, [v |-> "now", i |-> "now"], [v |-> "now", i |-> "zero"],
                  [v |-> "now", i |-> "NaN"]}
  BY <1>2 DEF ina219_read, NaNs
<1>5. faults' \in 0..MaxFaults
  BY <1>2, <1>3, Bounded
<1>6. TypeOK' /\ panel' \in PanelState
  <2>1. bt' \in [v: {"now", "NaN"}, i: {"now", "zero", "NaN"}]
    BY <1>4 DEF NaNs
  <2>. QED
    BY <1>1, <1>5, <2>1 DEF PanelInv, TypeOK, OledTypeOK, drawing
<1>7. BootInv' /\ FlagInv'
  BY <1>1, Facts DEF BootInv, FlagInv, drawing
<1>8. FlushInv'
  BY <1>1, Facts DEF FlushInv, Expected, Follows, ColumnsSet
<1>9. BatteryInv'
  BY <1>1, <1>4, Facts DEF BatteryInv, BootInv, NaNs, drawing
<1>. QED
  BY <1>6, <1>7, <1>8, <1>9 DEF PanelInv

-----------------------------------------------------------------------------
(***************************************************************************)
(* Every reachable state has the invariant.                                *)
(***************************************************************************)
THEOREM PanelInvariant == Spec => []PanelInv
<1>1. PanelInv /\ [Next]_vars => PanelInv'
  <2> SUFFICES ASSUME PanelInv, [Next]_vars PROVE PanelInv'
    OBVIOUS
  <2>1. CASE Flush
    BY <2>1, SendCmdInvariant, SendFrameInvariant DEF Flush, oled_flush
  <2>2. CASE UNCHANGED vars
    BY <2>2 DEF vars, oledvars, drawing, battery, PanelInv, TypeOK, OledTypeOK, BootInv,
                FlushInv, Follows, ColumnsSet, FlagInv, BatteryInv
  <2>. QED
    BY <2>1, <2>2, Ina219InitInvariant, DisplayInitInvariant, DrawInvariant,
       TelemeterInvariant DEF Next
<1>. QED
  BY <1>1, InitInvariant, PTL DEF Spec

(***************************************************************************)
(* Type correctness of the panel, its driver and the battery figures.      *)
(***************************************************************************)
THEOREM PanelTypeCorrect == Spec => []TypeOK
<1>1. PanelInv => TypeOK
  BY DEF PanelInv
<1>. QED
  BY <1>1, PanelInvariant, PTL

(***************************************************************************)
(* After two flushes of oled.c in a row that succeeded the panel shows this*)
(* turn's frame, wherever an earlier transaction was cut off.              *)
(***************************************************************************)
THEOREM PanelFollowsHolds == Spec => []PanelFollows
<1>1. PanelInv => PanelFollows
  BY DEF PanelInv, FlushInv, FlagInv, PanelFollows
<1>. QED
  BY <1>1, PanelInvariant, PTL

(***************************************************************************)
(* No mixture of old and new, or of measured and unmeasured, battery       *)
(* figures is reported or drawn.                                           *)
(***************************************************************************)
THEOREM BatteryHonestHolds == Spec => []BatteryHonest
<1>1. PanelInv => BatteryHonest
  BY DEF PanelInv, BatteryInv, BatteryHonest, NaNs
<1>. QED
  BY <1>1, PanelInvariant, PTL

=============================================================================
