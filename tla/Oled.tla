-------------------------------- MODULE Oled --------------------------------
(***************************************************************************)
(* oled.c and the panel behind it: drawing into s_fb, and oled_flush,      *)
(* which sends the address commands one byte per transaction and then the  *)
(* frame.  Any transaction may fail, and a byte that failed may still have *)
(* arrived.  The panel (an SSD1306, external) keeps waiting for the        *)
(* arguments of a command it has begun, over transactions and flushes.     *)
(***************************************************************************)
EXTENDS Naturals, Sequences, Functions

CONSTANT MaxFaults      \* bound of the model: failed transactions

ASSUME OledAssumption == MaxFaults \in Nat

VARIABLES
    panel,      \* expect: arguments to come, and of which command; cols and
                \* pages: the address windows; col_at_start, page_at_start:
                \* the write pointer; ready: set up and switched on
    ram,        \* history: what the panel's memory holds: the frame of this
                \* turn, of an earlier one, or neither
    next,       \* oled_flush: the address commands sent; 0: not flushing
    clean,      \* history: successful flushes in a row, up to 2
    faults

oledvars == <<panel, ram, next, clean, faults>>

-----------------------------------------------------------------------------
(***************************************************************************)
(* Drawing: a frame buffer is a function from cells to what stands there.  *)
(***************************************************************************)
LastCol == 20       \* 21 cells of CELL_W pixels; the last needs no spacing
Rows == 0..3
Cells == Rows \X (0..LastCol)

oled_clear == [c \in Cells |-> "blank"]

\* Mutant: no clipping at the right edge.
TextUnclipped(fb, row, col, length, what) ==
    LET written == {row} \X (col..(col + length - 1))
    IN  [c \in DOMAIN fb \cup written |-> IF c \in written THEN what ELSE fb[c]]

\* oled_text: what is right of the last cell, or in no row, is not drawn.
oled_text(fb, row, col, length, what) ==
    [c \in Cells |-> IF c[1] = row /\ c[2] \in col..(col + length - 1)
                     THEN what ELSE fb[c]]

-----------------------------------------------------------------------------
(***************************************************************************)
(* The panel.                                                              *)
(***************************************************************************)
SetColumns == 33    \* 0x21
SetPages == 34      \* 0x22
Waiting == {"none", "col_start", "col_end", "page_start", "page_end"}

\* A command byte arrives: an argument if one is expected.  Bytes that begin
\* no command here set registers the image does not depend on in this mode,
\* but for 0x7F, "start line 63", which oled_flush never undoes.
Taken(p, byte) ==
    CASE p.expect = "col_start"  -> [p EXCEPT !.expect = "col_end",
                                              !.cols = [from |-> byte, to |-> 0]]
      [] p.expect = "col_end"    -> [p EXCEPT !.expect = "none", !.cols.to = byte,
                                              !.col_at_start = TRUE]
      [] p.expect = "page_start" -> [p EXCEPT !.expect = "page_end",
                                              !.pages = [from |-> byte % 8, to |-> 0]]
      [] p.expect = "page_end"   -> [p EXCEPT !.expect = "none", !.pages.to = byte % 8,
                                              !.page_at_start = TRUE]
      [] p.expect = "none" /\ byte = SetColumns -> [p EXCEPT !.expect = "col_start"]
      [] p.expect = "none" /\ byte = SetPages   -> [p EXCEPT !.expect = "page_start"]
      [] p.expect = "none" /\ byte = 127        -> [p EXCEPT !.line = 63]
      [] OTHER -> p

Whole == [cols |-> [from |-> 0, to |-> 127], pages |-> [from |-> 0, to |-> 3]]

\* The frame fills the memory once around if it starts at its first byte.
Fills(p) ==
    /\ p.ready /\ p.col_at_start /\ p.page_at_start
    /\ p.cols = Whole.cols /\ p.pages = Whole.pages

\* After power-up, or in whatever state a reset of the processor left it.
Panels ==
    {[expect |-> e, cols |-> Whole.cols, pages |-> Whole.pages, line |-> 0,
      col_at_start |-> FALSE, page_at_start |-> FALSE, ready |-> r] :
        e \in Waiting, r \in BOOLEAN}

-----------------------------------------------------------------------------
Fails == faults < MaxFaults /\ faults' = faults + 1

Succeeds == UNCHANGED faults

\* Mutant: the page window is set once and for all by oled_init.
ColumnsOnly == <<SetColumns, 0, 127>>

\* addr_cmds of oled_flush.
addr_cmds == <<SetColumns, 0, 127, SetPages, 0, 3>>

\* send_cmds: one byte, one transaction.  A failure ends the flush.
SendCmd ==
    /\ next \in DOMAIN addr_cmds
    /\ \/ /\ Succeeds
          /\ panel' = Taken(panel, addr_cmds[next])
          /\ next' = next + 1
          /\ UNCHANGED clean
       \/ /\ Fails
          /\ panel' \in {panel, Taken(panel, addr_cmds[next])}
          /\ next' = 0
          /\ clean' = 0
    /\ UNCHANGED ram

\* The frame, in one transaction; a failure may leave the pointer anywhere.
SendFrame ==
    /\ next = Len(addr_cmds) + 1
    /\ next' = 0
    /\ \/ /\ Succeeds
          /\ ram' = IF Fills(panel) THEN "this" ELSE "torn"
          /\ clean' = IF clean = 2 THEN 2 ELSE clean + 1
          /\ panel' = [panel EXCEPT !.col_at_start = Fills(panel),
                                    !.page_at_start = Fills(panel)]
       \/ /\ Fails
          /\ clean' = 0
          /\ \/ UNCHANGED <<ram, panel>>
             \/ /\ ram' = "torn"
                /\ panel' = [panel EXCEPT !.col_at_start = FALSE,
                                          !.page_at_start = FALSE]

oled_flush == SendCmd \/ SendFrame

\* oled_init: the commands of init_seq, then a flush of an empty frame.  Two
\* bytes may be eaten by a command that a reset cut off; 0x40 sets the start
\* line.  app_main starts display_task also when it fails.
oled_init ==
    /\ \/ /\ Succeeds
          /\ panel' = [panel EXCEPT !.expect = "none", !.ready = TRUE]
          /\ next' = 1
       \/ /\ Fails
          /\ panel' \in Panels
          /\ next' = 0
    /\ UNCHANGED <<ram, clean>>

OledInit ==
    /\ panel \in Panels
    /\ ram = "torn"
    /\ next = 0
    /\ clean = 0
    /\ faults = 0

OledTypeOK ==
    /\ panel.expect \in Waiting
    /\ \A window \in {panel.cols, panel.pages} :
           window \in [from: Range(addr_cmds) \cup 0..7, to: Range(addr_cmds) \cup 0..7]
    /\ panel.line \in {0, 63}
    /\ panel.ready \in BOOLEAN
    /\ ram \in {"this", "earlier", "torn"}
    /\ next \in 0..(Len(addr_cmds) + 1)
    /\ clean \in 0..2
    /\ faults \in 0..MaxFaults
=============================================================================
