--------------------------- MODULE Display_proofs ---------------------------
(***************************************************************************)
(* Proofs about Display: for any number of writers, any timing and any     *)
(* word size, the panel stops showing the host's pose in bounded time, and *)
(* what it shows on the strength of a torn or newer stamp is gone with the *)
(* next frame.  The bounds hold for every interleaving of the two stores   *)
(* of each stamp; they are a Word longer only for a stamp that two pushes  *)
(* left mixed, which a single writer cannot.                               *)
(***************************************************************************)
EXTENDS Display, TLAPS

\* A push that is under way has its pose queued or taken, and is not late.
PushInv ==
    /\ dispQ # None => host_pkt <= dispQ
    /\ \A w \in Writers : writing[w] # None =>
           /\ writing[w] <= Newest
           /\ now <= writing[w] + WriteMax
    /\ \A h \in Half : recv_us[h] <= Newest + WriteMax

\* The loads of the stamp that display_task has made.
Loaded(h) == pc \in {h, "loaded"}

\* A word that was loaded is still in memory, or a push was at work since the
\* frame read the clock.
LoadInv ==
    \A h \in Half : Loaded(h) =>
        /\ recv[h] <= Newest + WriteMax
        /\ recv[h] = recv_us[h] \/ now_us <= Newest + WriteMax

\* A single writer leaves the words of one stamp in memory.
OneWriter == \A v, w \in Writers : v = w

WordsInv ==
    OneWriter =>
        /\ (\A w \in Writers : stamp[w] = None) => recv_us["hi"] = recv_us["lo"]
        /\ \A w \in Writers : stamp[w] # None =>
               \A h \in Half \ left[w] : recv_us[h] = stamp[w]
        /\ ~frame.mixed

\* display_task is at most FrameMax late for its frame, and not early.
LoopInv ==
    /\ now <= next + FrameMax
    /\ pc # "sleep" => next <= now
    /\ pc \in {"clocked", "loaded"} \cup Half => next <= now_us

\* A host's pose was fresh, or a newer one queued, when it was chosen; the
\* next turn of the loop finds that newer one.
FrameInv ==
    frame.src = "H" =>
        /\ next <= frame.for + Period
        /\ frame.for < Newest + WriteMax + Timeout + Ahead
        /\ frame.pose <= host_pkt
        /\ pc # "sleep" => frame.for < host_pkt + WriteMax + Timeout + Ahead

DisplayInv == TypeOK /\ PushInv /\ LoadInv /\ WordsInv /\ LoopInv /\ FrameInv

-----------------------------------------------------------------------------
LEMMA DisplayInit == Init => DisplayInv
<1> SUFFICES ASSUME Init PROVE DisplayInv
  OBVIOUS
<1> USE DisplayAssumption DEF Init, None
<1>1. TypeOK
  BY DEF TypeOK, Half
<1>2. PushInv
  BY DEF PushInv, Newest
<1>3. LoadInv
  BY DEF LoadInv, Loaded, Half
<1>4. WordsInv /\ LoopInv /\ FrameInv
  BY DEF WordsInv, LoopInv, FrameInv, Half
<1>. QED
  BY <1>1, <1>2, <1>3, <1>4 DEF DisplayInv

LEMMA NewestType == DisplayInv => Newest \in Nat /\ Newest <= now
BY DEF DisplayInv, TypeOK, Newest

LEMMA AheadType == DisplayInv => Ahead \in Nat
BY DisplayAssumption DEF Ahead

\* Time passes for everybody.
LEMMA AdvanceStep == DisplayInv /\ Advance => DisplayInv'
<1> SUFFICES ASSUME DisplayInv, Advance PROVE DisplayInv'
  OBVIOUS
<1> USE DisplayAssumption DEF Advance, pushvars, taskvars
<1>0. Newest' = Newest /\ Ahead' = Ahead
  BY DEF Newest, Ahead
<1>1. TypeOK'
  BY DEF DisplayInv, TypeOK
<1>2. PushInv'
  BY <1>0, NewestType DEF DisplayInv, TypeOK, PushInv, None
<1>3. LoadInv' /\ WordsInv'
  BY <1>0 DEF DisplayInv, LoadInv, Loaded, WordsInv
<1>4. LoopInv'
  BY DEF DisplayInv, TypeOK, LoopInv
<1>5. FrameInv'
  BY <1>0 DEF DisplayInv, FrameInv
<1>. QED
  BY <1>1, <1>2, <1>3, <1>4, <1>5 DEF DisplayInv

\* A pose enters the queue; what is there is older.
LEMMA PushStep ==
    ASSUME DisplayInv, NEW w \in Writers, Push(w) PROVE DisplayInv'
<1> USE DisplayAssumption DEF Push, taskvars
<1>0. Newest' = now /\ Newest \in Nat /\ Newest <= now /\ Ahead' = Ahead /\ Ahead \in Nat
  BY NewestType, AheadType DEF Newest, Ahead, None, DisplayInv, TypeOK
<1>1. TypeOK'
  BY DEF DisplayInv, TypeOK, None
<1>2. PushInv'
  BY <1>0 DEF DisplayInv, TypeOK, PushInv, None
<1>3. LoadInv'
  <2> SUFFICES ASSUME NEW h \in Half, Loaded(h)
               PROVE  /\ recv[h] <= now + WriteMax
                      /\ recv[h] = recv_us[h] \/ now_us <= now + WriteMax
    BY <1>0 DEF LoadInv, Loaded
  <2>. QED
    BY <1>0 DEF DisplayInv, TypeOK, LoadInv
<1>4. WordsInv' /\ LoopInv'
  BY DEF DisplayInv, WordsInv, LoopInv
<1>5. FrameInv'
  BY <1>0 DEF DisplayInv, TypeOK, FrameInv
<1>. QED
  BY <1>1, <1>2, <1>3, <1>4, <1>5 DEF DisplayInv

LEMMA ReadClockStep ==
    ASSUME DisplayInv, NEW w \in Writers, ReadClock(w) PROVE DisplayInv'
<1> USE DisplayAssumption DEF ReadClock, taskvars
<1>0. Newest' = Newest /\ Ahead' = Ahead
  BY DEF Newest, Ahead
<1>1. TypeOK'
  BY DEF DisplayInv, TypeOK, None, Half
<1>2. PushInv' /\ LoadInv' /\ LoopInv' /\ FrameInv'
  BY <1>0 DEF DisplayInv, PushInv, LoadInv, Loaded, LoopInv, FrameInv
<1>3. WordsInv'
  <2> SUFFICES ASSUME OneWriter PROVE WordsInv'
    BY DEF WordsInv
  <2>1. stamp'[w] # None /\ left'[w] = Half /\ \A v \in Writers : v = w
    BY DEF DisplayInv, TypeOK, OneWriter, None
  <2>. QED
    BY <2>1 DEF DisplayInv, WordsInv
<1>. QED
  BY <1>1, <1>2, <1>3 DEF DisplayInv

\* A word of a push's stamp is not later than its pose and the time it may
\* take, and while the push is at work no frame's clock is.
LEMMA StoreHalfStep ==
    ASSUME DisplayInv, NEW w \in Writers, NEW h \in Half, StoreHalf(w, h)
    PROVE  DisplayInv'
<1> USE DisplayAssumption DEF StoreHalf, taskvars
<1>0. Newest' = Newest /\ Ahead' = Ahead
  BY DEF Newest, Ahead
<1>1. TypeOK'
  <2>1. /\ now' \in 1..MaxTime /\ dispQ' \in 0..now' /\ host_pkt' \in 0..now'
        /\ now_us' \in 0..now' /\ recv' \in [Half -> 0..now'] /\ next' \in Nat
        /\ frame' \in [src: {"H", "L"}, for: 0..now', pose: 0..now', mixed: BOOLEAN]
        /\ pc' \in {"sleep", "drained", "clocked", "loaded"} \cup Half
    BY DEF DisplayInv, TypeOK
  <2>2. /\ recv_us' \in [Half -> 0..now'] /\ stamp' \in [Writers -> 0..now']
        /\ writing' \in [Writers -> 0..now'] /\ left' \in [Writers -> SUBSET Half]
    BY DEF DisplayInv, TypeOK, None
  <2>3. ASSUME NEW v \in Writers
        PROVE  /\ stamp'[v] # None <=> left'[v] # {}
               /\ stamp'[v] # None => writing'[v] # None
    <3>1. CASE v # w
      BY <3>1 DEF DisplayInv, TypeOK
    <3>2. CASE v = w /\ left[w] = {h}
      BY <3>2 DEF DisplayInv, TypeOK, None
    <3>3. CASE v = w /\ left[w] # {h}
      BY <3>3 DEF DisplayInv, TypeOK
    <3>. QED
      BY <3>1, <3>2, <3>3
  <2>. QED
    BY <2>1, <2>2, <2>3 DEF TypeOK
<1>2. /\ stamp[w] # None /\ stamp[w] <= Newest + WriteMax
      /\ now <= Newest + WriteMax
  <2>1. stamp[w] # None /\ writing[w] # None
    BY DEF DisplayInv, TypeOK
  <2>2. writing[w] <= Newest /\ now <= writing[w] + WriteMax
    BY <2>1 DEF DisplayInv, PushInv
  <2>. QED
    BY <2>1, <2>2, NewestType DEF DisplayInv, TypeOK
<1>3. PushInv'
  <2>1. ASSUME NEW v \in Writers, writing'[v] # None
        PROVE  writing'[v] = writing[v]
    BY <2>1 DEF DisplayInv, TypeOK
  <2>2. ASSUME NEW g \in Half PROVE recv_us'[g] <= Newest + WriteMax
    BY <1>2 DEF DisplayInv, TypeOK, PushInv
  <2>. QED
    BY <1>0, <2>1, <2>2 DEF DisplayInv, PushInv
<1>4. LoadInv'
  <2> SUFFICES ASSUME NEW g \in Half, Loaded(g)
               PROVE  recv[g] <= Newest + WriteMax /\ now_us <= Newest + WriteMax
    BY <1>0 DEF LoadInv, Loaded
  <2>. QED
    BY <1>2, NewestType DEF DisplayInv, LoadInv, TypeOK
<1>5. WordsInv'
  <2> SUFFICES ASSUME OneWriter PROVE WordsInv'
    BY DEF WordsInv
  <2>1. \A v \in Writers : v = w
    BY DEF OneWriter
  <2>2. \A g \in Half \ left[w] : recv_us[g] = stamp[w]
    BY <1>2 DEF DisplayInv, WordsInv
  <2>3. \A g \in Half \ left'[w] : recv_us'[g] = stamp[w]
    BY <2>2 DEF DisplayInv, TypeOK
  <2>4. ~frame'.mixed
    BY DEF DisplayInv, WordsInv
  <2>5. CASE left[w] = {h}
    <3>1. left'[w] = {} /\ stamp'[w] = None
      BY <2>5 DEF DisplayInv, TypeOK
    <3>2. recv_us'["hi"] = recv_us'["lo"]
      BY <2>3, <3>1 DEF Half
    <3>. QED
      BY <2>1, <2>4, <3>1, <3>2 DEF WordsInv
  <2>6. CASE left[w] # {h}
    <3>1. stamp' = stamp
      BY <2>6
    <3>. QED
      BY <1>2, <2>1, <2>3, <2>4, <3>1 DEF WordsInv
  <2>. QED
    BY <2>5, <2>6
<1>6. LoopInv' /\ FrameInv'
  BY <1>0 DEF DisplayInv, LoopInv, FrameInv
<1>. QED
  BY <1>1, <1>3, <1>4, <1>5, <1>6 DEF DisplayInv

\* The newest pose changes its place only.
LEMMA DrainStep == DisplayInv /\ Drain => DisplayInv'
<1> SUFFICES ASSUME DisplayInv, Drain PROVE DisplayInv'
  OBVIOUS
<1> USE DisplayAssumption DEF Drain
<1>1. TypeOK'
  BY DEF DisplayInv, TypeOK, None
<1>2. /\ Newest' = Newest /\ host_pkt' = Newest /\ host_pkt <= host_pkt'
      /\ Ahead' = Ahead
  BY DEF Newest, Ahead, DisplayInv, TypeOK, PushInv, None
<1>3. PushInv'
  BY <1>2 DEF DisplayInv, PushInv
<1>4. LoadInv' /\ WordsInv'
  BY DEF DisplayInv, LoadInv, Loaded, WordsInv, Half
<1>5. LoopInv'
  BY DEF DisplayInv, TypeOK, LoopInv, Half
<1>6. FrameInv'
  BY <1>2, AheadType DEF DisplayInv, TypeOK, FrameInv
<1>. QED
  BY <1>1, <1>3, <1>4, <1>5, <1>6 DEF DisplayInv

LEMMA ClockStep == DisplayInv /\ Clock => DisplayInv'
<1> SUFFICES ASSUME DisplayInv, Clock PROVE DisplayInv'
  OBVIOUS
<1> USE DisplayAssumption DEF Clock, pushvars
<1>0. Newest' = Newest /\ Ahead' = Ahead
  BY DEF Newest, Ahead
<1>1. TypeOK'
  BY DEF DisplayInv, TypeOK
<1>2. PushInv' /\ LoadInv' /\ WordsInv'
  BY <1>0 DEF DisplayInv, PushInv, LoadInv, Loaded, WordsInv, Half
<1>3. LoopInv' /\ FrameInv'
  BY <1>0 DEF DisplayInv, TypeOK, LoopInv, FrameInv
<1>. QED
  BY <1>1, <1>2, <1>3 DEF DisplayInv

LEMMA LoadHalfStep ==
    ASSUME DisplayInv, NEW h \in Half, LoadHalf(h) PROVE DisplayInv'
<1> USE DisplayAssumption DEF LoadHalf, pushvars
<1>0. Newest' = Newest /\ Ahead' = Ahead
  BY DEF Newest, Ahead
<1>1. TypeOK'
  BY DEF DisplayInv, TypeOK, Half
<1>2. PushInv' /\ WordsInv'
  BY <1>0 DEF DisplayInv, PushInv, WordsInv
<1>3. LoadInv'
  <2> SUFFICES ASSUME NEW g \in Half, Loaded(g)'
               PROVE  /\ recv'[g] <= Newest + WriteMax
                      /\ recv'[g] = recv_us[g] \/ now_us <= Newest + WriteMax
    BY <1>0 DEF LoadInv
  <2>1. CASE g = h
    <3>1. recv'[g] = recv_us[g]
      BY <2>1 DEF DisplayInv, TypeOK
    <3>. QED
      BY <3>1 DEF DisplayInv, PushInv
  <2>2. CASE g # h
    <3>1. recv'[g] = recv[g]
      BY <2>2 DEF DisplayInv, TypeOK
    <3>2. Loaded(g)
      BY <2>2 DEF Loaded, Half
    <3>. QED
      BY <3>1, <3>2 DEF DisplayInv, LoadInv
  <2>. QED
    BY <2>1, <2>2
<1>4. LoopInv' /\ FrameInv'
  BY <1>0 DEF DisplayInv, LoopInv, FrameInv, Half
<1>. QED
  BY <1>1, <1>2, <1>3, <1>4 DEF DisplayInv

-----------------------------------------------------------------------------
\* The words of a number, and that a mixture is the low half's stamp or else
\* less than a Word after the high half's.
LEMMA Words ==
    ASSUME NEW t \in Nat
    PROVE  /\ High(t) \in Nat /\ Low(t) \in Nat
           /\ High(t) + Low(t) = t
           /\ Low(t) < Word
<1> DEFINE q == t \div Word
           r == t % Word
<1>1. q \in Nat /\ r \in 0..(Word - 1) /\ t = Word * q + r
  BY DisplayAssumption
<1>2. Word * q = q * Word /\ q * Word \in Nat
  BY <1>1, DisplayAssumption
<1>. QED
  BY <1>1, <1>2, DisplayAssumption DEF High, Low

LEMMA Mixture ==
    ASSUME NEW m \in [Half -> Nat]
    PROVE  /\ Value(m) < m["hi"] + Word
           /\ High(m["hi"]) = High(m["lo"]) => Value(m) = m["lo"]
           /\ Value(m) \in Nat
<1>1. m["hi"] \in Nat /\ m["lo"] \in Nat
  BY DEF Half
<1>2. /\ High(m["hi"]) \in Nat /\ Low(m["hi"]) \in Nat
      /\ High(m["hi"]) + Low(m["hi"]) = m["hi"]
  BY <1>1, Words
<1>3. /\ High(m["lo"]) \in Nat /\ Low(m["lo"]) \in Nat
      /\ High(m["lo"]) + Low(m["lo"]) = m["lo"] /\ Low(m["lo"]) < Word
  BY <1>1, Words
<1>. QED
  BY <1>1, <1>2, <1>3, DisplayAssumption DEF Value

\* Whatever the loads return, a pose believed in was queued recently, unless
\* memory holds a mixture.
LEMMA FreshChoice ==
    ASSUME DisplayInv, pc = "loaded", UseHost
    PROVE  now_us < Newest + WriteMax + Timeout + (IF Mixed THEN Word ELSE 0)
<1>0. /\ Newest \in Nat /\ now_us \in Nat /\ now_us <= now /\ now \in Nat
      /\ recv \in [Half -> Nat] /\ recv["hi"] \in Nat
  BY NewestType DEF DisplayInv, TypeOK, Half
<1>1. now_us < Value(recv) + Timeout /\ Value(recv) \in Nat
  BY <1>0, Mixture DEF UseHost
<1>2. ASSUME NEW h \in Half
      PROVE  /\ recv[h] <= Newest + WriteMax
             /\ recv[h] = recv_us[h] \/ now_us <= Newest + WriteMax
  BY DEF DisplayInv, LoadInv, Loaded
<1>3. CASE now_us <= Newest + WriteMax
  BY <1>0, <1>3, DisplayAssumption
<1>4. CASE Mixed
  <2>1. Value(recv) < recv["hi"] + Word /\ recv["hi"] <= Newest + WriteMax
    BY <1>0, <1>2, Mixture DEF Half
  <2>. QED
    BY <1>0, <1>1, <1>4, <2>1, DisplayAssumption
<1>5. CASE ~Mixed /\ now_us > Newest + WriteMax
  <2>1. recv["hi"] = recv_us["hi"] /\ recv["lo"] = recv_us["lo"]
    BY <1>0, <1>2, <1>5, DisplayAssumption DEF Half
  <2>2. \A w \in Writers : stamp[w] = None
    <3> SUFFICES ASSUME NEW w \in Writers, stamp[w] # None PROVE FALSE
      OBVIOUS
    <3>1. writing[w] # None
      BY DEF DisplayInv, TypeOK
    <3>2. writing[w] <= Newest /\ now <= writing[w] + WriteMax
      BY <3>1 DEF DisplayInv, PushInv
    <3>3. writing[w] \in Int
      BY DEF DisplayInv, TypeOK
    <3>. QED
      BY <1>0, <1>5, <3>2, <3>3, DisplayAssumption
  <2>3. High(recv["hi"]) = High(recv["lo"])
    BY <1>5, <2>1, <2>2 DEF Mixed
  <2>4. Value(recv) = recv["lo"]
    BY <1>0, <2>3, Mixture
  <2>5. recv["lo"] <= Newest + WriteMax
    BY <1>2 DEF Half
  <2>. QED
    BY <1>0, <1>1, <1>5, <2>4, <2>5, DisplayAssumption
<1>. QED
  BY <1>0, <1>3, <1>4, <1>5, DisplayAssumption

LEMMA ShowStep == DisplayInv /\ Show => DisplayInv'
<1> SUFFICES ASSUME DisplayInv, Show PROVE DisplayInv'
  OBVIOUS
<1> USE DisplayAssumption DEF pushvars
<1>1. TypeOK'
  <2>1. UseHost \in BOOLEAN /\ Mixed \in BOOLEAN
    BY DEF UseHost, Mixed
  <2>2. frame' \in [src: {"H", "L"}, for: 0..now', pose: 0..now', mixed: BOOLEAN]
    BY <2>1 DEF DisplayInv, TypeOK, Show, None
  <2>. QED
    BY <2>2 DEF DisplayInv, TypeOK, Show, None
<1>2. Newest' = Newest
  BY DEF Newest, Show
<1>3. PushInv' /\ LoadInv'
  BY <1>2 DEF DisplayInv, PushInv, LoadInv, Loaded, Show, Half
<1>4. WordsInv'
  <2> SUFFICES ASSUME OneWriter PROVE WordsInv'
    BY DEF WordsInv
  <2>1. ~Mixed
    BY DEF DisplayInv, WordsInv, Mixed
  <2>. QED
    BY <2>1 DEF DisplayInv, WordsInv, Show
<1>5. LoopInv'
  BY DEF DisplayInv, TypeOK, LoopInv, Show, Half
<1>6. FrameInv'
  <2>1. Ahead' = IF Mixed THEN Word ELSE 0
    BY DEF Ahead, Show
  <2>2. CASE UseHost
    <3>1. now_us < Newest + WriteMax + Timeout + Ahead'
      BY <2>1, <2>2, FreshChoice DEF Show
    <3>2. /\ frame'.for = now_us /\ frame'.pose = host_pkt /\ pc' = "sleep"
          /\ host_pkt' = host_pkt /\ next' = next + Period /\ next <= now_us
      BY <2>2 DEF Show, DisplayInv, LoopInv
    <3>. QED
      BY <1>2, <3>1, <3>2 DEF DisplayInv, TypeOK, FrameInv
  <2>3. CASE ~UseHost
    BY <2>3 DEF FrameInv, Show
  <2>. QED
    BY <2>2, <2>3
<1>. QED
  BY <1>1, <1>3, <1>4, <1>5, <1>6 DEF DisplayInv

LEMMA DisplayNext == DisplayInv /\ [Next]_vars => DisplayInv'
<1> SUFFICES ASSUME DisplayInv, [Next]_vars PROVE DisplayInv'
  OBVIOUS
<1>1. CASE Advance
  BY <1>1, AdvanceStep
<1>2. ASSUME NEW w \in Writers, Push(w) \/ ReadClock(w) PROVE DisplayInv'
  BY <1>2, PushStep, ReadClockStep
<1>3. ASSUME NEW w \in Writers, NEW h \in Half, StoreHalf(w, h) PROVE DisplayInv'
  BY <1>3, StoreHalfStep
<1>4. CASE Drain \/ Clock \/ Show
  BY <1>4, DrainStep, ClockStep, ShowStep
<1>5. ASSUME NEW h \in Half, LoadHalf(h) PROVE DisplayInv'
  BY <1>5, LoadHalfStep
<1>6. CASE UNCHANGED vars
  <2>1. Newest' = Newest /\ Ahead' = Ahead
    BY <1>6 DEF vars, pushvars, taskvars, Newest, Ahead
  <2>2. TypeOK' /\ PushInv'
    BY <1>6, <2>1 DEF vars, pushvars, taskvars, DisplayInv, TypeOK, PushInv
  <2>3. LoadInv' /\ WordsInv' /\ LoopInv' /\ FrameInv'
    BY <1>6, <2>1 DEF vars, pushvars, taskvars, DisplayInv, LoadInv, Loaded, WordsInv, LoopInv, FrameInv
  <2>. QED
    BY <2>2, <2>3 DEF DisplayInv
<1>. QED
  BY <1>1, <1>2, <1>3, <1>4, <1>5, <1>6 DEF Next

\* The inductive invariant holds: poses, stamps, loads, deadlines and frames.
THEOREM DisplayInvariant == Spec => []DisplayInv
<1>1. Init => DisplayInv
  BY DisplayInit
<1>2. DisplayInv /\ [Next]_vars => DisplayInv'
  BY DisplayNext
<1>. QED
  BY <1>1, <1>2, PTL DEF Spec

-----------------------------------------------------------------------------
\* Type correctness: no time that is stored or loaded, word by word, is the
\* half of one in the future; a push has words to store iff it has a stamp.
THEOREM DisplayTypeCorrect == Spec => []TypeOK
<1>1. DisplayInv => TypeOK
  BY DEF DisplayInv
<1>. QED
  BY <1>1, DisplayInvariant, PTL

(***************************************************************************)
(* When the host stops publishing, the panel falls back to the firmware's  *)
(* estimate (display_task's comparison with timeout_us) within the timeout *)
(* and the latencies, also when loads of the stamp are torn, and within a  *)
(* Word more if two pushes left a mixture in memory (comms.c:65).          *)
(***************************************************************************)
THEOREM FallsBackHolds == Spec => []FallsBack
<1>1. DisplayInv => FallsBack
  <2> SUFFICES ASSUME DisplayInv, frame.src = "H"
               PROVE  now - Newest < Timeout + WriteMax + Period + FrameMax + Ahead
    BY DEF FallsBack
  <2>1. Newest \in Nat /\ Ahead \in Nat
    BY NewestType, AheadType
  <2>. QED
    BY <2>1, DisplayAssumption DEF DisplayInv, TypeOK, LoopInv, FrameInv
<1>. QED
  BY <1>1, DisplayInvariant, PTL

(***************************************************************************)
(* A build with one transport never has a mixture in memory, so that both  *)
(* bounds hold without the Word: the panel falls back within the timeout   *)
(* and the latencies.                                                      *)
(***************************************************************************)
THEOREM OneTransportFallsBack ==
    ASSUME OneWriter
    PROVE  Spec => [](/\ ~frame.mixed
                      /\ frame.src = "H" =>
                            now - Newest < Timeout + WriteMax + Period + FrameMax)
<1> DEFINE Sharp == /\ ~frame.mixed
                    /\ frame.src = "H" =>
                          now - Newest < Timeout + WriteMax + Period + FrameMax
<1>1. DisplayInv => Sharp
  <2> SUFFICES ASSUME DisplayInv PROVE Sharp
    OBVIOUS
  <2>1. ~frame.mixed
    BY DEF DisplayInv, WordsInv
  <2>2. Newest \in Nat /\ Ahead = 0
    BY <2>1, NewestType DEF Ahead
  <2>3. frame.src = "H" => now - Newest < Timeout + WriteMax + Period + FrameMax
    BY <2>2, DisplayAssumption DEF DisplayInv, TypeOK, LoopInv, FrameInv
  <2>. QED
    BY <2>1, <2>3
<1>. QED
  BY <1>1, DisplayInvariant, PTL

(***************************************************************************)
(* A stale pose shown on the strength of a newer one's stamp is gone with  *)
(* the next frame, and no pose ever replaces a newer one (but for a stamp  *)
(* left mixed in memory, which keeps an old pose for up to a Word).        *)
(***************************************************************************)
THEOREM StaleIsBriefHolds == Spec => StaleIsBrief
<1> DEFINE Brief ==
        frame.src = "H" /\ frame'.src = "H" =>
            /\ frame'.pose >= frame.pose
            /\ frame.for - frame'.pose < Timeout + WriteMax + Ahead
<1>1. DisplayInv /\ [Next]_vars => [Brief]_frame
  <2> SUFFICES ASSUME DisplayInv, [Next]_vars, frame' # frame PROVE Brief
    OBVIOUS
  <2>1. Show
    BY DEF Next, vars, pushvars, taskvars, Advance, Push, ReadClock, StoreHalf,
           Drain, Clock, LoadHalf
  <2>2. frame'.src = "H" => frame'.pose = host_pkt
    BY <2>1 DEF Show
  <2>3. Ahead \in Nat /\ pc # "sleep"
    BY <2>1, AheadType DEF Show
  <2>. QED
    BY <2>2, <2>3, DisplayAssumption DEF DisplayInv, TypeOK, FrameInv
<1>. QED
  BY <1>1, DisplayInvariant, PTL DEF Spec, StaleIsBrief

-----------------------------------------------------------------------------
(***************************************************************************)
(* The display keeps the contract of the dead-man's switch: a host's pose  *)
(* is an authority to show "H" that expires.                               *)
(***************************************************************************)
Slack == IF OneWriter THEN 0 ELSE Word

Switch ==
    INSTANCE DeadManSwitch WITH
        Bound <- Timeout + WriteMax + Period + FrameMax + Slack,
        clock <- now,
        fed <- Newest,
        driving <- (frame.src = "H")

\* No frame says "H" before a pose was taken.
HostSeen == frame.src = "H" => host_pkt # None

LEMMA HostSeenNext == DisplayInv /\ HostSeen /\ [Next]_vars => HostSeen'
<1> SUFFICES ASSUME DisplayInv, HostSeen, [Next]_vars PROVE HostSeen'
  OBVIOUS
<1>1. CASE Show
  BY <1>1 DEF Show, UseHost, HostSeen
<1>2. CASE Drain
  BY <1>2 DEF Drain, HostSeen, DisplayInv, TypeOK, None
<1>. QED
  BY <1>1, <1>2 DEF Next, vars, pushvars, taskvars, Advance, Push, ReadClock,
                    StoreHalf, Clock, LoadHalf, HostSeen

\* A frame that says "H" is authorised by the newest pose received.
LEMMA HostAuthorised ==
    DisplayInv /\ HostSeen /\ frame.src = "H" => Switch!Authorised(now, Newest)
<1> SUFFICES ASSUME DisplayInv, HostSeen, frame.src = "H"
             PROVE  Switch!Authorised(now, Newest)
  OBVIOUS
<1>1. Newest \in Nat /\ Newest # 0
  BY DEF DisplayInv, TypeOK, HostSeen, Newest, None
<1>2. Ahead \in Nat /\ Slack \in Nat /\ Ahead <= Slack
  BY DisplayAssumption DEF DisplayInv, WordsInv, Ahead, Slack
<1>3. now - Newest <= Timeout + WriteMax + Period + FrameMax + Slack
  BY <1>1, <1>2, DisplayAssumption DEF DisplayInv, TypeOK, LoopInv, FrameInv
<1>. QED
  BY <1>1, <1>3 DEF Switch!Authorised

LEMMA SwitchInit == Init => Switch!AInit
BY DEF Init, Switch!AInit, Newest, None

\* Time passes only while the pose on the panel is in force; the queue only
\* ever brings a newer pose.
LEMMA SwitchStep ==
    ASSUME DisplayInv, HostSeen, [Next]_vars
    PROVE  [Switch!ANext]_(Switch!avars)
<1>1. /\ DisplayInv' /\ HostSeen'
      /\ frame'.src = "H" => Switch!Authorised(now', Newest')
  <2>1. DisplayInv' /\ HostSeen'
    BY DisplayNext, HostSeenNext
  <2>2. (DisplayInv /\ HostSeen /\ frame.src = "H" => Switch!Authorised(now, Newest))'
    BY HostAuthorised, PTL
  <2>3. Switch!Authorised(now, Newest)' <=> Switch!Authorised(now', Newest')
    BY DEF Switch!Authorised
  <2>. QED
    BY <2>1, <2>2, <2>3
<1>2. CASE Advance
  <2>1. now' = now + 1 /\ Newest' = Newest /\ frame' = frame
    BY <1>2 DEF Advance, pushvars, taskvars, Newest
  <2>. QED
    BY <1>1, <2>1 DEF Switch!ANext, Switch!Pass
<1>3. ASSUME now' = now, Newest' \in Newest..now
      PROVE  Switch!ANext
  BY <1>1, <1>3 DEF Switch!ANext, Switch!Act
<1>4. Newest \in Nat /\ now \in Nat /\ Newest <= now
  BY DEF DisplayInv, TypeOK, Newest
<1>5. CASE now' = now /\ dispQ' = dispQ /\ host_pkt' = host_pkt
  <2>1. Newest' = Newest
    BY <1>5 DEF Newest
  <2>. QED
    BY <1>3, <1>4, <1>5, <2>1
<1>6. ASSUME NEW w \in Writers, Push(w) PROVE Switch!ANext
  <2>1. now' = now /\ Newest' = now
    BY <1>4, <1>6 DEF Push, taskvars, Newest, None, DisplayInv, TypeOK
  <2>. QED
    BY <1>3, <1>4, <2>1
<1>7. CASE Drain
  <2>1. now' = now /\ Newest' = Newest
    BY <1>7 DEF Drain, Newest, None
  <2>. QED
    BY <1>3, <1>4, <2>1
<1>. QED
  BY <1>2, <1>5, <1>6, <1>7
     DEF Next, vars, pushvars, taskvars, ReadClock, StoreHalf, Clock, LoadHalf, Show

(***************************************************************************)
(* display_task implements the switch: "H" is only ever shown on the       *)
(* authority of a pose received in the last Timeout + WriteMax + Period +  *)
(* FrameMax (and Word, where there are two writers), and the authority     *)
(* never passes to an older pose.                                          *)
(***************************************************************************)
THEOREM DisplayImplementsSwitch == Spec => Switch!ASpec
<1>1. Init => HostSeen
  BY DEF Init, HostSeen
<1>2. Spec => [](DisplayInv /\ HostSeen)
  <2>1. DisplayInv /\ HostSeen /\ [Next]_vars => HostSeen'
    BY HostSeenNext
  <2>. QED
    BY <1>1, <2>1, DisplayInvariant, PTL DEF Spec
<1>3. DisplayInv /\ HostSeen /\ [Next]_vars => [Switch!ANext]_(Switch!avars)
  BY SwitchStep
<1>. QED
  BY <1>2, <1>3, SwitchInit, PTL DEF Spec, Switch!ASpec
=============================================================================
