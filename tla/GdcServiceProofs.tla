-------------------------- MODULE GdcServiceProofs --------------------------
(* The drawing handshake: the firmware copies the snapshot one word at a    *)
(* time while the guest, the latch and the watchdog go on, and retires by a *)
(* strobe that names no request.  What makes that safe is that nothing but  *)
(* the strobe and the watchdog clears a pending request, and that a pending *)
(* request holds its snapshot and its command still.                        *)
EXTENDS GdcService, TLAPS, WellFoundedInduction, SequenceTheorems

\* The shape of a parameter file: one value per field.
IsFile(p) == p = [x \in Field |-> p[x]]

\* The request under service is the one that is pending, and the copy agrees
\* with its snapshot as far as it has been read.
Own ==
    /\ pending["slave"] = TRUE /\ mine = TRUE /\ st = op
    /\ pc = "read" => \A f \in Field : SnapWord[f] \in 1..i - 1 => g[f] = snap[f]
    /\ pc = "draw" => g = snap
    /\ pc = "done" => drawn = TRUE

Shapes ==
    /\ pending \in [Ch -> BOOLEAN]
    /\ drawn \in BOOLEAN /\ mine \in BOOLEAN /\ overtaken \in BOOLEAN
    /\ IsFile(snap) /\ IsFile(para)
    /\ ch \in Ch /\ pc \in {"look", "read", "draw", "done", "low"}
    /\ pc \in {"read", "draw"} => ch = "slave"
    /\ pc = "read" => i \in 1..SnapWords

HandInv == Shapes /\ (overtaken => Serving) /\ (Serving /\ ~overtaken => Own)

-----------------------------------------------------------------------------
LEMMA WordRange == \A f \in Field : SnapWord[f] \in 1..SnapWords
  BY DEF Field, SnapWord, SnapWords

LEMMA ResetShape == ASSUME NEW p, IsFile(p) PROVE IsFile(VectorReset(p))
<1>1. ASSUME NEW q, IsFile(q), NEW k, NEW v PROVE IsFile([q EXCEPT ![k] = v])
  <2>1. DOMAIN q = Field
    BY <1>1 DEF IsFile
  <2>2. [q EXCEPT ![k] = v] = [x \in Field |-> IF x = k THEN v ELSE q[x]]
    BY <1>1, <2>1 DEF IsFile
  <2> QED BY <2>2 DEF IsFile
<1> DEFINE p1 == [p EXCEPT !.dc = 0]
           p2 == [p1 EXCEPT !.d = 8]
           p3 == [p2 EXCEPT !.d2 = 8]
           p4 == [p3 EXCEPT !.d1 = 65535]
           p5 == [p4 EXCEPT !.dm = 65535]
<1>2. VectorReset(p) = p5
  BY DEF VectorReset
<1>3. IsFile(p1)
  BY <1>1
<1> HIDE DEF p1
<1>4. IsFile(p2)
  BY <1>1, <1>3
<1> HIDE DEF p2
<1>5. IsFile(p3)
  BY <1>1, <1>4
<1> HIDE DEF p3
<1>6. IsFile(p4)
  BY <1>1, <1>5
<1> HIDE DEF p4
<1>7. IsFile(p5)
  BY <1>1, <1>6
<1> QED BY <1>2, <1>7

LEMMA HandInit == Init => HandInv
<1>1. IsFile(NoFigure)
  BY DEF IsFile, NoFigure
<1> QED BY <1>1 DEF Init, HandInv, Shapes, Serving, Ch

\* The guest: only an empty FIFO is written to, so nothing under service
\* changes.
LEMMA GuestStep == HandInv /\ Guest => HandInv'
<1> SUFFICES ASSUME HandInv, Guest PROVE HandInv'
  OBVIOUS
<1>1. ASSUME NEW f \in Figures, Program(f) PROVE HandInv'
  <2>1. IsFile(para')
    BY <1>1, FigureAssumption DEF Program, IsFile, IsFigure
  <2> QED BY <1>1, <2>1 DEF Program, HandInv, Shapes, Serving, Own, fwVars, IsFile
<1>2. ASSUME NEW c \in Ch, NEW o, Latch(c, o) PROVE HandInv'
  <2>1. UNCHANGED <<para, pc, ch, i, g, st, overtaken>>
    BY <1>2 DEF Latch, fwVars
  <2>2. pending' = [pending EXCEPT ![c] = TRUE] /\ pending' \in [Ch -> BOOLEAN]
    BY <1>2 DEF Latch, HandInv, Shapes
  <2>3. CASE c = "slave"
    <3>1. ~pending["slave"]
      BY <1>2, <2>3 DEF Latch, FifoEmpty
    <3>2. overtaken \/ ~Serving
      BY <3>1 DEF HandInv, Own
    <3>3. drawn' = FALSE /\ mine' = FALSE /\ snap' = para
      BY <1>2, <2>3 DEF Latch
    <3>4. Shapes'
      BY <2>1, <2>2, <3>3 DEF HandInv, Shapes, IsFile
    <3> QED BY <2>1, <3>2, <3>4 DEF HandInv, Serving
  <2>4. CASE c # "slave"
    <3>1. UNCHANGED <<op, snap, drawn, mine>>
      BY <1>2, <2>4 DEF Latch
    <3>2. pending'["slave"] = pending["slave"]
      BY <2>2, <2>4 DEF HandInv, Shapes, Ch
    <3>3. Shapes'
      BY <2>1, <2>2, <3>1 DEF HandInv, Shapes, IsFile
    <3> QED BY <2>1, <3>1, <3>2, <3>3 DEF HandInv, Serving, Own
  <2> QED BY <2>3, <2>4
<1> QED BY <1>1, <1>2 DEF Guest, Execute, LastParameter, Ch

\* The watchdog: what it takes from under a service is marked.
LEMMA HardwareStep == HandInv /\ Hardware => HandInv'
<1> SUFFICES ASSUME HandInv, NEW c \in Ch, BusyEnds(c) \/ TimeOut(c) PROVE HandInv'
  BY DEF Hardware
<1>1. CASE BusyEnds(c)
  BY <1>1 DEF BusyEnds, HandInv, Shapes, Serving, Own, fwVars, IsFile
<1>2. CASE TimeOut(c)
  <2>1. UNCHANGED <<op, snap, pc, ch, i, g, st, drawn, mine>>
    BY <1>2 DEF TimeOut, fwVars
  <2>2. pending' = [pending EXCEPT ![c] = FALSE] /\ pending' \in [Ch -> BOOLEAN]
    BY <1>2 DEF TimeOut, Retire, HandInv, Shapes
  <2>3. IsFile(para')
    BY <1>2, ResetShape DEF TimeOut, Retire, HandInv, Shapes
  <2>4. overtaken' = (overtaken \/ (c = "slave" /\ Serving))
    BY <1>2 DEF TimeOut
  <2>5. Shapes'
    BY <2>1, <2>2, <2>3, <2>4 DEF HandInv, Shapes, IsFile
  <2>6. Serving' <=> Serving
    BY <2>1 DEF Serving
  <2>7. ASSUME Serving, ~overtaken' PROVE Own'
    <3>1. c # "slave" /\ ~overtaken
      BY <2>4, <2>7
    <3>2. pending'["slave"] = pending["slave"]
      BY <2>2, <3>1 DEF HandInv, Shapes, Ch
    <3> QED BY <2>1, <2>7, <3>1, <3>2 DEF HandInv, Own
  <2> QED BY <2>4, <2>5, <2>6, <2>7 DEF HandInv
<1> QED BY <1>1, <1>2

-----------------------------------------------------------------------------
(* gdc_poll, one lemma per step that has work to do.                        *)

LEMMA LookStep == HandInv /\ Look => HandInv'
<1> SUFFICES ASSUME HandInv, Look PROVE HandInv'
  OBVIOUS
<1>1. pc = "look" /\ ~Serving /\ ~overtaken /\ UNCHANGED <<rtlVars, g, drawn, overtaken>>
  BY DEF Look, HandInv, Serving
<1>2. CASE ~pending[ch]
  <2>1. ch' \in Ch /\ UNCHANGED <<pc, st, i, mine>>
    BY <1>2 DEF Look, HandInv, Shapes, Other, Ch
  <2> QED BY <1>1, <2>1 DEF HandInv, Shapes, Serving, rtlVars, IsFile
<1>3. CASE pending[ch]
  <2>1. /\ st' = op /\ i' = 1 /\ ch' = ch
        /\ pc' = (IF ch = "slave" THEN "read" ELSE "done")
        /\ mine' = (mine \/ ch = "slave")
    BY <1>3 DEF Look
  <2>2. Shapes'
    BY <1>1, <2>1 DEF HandInv, Shapes, rtlVars, IsFile, SnapWords, Ch
  <2>3. CASE ch = "slave"
    <3>1. Own'
      <4>1. pending'["slave"] = TRUE
        BY <1>1, <1>3, <2>3 DEF rtlVars, HandInv, Shapes, Ch
      <4>2. mine' = TRUE /\ st' = op' /\ pc' = "read"
        BY <1>1, <2>1, <2>3 DEF rtlVars
      <4>3. \A f \in Field : SnapWord[f] \notin 1..i' - 1
        BY <2>1
      <4> QED BY <4>1, <4>2, <4>3 DEF Own
    <3> QED BY <1>1, <2>2, <3>1 DEF HandInv
  <2>4. CASE ch # "slave"
    BY <1>1, <2>1, <2>2, <2>4 DEF HandInv, Serving
  <2> QED BY <2>3, <2>4
<1> QED BY <1>2, <1>3

LEMMA ReadStep == HandInv /\ ReadWord => HandInv'
<1> SUFFICES ASSUME HandInv, ReadWord PROVE HandInv'
  OBVIOUS
<1>1. /\ pc = "read" /\ ch = "slave" /\ i \in 1..SnapWords /\ Serving
      /\ UNCHANGED <<rtlVars, ch, st, drawn, mine, overtaken>>
      /\ g' = [f \in Field |-> IF SnapWord[f] = i THEN snap[f] ELSE g[f]]
      /\ i' = (IF i < SnapWords THEN i + 1 ELSE 0)
      /\ pc' = (IF i < SnapWords THEN "read" ELSE "draw")
  BY DEF ReadWord, HandInv, Shapes, Serving
<1>2. Shapes' /\ Serving'
  <2>1. pc' = "read" => i' \in 1..SnapWords
    BY <1>1 DEF SnapWords
  <2> QED BY <1>1, <2>1 DEF HandInv, Shapes, Serving, rtlVars, IsFile
<1>3. ASSUME ~overtaken PROVE Own'
  <2>1. Own
    BY <1>1, <1>3 DEF HandInv
  <2>2. \A f \in Field : SnapWord[f] \in 1..i => g'[f] = snap[f]
    <3> SUFFICES ASSUME NEW f \in Field, SnapWord[f] \in 1..i PROVE g'[f] = snap[f]
      OBVIOUS
    <3>1. SnapWord[f] = i \/ SnapWord[f] \in 1..i - 1
      BY <1>1 DEF SnapWords
    <3> QED BY <1>1, <2>1, <3>1 DEF Own
  <2>3. CASE i < SnapWords
    <3>1. pc' = "read" /\ i' - 1 = i
      BY <1>1, <2>3 DEF SnapWords
    <3> QED BY <1>1, <2>1, <2>2, <3>1 DEF Own, rtlVars
  <2>4. CASE ~(i < SnapWords)
    <3>1. i = SnapWords /\ pc' = "draw"
      BY <1>1, <2>4 DEF SnapWords
    <3>2. \A f \in Field : g'[f] = snap[f]
      BY <2>2, <3>1, WordRange
    <3>3. g' = [f \in Field |-> g'[f]]
      BY <1>1
    <3>4. g' = snap
      BY <3>2, <3>3 DEF HandInv, Shapes, IsFile
    <3> QED BY <1>1, <2>1, <3>1, <3>4 DEF Own, rtlVars
  <2> QED BY <2>3, <2>4
<1> QED BY <1>1, <1>2, <1>3 DEF HandInv

LEMMA DrawStep ==
    ASSUME HandInv, NEW a, NEW b, Draw(a, b) PROVE HandInv'
<1>1. /\ pc = "draw" /\ pc' = "done" /\ ch = "slave" /\ Serving
      /\ UNCHANGED <<rtlVars, ch, i, g, st, mine, overtaken>>
      /\ drawn' = (drawn \/ (mine /\ g = snap /\ st = op))
  BY DEF Draw, HandInv, Shapes, Serving
<1>2. Shapes' /\ Serving'
  BY <1>1 DEF HandInv, Shapes, Serving, rtlVars, IsFile
<1>3. ~overtaken => drawn' = TRUE
  BY <1>1 DEF HandInv, Own
<1> QED BY <1>1, <1>2, <1>3 DEF HandInv, Own, rtlVars

LEMMA DoneStep == HandInv /\ (DoneHigh \/ DoneLow) => HandInv'
<1>1. ASSUME HandInv, DoneHigh PROVE HandInv'
  <2>1. /\ pc = "done" /\ pc' = "low" /\ UNCHANGED <<snap, ch, drawn, mine>>
        /\ overtaken' = (IF ch = "slave" THEN FALSE ELSE overtaken)
    BY <1>1 DEF DoneHigh
  <2>2. pending' \in [Ch -> BOOLEAN]
    BY <1>1 DEF DoneHigh, Retire, HandInv, Shapes
  <2>3. IsFile(para')
    <3>1. CASE done[ch]
      BY <1>1, <3>1 DEF DoneHigh, HandInv, Shapes, IsFile
    <3>2. CASE ~done[ch]
      BY <1>1, <3>2, ResetShape DEF DoneHigh, Retire, HandInv, Shapes
    <3> QED BY <3>1, <3>2
  <2>4. ~overtaken'
    BY <1>1, <2>1 DEF HandInv, Serving
  <2>5. overtaken' \in BOOLEAN
    BY <1>1, <2>1 DEF HandInv, Shapes
  <2> QED BY <1>1, <2>1, <2>2, <2>3, <2>4, <2>5 DEF HandInv, Shapes, Serving, IsFile
<1>2. ASSUME HandInv, DoneLow PROVE HandInv'
  <2>1. ch' \in Ch
    BY <1>2 DEF DoneLow, HandInv, Shapes, Other, Ch
  <2> QED BY <1>2, <2>1 DEF DoneLow, HandInv, Shapes, Serving, IsFile
<1> QED BY <1>1, <1>2

LEMMA HandStep == HandInv /\ [Next]_vars => HandInv'
<1>1. HandInv /\ UNCHANGED vars => HandInv'
  BY DEF vars, rtlVars, fwVars, HandInv, Shapes, Serving, Own, IsFile
<1> QED
  BY <1>1, GuestStep, HardwareStep, LookStep, ReadStep, DrawStep, DoneStep
  DEF Next, Firmware

\* For any figures and any charger: the strobe of gdc_poll that retires a
\* request of the slave follows the drawing of that very request, from the
\* snapshot latched with it, unless the watchdog fired on the service.
THEOREM RetiresOwn == Spec => DoneMeansDrawn
<1>1. Init => HandInv
  BY HandInit
<1>2. HandInv /\ [Next]_vars => HandInv'
  BY HandStep
<1>3. HandInv => [DoneHigh /\ ch = "slave" /\ pending["slave"] => drawn \/ overtaken]_vars
  BY DEF HandInv, Serving, Own, DoneHigh
<1> QED BY <1>1, <1>2, <1>3, PTL DEF Spec, DoneMeansDrawn

-----------------------------------------------------------------------------
(* Recursion over an interval.  A recursive function is a CHOOSE: it has    *)
(* the value its definition says once some function does.                   *)

LEMMA Least ==
    ASSUME NEW S \in SUBSET Nat, S # {}
    PROVE  \E m \in S : \A n \in S : m <= n
<1>1. PICK m \in S : \A n \in S : ~(<<n, m>> \in OpToRel(<, Nat))
  BY NatLessThanWellFounded, WFMin
<1>2. \A n \in S : ~(n < m)
  BY <1>1 DEF OpToRel
<1> QED BY <1>2

\* There is a sequence of states that starts with z and goes on by F.
HasRun(N, T, z, F) ==
    \E f \in [0..N -> T] : f[0] = z /\ \A k \in 1..N : f[k] = F[k][f[k - 1]]

LEMMA RunExists ==
    ASSUME NEW N \in Nat, NEW T, NEW z \in T, NEW F \in [1..N -> [T -> T]]
    PROVE  HasRun(N, T, z, F)
<1> DEFINE Up(m, f) == f[0] = z /\ \A k \in 1..m : f[k] = F[k][f[k - 1]]
           Has(m) == \E f \in [0..N -> T] : Up(m, f)
           Bad == {m \in Nat : m <= N /\ ~Has(m)}
<1> HIDE DEF Has
<1>1. CASE Bad = {}
  <2>1. N <= N
    OBVIOUS
  <2>2. Has(N)
    BY <1>1, <2>1
  <2> QED BY <2>2 DEF Has, HasRun
<1>2. CASE Bad # {}
  <2>1. PICK m \in Bad : \A n \in Bad : m <= n
    BY <1>2, Least
  <2>2. m # 0
    <3>1. [k \in 0..N |-> z] \in [0..N -> T] /\ Up(0, [k \in 0..N |-> z])
      OBVIOUS
    <3> QED BY <2>1, <3>1 DEF Has
  <2>3. m - 1 \in Nat /\ m - 1 <= N /\ ~(m <= m - 1)
    BY <2>1, <2>2
  <2>4. PICK f \in [0..N -> T] : Up(m - 1, f)
    <3>1. m - 1 \notin Bad
      BY <2>1, <2>3
    <3> QED BY <2>3, <3>1 DEF Has
  <2> DEFINE h == [k \in 0..N |-> IF k = m THEN F[m][f[m - 1]] ELSE f[k]]
  <2>5. m \in 1..N /\ f[m - 1] \in T
    BY <2>1, <2>2
  <2>6. F[m][f[m - 1]] \in T
    BY <2>5
  <2>7. h \in [0..N -> T]
    BY <2>6
  <2>8. h[0] = z
    BY <2>2, <2>4
  <2>9. \A k \in 1..m : h[k] = F[k][h[k - 1]]
    <3> SUFFICES ASSUME NEW k \in 1..m PROVE h[k] = F[k][h[k - 1]]
      OBVIOUS
    <3>1. h[k - 1] = f[k - 1] /\ k \in 0..N
      BY <2>5
    <3>2. CASE k = m
      BY <3>1, <3>2
    <3>3. CASE k # m
      <4>1. k \in 1..m - 1 /\ h[k] = f[k]
        BY <3>1, <3>3, <2>5
      <4> QED BY <2>4, <3>1, <4>1
    <3> QED BY <3>2, <3>3
  <2> QED BY <2>1, <2>7, <2>8, <2>9 DEF Has
<1> QED BY <1>1, <1>2

\* A set that holds 0 and goes up one by one holds the interval.
LEMMA Climb ==
    ASSUME NEW N \in Nat, NEW S, 0 \in S, \A k \in 1..N : k - 1 \in S => k \in S
    PROVE  \A k \in 0..N : k \in S
<1> DEFINE Bad == {m \in Nat : m <= N /\ m \notin S}
<1> SUFFICES ASSUME Bad # {} PROVE FALSE
  OBVIOUS
<1>1. PICK m \in Bad : \A n \in Bad : m <= n
  BY Least
<1>2. m \in 1..N /\ m - 1 \in Nat /\ m - 1 \notin Bad
  BY <1>1
<1> QED BY <1>1, <1>2

\* A set that holds the first state and is closed under the steps holds all.
LEMMA RunStays ==
    ASSUME NEW N \in Nat, NEW f, NEW T, f[0] \in T,
           \A k \in 1..N : f[k - 1] \in T => f[k] \in T
    PROVE  \A k \in 0..N : f[k] \in T
<1> DEFINE S == {k \in 0..N : f[k] \in T}
<1>1. 0 \in S /\ \A k \in 1..N : k - 1 \in S => k \in S
  OBVIOUS
<1>2. \A k \in 0..N : k \in S
  <2> HIDE DEF S
  <2> QED BY <1>1, Climb
<1> QED BY <1>2

-----------------------------------------------------------------------------
(* udiv32 divides.                                                          *)

LEMMA BitValues ==
    /\ \A k \in 0..DivBits - 1 : Bit[k] \in Nat \ {0}
    /\ Bit[0] = 1
    /\ \A k \in 1..DivBits - 1 : Bit[k] = 2 * Bit[k - 1]
<1> DEFINE N == DivBits - 1
           T == Nat \ {0}
           z == 1
           F == [k \in 1..N |-> [t \in T |-> 2 * t]]
<1>1. N \in Nat
  BY WidthAssumption
<1> HIDE DEF N
<1>2. F \in [1..N -> [T -> T]]
  OBVIOUS
<1>3. PICK f \in [0..N -> T] : f[0] = z /\ \A k \in 1..N : f[k] = F[k][f[k - 1]]
  <2>1. z \in T
    OBVIOUS
  <2>2. HasRun(N, T, z, F)
    <3> HIDE DEF F, T, z
    <3> QED BY <1>1, <1>2, <2>1, RunExists
  <2> QED BY <2>2 DEF HasRun
<1>4. \A k \in 1..N : f[k] = 2 * f[k - 1]
  <2> SUFFICES ASSUME NEW k \in 1..N PROVE f[k] = 2 * f[k - 1]
    OBVIOUS
  <2>1. f[k - 1] \in T
    BY <1>1
  <2> QED BY <1>3, <2>1
<1>5. f = [k \in 0..N |-> IF k = 0 THEN 1 ELSE 2 * f[k - 1]]
  BY <1>1, <1>3, <1>4
<1>6. \E h : h = [k \in 0..N |-> IF k = 0 THEN 1 ELSE 2 * h[k - 1]]
  BY <1>5
<1>7. Bit = [k \in 0..N |-> IF k = 0 THEN 1 ELSE 2 * Bit[k - 1]]
  BY <1>6, Zenon DEF Bit, N
<1>8. Bit[0] = 1 /\ \A k \in 1..N : Bit[k] = 2 * Bit[k - 1]
  BY <1>1, <1>7
<1>9. \A k \in 0..N : Bit[k] \in T
  <2>1. Bit[0] \in T /\ \A k \in 1..N : Bit[k - 1] \in T => Bit[k] \in T
    BY <1>8
  <2> HIDE DEF T
  <2> QED BY <1>1, <2>1, RunStays
<1> QED BY <1>8, <1>9 DEF N

\* Two to the 29th is at most the highest bit.
LEMMA HighBit == Bit[DivBits - 1] >= 16384 * 32768
<1>1. DivBits \in Nat /\ DivBits - 30 \in Nat
  BY WidthAssumption
<1> DEFINE B(k) == Bit[k]
<1>2. B(29) = 16384 * 32768
  <2>1. \A k \in 1..29 : B(k) = 2 * B(k - 1)
    BY <1>1, BitValues
  <2>2. B(10) = 1024
    <3>1. B(1) = 2 /\ B(2) = 4 /\ B(3) = 8 /\ B(4) = 16 /\ B(5) = 32
      BY <2>1, BitValues
    <3>2. B(6) = 64 /\ B(7) = 128 /\ B(8) = 256 /\ B(9) = 512 /\ B(10) = 1024
      BY <2>1, <3>1
    <3> QED BY <3>2
  <2>3. B(11) = 2048 /\ B(12) = 4096 /\ B(13) = 8192 /\ B(14) = 16384 /\ B(15) = 32768
    BY <2>1, <2>2
  <2>4. /\ B(16) = 2 * 32768 /\ B(17) = 4 * 32768 /\ B(18) = 8 * 32768
        /\ B(19) = 16 * 32768 /\ B(20) = 32 * 32768
    BY <2>1, <2>3
  <2>5. /\ B(21) = 64 * 32768 /\ B(22) = 128 * 32768 /\ B(23) = 256 * 32768
        /\ B(24) = 512 * 32768 /\ B(25) = 1024 * 32768
    BY <2>1, <2>4
  <2>6. /\ B(26) = 2048 * 32768 /\ B(27) = 4096 * 32768 /\ B(28) = 8192 * 32768
        /\ B(29) = 16384 * 32768
    BY <2>1, <2>5
  <2> QED BY <2>6
<1> DEFINE S == {k \in 0..DivBits - 30 : Bit[29 + k] >= 16384 * 32768}
<1>3. 0 \in S
  BY <1>1, <1>2
<1>4. \A k \in 1..DivBits - 30 : k - 1 \in S => k \in S
  <2> SUFFICES ASSUME NEW k \in 1..DivBits - 30, k - 1 \in S PROVE k \in S
    OBVIOUS
  <2>1. 29 + k \in 1..DivBits - 1 /\ (29 + k) - 1 = 29 + (k - 1)
    BY <1>1
  <2>2. /\ Bit[29 + k] = 2 * Bit[(29 + k) - 1]
        /\ (29 + k) - 1 \in 0..DivBits - 1 /\ Bit[(29 + k) - 1] \in Nat
    BY <1>1, <2>1, BitValues
  <2> QED BY <2>1, <2>2
<1>5. DivBits - 30 \in S
  <2> HIDE DEF S
  <2> QED BY <1>1, <1>3, <1>4, Climb
<1> QED BY <1>1, <1>5

\* The rounds of a division, as a function: they are numbers, they follow
\* one another, and the last one is the result.
Quot == [q : Nat, r : Nat]
IsRounds(s, n, d) ==
    /\ s \in [0..DivBits -> Quot] /\ s[0] = [q |-> 0, r |-> 0]
    /\ \A k \in 1..DivBits : s[k] = DivRound(s[k - 1], Bit[DivBits - k], n, d)

LEMMA RoundType ==
    ASSUME NEW s \in Quot, NEW b \in Nat \ {0}, NEW n \in Nat, NEW d \in Nat
    PROVE  DivRound(s, b, n, d) \in Quot
<1>1. (n \div b) % 2 \in Nat
  OBVIOUS
<1> DEFINE r == 2 * s.r + ((n \div b) % 2)
<1>2. s.q \in Nat /\ s.r \in Nat
  BY DEF Quot
<1>3. r \in Nat
  BY <1>1, <1>2
<1>4. DivRound(s, b, n, d) = IF r >= d THEN [q |-> s.q + b, r |-> r - d] ELSE [q |-> s.q, r |-> r]
  BY DEF DivRound
<1> HIDE DEF r
<1> QED BY <1>2, <1>3, <1>4 DEF Quot

LEMMA Rounds ==
    ASSUME NEW n \in Nat, NEW d \in Nat \ {0}
    PROVE  \E s : IsRounds(s, n, d) /\ udiv32(n, d) = s[DivBits]
<1> DEFINE z == [q |-> 0, r |-> 0]
           F == [k \in 1..DivBits |-> [t \in Quot |-> DivRound(t, Bit[DivBits - k], n, d)]]
<1>1. DivBits \in Nat
  BY WidthAssumption
<1>2. \A k \in 1..DivBits : Bit[DivBits - k] \in Nat \ {0}
  BY <1>1, BitValues
<1>3. F \in [1..DivBits -> [Quot -> Quot]] /\ z \in Quot
  <2>1. z \in Quot
    BY DEF Quot
  <2> QED BY <1>2, <2>1, RoundType
<1>4. HasRun(DivBits, Quot, z, F)
  <2> HIDE DEF F, z
  <2> QED BY <1>1, <1>3, RunExists
<1>5. PICK f \in [0..DivBits -> Quot] : f[0] = z /\ \A k \in 1..DivBits : f[k] = F[k][f[k - 1]]
  BY <1>4 DEF HasRun
<1>6. \A k \in 1..DivBits : f[k] = DivRound(f[k - 1], Bit[DivBits - k], n, d)
  <2> SUFFICES ASSUME NEW k \in 1..DivBits
               PROVE  f[k] = DivRound(f[k - 1], Bit[DivBits - k], n, d)
    OBVIOUS
  <2>1. f[k - 1] \in Quot
    BY <1>1
  <2> QED BY <1>5, <2>1
<1> DEFINE Is(h) == h = [k \in 0..DivBits |->
                           IF k = 0 THEN [q |-> 0, r |-> 0]
                           ELSE DivRound(h[k - 1], Bit[DivBits - k], n, d)]
           s == CHOOSE h : Is(h)
<1>7. Is(f)
  <2>1. f = [k \in 0..DivBits |-> f[k]]
    BY <1>5
  <2>2. \A k \in 0..DivBits : f[k] = IF k = 0 THEN z
                                    ELSE DivRound(f[k - 1], Bit[DivBits - k], n, d)
    <3>1. \A k \in 0..DivBits : k = 0 \/ k \in 1..DivBits
      BY <1>1
    <3> QED BY <1>5, <1>6, <3>1, Zenon
  <2> QED BY <2>1, <2>2
<1>8. Is(s)
  <2> HIDE DEF Is
  <2> QED BY <1>7, Zenon
<1>9. udiv32(n, d) = s[DivBits]
  BY Zenon DEF udiv32
<1> HIDE DEF s
<1>10. s[0] = z /\ \A k \in 1..DivBits : s[k] = DivRound(s[k - 1], Bit[DivBits - k], n, d)
  <2>1. \A k \in 0..DivBits : s[k] = IF k = 0 THEN z
                                    ELSE DivRound(s[k - 1], Bit[DivBits - k], n, d)
    BY <1>8
  <2> QED BY <1>1, <2>1
<1>11. \A k \in 0..DivBits : s[k] \in Quot
  <2>1. s[0] \in Quot /\ \A k \in 1..DivBits : s[k - 1] \in Quot => s[k] \in Quot
    <3> SUFFICES ASSUME NEW k \in 1..DivBits, s[k - 1] \in Quot PROVE s[k] \in Quot
      BY <1>3, <1>10
    <3>1. Bit[DivBits - k] \in Nat \ {0} /\ s[k] = DivRound(s[k - 1], Bit[DivBits - k], n, d)
      BY <1>2, <1>10
    <3> QED BY <3>1, RoundType
  <2> QED BY <1>1, <2>1, RunStays
<1>12. s \in [0..DivBits -> Quot]
  BY <1>8, <1>11
<1> QED BY <1>9, <1>10, <1>12 DEF IsRounds

LEMMA DivFacts ==
    ASSUME NEW n \in Int, NEW w \in Nat \ {0}
    PROVE  \E q \in Int, r \in 0..w - 1 : n \div w = q /\ n % w = r /\ n = w * q + r
  OBVIOUS

LEMMA DivOnly ==
    ASSUME NEW n \in Int, NEW w \in Nat \ {0}, NEW h \in Int, NEW c \in 0..w - 1,
           n = w * h + c
    PROVE  n \div w = h /\ n % w = c
<1>1. n \div w = h
  OBVIOUS
<1>2. n % w = c
  OBVIOUS
<1> QED BY <1>1, <1>2

\* The low bits of a number: those below w, and the one that weighs w.
IsSplit(n, w) ==
    \E b \in 0..1, m \in 0..w - 1 :
       (n \div w) % 2 = b /\ n % w = m /\ n % (2 * w) = b * w + m

LEMMA LowBits ==
    ASSUME NEW n \in Nat, NEW w \in Nat \ {0}
    PROVE  IsSplit(n, w)
<1>1. PICK a \in Int, m \in 0..w - 1 : n \div w = a /\ n % w = m /\ n = w * a + m
  BY DivFacts
<1>2. PICK h \in Int, b \in 0..1 : a % 2 = b /\ a = 2 * h + b
  OBVIOUS
<1>3. n % (2 * w) = b * w + m
  <2>1. b * w \in {0, w}
    BY <1>2
  <2>2. 2 * w \in Nat \ {0} /\ b * w + m \in 0..(2 * w) - 1
    BY <2>1
  <2>3. w * a = (2 * w) * h + b * w
    BY <1>2
  <2>4. n = (2 * w) * h + (b * w + m)
    <3>1. (2 * w) * h \in Int /\ b * w \in Int
      BY <2>1
    <3> QED BY <1>1, <2>3, <3>1
  <2> DEFINE c == b * w + m
             u == 2 * w
  <2>5. u \in Nat \ {0} /\ c \in 0..u - 1 /\ n = u * h + c
    BY <2>2, <2>4
  <2> HIDE DEF c, u
  <2>6. n % u = c
    BY <2>5, DivOnly
  <2> QED BY <2>6 DEF c, u
<1>4. (n \div w) % 2 = b /\ n % w = m
  BY <1>1, <1>2, Zenon
<1> QED BY <1>3, <1>4 DEF IsSplit

\* After every round, what the quotient and the remainder account for and
\* the bits not looked at yet make up the number.
THEOREM UdivRight ==
    ASSUME NEW n \in Nat, n < 32768 * 32768, NEW d \in Nat \ {0}
    PROVE  \E q \in Nat, r \in 0..d - 1 :
             udiv32(n, d).q = q /\ udiv32(n, d).r = r /\ n = q * d + r
<1>1. PICK s : IsRounds(s, n, d) /\ udiv32(n, d) = s[DivBits]
  BY Rounds
<1>2. DivBits \in Nat /\ DivBits >= 30
  BY WidthAssumption
<1> DEFINE W(k) == Bit[DivBits - k]
           Ok(k) == /\ s[k].r < d
                    /\ k > 0 => n = s[k].q * d + s[k].r * W(k) + (n % W(k))
           S == {k \in 0..DivBits : Ok(k)}
<1>3. 0 \in S
  BY <1>1, <1>2 DEF IsRounds
<1>4. ASSUME NEW k \in 1..DivBits, k - 1 \in S PROVE k \in S
  <2> DEFINE w == W(k)
  <2>1. w \in Nat \ {0}
    BY <1>2, BitValues
  <2>2. PICK b \in 0..1, m \in 0..w - 1 :
           (n \div w) % 2 = b /\ n % w = m /\ n % (2 * w) = b * w + m
    <3> HIDE DEF w
    <3>1. IsSplit(n, w)
      BY <2>1, LowBits
    <3> QED BY <3>1 DEF IsSplit
  <2>3. PICK q \in Nat, r \in Nat : s[k - 1].q = q /\ s[k - 1].r = r /\ r < d
    <3>1. s[k - 1] \in Quot /\ Ok(k - 1)
      BY <1>1, <1>2, <1>4 DEF IsRounds
    <3> QED BY <3>1 DEF Quot
  <2>4. n = q * d + r * (2 * w) + (b * w + m)
    <3>1. CASE k = 1
      <4>1. q = 0 /\ r = 0
        BY <1>1, <2>3, <3>1 DEF IsRounds
      <4>2. n < 2 * w
        BY <1>2, <2>1, <3>1, HighBit
      <4>3. n % (2 * w) = n
        BY <2>1, <4>2
      <4>4. n = b * w + m
        BY <2>2, <4>3
      <4>5. q * d = 0 /\ r * (2 * w) = 0
        BY <2>1, <4>1
      <4> QED BY <4>4, <4>5
    <3>2. CASE k # 1
      <4>1. k - 1 > 0 /\ DivBits - k \in 0..DivBits - 1 /\ DivBits - (k - 1) \in 1..DivBits - 1
        BY <1>2, <3>2
      <4>2. W(k - 1) = 2 * w
        <5>1. (DivBits - (k - 1)) - 1 = DivBits - k
          BY <1>2
        <5> QED BY <4>1, <5>1, BitValues
      <4>3. n = q * d + r * W(k - 1) + (n % W(k - 1))
        BY <1>4, <2>3, <4>1
      <4> HIDE DEF W
      <4> QED BY <2>2, <4>2, <4>3
    <3> QED BY <3>1, <3>2
  <2>5. s[k] = DivRound(s[k - 1], w, n, d)
    BY <1>1 DEF IsRounds
  <2> HIDE DEF w
  <2> DEFINE t == 2 * r + b
  <2>6. t \in Nat /\ t < 2 * d
    BY <2>3
  <2>7. n = q * d + t * w + m
    <3>1. t * w = r * (2 * w) + b * w
      BY <2>1, <2>3
    <3> DEFINE A == q * d
               B == r * (2 * w)
               C == b * w
               D == t * w
    <3>2. A \in Int /\ B \in Int /\ C \in Int /\ D = B + C
      BY <2>1, <2>3, <3>1
    <3>3. n = A + B + (C + m)
      BY <2>4
    <3> HIDE DEF A, B, C, D
    <3>4. n = A + D + m
      BY <3>2, <3>3
    <3> QED BY <3>4 DEF A, D
  <2>8. s[k] = IF t >= d THEN [q |-> q + w, r |-> t - d] ELSE [q |-> q, r |-> t]
    BY <2>2, <2>3, <2>5 DEF DivRound
  <2> HIDE DEF t
  <2>9. CASE t >= d
    <3>1. s[k].q = q + w /\ s[k].r = t - d /\ t - d < d
      BY <2>6, <2>8, <2>9
    <3>2. (q + w) * d + (t - d) * w = q * d + t * w
      BY <2>1, <2>6
    <3>3. n = (q + w) * d + (t - d) * w + m
      <4> DEFINE A == (q + w) * d
                 B == (t - d) * w
                 C == q * d
                 D == t * w
      <4>1. A \in Int /\ B \in Int /\ C \in Int /\ D \in Int /\ A + B = C + D /\ n = C + D + m
        BY <2>1, <2>6, <2>7, <3>2
      <4> HIDE DEF A, B, C, D
      <4>2. n = A + B + m
        BY <4>1
      <4> QED BY <4>2 DEF A, B
    <3>4. Ok(k)
      <4>1. n % W(k) = m /\ W(k) = w
        BY <2>2 DEF w
      <4> QED BY <3>1, <3>3, <4>1
    <3> QED BY <3>4
  <2>10. CASE ~(t >= d)
    <3>1. s[k].q = q /\ s[k].r = t /\ t < d
      BY <2>6, <2>8, <2>10
    <3>2. Ok(k)
      <4>1. n % W(k) = m /\ W(k) = w
        BY <2>2 DEF w
      <4> QED BY <2>7, <3>1, <4>1
    <3> QED BY <3>2
  <2> QED BY <2>9, <2>10
<1>5. DivBits \in S
  <2> HIDE DEF S
  <2> QED BY <1>2, <1>3, <1>4, Climb
<1>6. W(DivBits) = 1 /\ s[DivBits] \in Quot
  BY <1>1, <1>2, BitValues DEF IsRounds
<1>7. PICK q \in Nat, r \in Nat : s[DivBits].q = q /\ s[DivBits].r = r
  BY <1>6 DEF Quot
<1>8. n % 1 = 0
  OBVIOUS
<1>9. r < d /\ n = q * d + r
  <2>1. r < d /\ n = q * d + r * 1 + (n % 1)
    BY <1>2, <1>5, <1>6, <1>7
  <2>2. q * d \in Int
    OBVIOUS
  <2> QED BY <1>8, <2>1, <2>2
<1> QED BY <1>1, <1>7, <1>9

LEMMA UdivType ==
    ASSUME NEW n \in Nat, NEW d \in Nat
    PROVE  udiv32(n, d).q \in Nat /\ udiv32(n, d).r \in Nat
<1>1. CASE d = 0
  BY <1>1 DEF udiv32
<1>2. CASE d # 0
  <2>1. PICK s : IsRounds(s, n, d) /\ udiv32(n, d) = s[DivBits]
    BY <1>2, Rounds
  <2>2. s[DivBits] \in Quot
    BY <2>1, WidthAssumption DEF IsRounds
  <2> QED BY <2>1, <2>2 DEF Quot
<1> QED BY <1>1, <1>2

-----------------------------------------------------------------------------
(* What a figure touches is made of dots.                                   *)

Dot == Int \X Int

LEMMA FigureFields ==
    ASSUME NEW f, IsFigure(f)
    PROVE  /\ f.ope \in SUBSET {"line", "text", "circle", "rect"} /\ f.dir \in 0..7
           /\ f.dc \in Nat /\ f.dc < Counts /\ f.d \in Nat /\ f.d2 \in Nat
           /\ f.d1 \in Nat /\ f.d1 <= 65535 /\ f.dm \in Nat
           /\ f.word \in Nat /\ f.word <= 16383 /\ f.dot \in 0..15
           /\ f.zoom \in 0..15 /\ f.mode \in 0..3
           /\ f.width \in {"word", "low", "high", "none"}
           /\ f.mask \in SUBSET (0..15) /\ f.code \in SUBSET (0..15)
<1>1. Field = {"ope", "dir", "sl", "dc", "d", "d2", "d1", "dm", "word", "dot", "textw",
               "zoom", "mode", "width", "mask", "code"}
  BY DEF Field, SnapWord
<1>2. \A x \in Field : f[x] \in FieldType[x]
  BY DEF IsFigure
<1>3. /\ f["ope"] \in FieldType["ope"] /\ f["dir"] \in FieldType["dir"]
      /\ f["dc"] \in FieldType["dc"] /\ f["d"] \in FieldType["d"]
      /\ f["d2"] \in FieldType["d2"] /\ f["d1"] \in FieldType["d1"]
      /\ f["dm"] \in FieldType["dm"] /\ f["word"] \in FieldType["word"]
      /\ f["dot"] \in FieldType["dot"] /\ f["zoom"] \in FieldType["zoom"]
      /\ f["mode"] \in FieldType["mode"] /\ f["width"] \in FieldType["width"]
      /\ f["mask"] \in FieldType["mask"] /\ f["code"] \in FieldType["code"]
  BY <1>1, <1>2, Zenon
<1>4. /\ FieldType["ope"] = SUBSET {"line", "text", "circle", "rect"}
      /\ FieldType["dir"] = 0..7 /\ FieldType["dc"] = 0..Counts - 1
      /\ FieldType["d"] = Word16 /\ FieldType["d2"] = Word16
      /\ FieldType["d1"] = Word16 /\ FieldType["dm"] = Word16
      /\ FieldType["word"] = Word14 /\ FieldType["dot"] = 0..15
      /\ FieldType["zoom"] = 0..15 /\ FieldType["mode"] = 0..3
      /\ FieldType["width"] = {"word", "low", "high", "none"}
      /\ FieldType["mask"] = SUBSET (0..15) /\ FieldType["code"] = SUBSET (0..15)
  BY DEF FieldType
<1>5. \A x \in Word14 : x \in Nat /\ x <= 16383
  <2>1. 2^14 = 16384
    OBVIOUS
  <2> QED BY <2>1 DEF Word14
<1>6. \A x \in Word16 : x \in Nat /\ x <= 65535
  <2>1. 2^16 = 65536
    OBVIOUS
  <2> QED BY <2>1 DEF Word16
<1>7. \A x \in 0..Counts - 1 : x \in Nat /\ x < Counts
  BY WidthAssumption
<1>8. /\ f["d"] \in Nat /\ f["d2"] \in Nat /\ f["d1"] \in Nat /\ f["d1"] <= 65535
      /\ f["dm"] \in Nat /\ f["word"] \in Nat /\ f["word"] <= 16383
  BY <1>3, <1>4, <1>5, <1>6
<1>9. f["dc"] \in Nat /\ f["dc"] < Counts
  BY <1>3, <1>4, <1>7, Zenon
<1>10. /\ f["ope"] \in SUBSET {"line", "text", "circle", "rect"} /\ f["dir"] \in 0..7
       /\ f["dot"] \in 0..15 /\ f["zoom"] \in 0..15 /\ f["mode"] \in 0..3
       /\ f["width"] \in {"word", "low", "high", "none"}
       /\ f["mask"] \in SUBSET (0..15) /\ f["code"] \in SUBSET (0..15)
  BY <1>3, <1>4, Zenon
<1> QED BY <1>8, <1>9, <1>10

LEMMA Directions ==
    \A o \in 0..15 : /\ vectdir[o + 1][1] \in -1..1 /\ vectdir[o + 1][2] \in -1..1
                     /\ vectdir[o + 1][3] \in -1..1 /\ vectdir[o + 1][4] \in -1..1
  BY DEF vectdir

LEMMA PlusDot == \A p, v \in Dot : Plus(p, v) \in Dot
  BY DEF Plus, Dot

LEMMA AlongDot ==
    ASSUME NEW o \in 0..15, NEW n \in Int
    PROVE  Along(o, n) \in Dot /\ Across(o, n) \in Dot
<1>1. \A x \in -1..1 : n * x \in Int
  OBVIOUS
<1> QED BY <1>1, Directions DEF Along, Across, Dot

LEMMA OctantDot ==
    ASSUME NEW o \in 0..7, NEW a \in Int, NEW b \in Int
    PROVE  Octant(o, a, b) \in Dot
<1>1. -a \in Int /\ -b \in Int
  OBVIOUS
<1> QED BY <1>1 DEF Octant, Dot

LEMMA Low14Type == \A n \in Int : Low14(n) \in Nat /\ Low14(n) <= 16383
<1>1. 2^14 = 16384
  OBVIOUS
<1> QED BY <1>1 DEF Low14

LEMMA StartDot ==
    ASSUME NEW f, IsFigure(f)
    PROVE  pset_prepare(f) \in Nat \X Nat /\ pset_prepare(f) \in Dot
<1>1. f.word \in Nat /\ f.dot \in Nat
  BY FigureFields
<1>2. udiv32(f.word, 40).q \in Nat /\ udiv32(f.word, 40).r \in Nat
  BY <1>1, UdivType
<1> QED BY <1>1, <1>2 DEF pset_prepare, Dot

LEMMA DotSeq ==
    ASSUME NEW n \in Nat, NEW f, f \in [1..n -> Dot]
    PROVE  f \in Seq(Dot) /\ Len(f) = n
  OBVIOUS

LEMMA TimesNat == \A a, b \in Nat : a * b \in Nat
  OBVIOUS

LEMMA MinorType ==
    ASSUME NEW d1 \in Nat, NEW k \in Nat, NEW dc \in Nat
    PROVE  Minor(d1, k, dc) \in Nat
<1>1. udiv32(d1 * k, dc).q \in Nat
  BY TimesNat, UdivType
<1> QED BY <1>1 DEF Minor

LEMMA LineDots ==
    ASSUME NEW f, IsFigure(f), NEW p \in Dot
    PROVE  vectl(f, p) \in Seq(Dot)
<1> DEFINE dc == Low14(f.dc)
           e == [k \in 1..dc + 1 |-> Plus(p, Octant(f.dir, k - 1, Minor(f.d1, k - 1, dc)))]
<1>1. dc \in Nat /\ f.d1 \in Nat /\ f.dir \in 0..7
  BY FigureFields, Low14Type
<1>2. vectl(f, p) = IF dc = 0 THEN <<p>> ELSE e
  BY DEF vectl
<1> HIDE DEF dc
<1>3. ASSUME NEW k \in 1..dc + 1
      PROVE  Plus(p, Octant(f.dir, k - 1, Minor(f.d1, k - 1, dc))) \in Dot
  <2>1. k - 1 \in Nat
    OBVIOUS
  <2>2. Minor(f.d1, k - 1, dc) \in Nat
    BY <1>1, <2>1, MinorType
  <2>3. Minor(f.d1, k - 1, dc) \in Int /\ k - 1 \in Int
    BY <2>2
  <2> QED BY <1>1, <2>3, OctantDot, PlusDot
<1>4. e \in Seq(Dot)
  <2>1. e \in [1..dc + 1 -> Dot]
    BY <1>3, Zenon
  <2>2. dc + 1 \in Nat
    BY <1>1
  <2> HIDE DEF e
  <2> QED BY <2>1, <2>2, DotSeq
<1> HIDE DEF e
<1> QED BY <1>2, <1>4

LEMMA BlockDots ==
    ASSUME NEW p \in Dot, NEW o \in 0..15, NEW rows \in Nat, NEW cols \in Nat \ {0},
           NEW mul \in Nat \ {0}, NEW lit
    PROVE  Block(p, o, rows, cols, mul, lit) \in Seq(Dot)
<1> DEFINE wide == cols * mul
           dot(k) == Plus(Plus(p, Across(o, k \div wide)), Along(o, k % wide))
           on(k) == lit[(k - 1) \div wide, ((k - 1) % wide) \div mul]
           N == rows * wide
           T == Seq(Dot)
           z == <<>>
           F == [k \in 1..N |-> [t \in T |-> IF on(k) THEN Append(t, dot(k - 1)) ELSE t]]
<1>1. wide \in Nat \ {0}
  OBVIOUS
<1> HIDE DEF wide
<1>2. N \in Nat
  BY <1>1, TimesNat
<1>3. ASSUME NEW k \in Int PROVE dot(k) \in Dot
  <2>1. k \div wide \in Int /\ k % wide \in Int
    BY <1>1
  <2> QED BY <2>1, AlongDot, PlusDot
<1> HIDE DEF N, dot, on
<1>4. F \in [1..N -> [T -> T]] /\ z \in T
  BY <1>2, <1>3
<1>5. HasRun(N, T, z, F)
  <2> HIDE DEF F, z, T
  <2> QED BY <1>2, <1>4, RunExists
<1>6. PICK f \in [0..N -> T] : f[0] = z /\ \A k \in 1..N : f[k] = F[k][f[k - 1]]
  BY <1>5 DEF HasRun
<1> HIDE DEF T
<1>7. \A k \in 1..N : f[k] = IF on(k) THEN Append(f[k - 1], dot(k - 1)) ELSE f[k - 1]
  <2> SUFFICES ASSUME NEW k \in 1..N
               PROVE  f[k] = IF on(k) THEN Append(f[k - 1], dot(k - 1)) ELSE f[k - 1]
    OBVIOUS
  <2>1. f[k - 1] \in T
    BY <1>2
  <2> QED BY <1>6, <2>1
<1> DEFINE Is(h) == h = [k \in 0..N |->
                           IF k = 0 THEN <<>>
                           ELSE LET before == h[k - 1]
                                IN  IF on(k) THEN Append(before, dot(k - 1)) ELSE before]
           s == CHOOSE h : Is(h)
<1>8. Is(f)
  <2>1. f = [k \in 0..N |-> f[k]]
    BY <1>6
  <2>2. \A k \in 0..N : f[k] = IF k = 0 THEN <<>>
                               ELSE IF on(k) THEN Append(f[k - 1], dot(k - 1)) ELSE f[k - 1]
    <3>1. \A k \in 0..N : k = 0 \/ k \in 1..N
      BY <1>2
    <3> QED BY <1>6, <1>7, <3>1, Zenon
  <2> QED BY <2>1, <2>2
<1>9. Is(s)
  <2> HIDE DEF Is
  <2> QED BY <1>8, Zenon
<1>10. Block(p, o, rows, cols, mul, lit) = s[N]
  BY Zenon DEF Block, N, dot, on, wide
<1> HIDE DEF s
<1>11. \A k \in 0..N : s[k] = IF k = 0 THEN <<>>
                              ELSE IF on(k) THEN Append(s[k - 1], dot(k - 1)) ELSE s[k - 1]
  BY <1>9
<1>12. \A k \in 0..N : s[k] \in T
  <2>1. s[0] \in T
    <3>1. s[0] = <<>>
      BY <1>2, <1>11
    <3> QED BY <3>1 DEF T
  <2>2. ASSUME NEW k \in 1..N, s[k - 1] \in T PROVE s[k] \in T
    <3>1. k # 0 /\ k \in 0..N /\ dot(k - 1) \in Dot
      BY <1>2, <1>3
    <3>2. s[k] = IF on(k) THEN Append(s[k - 1], dot(k - 1)) ELSE s[k - 1]
      BY <1>11, <3>1
    <3>3. Append(s[k - 1], dot(k - 1)) \in T
      BY <2>2, <3>1 DEF T
    <3> QED BY <2>2, <3>2, <3>3
  <2> QED BY <1>2, <2>1, <2>2, RunStays
<1> QED BY <1>2, <1>10, <1>12 DEF T

LEMMA ColumnsType ==
    ASSUME NEW f, IsFigure(f)
    PROVE  Columns(f) \in Nat \ {0} /\ Clamp(Low14(f.dc) + 1) \in Nat
<1>1. f.d - 1 \in Int /\ f.dc \in Int
  BY FigureFields
<1>2. Low14(f.d - 1) \in Nat /\ Low14(f.dc) \in Nat
  BY <1>1, Low14Type
<1> QED BY <1>2, WidthAssumption DEF Columns, Clamp

LEMMA TextDots ==
    ASSUME NEW f, IsFigure(f), NEW p \in Dot
    PROVE  vectt(f, p) \in Seq(Dot) /\ gdc_text(f, p) \in Seq(Dot) /\ AfterT(f, p) \in Dot
<1>1. f.dir \in 0..7 /\ f.zoom \in 0..15 /\ Columns(f) \in Nat \ {0} /\ Clamp(Low14(f.dc) + 1) \in Nat
  BY FigureFields, ColumnsType
<1>2. f.zoom + 1 \in Nat \ {0} /\ f.dir \in 0..15 /\ f.zoom + 1 \in Int
  BY <1>1
<1>3. vectt(f, p) \in Seq(Dot)
  BY <1>1, <1>2, BlockDots DEF vectt
<1>4. gdc_text(f, p) \in Seq(Dot)
  <2> DEFINE o == f.dir + (IF f.sl THEN 8 ELSE 0)
             rows == Clamp(Low14(f.dc) + 1) * (f.zoom + 1)
             half == PatBits \div 2
             lit == [r \in 0..rows - 1, c \in 0..Columns(f) - 1 |->
                       ((r + 1) % 2) * half + (c % half) \in f.textw]
  <2>1. o \in 0..15
    BY <1>1
  <2>2. rows \in Nat
    BY <1>1, <1>2, TimesNat
  <2>3. gdc_text(f, p) = Block(p, o, rows, Columns(f), f.zoom + 1, lit)
    BY DEF gdc_text
  <2> HIDE DEF o, rows, lit
  <2> QED BY <1>1, <1>2, <2>1, <2>2, <2>3, BlockDots
<1>5. AfterT(f, p) \in Dot
  BY <1>2, AlongDot, PlusDot DEF AfterT
<1> QED BY <1>3, <1>4, <1>5

LEMMA ArcType ==
    ASSUME NEW k \in Nat, NEW m \in Nat, NEW r \in Nat PROVE Arc(k, m, r) \in Nat
<1> DEFINE a == udiv32(k * 32768, m).q
           b == udiv32(k * 23170, m).q
           c == udiv32(a * b, b).q
           s == IF b = 0 THEN 0 ELSE (b + c) \div 2
<1>1. a \in Nat /\ b \in Nat
  BY TimesNat, UdivType
<1>2. Arc(k, m, r) = (s * r + 16384) \div 32768
  BY DEF Arc
<1> HIDE DEF a, b
<1>3. c \in Nat
  BY <1>1, TimesNat, UdivType
<1> HIDE DEF c
<1>4. s \in Nat
  BY <1>1, <1>3
<1> HIDE DEF s
<1>5. s * r \in Nat
  BY <1>4, TimesNat
<1> QED BY <1>2, <1>5

LEMMA CircleDots ==
    ASSUME NEW f, IsFigure(f), NEW p \in Dot
    PROVE  vectc(f, p) \in Seq(Dot)
<1> DEFINE r == Low14(f.d)
           m == udiv32(r * 10000 + 14141, 14142).q
           i0 == Low14(f.dm)
           t == IF Low14(f.dc) > m THEN m ELSE Low14(f.dc)
           N == IF i0 > t THEN 0 ELSE t - i0 + 1
           e == [k \in 1..N |-> LET j == i0 + k - 1 IN Plus(p, Octant(f.dir, j, Arc(j, m, r)))]
<1>1. f.d \in Int /\ f.dm \in Int /\ f.dc \in Int /\ f.dir \in 0..7
  BY FigureFields
<1>2. r \in Nat /\ i0 \in Nat /\ Low14(f.dc) \in Nat
  BY <1>1, Low14Type
<1>3. vectc(f, p) = IF m = 0 THEN <<p>> ELSE e
  BY DEF vectc
<1> HIDE DEF r, i0
<1>4. m \in Nat
  <2>1. r * 10000 + 14141 \in Nat /\ 14142 \in Nat
    BY <1>2
  <2> QED BY <2>1, UdivType
<1> HIDE DEF m
<1>5. t \in Nat
  BY <1>2, <1>4
<1> HIDE DEF t
<1>6. N \in Nat
  BY <1>2, <1>5
<1> HIDE DEF N
<1>7. ASSUME NEW k \in 1..N
      PROVE  Plus(p, Octant(f.dir, i0 + k - 1, Arc(i0 + k - 1, m, r))) \in Dot
  <2>1. i0 + k - 1 \in Nat /\ i0 + k - 1 \in Int
    BY <1>2
  <2>2. Arc(i0 + k - 1, m, r) \in Int
    BY <1>2, <1>4, <2>1, ArcType
  <2> QED BY <1>1, <2>1, <2>2, OctantDot, PlusDot
<1>8. e \in Seq(Dot)
  <2>1. e \in [1..N -> Dot]
    BY <1>7, Zenon
  <2> HIDE DEF e
  <2> QED BY <1>6, <2>1, DotSeq
<1> HIDE DEF e
<1> QED BY <1>3, <1>8

LEMMA RectDots ==
    ASSUME NEW f, IsFigure(f), NEW p \in Dot
    PROVE  vectr(f, p) \in Seq(Dot)
<1> DEFINE d == Low14(f.d)
           d2 == Low14(f.d2)
           s1 == [k \in 1..d |-> Plus(p, Along(f.dir, k - 1))]
           s2 == [k \in 1..d2 |-> Plus(Plus(p, Along(f.dir, d)), Across(f.dir, k - 1))]
           s3 == [k \in 1..d |-> Plus(Plus(p, Along(f.dir, d - k + 1)), Across(f.dir, d2))]
           s4 == [k \in 1..d2 |-> Plus(p, Across(f.dir, d2 - k + 1))]
<1>1. f.d \in Int /\ f.d2 \in Int /\ f.dir \in 0..15
  BY FigureFields
<1>2. d \in Nat /\ d2 \in Nat
  BY <1>1, Low14Type
<1>3. vectr(f, p) = s1 \o s2 \o s3 \o s4
  BY Zenon DEF vectr
<1> HIDE DEF d, d2
<1>4. \A x \in Int : Along(f.dir, x) \in Dot /\ Across(f.dir, x) \in Dot
  BY <1>1, AlongDot
<1>5. s1 \in [1..d -> Dot] /\ s4 \in [1..d2 -> Dot]
  <2>1. \A k \in 1..d : k - 1 \in Int
    OBVIOUS
  <2>2. \A k \in 1..d2 : d2 - k + 1 \in Int
    BY <1>2
  <2> QED BY <1>4, <2>1, <2>2, PlusDot
<1>6. s2 \in [1..d2 -> Dot] /\ s3 \in [1..d -> Dot]
  <2>1. \A k \in 1..d2 : k - 1 \in Int
    OBVIOUS
  <2>2. \A k \in 1..d : d - k + 1 \in Int
    BY <1>2
  <2>3. d \in Int /\ d2 \in Int
    BY <1>2
  <2> QED BY <1>4, <2>1, <2>2, <2>3, PlusDot
<1> HIDE DEF s1, s2, s3, s4
<1>7. s1 \in Seq(Dot) /\ s2 \in Seq(Dot) /\ s3 \in Seq(Dot) /\ s4 \in Seq(Dot)
  BY <1>2, <1>5, <1>6, DotSeq
<1> QED BY <1>3, <1>7

LEMMA PathDots ==
    ASSUME NEW f, IsFigure(f), NEW c
    PROVE  Path(f, c) \in Seq(Dot)
<1> DEFINE p == pset_prepare(f)
           q == IF "text" \in f.ope THEN AfterT(f, p) ELSE p
           a1 == IF f.ope = {} THEN <<p>> ELSE <<>>
           a2 == IF "line" \in f.ope THEN vectl(f, p) ELSE <<>>
           a3 == IF "text" \in f.ope THEN vectt(f, p) ELSE <<>>
           a4 == IF "circle" \in f.ope THEN vectc(f, q) ELSE <<>>
           a5 == IF "rect" \in f.ope THEN vectr(f, q) ELSE <<>>
           a6 == IF c = "TEXTE" THEN gdc_text(f, q) ELSE <<>>
<1>1. Path(f, c) = a1 \o a2 \o a3 \o a4 \o a5 \o a6
  BY DEF Path
<1>2. p \in Dot
  BY StartDot
<1> HIDE DEF p
<1>3. q \in Dot
  BY <1>2, TextDots
<1> HIDE DEF q
<1>4. a1 \in Seq(Dot) /\ a2 \in Seq(Dot) /\ a3 \in Seq(Dot)
  BY <1>2, LineDots, TextDots
<1>5. a4 \in Seq(Dot) /\ a5 \in Seq(Dot) /\ a6 \in Seq(Dot)
  BY <1>3, CircleDots, RectDots, TextDots
<1> HIDE DEF a1, a2, a3, a4, a5, a6
<1> QED BY <1>1, <1>4, <1>5

-----------------------------------------------------------------------------
(* Whatever is drawn is a figure: the parameter file, the snapshot and the  *)
(* copy hold what their bytes can hold, mixed up by the watchdog or not.    *)

Figured == IsFigure(para) /\ IsFigure(snap) /\ IsFigure(g) /\ IsFigure(pic.g)

LEMMA NoFigureIs == IsFigure(NoFigure)
<1>1. NoFigure = [x \in Field |-> NoFigure[x]]
  BY DEF NoFigure
<1>2. \A x \in Field : NoFigure[x] = IF x \in {"ope", "textw", "mask", "code"} THEN {}
                                     ELSE IF x = "width" THEN "word"
                                     ELSE IF x = "sl" THEN FALSE ELSE 0
  BY DEF NoFigure
<1>3. 0 \in Word14 /\ 0 \in Word16 /\ 0 \in 0..Counts - 1
  BY WidthAssumption DEF Word14, Word16
<1>4. Field = {"ope", "dir", "sl", "dc", "d", "d2", "d1", "dm", "word", "dot", "textw",
               "zoom", "mode", "width", "mask", "code"}
  BY DEF Field, SnapWord
<1>5. ASSUME NEW x \in Field PROVE NoFigure[x] \in FieldType[x]
  <2>1. CASE x \in {"ope", "textw", "mask", "code"}
    <3>1. NoFigure[x] = {}
      BY <1>2, <2>1
    <3>2. /\ {} \in FieldType["ope"] /\ {} \in FieldType["textw"]
          /\ {} \in FieldType["mask"] /\ {} \in FieldType["code"]
      BY DEF FieldType
    <3> QED BY <2>1, <3>1, <3>2, Zenon
  <2>2. CASE x = "width"
    BY <1>2, <2>2 DEF FieldType
  <2>3. CASE x = "sl"
    BY <1>2, <2>3 DEF FieldType
  <2>4. CASE x \in {"dir", "dc", "d", "d2", "d1", "dm", "word", "dot", "zoom", "mode"}
    <3>1. NoFigure[x] = 0
      BY <1>2, <2>4
    <3>2. /\ 0 \in FieldType["dir"] /\ 0 \in FieldType["dot"] /\ 0 \in FieldType["zoom"]
          /\ 0 \in FieldType["mode"]
      BY DEF FieldType
    <3>3. /\ 0 \in FieldType["dc"] /\ 0 \in FieldType["d"] /\ 0 \in FieldType["d2"]
          /\ 0 \in FieldType["d1"] /\ 0 \in FieldType["dm"] /\ 0 \in FieldType["word"]
      BY <1>3 DEF FieldType
    <3> QED BY <2>4, <3>1, <3>2, <3>3, Zenon
  <2> QED BY <1>4, <2>1, <2>2, <2>3, <2>4
<1> QED BY <1>1, <1>5 DEF IsFigure

LEMMA SetField ==
    ASSUME NEW q, IsFigure(q), NEW k, NEW v, v \in FieldType[k]
    PROVE  IsFigure([q EXCEPT ![k] = v])
<1>1. DOMAIN q = Field /\ \A x \in Field : q[x] \in FieldType[x]
  BY DEF IsFigure
<1> DEFINE e == [x \in Field |-> IF x = k THEN v ELSE q[x]]
<1>2. [q EXCEPT ![k] = v] = e
  BY <1>1 DEF IsFigure
<1>3. \A x \in Field : e[x] \in FieldType[x]
  BY <1>1
<1>4. e = [x \in Field |-> e[x]]
  OBVIOUS
<1> HIDE DEF e
<1> QED BY <1>2, <1>3, <1>4 DEF IsFigure

LEMMA ResetFigure == ASSUME NEW p, IsFigure(p) PROVE IsFigure(VectorReset(p))
<1> DEFINE p1 == [p EXCEPT !.dc = 0]
           p2 == [p1 EXCEPT !.d = 8]
           p3 == [p2 EXCEPT !.d2 = 8]
           p4 == [p3 EXCEPT !.d1 = 65535]
           p5 == [p4 EXCEPT !.dm = 65535]
<1>1. VectorReset(p) = p5
  BY DEF VectorReset
<1>2. 2^16 = 65536
  OBVIOUS
<1>3. 0 \in 0..Counts - 1 /\ 8 \in Word16 /\ 65535 \in Word16
  BY <1>2, WidthAssumption DEF Word16
<1>4. /\ 0 \in FieldType["dc"] /\ 8 \in FieldType["d"] /\ 8 \in FieldType["d2"]
      /\ 65535 \in FieldType["d1"] /\ 65535 \in FieldType["dm"]
  BY <1>3 DEF FieldType
<1>5. IsFigure(p1)
  BY <1>4, SetField
<1> HIDE DEF p1
<1>6. IsFigure(p2)
  BY <1>4, <1>5, SetField
<1> HIDE DEF p2
<1>7. IsFigure(p3)
  BY <1>4, <1>6, SetField
<1> HIDE DEF p3
<1>8. IsFigure(p4)
  BY <1>4, <1>7, SetField
<1> HIDE DEF p4
<1>9. IsFigure(p5)
  BY <1>4, <1>8, SetField
<1> QED BY <1>1, <1>9

LEMMA FiguredInit == Init => Figured
  BY NoFigureIs DEF Init, NoPic, Figured

LEMMA FiguredStep == Figured /\ [Next]_vars => Figured'
<1> SUFFICES ASSUME Figured, [Next]_vars PROVE Figured'
  OBVIOUS
<1>1. ASSUME NEW c, Retire(c) PROVE IsFigure(para')
  BY <1>1, ResetFigure DEF Retire, Figured
<1>2. ASSUME NEW f \in Figures, Program(f) PROVE Figured'
  BY <1>2, FigureAssumption DEF Program, Figured, fwVars
<1>3. ASSUME NEW c, NEW o, Latch(c, o) PROVE Figured'
  BY <1>3 DEF Latch, Figured, fwVars
<1>4. ASSUME NEW c, BusyEnds(c) \/ TimeOut(c) PROVE Figured'
  BY <1>1, <1>4 DEF BusyEnds, TimeOut, Figured, fwVars
<1>5. CASE Look
  BY <1>5 DEF Look, Figured, rtlVars
<1>6. CASE ReadWord
  <2>1. UNCHANGED <<para, snap, pic>>
    BY <1>6 DEF ReadWord, rtlVars
  <2>2. g' = [f \in Field |-> IF SnapWord[f] = i THEN snap[f] ELSE g[f]]
    BY <1>6 DEF ReadWord
  <2>3. IsFigure(g')
    <3>1. g' = [f \in Field |-> g'[f]]
      BY <2>2
    <3>2. \A f \in Field : g'[f] \in {snap[f], g[f]}
      BY <2>2
    <3> QED BY <3>1, <3>2 DEF Figured, IsFigure
  <2> QED BY <2>1, <2>3 DEF Figured
<1>7. ASSUME NEW a, NEW b, Draw(a, b) PROVE Figured'
  BY <1>7 DEF Draw, Figured, rtlVars
<1>8. CASE DoneHigh
  <2>1. IsFigure(para')
    BY <1>1, <1>8 DEF DoneHigh, Figured
  <2>2. snap' = snap /\ g' = NoFigure /\ pic'.g = NoFigure
    BY <1>8 DEF DoneHigh, NoPic
  <2> QED BY <2>1, <2>2, NoFigureIs DEF Figured
<1>9. CASE DoneLow
  BY <1>9 DEF DoneLow, Figured
<1>10. CASE UNCHANGED vars
  BY <1>10 DEF vars, rtlVars, fwVars, Figured
<1> QED
  BY <1>2, <1>3, <1>4, <1>5, <1>6, <1>7, <1>8, <1>9, <1>10
  DEF Next, Firmware, Guest, Hardware, Execute, LastParameter

-----------------------------------------------------------------------------
(* InPlane.                                                                 *)

LEMMA CutType ==
    ASSUME NEW p \in Dot
    PROVE  /\ Cut(p)[1] \in Nat /\ Cut(p)[1] < 65536 /\ Cut(p)[2] \in Nat /\ Cut(p)[2] < 65536
  BY DEF Cut, Dot

LEMMA DotInPlane ==
    ASSUME NEW p \in Dot, NEW on, NEW accel
    PROVE  \A a \in pset_at(p, on, accel) : a \in Nat /\ a < 32768
<1> DEFINE x == Cut(p)[1]
           y == Cut(p)[2]
           b == y * 80 + x \div 8
<1>1. x \in Nat /\ y \in Nat
  BY CutType
<1>2. CASE Clipped(p)
  BY <1>2 DEF pset_at
<1>3. CASE ~Clipped(p)
  <2>1. ~(y > 409) /\ ~(IF y = 409 THEN x >= 384 ELSE x >= 640)
    BY <1>3, Zenon DEF Clipped
  <2>2. ByteOf(p) = b
    BY DEF ByteOf
  <2> HIDE DEF x, y
  <2>3. b \in Nat /\ b < 32768
    BY <1>1, <2>1
  <2>4. \A a \in pset_at(p, on, accel) : a \in {b, b - (b % 2), b - (b % 2) + 1}
    BY <1>3, <2>2 DEF pset_at
  <2> HIDE DEF b
  <2>5. b - (b % 2) \in Nat /\ b - (b % 2) + 1 < 32768
    BY <2>3
  <2> QED BY <2>3, <2>4, <2>5
<1> QED BY <1>2, <1>3

LEMMA RunShape ==
    ASSUME NEW f, IsFigure(f), NEW v, f.width # "none"
    PROVE  /\ Len(gdc_wdat(f, v)) = f.dc + 1
           /\ \A k \in 1..f.dc + 1 :
                 gdc_wdat(f, v)[k].adrs = (f.word * 2 + 2 * (k - 1)) % PlaneBytes
           /\ \A k \in 1..f.dc + 1 : f.mode # 2 =>
                 \A b \in (0..15) \ (f.mask \cap Lane(f.width)) :
                    b \in gdc_wdat(f, v)[k].word <=> b \in v
<1>1. f.dc \in Nat /\ f.dc < Counts /\ Counts \in Nat
  BY FigureFields, WidthAssumption
<1>2. RunLength(f.dc) = f.dc + 1
  <2>1. CASE f.dc + 1 = Counts
    <3>1. Counts % Counts = 0
      BY WidthAssumption
    <3> QED BY <2>1, <3>1 DEF RunLength
  <2>2. CASE f.dc + 1 < Counts
    <3>1. (f.dc + 1) % Counts = f.dc + 1
      BY <1>1, <2>2
    <3> QED BY <1>1, <3>1 DEF RunLength
  <2> QED BY <1>1, <2>1, <2>2
<1> DEFINE n == f.dc + 1
           mask == f.mask \cap Lane(f.width)
           code == IF f.width = "high" THEN {b + 8 : b \in f.code \cap 0..7} ELSE f.code
           e == [k \in 1..n |-> [adrs |-> (f.word * 2 + 2 * (k - 1)) % PlaneBytes,
                                 word |-> Merge(f.mode, v, mask, code \cap mask)]]
<1>3. gdc_wdat(f, v) = e
  BY <1>2 DEF gdc_wdat
<1>4. n \in Nat
  BY <1>1
<1>5. f.mode # 2 => \A b \in (0..15) \ mask : b \in Merge(f.mode, v, mask, code \cap mask) <=> b \in v
  <2>1. f.mode \in 0..3
    BY FigureFields
  <2> HIDE DEF mask, code
  <2> QED BY <2>1 DEF Merge
<1> HIDE DEF n, mask, code
<1>6. \A k \in 1..n : e[k].word = Merge(f.mode, v, mask, code \cap mask)
  OBVIOUS
<1>7. Len(e) = n
  BY <1>4
<1>8. \A k \in 1..n : e[k].adrs = (f.word * 2 + 2 * (k - 1)) % PlaneBytes
  OBVIOUS
<1> HIDE DEF e
<1>9. \A k \in 1..n : f.mode # 2 => \A b \in (0..15) \ mask : b \in e[k].word <=> b \in v
  BY <1>5, <1>6
<1> QED BY <1>3, <1>7, <1>8, <1>9 DEF n, mask

\* The plane, as bounds.
LEMMA Plane ==
    /\ PlaneBytes \in Nat
    /\ \A a \in Nat : a < 32768 => a \in 0..PlaneBytes - 1
    /\ \A a \in Int : (2 * a) % PlaneBytes \in 0..PlaneBytes - 2
<1>1. PlaneBytes = 32768
  BY DEF PlaneBytes
<1>2. \A a \in Int : (2 * a) % 32768 \in Nat /\ (2 * a) % 32768 <= 32766
  OBVIOUS
<1>3. PlaneBytes \in Nat /\ \A a \in Nat : a < 32768 => a < PlaneBytes
  BY <1>1
<1>4. \A a \in Int : (2 * a) % PlaneBytes \in Nat /\ (2 * a) % PlaneBytes <= PlaneBytes - 2
  BY <1>1, <1>2
<1> QED BY <1>3, <1>4

LEMMA InPlaneHolds == Figured => InPlane
<1> SUFFICES ASSUME Figured PROVE InPlane
  OBVIOUS
<1>1. path \in Seq(Dot)
  BY PathDots DEF Figured, path
<1>2. ASSUME NEW k \in 1..Len(path)
      PROVE  pset_at(path[k], On(pic.g, k), pic.accel) \subseteq 0..PlaneBytes - 1
  <2>1. path[k] \in Dot
    BY <1>1
  <2> QED BY <2>1, DotInPlane, Plane
<1>3. ASSUME NEW k \in 1..Len(run) PROVE run[k].adrs \in 0..PlaneBytes - 2
  <2>1. CASE pic.op = "WDAT" /\ pic.g.width # "none"
    <3>1. run = gdc_wdat(pic.g, pic.back) /\ pic.g.dc \in Nat /\ pic.g.word \in Int
      BY <2>1, FigureFields DEF run, Figured
    <3>2. k \in 1..pic.g.dc + 1
      BY <2>1, <3>1, RunShape DEF Figured
    <3>3. run[k].adrs = (pic.g.word * 2 + 2 * (k - 1)) % PlaneBytes
      BY <2>1, <3>1, <3>2, RunShape DEF Figured
    <3>4. pic.g.word * 2 + 2 * (k - 1) = 2 * (pic.g.word + (k - 1)) /\ pic.g.word + (k - 1) \in Int
      BY <3>1, <3>2
    <3> DEFINE y == pic.g.word + (k - 1)
    <3>5. run[k].adrs = (2 * y) % PlaneBytes /\ y \in Int
      BY <3>3, <3>4
    <3> HIDE DEF y
    <3> QED BY <3>5, Plane
  <2>2. CASE ~(pic.op = "WDAT" /\ pic.g.width # "none")
    <3>1. run = <<>>
      BY <2>2 DEF run, gdc_wdat
    <3> QED BY <3>1
  <2> QED BY <2>1, <2>2
<1> QED BY <1>2, <1>3 DEF InPlane

\* For any figures, any charger and any widths the assumptions allow: every
\* dot pset_at writes and every word of gdc_wdat lies in the 32 KB of the
\* plane, even when the watchdog has let the guest change the snapshot while
\* it was copied.
THEOREM DrawsInPlane == Spec => []InPlane
<1>1. Init => Figured
  BY FiguredInit
<1>2. Figured /\ [Next]_vars => Figured'
  BY FiguredStep
<1>3. Figured => InPlane
  BY InPlaneHolds
<1> QED BY <1>1, <1>2, <1>3, PTL DEF Spec

-----------------------------------------------------------------------------
(* LineNearest.                                                             *)

\* The rounded half of the quotient is the nearest minor coordinate: the
\* quotient is even or odd, and the remainder is less than a divisor.
IsNearest(d1, j, dc, m) ==
    /\ m = (d1 * j) \div (2 * dc) \/ m = (d1 * j) \div (2 * dc) + 1
    /\ AbsDiff(2 * dc * m, d1 * j) <= dc

LEMMA MinorNearest ==
    ASSUME NEW d1 \in Nat, d1 <= 65535, NEW j \in Nat, NEW dc \in Nat \ {0},
           j <= dc, dc <= 16383
    PROVE  IsNearest(d1, j, dc, Minor(d1, j, dc))
<1> DEFINE n == d1 * j
<1>1. n \in Nat /\ n < 32768 * 32768
  <2>1. n \in Nat
    BY TimesNat
  <2>2. d1 * j <= 65535 * j
    OBVIOUS
  <2>3. 65535 * j <= 65535 * 16383
    OBVIOUS
  <2> HIDE DEF n
  <2>4. n <= 65535 * 16383
    BY <2>1, <2>2, <2>3 DEF n
  <2> QED BY <2>1, <2>4
<1>2. PICK q \in Nat, r \in 0..dc - 1 : udiv32(n, dc).q = q /\ n = q * dc + r
  <2> HIDE DEF n
  <2> QED BY <1>1, UdivRight
<1>3. Minor(d1, j, dc) = (q + 1) \div 2
  BY <1>2 DEF Minor
<1>4. PICK m \in Nat : m = (q + 1) \div 2 /\ (q = 2 * m \/ q = 2 * m - 1)
  OBVIOUS
<1>5. Minor(d1, j, dc) = m
  BY <1>3, <1>4
<1> DEFINE w == 2 * dc
           c == 2 * dc * m
<1>6. c \in Int /\ w \in Nat \ {0} /\ c = w * m /\ w * (m - 1) \in Int /\ w * (m - 1) = c - w
  OBVIOUS
<1>7. n \in Int /\ r \in Int
  BY <1>1
<1>8. n \div w \in {m, m - 1} /\ AbsDiff(c, n) <= dc
  <2>1. CASE q = 2 * m
    <3>1. q * dc = c
      BY <2>1
    <3>2. n = w * m + r /\ r \in 0..w - 1
      BY <1>2, <1>6, <3>1
    <3>3. n \div w = m
      <4> HIDE DEF n, w
      <4> QED BY <1>6, <1>7, <3>2, DivOnly
    <3>4. AbsDiff(c, n) <= dc
      <4>1. n = c + r
        BY <1>6, <3>2
      <4> HIDE DEF n, c
      <4> QED BY <1>6, <1>7, <4>1 DEF AbsDiff
    <3> QED BY <3>3, <3>4
  <2>2. CASE q = 2 * m - 1
    <3>1. q * dc = c - dc
      BY <2>2
    <3> DEFINE x == dc + r
    <3>2. n = c - dc + r
      <4> HIDE DEF c
      <4> QED BY <1>2, <1>6, <3>1
    <3>3. x \in 0..w - 1 /\ m - 1 \in Int
      OBVIOUS
    <3>4. n = w * (m - 1) + x
      <4> DEFINE y == w * (m - 1)
      <4>1. y \in Int /\ y = c - 2 * dc
        BY <1>6
      <4> HIDE DEF n, c, y
      <4>2. n = y + x
        BY <1>6, <3>2, <4>1
      <4> QED BY <4>2 DEF y
    <3>5. n \div w = m - 1
      <4> HIDE DEF n, w, x
      <4> QED BY <1>6, <1>7, <3>3, <3>4, DivOnly
    <3>6. AbsDiff(c, n) <= dc
      <4> HIDE DEF n, c
      <4> QED BY <1>6, <1>7, <3>2 DEF AbsDiff
    <3> QED BY <3>5, <3>6
  <2> QED BY <1>4, <2>1, <2>2
<1>9. m = n \div w \/ m = n \div w + 1
  <2> DEFINE b == n \div w
  <2>1. b \in {m, m - 1}
    BY <1>8
  <2> HIDE DEF b
  <2>2. m = b \/ m = b + 1
    BY <2>1
  <2> QED BY <2>2 DEF b
<1> QED BY <1>5, <1>8, <1>9 DEF IsNearest

\* A path of one figure is that figure.
LEMMA OneFigure ==
    ASSUME NEW f, IsFigure(f)
    PROVE  /\ f.ope = {"line"} => Path(f, "VECTE") = vectl(f, pset_prepare(f))
           /\ f.ope = {"rect"} => Path(f, "VECTE") = vectr(f, pset_prepare(f))
<1> DEFINE p == pset_prepare(f)
<1>1. p \in Dot
  BY StartDot
<1>2. vectl(f, p) \in Seq(Dot) /\ vectr(f, p) \in Seq(Dot)
  <2> HIDE DEF p
  <2> QED BY <1>1, LineDots, RectDots
<1>3. ASSUME NEW s \in Seq(Dot)
      PROVE  /\ <<>> \o s \o <<>> \o <<>> \o <<>> \o <<>> = s
             /\ <<>> \o <<>> \o <<>> \o <<>> \o s \o <<>> = s
  <2>1. <<>> \o s = s /\ s \o <<>> = s
    OBVIOUS
  <2>2. <<>> \o <<>> = <<>>
    OBVIOUS
  <2> QED BY <2>1, <2>2, Zenon
<1>4. ASSUME f.ope = {"line"}
      PROVE  Path(f, "VECTE") = <<>> \o vectl(f, p) \o <<>> \o <<>> \o <<>> \o <<>>
  BY <1>4 DEF Path
<1>5. ASSUME f.ope = {"rect"}
      PROVE  Path(f, "VECTE") = <<>> \o <<>> \o <<>> \o <<>> \o vectr(f, p) \o <<>>
  BY <1>5 DEF Path
<1> HIDE DEF p
<1> QED BY <1>2, <1>3, <1>4, <1>5 DEF p

LEMMA LineHolds == Figured => LineNearest
<1> DEFINE f == pic.g
           p == pset_prepare(f)
           dc == Low14(f.dc)
           e == [k \in 1..dc + 1 |-> Plus(p, Octant(f.dir, k - 1, Minor(f.d1, k - 1, dc)))]
<1> SUFFICES ASSUME Figured, f.ope = {"line"}, pic.op = "VECTE", dc > 0
             PROVE  /\ Len(path) = dc + 1
                    /\ \A k \in 1..Len(path) :
                          \E minor \in {(f.d1 * (k - 1)) \div (2 * dc),
                                        (f.d1 * (k - 1)) \div (2 * dc) + 1} :
                             /\ path[k] = Plus(p, Octant(f.dir, k - 1, minor))
                             /\ AbsDiff(2 * dc * minor, f.d1 * (k - 1)) <= dc
  BY DEF LineNearest
<1>1. IsFigure(f)
  BY DEF Figured
<1>2. dc \in Nat \ {0} /\ dc <= 16383 /\ f.d1 \in Nat /\ f.d1 <= 65535
  BY <1>1, FigureFields, Low14Type
<1>3. path = e
  <2>1. path = vectl(f, p)
    BY <1>1, OneFigure DEF path
  <2>2. vectl(f, p) = e
    BY <1>2 DEF vectl
  <2> QED BY <2>1, <2>2
<1>4. Len(e) = dc + 1
  <2>1. dc + 1 \in Nat
    BY <1>2
  <2> QED BY <2>1
<1>5. ASSUME NEW k \in 1..dc + 1
      PROVE  \E minor \in {(f.d1 * (k - 1)) \div (2 * dc), (f.d1 * (k - 1)) \div (2 * dc) + 1} :
                /\ e[k] = Plus(p, Octant(f.dir, k - 1, minor))
                /\ AbsDiff(2 * dc * minor, f.d1 * (k - 1)) <= dc
  <2>1. k - 1 \in Nat /\ k - 1 <= dc
    BY <1>2
  <2>2. IsNearest(f.d1, k - 1, dc, Minor(f.d1, k - 1, dc))
    <3> HIDE DEF dc, f
    <3> QED BY <1>2, <2>1, MinorNearest
  <2>3. e[k] = Plus(p, Octant(f.dir, k - 1, Minor(f.d1, k - 1, dc)))
    OBVIOUS
  <2> HIDE DEF e, p, dc, f
  <2> QED BY <2>2, <2>3 DEF IsNearest
<1> HIDE DEF e
<1> QED BY <1>3, <1>4, <1>5

LEMMA NextWord ==
    ASSUME NEW x \in Int PROVE (x + 2) % PlaneBytes = ((x % PlaneBytes) + 2) % PlaneBytes
<1>1. (x + 2) % 32768 = ((x % 32768) + 2) % 32768
  OBVIOUS
<1> QED BY <1>1 DEF PlaneBytes

LEMMA RunHolds == Figured => RunWhole
<1> DEFINE f == pic.g
           w(k) == f.word * 2 + 2 * (k - 1)
<1> SUFFICES ASSUME Figured, pic.op = "WDAT", f.width # "none"
             PROVE  /\ Len(run) = f.dc + 1
                    /\ \A k \in 2..Len(run) : run[k].adrs = (run[k - 1].adrs + 2) % PlaneBytes
                    /\ f.mode # 2 => \A k \in 1..Len(run) :
                          \A b \in (0..15) \ (f.mask \cap Lane(f.width)) :
                             b \in run[k].word <=> b \in pic.back
  BY DEF RunWhole
<1>1. IsFigure(f) /\ f.dc \in Nat /\ f.word \in Nat
  BY FigureFields DEF Figured
<1>2. run = gdc_wdat(f, pic.back)
  BY DEF run
<1>3. /\ Len(run) = f.dc + 1 /\ \A k \in 1..f.dc + 1 : run[k].adrs = w(k) % PlaneBytes
      /\ \A k \in 1..f.dc + 1 : f.mode # 2 =>
            \A b \in (0..15) \ (f.mask \cap Lane(f.width)) :
               b \in run[k].word <=> b \in pic.back
  BY <1>1, <1>2, RunShape
<1>4. ASSUME NEW k \in 2..f.dc + 1
      PROVE  run[k].adrs = (run[k - 1].adrs + 2) % PlaneBytes
  <2>1. k - 1 \in 1..f.dc + 1 /\ k \in 1..f.dc + 1
    BY <1>1
  <2>2. w(k - 1) \in Int /\ w(k) = w(k - 1) + 2
    BY <1>1, <2>1
  <2> HIDE DEF w
  <2> QED BY <1>3, <2>1, <2>2, NextWord
<1> QED BY <1>3, <1>4

-----------------------------------------------------------------------------
(* RectSolid.  The sides of a rectangle, in the coordinates of its octant:  *)
(* the k-th dot is a steps along and b steps across.                        *)

At(o, p, a, b) == Plus(Plus(p, Along(o, a)), Across(o, b))

SideA(d, d2, k) == IF k <= d THEN k - 1 ELSE IF k <= d + d2 THEN d
                   ELSE IF k <= 2 * d + d2 THEN 2 * d + d2 - k + 1 ELSE 0
SideB(d, d2, k) == IF k <= d THEN 0 ELSE IF k <= d + d2 THEN k - d - 1
                   ELSE IF k <= 2 * d + d2 THEN d2 ELSE 2 * d + 2 * d2 - k + 1

LEMMA Directed ==
    ASSUME NEW o \in 0..7, NEW p \in Dot, NEW a \in Int, NEW b \in Int
    PROVE  /\ At(o, p, a, b) \in Dot
           /\ o = 0 => At(o, p, a, b) = <<p[1] + b, p[2] + a>>
           /\ o = 1 => At(o, p, a, b) = <<p[1] + a + b, p[2] + a - b>>
           /\ o = 2 => At(o, p, a, b) = <<p[1] + a, p[2] - b>>
           /\ o = 3 => At(o, p, a, b) = <<p[1] + a - b, p[2] - a - b>>
           /\ o = 4 => At(o, p, a, b) = <<p[1] - b, p[2] - a>>
           /\ o = 5 => At(o, p, a, b) = <<p[1] - a - b, p[2] - a + b>>
           /\ o = 6 => At(o, p, a, b) = <<p[1] - a, p[2] + b>>
           /\ o = 7 => At(o, p, a, b) = <<p[1] - a + b, p[2] + a + b>>
<1> DEFINE v == vectdir[o + 1]
<1>1. At(o, p, a, b) = <<p[1] + a * v[1] + b * v[3], p[2] + a * v[2] + b * v[4]>>
  BY DEF At, Plus, Along, Across
<1>2. /\ o = 0 => v = << 0,  1,  1,  0>>
      /\ o = 1 => v = << 1,  1,  1, -1>>
      /\ o = 2 => v = << 1,  0,  0, -1>>
      /\ o = 3 => v = << 1, -1, -1, -1>>
      /\ o = 4 => v = << 0, -1, -1,  0>>
      /\ o = 5 => v = <<-1, -1, -1,  1>>
      /\ o = 6 => v = <<-1,  0,  0,  1>>
      /\ o = 7 => v = <<-1,  1,  1,  1>>
  BY DEF vectdir
<1>3. /\ a * 0 = 0 /\ a * 1 = a /\ a * (-1) = -a /\ b * 0 = 0 /\ b * 1 = b /\ b * (-1) = -b
  OBVIOUS
<1>4. p[1] \in Int /\ p[2] \in Int
  BY DEF Dot
<1> HIDE DEF v
<1>5. /\ o = 0 => At(o, p, a, b) = <<p[1] + b, p[2] + a>>
      /\ o = 1 => At(o, p, a, b) = <<p[1] + a + b, p[2] + a - b>>
      /\ o = 2 => At(o, p, a, b) = <<p[1] + a, p[2] - b>>
      /\ o = 3 => At(o, p, a, b) = <<p[1] + a - b, p[2] - a - b>>
  BY <1>1, <1>2, <1>3, <1>4
<1>6. /\ o = 4 => At(o, p, a, b) = <<p[1] - b, p[2] - a>>
      /\ o = 5 => At(o, p, a, b) = <<p[1] - a - b, p[2] - a + b>>
      /\ o = 6 => At(o, p, a, b) = <<p[1] - a, p[2] + b>>
      /\ o = 7 => At(o, p, a, b) = <<p[1] - a + b, p[2] + a + b>>
  BY <1>1, <1>2, <1>3, <1>4
<1>7. At(o, p, a, b) \in Dot
  <2>1. o \in 0..15
    OBVIOUS
  <2> QED BY <2>1, AlongDot, PlusDot DEF At
<1> QED BY <1>5, <1>6, <1>7

LEMMA SameCut ==
    ASSUME NEW x \in Int, NEW y \in Int, x % 65536 = y % 65536, x - y < 65536, y - x < 65536
    PROVE  x = y
  OBVIOUS

\* Two different places of a rectangle are different dots, also when their
\* coordinates are cut to sixteen bits.
LEMMA PlacesApart ==
    ASSUME NEW o \in 0..7, NEW p \in Dot,
           NEW a \in Nat, NEW b \in Nat, NEW x \in Nat, NEW y \in Nat,
           a <= 16383, b <= 16383, x <= 16383, y <= 16383,
           Cut(At(o, p, a, b)) = Cut(At(o, p, x, y))
    PROVE  a = x /\ b = y
<1> DEFINE s == At(o, p, a, b)
           t == At(o, p, x, y)
<1>1. p[1] \in Int /\ p[2] \in Int
  BY DEF Dot
<1>2. s[1] % 65536 = t[1] % 65536 /\ s[2] % 65536 = t[2] % 65536
  BY DEF Cut
<1>3. /\ o = 0 => s = <<p[1] + b, p[2] + a>> /\ t = <<p[1] + y, p[2] + x>>
      /\ o = 1 => s = <<p[1] + a + b, p[2] + a - b>> /\ t = <<p[1] + x + y, p[2] + x - y>>
      /\ o = 2 => s = <<p[1] + a, p[2] - b>> /\ t = <<p[1] + x, p[2] - y>>
      /\ o = 3 => s = <<p[1] + a - b, p[2] - a - b>> /\ t = <<p[1] + x - y, p[2] - x - y>>
      /\ o = 4 => s = <<p[1] - b, p[2] - a>> /\ t = <<p[1] - y, p[2] - x>>
      /\ o = 5 => s = <<p[1] - a - b, p[2] - a + b>> /\ t = <<p[1] - x - y, p[2] - x + y>>
      /\ o = 6 => s = <<p[1] - a, p[2] + b>> /\ t = <<p[1] - x, p[2] + y>>
      /\ o = 7 => s = <<p[1] - a + b, p[2] + a + b>> /\ t = <<p[1] - x + y, p[2] + x + y>>
  BY Directed
<1> HIDE DEF s, t
<1>4. s[1] \in Int /\ t[1] \in Int /\ s[1] - t[1] < 65536 /\ t[1] - s[1] < 65536
  BY <1>1, <1>3
<1>5. s[2] \in Int /\ t[2] \in Int /\ s[2] - t[2] < 65536 /\ t[2] - s[2] < 65536
  BY <1>1, <1>3
<1>6. s[1] = t[1] /\ s[2] = t[2]
  BY <1>2, <1>4, <1>5, SameCut
<1> QED BY <1>1, <1>3, <1>6

LEMMA SidesApart ==
    ASSUME NEW d \in Nat, NEW d2 \in Nat, d > 0, d2 > 0,
           NEW k \in 1..2 * d + 2 * d2, NEW j \in 1..2 * d + 2 * d2,
           SideA(d, d2, k) = SideA(d, d2, j), SideB(d, d2, k) = SideB(d, d2, j)
    PROVE  k = j
  BY DEF SideA, SideB

LEMMA SideRange ==
    ASSUME NEW d \in Nat, NEW d2 \in Nat, d > 0, d2 > 0, NEW k \in 1..2 * d + 2 * d2
    PROVE  LET a == SideA(d, d2, k)  b == SideB(d, d2, k)
           IN  a \in 0..d /\ b \in 0..d2 /\ (a \in {0, d} \/ b \in {0, d2})
  BY DEF SideA, SideB

Visited(d, d2, a, b) ==
    \E k \in 1..2 * d + 2 * d2 : SideA(d, d2, k) = a /\ SideB(d, d2, k) = b

LEMMA SidesAll ==
    ASSUME NEW d \in Nat, NEW d2 \in Nat, d > 0, d2 > 0, NEW a \in 0..d, NEW b \in 0..d2,
           a \in {0, d} \/ b \in {0, d2}
    PROVE  Visited(d, d2, a, b)
<1>1. CASE b = 0 /\ a < d
  <2>1. a + 1 \in 1..2 * d + 2 * d2 /\ SideA(d, d2, a + 1) = a /\ SideB(d, d2, a + 1) = b
    BY <1>1 DEF SideA, SideB
  <2> QED BY <2>1 DEF Visited
<1>2. CASE a = d /\ b < d2
  <2> DEFINE k == d + b + 1
  <2>1. k \in 1..2 * d + 2 * d2 /\ SideA(d, d2, k) = a /\ SideB(d, d2, k) = b
    BY <1>2 DEF SideA, SideB
  <2> QED BY <2>1 DEF Visited
<1>3. CASE b = d2 /\ a > 0
  <2> DEFINE k == 2 * d + d2 - a + 1
  <2>1. k \in 1..2 * d + 2 * d2 /\ SideA(d, d2, k) = a /\ SideB(d, d2, k) = b
    BY <1>3 DEF SideA, SideB
  <2> QED BY <2>1 DEF Visited
<1>4. CASE a = 0 /\ b > 0
  <2> DEFINE k == 2 * d + 2 * d2 - b + 1
  <2>1. k \in 1..2 * d + 2 * d2 /\ SideA(d, d2, k) = a /\ SideB(d, d2, k) = b
    BY <1>4 DEF SideA, SideB
  <2> QED BY <2>1 DEF Visited
<1> QED BY <1>1, <1>2, <1>3, <1>4

Joined(r, s, t) ==
    /\ r \in Seq(Dot) /\ Len(r) = Len(s) + Len(t)
    /\ \A k \in 1..Len(s) : r[k] = s[k]
    /\ \A k \in Len(s) + 1..Len(s) + Len(t) : r[k] = t[k - Len(s)]

LEMMA Joining == \A s, t \in Seq(Dot) : Joined(s \o t, s, t)
  BY DEF Joined

Four(s, d, d2, s1, s2, s3, s4) ==
    /\ Len(s) = 2 * d + 2 * d2
    /\ \A k \in 1..2 * d + 2 * d2 :
          /\ k <= d => s[k] = s1[k]
          /\ k > d /\ k <= d + d2 => s[k] = s2[k - d]
          /\ k > d + d2 /\ k <= 2 * d + d2 => s[k] = s3[k - d - d2]
          /\ k > 2 * d + d2 => s[k] = s4[k - d - d2 - d]

LEMMA FourParts ==
    ASSUME NEW d \in Nat, NEW d2 \in Nat,
           NEW s1 \in Seq(Dot), NEW s2 \in Seq(Dot), NEW s3 \in Seq(Dot), NEW s4 \in Seq(Dot),
           Len(s1) = d, Len(s2) = d2, Len(s3) = d, Len(s4) = d2
    PROVE  Four(s1 \o s2 \o s3 \o s4, d, d2, s1, s2, s3, s4)
<1> DEFINE u == s1 \o s2
           v == u \o s3
<1>1. /\ u \in Seq(Dot) /\ Len(u) = d + d2
      /\ \A k \in 1..d : u[k] = s1[k]
      /\ \A k \in d + 1..d + d2 : u[k] = s2[k - d]
  <2>1. Joined(u, s1, s2)
    BY Joining
  <2> HIDE DEF u
  <2> QED BY <2>1 DEF Joined
<1> HIDE DEF u
<1>2. /\ v \in Seq(Dot) /\ Len(v) = 2 * d + d2
      /\ \A k \in 1..d + d2 : v[k] = u[k]
      /\ \A k \in d + d2 + 1..2 * d + d2 : v[k] = s3[k - (d + d2)]
  <2>1. Joined(v, u, s3)
    BY <1>1, Joining
  <2>2. d + d2 + d = 2 * d + d2
    OBVIOUS
  <2> HIDE DEF v
  <2> QED BY <1>1, <2>1, <2>2 DEF Joined
<1> HIDE DEF v
<1> DEFINE s == v \o s4
<1>3. /\ Len(s) = 2 * d + 2 * d2
      /\ \A k \in 1..2 * d + d2 : s[k] = v[k]
      /\ \A k \in 2 * d + d2 + 1..2 * d + 2 * d2 : s[k] = s4[k - (2 * d + d2)]
  <2>1. Joined(s, v, s4)
    BY <1>2, Joining
  <2>2. 2 * d + d2 + d2 = 2 * d + 2 * d2
    OBVIOUS
  <2> HIDE DEF s
  <2> QED BY <1>2, <2>1, <2>2 DEF Joined
<1>4. s = s1 \o s2 \o s3 \o s4
  BY DEF u, v
<1> HIDE DEF s
<1>5. ASSUME NEW k \in 1..2 * d + 2 * d2
      PROVE  /\ k <= d => s[k] = s1[k]
             /\ k > d /\ k <= d + d2 => s[k] = s2[k - d]
             /\ k > d + d2 /\ k <= 2 * d + d2 => s[k] = s3[k - d - d2]
             /\ k > 2 * d + d2 => s[k] = s4[k - d - d2 - d]
  <2>1. k - (d + d2) = k - d - d2 /\ k - (2 * d + d2) = k - d - d2 - d
    OBVIOUS
  <2>2. CASE k <= d
    <3>1. k \in 1..d /\ k \in 1..d + d2 /\ k \in 1..2 * d + d2
      BY <2>2
    <3>2. s[k] = s1[k]
      BY <1>1, <1>2, <1>3, <3>1, Zenon
    <3>3. ~(k > d) /\ ~(k > d + d2) /\ ~(k > 2 * d + d2)
      BY <2>2
    <3> QED BY <3>2, <3>3, Zenon
  <2>3. CASE k > d /\ k <= d + d2
    <3>1. k \in d + 1..d + d2 /\ k \in 1..d + d2 /\ k \in 1..2 * d + d2
      BY <2>3
    <3>2. s[k] = s2[k - d]
      BY <1>1, <1>2, <1>3, <3>1, Zenon
    <3>3. ~(k <= d) /\ ~(k > d + d2) /\ ~(k > 2 * d + d2)
      BY <2>3
    <3> QED BY <3>2, <3>3, Zenon
  <2>4. CASE k > d + d2 /\ k <= 2 * d + d2
    <3>1. k \in d + d2 + 1..2 * d + d2 /\ k \in 1..2 * d + d2
      BY <2>4
    <3>2. s[k] = s3[k - (d + d2)]
      BY <1>2, <1>3, <3>1, Zenon
    <3>3. s[k] = s3[k - d - d2]
      BY <2>1, <3>2, Zenon
    <3>4. ~(k <= d) /\ ~(k <= d + d2) /\ ~(k > 2 * d + d2)
      BY <2>4
    <3> QED BY <3>3, <3>4, Zenon
  <2>5. CASE k > 2 * d + d2
    <3>1. k \in 2 * d + d2 + 1..2 * d + 2 * d2
      BY <2>5
    <3>2. s[k] = s4[k - d - d2 - d]
      BY <1>3, <2>1, <3>1, Zenon
    <3>3. ~(k <= d) /\ ~(k <= d + d2) /\ ~(k <= 2 * d + d2)
      BY <2>5
    <3> QED BY <3>2, <3>3, Zenon
  <2>6. k <= d \/ (k > d /\ k <= d + d2) \/ (k > d + d2 /\ k <= 2 * d + d2) \/ k > 2 * d + d2
    OBVIOUS
  <2> QED BY <2>2, <2>3, <2>4, <2>5, <2>6, Zenon
<1>6. Four(s, d, d2, s1, s2, s3, s4)
  BY <1>3, <1>5, Zenon DEF Four
<1> QED BY <1>4, <1>6

\* vectr goes round the sides.
LEMMA RectPlaces ==
    ASSUME NEW f, IsFigure(f), NEW p \in Dot
    PROVE  LET d == Low14(f.d)  d2 == Low14(f.d2)  s == vectr(f, p) IN
           /\ Len(s) = 2 * d + 2 * d2
           /\ \A k \in 1..2 * d + 2 * d2 :
                 s[k] = At(f.dir, p, SideA(d, d2, k), SideB(d, d2, k))
<1> DEFINE d == Low14(f.d)
           d2 == Low14(f.d2)
           o == f.dir
           s1 == [k \in 1..d |-> Plus(p, Along(o, k - 1))]
           s2 == [k \in 1..d2 |-> Plus(Plus(p, Along(o, d)), Across(o, k - 1))]
           s3 == [k \in 1..d |-> Plus(Plus(p, Along(o, d - k + 1)), Across(o, d2))]
           s4 == [k \in 1..d2 |-> Plus(p, Across(o, d2 - k + 1))]
           s == vectr(f, p)
<1>1. f.d \in Int /\ f.d2 \in Int /\ o \in 0..7 /\ o \in 0..15
  BY FigureFields
<1>2. d \in Nat /\ d2 \in Nat
  BY <1>1, Low14Type
<1>3. s = s1 \o s2 \o s3 \o s4
  BY Zenon DEF vectr
<1> HIDE DEF d, d2, s, o
<1>4. /\ \A x \in Int : Along(o, x) \in Dot /\ Across(o, x) \in Dot
      /\ Along(o, 0) = <<0, 0>> /\ Across(o, 0) = <<0, 0>>
  <2>1. \A x \in -1..1 : 0 * x = 0
    OBVIOUS
  <2> QED BY <1>1, <2>1, AlongDot, Directions DEF Along, Across
<1>5. \A q \in Dot : Plus(q, <<0, 0>>) = q /\ Plus(q, <<0, 0>>) \in Dot
  BY DEF Plus, Dot
<1>6. \A x \in Int : At(o, p, x, 0) = Plus(p, Along(o, x)) /\ At(o, p, 0, x) = Plus(p, Across(o, x))
  BY <1>4, <1>5, PlusDot DEF At
<1>7. \A x, y \in Int : At(o, p, x, y) \in Dot
  BY <1>1, Directed
<1>8. /\ \A k \in 1..d : s1[k] = At(o, p, k - 1, 0)
      /\ \A k \in 1..d2 : s2[k] = At(o, p, d, k - 1)
      /\ \A k \in 1..d : s3[k] = At(o, p, d - k + 1, d2)
      /\ \A k \in 1..d2 : s4[k] = At(o, p, 0, d2 - k + 1)
  <2>1. \A k \in 1..d : s1[k] = At(o, p, k - 1, 0)
    BY <1>6
  <2>2. \A k \in 1..d2 : s4[k] = At(o, p, 0, d2 - k + 1)
    BY <1>2, <1>6
  <2> QED BY <2>1, <2>2 DEF At
<1>9. /\ s1 \in [1..d -> Dot] /\ s2 \in [1..d2 -> Dot] /\ s3 \in [1..d -> Dot]
      /\ s4 \in [1..d2 -> Dot]
  <2>1. /\ s1 = [k \in 1..d |-> s1[k]] /\ s2 = [k \in 1..d2 |-> s2[k]]
        /\ s3 = [k \in 1..d |-> s3[k]] /\ s4 = [k \in 1..d2 |-> s4[k]]
    OBVIOUS
  <2> HIDE DEF s1, s2, s3, s4
  <2>2. /\ \A k \in 1..d : s1[k] \in Dot /\ s3[k] \in Dot
        /\ \A k \in 1..d2 : s2[k] \in Dot /\ s4[k] \in Dot
    BY <1>2, <1>7, <1>8
  <2> QED BY <2>1, <2>2
<1> HIDE DEF s1, s2, s3, s4
<1>10. /\ s1 \in Seq(Dot) /\ s2 \in Seq(Dot) /\ s3 \in Seq(Dot) /\ s4 \in Seq(Dot)
       /\ Len(s1) = d /\ Len(s2) = d2 /\ Len(s3) = d /\ Len(s4) = d2
  BY <1>2, <1>9, DotSeq
<1>11. /\ Len(s) = 2 * d + 2 * d2
       /\ \A k \in 1..2 * d + 2 * d2 :
             /\ k <= d => s[k] = s1[k]
             /\ k > d /\ k <= d + d2 => s[k] = s2[k - d]
             /\ k > d + d2 /\ k <= 2 * d + d2 => s[k] = s3[k - d - d2]
             /\ k > 2 * d + d2 => s[k] = s4[k - d - d2 - d]
  <2>1. Four(s, d, d2, s1, s2, s3, s4)
    BY <1>2, <1>3, <1>10, FourParts
  <2> QED BY <2>1, Zenon DEF Four
<1>12. ASSUME NEW k \in 1..2 * d + 2 * d2
       PROVE  s[k] = At(o, p, SideA(d, d2, k), SideB(d, d2, k))
  <2>1. CASE k <= d
    <3>1. k \in 1..d /\ s[k] = s1[k]
      BY <1>11, <2>1
    <3> QED BY <1>2, <1>8, <2>1, <3>1 DEF SideA, SideB
  <2>2. CASE k > d /\ k <= d + d2
    <3>1. k - d \in 1..d2 /\ s[k] = s2[k - d]
      BY <1>2, <1>11, <2>2
    <3>2. SideA(d, d2, k) = d /\ SideB(d, d2, k) = (k - d) - 1
      BY <1>2, <2>2 DEF SideA, SideB
    <3> QED BY <1>8, <3>1, <3>2
  <2>3. CASE k > d + d2 /\ k <= 2 * d + d2
    <3>1. k - d - d2 \in 1..d /\ s[k] = s3[k - d - d2]
      BY <1>2, <1>11, <2>3
    <3>2. SideA(d, d2, k) = d - (k - d - d2) + 1 /\ SideB(d, d2, k) = d2
      BY <1>2, <2>3 DEF SideA, SideB
    <3> QED BY <1>8, <3>1, <3>2
  <2>4. CASE k > 2 * d + d2
    <3>1. k - d - d2 - d \in 1..d2 /\ s[k] = s4[k - d - d2 - d]
      BY <1>2, <1>11, <2>4
    <3>2. SideA(d, d2, k) = 0 /\ SideB(d, d2, k) = d2 - (k - d - d2 - d) + 1
      BY <1>2, <2>4 DEF SideA, SideB
    <3> QED BY <1>8, <3>1, <3>2
  <2> QED BY <1>2, <2>1, <2>2, <2>3, <2>4
<1> QED BY <1>11, <1>12 DEF d, d2, o, s

\* In complement mode with a full pattern, dots that are all different leave
\* every unclipped one of them lit.
Seen(s, k) == {Cut(s[j]) : j \in {m \in 1..k : ~Clipped(Cut(s[m]))}}

LEMMA PictureSeen ==
    ASSUME NEW f, f.mode = 1, f.textw = 0..PatBits - 1, NEW s \in Seq(Dot),
           \A k, j \in 1..Len(s) : Cut(s[k]) = Cut(s[j]) => k = j
    PROVE  Picture(f, s) = Seen(s, Len(s))
<1> DEFINE n == Len(s)
           c(k) == Cut(s[k])
           T == SUBSET {c(k) : k \in 1..n}
           New(k, old) == IF Clipped(c(k)) THEN old
                          ELSE IF Lit(f.mode, On(f, k), c(k) \in old) THEN old \cup {c(k)}
                          ELSE old \ {c(k)}
           z == {}
           F == [k \in 1..n |-> [old \in T |-> New(k, old)]]
<1>1. n \in Nat
  OBVIOUS
<1>2. \A k \in 1..n : On(f, k)
  <2> SUFFICES ASSUME NEW k \in 1..n PROVE (k - 1) % PatBits \in 0..PatBits - 1
    BY DEF On
  <2>1. k - 1 \in Int /\ PatBits \in Nat \ {0}
    BY WidthAssumption
  <2> QED BY <2>1
<1>3. \A k \in 1..n : \A old : c(k) \notin old => New(k, old) = IF Clipped(c(k)) THEN old
                                                              ELSE old \cup {c(k)}
  <2> SUFFICES ASSUME NEW k \in 1..n, NEW old, c(k) \notin old
               PROVE  New(k, old) = IF Clipped(c(k)) THEN old ELSE old \cup {c(k)}
    OBVIOUS
  <2>1. On(f, k)
    BY <1>2
  <2>2. Lit(f.mode, On(f, k), c(k) \in old) <=> (On(f, k) # (c(k) \in old))
    BY DEF Lit
  <2>3. Lit(f.mode, On(f, k), c(k) \in old)
    BY <2>1, <2>2
  <2> QED BY <2>3
<1>4. F \in [1..n -> [T -> T]] /\ z \in T
  <2>1. ASSUME NEW k \in 1..n, NEW old \in T PROVE New(k, old) \in T
    <3>1. New(k, old) \in {old, old \cup {c(k)}, old \ {c(k)}}
      OBVIOUS
    <3> HIDE DEF New
    <3> QED BY <3>1
  <2> HIDE DEF New
  <2>2. F \in [1..n -> [T -> T]]
    <3> HIDE DEF T
    <3> QED BY <2>1
  <2> QED BY <2>2
<1>5. HasRun(n, T, z, F)
  <2> HIDE DEF F, z, T, n
  <2> QED BY <1>1, <1>4, RunExists
<1>6. PICK h \in [0..n -> T] : h[0] = z /\ \A k \in 1..n : h[k] = F[k][h[k - 1]]
  <2> HIDE DEF F, z, T, n
  <2> QED BY <1>5 DEF HasRun
<1>7. \A k \in 1..n : h[k] = New(k, h[k - 1])
  <2> SUFFICES ASSUME NEW k \in 1..n PROVE h[k] = New(k, h[k - 1])
    OBVIOUS
  <2>1. h[k - 1] \in T
    BY <1>1
  <2> HIDE DEF New, T
  <2> QED BY <1>6, <2>1
<1> DEFINE Is(e) == e = [k \in 0..n |->
                           IF k = 0 THEN {}
                           ELSE LET old == e[k - 1]  p == Cut(s[k])
                                IN  IF Clipped(p) THEN old
                                    ELSE IF Lit(f.mode, On(f, k), p \in old) THEN old \cup {p}
                                    ELSE old \ {p}]
           lit == CHOOSE e : Is(e)
<1>8. ASSUME NEW e
      PROVE  Is(e) <=> e = [k \in 0..n |-> IF k = 0 THEN {} ELSE New(k, e[k - 1])]
  BY Zenon
<1>9. Is(h)
  <2>1. h = [k \in 0..n |-> h[k]]
    BY <1>6
  <2> HIDE DEF New
  <2>2. \A k \in 0..n : h[k] = IF k = 0 THEN {} ELSE New(k, h[k - 1])
    <3>1. \A k \in 0..n : k = 0 \/ k \in 1..n
      BY <1>1
    <3> HIDE DEF n
    <3> QED BY <1>6, <1>7, <3>1, Zenon
  <2> HIDE DEF n, Is
  <2> QED BY <1>8, <2>1, <2>2
<1>10. Is(lit)
  <2> HIDE DEF Is
  <2> QED BY <1>9, Zenon
<1>11. Picture(f, s) = lit[n]
  BY Zenon DEF Picture
<1> HIDE DEF lit
<1>12. lit[0] = {} /\ \A k \in 1..n : lit[k] = New(k, lit[k - 1])
  <2> HIDE DEF New, Is
  <2>1. \A k \in 0..n : lit[k] = IF k = 0 THEN {} ELSE New(k, lit[k - 1])
    BY <1>8, <1>10
  <2> QED BY <1>1, <2>1
<1> HIDE DEF New, Is, F, T, z
<1> DEFINE S == {k \in 0..n : lit[k] = Seen(s, k)}
<1>13. 0 \in S
  BY <1>1, <1>12 DEF Seen
<1>14. ASSUME NEW k \in 1..n, k - 1 \in S PROVE k \in S
  <2>1. lit[k - 1] = Seen(s, k - 1) /\ k \in 0..n
    BY <1>1, <1>14
  <2>2. c(k) \notin Seen(s, k - 1)
    <3>1. \A j \in 1..k - 1 : j \in 1..n /\ j # k
      BY <1>1
    <3>2. \A j \in 1..k - 1 : Cut(s[j]) # Cut(s[k])
      BY <3>1
    <3> QED BY <3>2 DEF Seen
  <2>3. lit[k] = IF Clipped(c(k)) THEN Seen(s, k - 1) ELSE Seen(s, k - 1) \cup {c(k)}
    BY <1>3, <1>12, <2>1, <2>2
  <2>4. \A m : m \in 1..k <=> m \in 1..k - 1 \/ m = k
    BY <1>1
  <2>5. Seen(s, k) = IF Clipped(c(k)) THEN Seen(s, k - 1) ELSE Seen(s, k - 1) \cup {c(k)}
    BY <2>4 DEF Seen
  <2> QED BY <2>1, <2>3, <2>5
<1>15. n \in S
  <2>1. n \in 0..n /\ \A k \in 1..n : k - 1 \in S => k \in S
    BY <1>1, <1>14
  <2> HIDE DEF S, n
  <2> QED BY <1>1, <1>13, <2>1, Climb
<1> QED BY <1>11, <1>15

LEMMA RectHolds == Figured => RectSolid
<1> DEFINE f == pic.g
           p == pset_prepare(f)
           d == Low14(f.d)
           d2 == Low14(f.d2)
           o == f.dir
           n == 2 * d + 2 * d2
           A(k) == SideA(d, d2, k)
           B(k) == SideB(d, d2, k)
<1> SUFFICES ASSUME Figured, f.ope = {"rect"}, pic.op = "VECTE", d > 0, d2 > 0, f.mode = 1,
                    f.textw = 0..PatBits - 1
             PROVE  Picture(f, path) = {q \in {Cut(r) : r \in Outline(f)} : ~Clipped(q)}
  BY DEF RectSolid
<1>1. IsFigure(f)
  BY DEF Figured
<1>2. /\ p \in Dot /\ o \in 0..7 /\ d \in Nat /\ d2 \in Nat /\ d <= 16383 /\ d2 <= 16383
  <2>1. p \in Dot
    BY <1>1, StartDot
  <2>2. o \in 0..7 /\ f.d \in Int /\ f.d2 \in Int
    BY <1>1, FigureFields
  <2>3. d \in Nat /\ d2 \in Nat /\ d <= 16383 /\ d2 <= 16383
    <3> DEFINE u == f.d
               v == f.d2
    <3>1. u \in Int /\ v \in Int
      BY <2>2
    <3> HIDE DEF u, v
    <3>2. Low14(u) \in Nat /\ Low14(u) <= 16383 /\ Low14(v) \in Nat /\ Low14(v) <= 16383
      BY <3>1, Low14Type
    <3> QED BY <3>2 DEF u, v
  <2> QED BY <2>1, <2>2, <2>3
<1>3. path = vectr(f, p) /\ path \in Seq(Dot)
  <2>1. path = vectr(f, p)
    BY <1>1, OneFigure DEF path
  <2> HIDE DEF p, f
  <2> QED BY <1>1, <1>2, <2>1, RectDots
<1>4. Len(path) = n /\ \A k \in 1..n : path[k] = At(o, p, A(k), B(k))
  <2> HIDE DEF p, f
  <2>1. /\ Len(vectr(f, p)) = 2 * Low14(f.d) + 2 * Low14(f.d2)
        /\ \A k \in 1..2 * Low14(f.d) + 2 * Low14(f.d2) :
              vectr(f, p)[k] = At(f.dir, p, SideA(Low14(f.d), Low14(f.d2), k),
                                  SideB(Low14(f.d), Low14(f.d2), k))
    BY <1>1, <1>2, RectPlaces
  <2> QED BY <1>3, <2>1
<1>5. Outline(f) = {At(o, p, a, b) : a \in 0..d, b \in {0, d2}}
                   \cup {At(o, p, a, b) : a \in {0, d}, b \in 0..d2}
  BY DEF Outline, At
<1> HIDE DEF d, d2, o, p, f
<1>6. ASSUME NEW k \in 1..n
      PROVE  /\ A(k) \in 0..d /\ B(k) \in 0..d2 /\ (A(k) \in {0, d} \/ B(k) \in {0, d2})
             /\ A(k) \in Nat /\ B(k) \in Nat /\ A(k) <= 16383 /\ B(k) <= 16383
  <2>1. A(k) \in 0..d /\ B(k) \in 0..d2 /\ (A(k) \in {0, d} \/ B(k) \in {0, d2})
    BY <1>2, SideRange
  <2> HIDE DEF A, B
  <2> QED BY <1>2, <2>1
<1>7. ASSUME NEW k \in 1..n, NEW j \in 1..n, Cut(path[k]) = Cut(path[j]) PROVE k = j
  <2>1. Cut(At(o, p, A(k), B(k))) = Cut(At(o, p, A(j), B(j)))
    BY <1>4, <1>7
  <2>2. A(k) = A(j) /\ B(k) = B(j)
    <3>1. /\ A(k) \in Nat /\ B(k) \in Nat /\ A(k) <= 16383 /\ B(k) <= 16383
          /\ A(j) \in Nat /\ B(j) \in Nat /\ A(j) <= 16383 /\ B(j) <= 16383
      BY <1>6
    <3> HIDE DEF A, B
    <3> QED BY <1>2, <2>1, <3>1, PlacesApart, SMTT(30)
  <2>3. SideA(d, d2, k) = SideA(d, d2, j) /\ SideB(d, d2, k) = SideB(d, d2, j)
    BY <2>2
  <2> QED BY <1>2, <2>3, SidesApart, SMTT(30)
<1>8. Picture(f, path) = Seen(path, n)
  <2>1. \A k, j \in 1..Len(path) : Cut(path[k]) = Cut(path[j]) => k = j
    BY <1>4, <1>7
  <2> HIDE DEF n
  <2> QED BY <1>3, <1>4, <2>1, PictureSeen
<1>9. ASSUME NEW k \in 1..n PROVE path[k] \in Outline(f)
  <2> HIDE DEF A, B
  <2> QED BY <1>4, <1>5, <1>6
<1>10. ASSUME NEW r \in Outline(f) PROVE \E k \in 1..n : path[k] = r
  <2>1. PICK a \in 0..d, b \in 0..d2 : r = At(o, p, a, b) /\ (a \in {0, d} \/ b \in {0, d2})
    <3>1. 0 \in 0..d /\ d \in 0..d /\ 0 \in 0..d2 /\ d2 \in 0..d2
      BY <1>2
    <3>2. CASE r \in {At(o, p, a, b) : a \in 0..d, b \in {0, d2}}
      BY <3>1, <3>2
    <3>3. CASE r \in {At(o, p, a, b) : a \in {0, d}, b \in 0..d2}
      BY <3>1, <3>3
    <3> QED BY <1>5, <3>2, <3>3
  <2>2. Visited(d, d2, a, b)
    BY <1>2, <2>1, SidesAll, SMTT(30)
  <2>3. PICK k \in 1..n : A(k) = a /\ B(k) = b
    BY <2>2 DEF Visited
  <2> QED BY <1>4, <2>1, <2>3
<1>11. Seen(path, n) = {q \in {Cut(r) : r \in Outline(f)} : ~Clipped(q)}
  <2> DEFINE R == {q \in {Cut(r) : r \in Outline(f)} : ~Clipped(q)}
  <2> HIDE DEF n
  <2>1. ASSUME NEW q \in Seen(path, n) PROVE q \in R
    <3>1. PICK k \in 1..n : q = Cut(path[k]) /\ ~Clipped(q)
      BY <2>1 DEF Seen
    <3> QED BY <1>9, <3>1
  <2>2. ASSUME NEW q \in R PROVE q \in Seen(path, n)
    <3>1. PICK r \in Outline(f) : q = Cut(r) /\ ~Clipped(q)
      BY <2>2
    <3>2. PICK k \in 1..n : path[k] = r
      BY <1>10
    <3> QED BY <3>1, <3>2 DEF Seen
  <2> QED BY <2>1, <2>2
<1> QED BY <1>8, <1>11

\* For any figures: a line's dots are the nearest to the ideal line (udiv32's
\* quotient, rounded, in every octant), a rectangle in complement mode has no
\* holes (vectr visits no dot twice, in sixteen-bit coordinates), and a WDAT
\* run has the length its counter says, wraps within the plane and leaves
\* the bits outside mask and lane alone.
THEOREM FiguresRight == Spec => []FigureRight
<1>1. Init => Figured
  BY FiguredInit
<1>2. Figured /\ [Next]_vars => Figured'
  BY FiguredStep
<1>3. Figured => FigureRight
  BY LineHolds, RectHolds, RunHolds DEF FigureRight
<1> QED BY <1>1, <1>2, <1>3, PTL DEF Spec
=============================================================================
