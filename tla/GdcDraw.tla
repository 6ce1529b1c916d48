------------------------------ MODULE GdcDraw -------------------------------
(***************************************************************************)
(* The drawing engine of firmware/gdc_service.c as operators: what each    *)
(* figure touches.  A dot is a pair <<x, y>>, a figure the sequence of     *)
(* dots in drawing order; patterns, masks and data words are sets of bit   *)
(* numbers.  What the charger of the graphics memory makes of a write is   *)
(* the hardware's.                                                         *)
(*                                                                         *)
(* A figure's parameters are the fields of struct gdc_snap: ope is its     *)
(* figure bits, dir its octant, sl its slant bit; csrw is split into plane *)
(* word and dot.                                                           *)
(***************************************************************************)
EXTENDS Integers, Sequences

CONSTANTS DivBits,    \* width of udiv32's loop (32)
          Counts,     \* how many values WDAT's run counter has (2^16)
          PatBits,    \* width of the TEXTW pattern (16)
          MaxCells    \* the most columns or rows of a pattern (768)

ASSUME WidthAssumption ==
    /\ DivBits \in Nat /\ DivBits >= 30
    /\ Counts \in Nat \ {0} /\ PatBits \in Nat \ {0} /\ MaxCells \in Nat \ {0}

\* Counts and distances are 14 bits wide.
Low14(n) == n % 2^14

\* 1u << i.
Bit[i \in 0..DivBits - 1] == IF i = 0 THEN 1 ELSE 2 * Bit[i - 1]

\* The restoring long division: quotient and remainder, 0 for a divisor 0.
\* step[k] is after k rounds, the k-th of which looks at bit DivBits - k.
DivRound(s, bit, n, d) ==
    LET r == 2 * s.r + ((n \div bit) % 2)
    IN  IF r >= d THEN [q |-> s.q + bit, r |-> r - d] ELSE [q |-> s.q, r |-> r]

udiv32(n, d) ==
    LET step[k \in 0..DivBits] ==
            IF k = 0 THEN [q |-> 0, r |-> 0]
            ELSE DivRound(step[k - 1], Bit[DivBits - k], n, d)
    IN  IF d = 0 THEN [q |-> 0, r |-> 0] ELSE step[DivBits]

\* The step along a figure and the step to its next row, per octant; 8 to 15
\* are the slanted ones of TEXTE.
vectdir == <<<< 0,  1,  1,  0>>, << 1,  1,  1, -1>>, << 1,  0,  0, -1>>,
             << 1, -1, -1, -1>>, << 0, -1, -1,  0>>, <<-1, -1, -1,  1>>,
             <<-1,  0,  0,  1>>, <<-1,  1,  1,  1>>,
             << 0,  1,  1,  1>>, << 1,  1,  1,  0>>, << 1,  0,  1, -1>>,
             << 1, -1,  0, -1>>, << 0, -1, -1, -1>>, <<-1, -1, -1,  0>>,
             <<-1,  0, -1,  1>>, <<-1,  1,  0,  1>>>>

Along(o, n)  == <<n * vectdir[o + 1][1], n * vectdir[o + 1][2]>>
Across(o, n) == <<n * vectdir[o + 1][3], n * vectdir[o + 1][4]>>
Plus(p, v)   == <<p[1] + v[1], p[2] + v[2]>>

\* major steps along the octant's main axis, minor across it.
Octant(o, major, minor) ==
    CASE o = 0 -> << minor,  major>> [] o = 1 -> << major,  minor>>
      [] o = 2 -> << major, -minor>> [] o = 3 -> << minor, -major>>
      [] o = 4 -> <<-minor, -major>> [] o = 5 -> <<-major, -minor>>
      [] o = 6 -> <<-major,  minor>> [] o = 7 -> <<-minor,  major>>

\* Forty words a line; the dot address is within the word.
pset_prepare(g) ==
    LET y == udiv32(g.word, 40) IN <<y.r * 16 + g.dot, y.q>>

-----------------------------------------------------------------------------
(* The figures, from their starting dot p.                                  *)

\* (mutant) The minor coordinate is cut off instead of rounded.
Minor_cut(d1, i, dc) == udiv32(d1 * i, dc).q \div 2

Minor(d1, i, dc) == (udiv32(d1 * i, dc).q + 1) \div 2

vectl(g, p) ==
    LET dc == Low14(g.dc) IN
    IF dc = 0 THEN <<p>>
    ELSE [k \in 1..dc + 1 |-> Plus(p, Octant(g.dir, k - 1, Minor(g.d1, k - 1, dc)))]

\* The dots of a zoomed pattern block of given rows and columns: lit says for
\* each row and column whether the cell is drawn.
Block(p, o, rows, cols, mul, lit) ==
    LET wide == cols * mul
        dot(k) == Plus(Plus(p, Across(o, k \div wide)), Along(o, k % wide))
        dots[k \in 0..rows * wide] ==
            IF k = 0 THEN <<>>
            ELSE LET before == dots[k - 1]
                 IN  IF lit[(k - 1) \div wide, ((k - 1) % wide) \div mul]
                     THEN Append(before, dot(k - 1)) ELSE before
    IN  dots[rows * wide]

Clamp(n) == IF n >= MaxCells THEN MaxCells ELSE n
Columns(g) == Clamp(Low14(g.d - 1) + 1)

\* One pattern row, zoomed; the pattern runs on from row to row, backwards
\* with the slant bit.
vectt(g, p) ==
    LET sx == Columns(g)
        bit(n) == IF g.sl THEN PatBits - 1 - (n % PatBits) ELSE n % PatBits
    IN  Block(p, g.dir, g.zoom + 1, sx, g.zoom + 1,
              [r \in 0..g.zoom, c \in 0..sx - 1 |-> bit(r * sx + c) \in g.textw])

\* vectt leaves the drawing position at the row after its last.
AfterT(g, p) == Plus(p, Across(g.dir, g.zoom + 1))

\* The radius in Q15 steps: one Newton step from b on the root of a * b.
Arc(i, m, r) ==
    LET a == udiv32(i * 32768, m).q
        b == udiv32(i * 23170, m).q
        s == IF b = 0 THEN 0 ELSE (b + udiv32(a * b, b).q) \div 2
    IN  (s * r + 16384) \div 32768

vectc(g, p) ==
    LET r == Low14(g.d)
        m == udiv32(r * 10000 + 14141, 14142).q
        i0 == Low14(g.dm)
        t == IF Low14(g.dc) > m THEN m ELSE Low14(g.dc)
    IN  IF m = 0 THEN <<p>>
        ELSE [k \in 1..(IF i0 > t THEN 0 ELSE t - i0 + 1) |->
                LET i == i0 + k - 1 IN Plus(p, Octant(g.dir, i, Arc(i, m, r)))]

\* The four sides, each without its last corner.
vectr(g, p) ==
    LET d == Low14(g.d)  d2 == Low14(g.d2)
        a(n) == Along(g.dir, n)  b(n) == Across(g.dir, n)
    IN  [k \in 1..d |-> Plus(p, a(k - 1))]
        \o [k \in 1..d2 |-> Plus(Plus(p, a(d)), b(k - 1))]
        \o [k \in 1..d |-> Plus(Plus(p, a(d - k + 1)), b(d2))]
        \o [k \in 1..d2 |-> Plus(p, b(d2 - k + 1))]

\* TEXTE repeats the two TEXTW bytes upwards; a byte's bits run along a row.
gdc_text(g, p) ==
    LET sx == Columns(g)
        sy == Clamp(Low14(g.dc) + 1)
        rows == sy * (g.zoom + 1)
        half == PatBits \div 2
    IN  Block(p, g.dir + (IF g.sl THEN 8 ELSE 0), rows, sx, g.zoom + 1,
              [r \in 0..rows - 1, c \in 0..sx - 1 |->
                  ((r + 1) % 2) * half + (c % half) \in g.textw])

\* VECTE and TEXTE: every figure bit that is set draws, a point if none is.
Path(g, op) ==
    LET p == pset_prepare(g)
        q == IF "text" \in g.ope THEN AfterT(g, p) ELSE p
        when(c, s) == IF c THEN s ELSE <<>>
    IN  when(g.ope = {}, <<p>>)
        \o when("line" \in g.ope, vectl(g, p))
        \o when("text" \in g.ope, vectt(g, p))
        \o when("circle" \in g.ope, vectc(g, q))
        \o when("rect" \in g.ope, vectr(g, q))
        \o when(op = "TEXTE", gdc_text(g, q))

-----------------------------------------------------------------------------
(* pset_at: the pattern turns by one bit for every dot, drawn or clipped.   *)

\* The coordinates are cut to sixteen bits.
Cut(p) == <<p[1] % 65536, p[2] % 65536>>

\* (mutant) Row 409 is taken for a whole row.
Clipped_wide(p) == Cut(p)[2] > 409 \/ Cut(p)[1] >= 640

Clipped(p) ==
    LET x == Cut(p)[1]
        y == Cut(p)[2]
    IN  y > 409 \/ IF y = 409 THEN x >= 384 ELSE x >= 640

ByteOf(p) == Cut(p)[2] * 80 + Cut(p)[1] \div 8

Armed(accel) == accel \cap {"grcg", "egc"} # {}

\* The bytes of its plane one dot writes: an armed charger sees only the on
\* dots, as one byte in GRCG-RMW mode and as the aligned word otherwise.
pset_at(p, on, accel) ==
    LET b == ByteOf(p) IN
    IF Clipped(p) THEN {}
    ELSE IF ~Armed(accel) THEN {b}
    ELSE IF ~on THEN {}
    ELSE IF "rmw" \in accel /\ "egc" \notin accel THEN {b}
    ELSE {b - (b % 2), b - (b % 2) + 1}

\* The pattern bit of the k-th dot.
On(g, k) == (k - 1) % PatBits \in g.textw

\* A dot without a charger: replace, complement, clear, set.
Lit(mode, on, old) ==
    CASE mode = 0 -> on
      [] mode = 1 -> on # old
      [] mode = 2 -> old /\ ~on
      [] mode = 3 -> old \/ on

\* The dots that are lit when a path has been drawn on dark ground.
Picture(g, path) ==
    LET lit[k \in 0..Len(path)] ==
            IF k = 0 THEN {}
            ELSE LET old == lit[k - 1]  p == Cut(path[k])
                 IN  IF Clipped(p) THEN old
                     ELSE IF Lit(g.mode, On(g, k), p \in old) THEN old \cup {p}
                     ELSE old \ {p}
    IN  lit[Len(path)]

-----------------------------------------------------------------------------
(* gdc_wdat: a run of words, each merged with the masked data.              *)

PlaneBytes == 32768
Lane(width) == CASE width = "word" -> 0..15 [] width = "low" -> 0..7
                 [] width = "high" -> 8..15 [] width = "none" -> {}

\* The counter is incremented in its width and tested after the first word:
\* a count of all ones runs through the whole range.
RunLength(dc) ==
    LET n == (dc + 1) % Counts IN IF n = 0 THEN Counts ELSE n

Merge(mode, v, mask, data) ==
    CASE mode = 0 -> (v \ mask) \cup data
      [] mode = 1 -> (v \ data) \cup (data \ v)
      [] mode = 2 -> v \cap data
      [] mode = 3 -> v \cup data

\* The byte addresses of the words, and what a word that held v holds then.
gdc_wdat(g, v) ==
    LET mask == g.mask \cap Lane(g.width)
        code == IF g.width = "high" THEN {b + 8 : b \in g.code \cap 0..7} ELSE g.code
        data == code \cap mask
    IN  IF g.width = "none" THEN <<>>
        ELSE [k \in 1..RunLength(g.dc) |->
                [adrs |-> (g.word * 2 + 2 * (k - 1)) % PlaneBytes,
                 word |-> Merge(g.mode, v, mask, data)]]
=============================================================================
