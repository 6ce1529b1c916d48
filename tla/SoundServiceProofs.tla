------------------------- MODULE SoundServiceProofs -------------------------
(* The sound loaders.  The streaming encoder makes of a file what the       *)
(* packer makes of it, however it is cut into chunks: its state is always a *)
(* state of one reference run over the packer's targets, and the bytes it   *)
(* has handed over are that run's.  So the pages of every drum and every    *)
(* mechanism sample hold its file, in its own half of the store; no call    *)
(* stays in its flush; and the drive noise gives every channel back as the  *)
(* guest had it.                                                            *)
EXTENDS SoundService, TLAPS, WellFoundedInduction, SequenceTheorems, FiniteSetTheorems

-----------------------------------------------------------------------------
(* Recursion over an interval.  A recursive function is a CHOOSE: it has    *)
(* the value its definition says once some function does.                   *)

LEMMA LeastElement ==
    ASSUME NEW S \in SUBSET Nat, S # {}
    PROVE  \E m \in S : \A n \in S : m <= n
<1>1. PICK m \in S : \A n \in S : ~(<<n, m>> \in OpToRel(<, Nat))
  BY NatLessThanWellFounded, WFMin
<1>2. \A n \in S : ~(n < m)
  BY <1>1 DEF OpToRel
<1> QED BY <1>2

\* There is a sequence of states that starts with z and goes on by F.
HasRun(N, T, z, F) ==
    \E f \in [0..N -> T] : f[0] = z /\ \A k \in 1..N : f[k] = F[k][f[k - 1]]

LEMMA RunExists ==
    ASSUME NEW N \in Nat, NEW T, NEW z \in T, NEW F \in [1..N -> [T -> T]]
    PROVE  HasRun(N, T, z, F)
<1> DEFINE Up(m, f) == f[0] = z /\ \A k \in 1..m : f[k] = F[k][f[k - 1]]
           Has(m) == \E f \in [0..N -> T] : Up(m, f)
           Bad == {m \in Nat : m <= N /\ ~Has(m)}
<1> HIDE DEF Has
<1>1. CASE Bad = {}
  <2>1. N <= N
    OBVIOUS
  <2>2. Has(N)
    BY <1>1, <2>1
  <2> QED BY <2>2 DEF Has, HasRun
<1>2. CASE Bad # {}
  <2>1. PICK m \in Bad : \A n \in Bad : m <= n
    BY <1>2, LeastElement
  <2>2. m # 0
    <3>1. [k \in 0..N |-> z] \in [0..N -> T] /\ Up(0, [k \in 0..N |-> z])
      OBVIOUS
    <3> QED BY <2>1, <3>1 DEF Has
  <2>3. m - 1 \in Nat /\ m - 1 <= N /\ ~(m <= m - 1)
    BY <2>1, <2>2
  <2>4. PICK f \in [0..N -> T] : Up(m - 1, f)
    <3>1. m - 1 \notin Bad
      BY <2>1, <2>3
    <3> QED BY <2>3, <3>1 DEF Has
  <2> DEFINE h == [k \in 0..N |-> IF k = m THEN F[m][f[m - 1]] ELSE f[k]]
  <2>5. m \in 1..N /\ f[m - 1] \in T
    BY <2>1, <2>2
  <2>6. F[m][f[m - 1]] \in T
    BY <2>5
  <2>7. h \in [0..N -> T]
    BY <2>6
  <2>8. h[0] = z
    BY <2>2, <2>4
  <2>9. \A k \in 1..m : h[k] = F[k][h[k - 1]]
    <3> SUFFICES ASSUME NEW k \in 1..m PROVE h[k] = F[k][h[k - 1]]
      OBVIOUS
    <3>1. h[k - 1] = f[k - 1] /\ k \in 0..N
      BY <2>5
    <3>2. CASE k = m
      BY <3>1, <3>2
    <3>3. CASE k # m
      <4>1. k \in 1..m - 1 /\ h[k] = f[k]
        BY <3>1, <3>3, <2>5
      <4> QED BY <2>4, <3>1, <4>1
    <3> QED BY <3>2, <3>3
  <2> QED BY <2>1, <2>7, <2>8, <2>9 DEF Has
<1> QED BY <1>1, <1>2

\* A set that holds 0 and goes up one by one holds the interval.
LEMMA Climb ==
    ASSUME NEW N \in Nat, NEW S, 0 \in S, \A k \in 1..N : k - 1 \in S => k \in S
    PROVE  \A k \in 0..N : k \in S
<1> DEFINE Bad == {m \in Nat : m <= N /\ m \notin S}
<1> SUFFICES ASSUME Bad # {} PROVE FALSE
  OBVIOUS
<1>1. PICK m \in Bad : \A n \in Bad : m <= n
  BY LeastElement
<1>2. m \in 1..N /\ m - 1 \in Nat /\ m - 1 \notin Bad
  BY <1>1
<1> QED BY <1>1, <1>2

\* A set that holds the first state and is closed under the steps holds all.
LEMMA RunStays ==
    ASSUME NEW N \in Nat, NEW f, NEW T, f[0] \in T,
           \A k \in 1..N : f[k - 1] \in T => f[k] \in T
    PROVE  \A k \in 0..N : f[k] \in T
<1> DEFINE S == {k \in 0..N : f[k] \in T}
<1>1. 0 \in S /\ \A k \in 1..N : k - 1 \in S => k \in S
  OBVIOUS
<1>2. \A k \in 0..N : k \in S
  <2> HIDE DEF S
  <2> QED BY <1>1, Climb
<1> QED BY <1>2

LEMMA HalfType == Half \in Nat /\ HalfPages \in Nat \ {0} /\ PageBytes \in Nat \ {0}
  BY SoundAssumption, EncoderAssumption DEF Half

-----------------------------------------------------------------------------
(* The encoder.                                                             *)

\* An encoder under way: it has a rate.
Enc == [ratio : Nat \ {0}, pos : Nat, idx : Nat, prev : Int, cur : Int, primed : BOOLEAN,
        x : Int, step : 0..MaxStep, bytes : Nat, half : Int, out : Seq(Int)]

LEMMA SetEnc ==
    ASSUME NEW e \in Enc
    PROVE  /\ \A v \in Nat : [e EXCEPT !.pos = v] \in Enc
           /\ \A v \in Nat : [e EXCEPT !.idx = v] \in Enc
           /\ \A v \in Nat : [e EXCEPT !.bytes = v] \in Enc
           /\ \A v \in Int : [e EXCEPT !.half = v] \in Enc
           /\ \A v \in Int : [e EXCEPT !.prev = v] \in Enc
           /\ \A v \in Int : [e EXCEPT !.cur = v] \in Enc
           /\ \A v \in Int : [e EXCEPT !.x = v] \in Enc
           /\ \A v \in 0..MaxStep : [e EXCEPT !.step = v] \in Enc
           /\ \A v \in Seq(Int) : [e EXCEPT !.out = v] \in Enc
           /\ [e EXCEPT !.primed = TRUE] \in Enc
  BY DEF Enc

LEMMA RatioType == \A rate \in Nat \ {0} : Ratio(rate) \in Nat \ {0}
<1> SUFFICES ASSUME NEW rate \in Nat \ {0} PROVE Ratio(rate) \in Nat \ {0}
  OBVIOUS
<1> DEFINE t == rate * 432
           q == t \div 62500
           r == t % 62500
<1>1. t \in Nat /\ t >= 432
  OBVIOUS
<1> HIDE DEF t
<1>2. q \in Nat /\ r \in Nat /\ t = 62500 * q + r
  BY <1>1
<1> HIDE DEF q, r
<1>3. (r * 512) \div 62500 \in Nat
  BY <1>2
<1>4. q >= 1 \/ r >= 432
  BY <1>1, <1>2
<1>5. r >= 432 => (r * 512) \div 62500 >= 1
  BY <1>2
<1>6. q * 512 + ((r * 512) \div 62500) \in Nat \ {0}
  <2> DEFINE y == (r * 512) \div 62500
  <2>1. y \in Nat /\ (q >= 1 \/ y >= 1)
    BY <1>3, <1>4, <1>5
  <2> HIDE DEF y
  <2> QED BY <1>2, <2>1 DEF y
<1> QED BY <1>6 DEF Ratio, q, r, t

LEMMA NewEncoder == ASSUME NEW rate \in Nat \ {0} PROVE adpcm_enc_init(rate) \in Enc
<1>1. Ratio(rate) \in Nat \ {0}
  BY RatioType
<1>2. 0 \in 0..MaxStep /\ <<>> \in Seq(Int)
  BY EncoderAssumption
<1> QED BY <1>1, <1>2 DEF adpcm_enc_init, Enc

LEMMA NextType ==
    ASSUME NEW x \in Int, NEW step \in 0..MaxStep, NEW nib \in 0..15
    PROVE  Next4(x, step, nib) \in Int
<1>1. \A m \in 0..7 : Inc[step][m] \in Nat
  BY EncoderAssumption
<1>2. CASE nib >= 8
  BY <1>1, <1>2 DEF Next4
<1>3. CASE ~(nib >= 8)
  BY <1>1, <1>3 DEF Next4
<1> QED BY <1>2, <1>3

\* Some nibble comes closest: the sixteen are ranked by error, then by order.
LEMMA PickType ==
    ASSUME NEW x \in Int, NEW step \in 0..MaxStep, NEW target \in Int
    PROVE  Pick(x, step, target) \in 0..15
<1> DEFINE err(nib) == LET d == Next4(x, step, nib) - target IN IF d < 0 THEN -d ELSE d
           rank(nib) == 2 * (nib % 8) + nib \div 8
           key(nib) == 16 * err(nib) + rank(nib)
           S == {key(nib) : nib \in 0..15}
<1>1. \A nib \in 0..15 : err(nib) \in Nat
  <2> SUFFICES ASSUME NEW nib \in 0..15 PROVE err(nib) \in Nat
    OBVIOUS
  <2>1. Next4(x, step, nib) \in Int
    BY NextType
  <2> QED BY <2>1
<1>2. \A nib \in 0..15 : rank(nib) \in 0..15
  OBVIOUS
<1> HIDE DEF err, rank
<1>3. S \in SUBSET Nat /\ S # {}
  BY <1>1, <1>2
<1>4. PICK m \in S : \A n \in S : m <= n
  BY <1>3, LeastElement
<1>5. PICK nib \in 0..15 : m = key(nib)
  OBVIOUS
<1>6. \A o \in 0..15 : key(nib) <= key(o)
  BY <1>4, <1>5
<1>7. \A o \in 0..15 : err(nib) < err(o) \/ (err(nib) = err(o) /\ rank(nib) <= rank(o))
  <2> SUFFICES ASSUME NEW o \in 0..15
               PROVE  err(nib) < err(o) \/ (err(nib) = err(o) /\ rank(nib) <= rank(o))
    OBVIOUS
  <2> DEFINE a == err(nib)
             b == err(o)
             c == rank(nib)
             d == rank(o)
  <2>1. a \in Nat /\ b \in Nat /\ c \in 0..15 /\ d \in 0..15
    BY <1>1, <1>2
  <2>2. 16 * a + c <= 16 * b + d
    BY <1>6
  <2> HIDE DEF a, b, c, d
  <2>3. a < b \/ (a = b /\ c <= d)
    BY <2>1, <2>2
  <2> QED BY <2>3 DEF a, b, c, d
<1>8. \E n \in 0..15 : \A o \in 0..15 :
          err(n) < err(o) \/ (err(n) = err(o) /\ rank(n) <= rank(o))
  BY <1>7
<1> DEFINE best == CHOOSE n \in 0..15 : \A o \in 0..15 :
          err(n) < err(o) \/ (err(n) = err(o) /\ rank(n) <= rank(o))
<1>9. best \in 0..15
  BY <1>8
<1> HIDE DEF best
<1> QED BY <1>9, Zenon DEF Pick, best, err, rank

LEMMA ClipType ==
    ASSUME NEW v \in Int, NEW low \in Int, NEW high \in Int, low <= high
    PROVE  Clip(v, low, high) \in Int /\ low <= Clip(v, low, high) /\ Clip(v, low, high) <= high
  BY DEF Clip

LEMMA NibbleStep ==
    ASSUME NEW e \in Enc, NEW target \in Int
    PROVE  emit_nibble(e, target) \in Enc
<1> DEFINE best == Pick(e.x, e.step, target)
           x == Next4(e.x, e.step, best)
           step == Clip(e.step + STEP_ADAPT[(best % 8) + 1], 0, MaxStep)
           f == [[e EXCEPT !.x = x] EXCEPT !.step = step]
<1>1. e.x \in Int /\ e.step \in 0..MaxStep /\ e.half \in Int /\ e.bytes \in Nat /\ e.out \in Seq(Int)
  BY DEF Enc
<1>2. best \in 0..15
  BY <1>1, PickType
<1> HIDE DEF best
<1>3. x \in Int
  BY <1>1, <1>2, NextType
<1>4. step \in 0..MaxStep
  <2> DEFINE m == best % 8
             a == STEP_ADAPT[m + 1]
  <2>1. m \in 0..7
    BY <1>2
  <2> HIDE DEF m
  <2>2. a \in Int
    BY <2>1 DEF STEP_ADAPT
  <2> HIDE DEF a
  <2>3. MaxStep \in Nat
    BY EncoderAssumption
  <2>4. Clip(e.step + a, 0, MaxStep) \in 0..MaxStep
    BY <1>1, <2>2, <2>3 DEF Clip
  <2> QED BY <2>4 DEF a, m
<1> HIDE DEF x, step
<1>5. f \in Enc
  BY <1>3, <1>4 DEF Enc
<1>6. emit_nibble(e, target) = IF e.half < 0 THEN [f EXCEPT !.half = best]
                               ELSE [[[f EXCEPT !.half = -1] EXCEPT !.bytes = e.bytes + 1]
                                        EXCEPT !.out = Append(e.out, 16 * e.half + best)]
  BY DEF emit_nibble, Emitted, x, step, best
<1> HIDE DEF f
<1>7. [f EXCEPT !.half = best] \in Enc
  <2>1. best \in Int
    BY <1>2
  <2> QED BY <1>5, <2>1, SetEnc
<1> DEFINE g == [f EXCEPT !.half = -1]
           h == [g EXCEPT !.bytes = e.bytes + 1]
           o == Append(e.out, 16 * e.half + best)
<1>8. e.bytes + 1 \in Nat /\ o \in Seq(Int)
  BY <1>1, <1>2
<1> HIDE DEF o
<1>9. [h EXCEPT !.out = o] \in Enc
  <2>1. g \in Enc
    <3>1. -1 \in Int
      OBVIOUS
    <3> QED BY <1>5, <3>1, SetEnc
  <2> HIDE DEF g
  <2>2. h \in Enc
    BY <1>8, <2>1, SetEnc
  <2> HIDE DEF h
  <2> QED BY <1>8, <2>2, SetEnc
<1>10. emit_nibble(e, target) = IF e.half < 0 THEN [f EXCEPT !.half = best]
                                ELSE [h EXCEPT !.out = o]
  BY <1>6 DEF o
<1> QED BY <1>7, <1>9, <1>10

LEMMA SampleStep ==
    ASSUME NEW e \in Enc, NEW flat
    PROVE  emit_sample(e, flat) \in Enc
<1> DEFINE p == e.pos % One
           v == IF flat THEN e.cur ELSE e.prev + ((e.cur - e.prev) * p) \div One
           w == v \div 16
           t == Clip(w, -2048, 2047)
           f == emit_nibble(e, t)
<1>1. e.prev \in Int /\ e.cur \in Int /\ e.pos \in Nat /\ e.ratio \in Nat
  BY DEF Enc
<1>2. p \in Int
  BY <1>1 DEF One
<1> HIDE DEF p
<1>3. v \in Int
  <2>1. (e.cur - e.prev) * p \in Int
    BY <1>1, <1>2
  <2> QED BY <1>1, <2>1 DEF One
<1> HIDE DEF v
<1>4. w \in Int
  BY <1>3
<1> HIDE DEF w
<1>5. t \in Int
  BY <1>4 DEF Clip
<1> HIDE DEF t
<1>6. f \in Enc
  BY <1>5, NibbleStep
<1> HIDE DEF f
<1>7. [f EXCEPT !.pos = (e.pos + e.ratio) % PosSize] \in Enc
  <2> DEFINE q == e.pos + e.ratio
  <2>1. q \in Nat
    BY <1>1
  <2> HIDE DEF q
  <2>2. q % PosSize \in Nat
    BY <2>1, EncoderAssumption
  <2> QED BY <1>6, <2>2, SetEnc DEF q
<1> QED BY <1>7 DEF emit_sample, f, t, w, v, p

LEMMA CountType ==
    ASSUME NEW pos \in Nat, NEW ratio \in Nat \ {0}, NEW limit \in Nat
    PROVE  Positions(pos, ratio, limit) \in Nat
<1> DEFINE m == limit - pos + ratio - 1
<1>1. CASE pos >= limit
  BY <1>1 DEF Positions
<1>2. CASE ~(pos >= limit)
  <2>1. m \in Nat
    BY <1>2
  <2> HIDE DEF m
  <2>2. m \div ratio \in Nat
    BY <2>1
  <2> QED BY <1>2, <2>2 DEF Positions, m
<1> QED BY <1>1, <1>2

\* The encoders a run of samples goes through.
SampleRun(e, n, flat, s) ==
    /\ s[0] = e /\ Samples(e, n, flat) = s[n] /\ \A k \in 0..n : s[k] \in Enc
    /\ \A k \in 1..n : s[k] = emit_sample(s[k - 1], flat)

LEMMA SamplesRun ==
    ASSUME NEW e \in Enc, NEW n \in Nat, NEW flat
    PROVE  \E s : SampleRun(e, n, flat, s)
<1> DEFINE F == [k \in 1..n |-> [t \in Enc |-> emit_sample(t, flat)]]
<1>1. F \in [1..n -> [Enc -> Enc]]
  BY SampleStep
<1>2. HasRun(n, Enc, e, F)
  <2> HIDE DEF F
  <2> QED BY <1>1, RunExists
<1>3. PICK f \in [0..n -> Enc] : f[0] = e /\ \A k \in 1..n : f[k] = F[k][f[k - 1]]
  BY <1>2 DEF HasRun
<1>4. \A k \in 1..n : f[k] = emit_sample(f[k - 1], flat)
  <2> SUFFICES ASSUME NEW k \in 1..n PROVE f[k] = emit_sample(f[k - 1], flat)
    OBVIOUS
  <2>1. f[k - 1] \in Enc
    OBVIOUS
  <2> QED BY <1>3, <2>1
<1> DEFINE Is(h) == h = [k \in 0..n |-> IF k = 0 THEN e
                                        ELSE LET b == h[k - 1] IN emit_sample(b, flat)]
           s == CHOOSE h : Is(h)
<1>5. Is(f)
  <2>1. f = [k \in 0..n |-> f[k]]
    BY <1>3
  <2>2. \A k \in 0..n : f[k] = IF k = 0 THEN e ELSE emit_sample(f[k - 1], flat)
    <3>1. \A k \in 0..n : k = 0 \/ k \in 1..n
      OBVIOUS
    <3> QED BY <1>3, <1>4, <3>1, Zenon
  <2> QED BY <2>1, <2>2
<1>6. Is(s)
  <2> HIDE DEF Is
  <2> QED BY <1>5, Zenon
<1>7. Samples(e, n, flat) = s[n]
  BY Zenon DEF Samples
<1> HIDE DEF s
<1>8. \A k \in 0..n : s[k] = IF k = 0 THEN e ELSE emit_sample(s[k - 1], flat)
  BY <1>6
<1>9. s[0] \in Enc /\ \A k \in 1..n : s[k - 1] \in Enc => s[k] \in Enc
  BY <1>8, SampleStep
<1>10. \A k \in 0..n : s[k] \in Enc
  BY <1>9, RunStays
<1>11. s[0] = e /\ \A k \in 1..n : s[k] = emit_sample(s[k - 1], flat)
  BY <1>8
<1> QED BY <1>7, <1>10, <1>11 DEF SampleRun

LEMMA SamplesType ==
    ASSUME NEW e \in Enc, NEW n \in Nat, NEW flat
    PROVE  Samples(e, n, flat) \in Enc
<1>1. PICK s : SampleRun(e, n, flat, s)
  BY SamplesRun
<1> QED BY <1>1 DEF SampleRun

\* How many nibbles an encoder has made, how many fill its page, and the
\* encoders the padding goes through.
Count(e) == 2 * e.bytes + (IF e.half < 0 THEN 0 ELSE 1)
Missing(c) == (-c) % (2 * PageBytes)
PadRun(e, s) ==
    LET n == Missing(Count(e))
    IN  /\ n \in Nat /\ s[0] = e /\ Padded(e) = s[n] /\ \A k \in 0..n : s[k] \in Enc
        /\ \A k \in 1..n : s[k] = emit_nibble(s[k - 1], 0)

LEMMA PaddedRun == ASSUME NEW e \in Enc PROVE \E s : PadRun(e, s)
<1> DEFINE n == (-(2 * e.bytes + (IF e.half < 0 THEN 0 ELSE 1))) % (2 * PageBytes)
           F == [k \in 1..n |-> [t \in Enc |-> emit_nibble(t, 0)]]
<1>1. n \in Nat
  <2> DEFINE m == -(2 * e.bytes + (IF e.half < 0 THEN 0 ELSE 1))
             q == 2 * PageBytes
  <2>1. e.bytes \in Nat
    BY DEF Enc
  <2>2. m \in Int
    <3> DEFINE h == IF e.half < 0 THEN 0 ELSE 1
    <3>1. h \in Nat
      OBVIOUS
    <3> HIDE DEF h
    <3>2. -(2 * e.bytes + h) \in Int
      BY <2>1, <3>1
    <3> QED BY <3>2 DEF h
  <2>3. q \in Nat \ {0}
    BY EncoderAssumption
  <2> HIDE DEF m, q
  <2>4. m % q \in Nat
    BY <2>2, <2>3
  <2> QED BY <2>4 DEF m, q
<1> HIDE DEF n
<1>2. F \in [1..n -> [Enc -> Enc]]
  BY NibbleStep
<1>3. HasRun(n, Enc, e, F)
  <2> HIDE DEF F
  <2> QED BY <1>1, <1>2, RunExists
<1>4. PICK f \in [0..n -> Enc] : f[0] = e /\ \A k \in 1..n : f[k] = F[k][f[k - 1]]
  BY <1>3 DEF HasRun
<1>5. \A k \in 1..n : f[k] = emit_nibble(f[k - 1], 0)
  <2> SUFFICES ASSUME NEW k \in 1..n PROVE f[k] = emit_nibble(f[k - 1], 0)
    OBVIOUS
  <2>1. f[k - 1] \in Enc
    BY <1>1
  <2> QED BY <1>4, <2>1
<1> DEFINE Is(h) == h = [k \in 0..n |-> IF k = 0 THEN e
                                        ELSE LET b == h[k - 1] IN emit_nibble(b, 0)]
           s == CHOOSE h : Is(h)
<1>6. Is(f)
  <2>1. f = [k \in 0..n |-> f[k]]
    BY <1>4
  <2>2. \A k \in 0..n : f[k] = IF k = 0 THEN e ELSE emit_nibble(f[k - 1], 0)
    <3>1. \A k \in 0..n : k = 0 \/ k \in 1..n
      BY <1>1
    <3> QED BY <1>4, <1>5, <3>1, Zenon
  <2> QED BY <2>1, <2>2
<1>7. Is(s)
  <2> HIDE DEF Is
  <2> QED BY <1>6, Zenon
<1>8. Padded(e) = s[n]
  BY Zenon DEF Padded, n
<1> HIDE DEF s
<1>9. \A k \in 0..n : s[k] = IF k = 0 THEN e ELSE emit_nibble(s[k - 1], 0)
  BY <1>7
<1>10. s[0] \in Enc /\ \A k \in 1..n : s[k - 1] \in Enc => s[k] \in Enc
  BY <1>1, <1>9, NibbleStep
<1>11. \A k \in 0..n : s[k] \in Enc
  BY <1>1, <1>10, RunStays
<1>12. s[0] = e /\ \A k \in 1..n : s[k] = emit_nibble(s[k - 1], 0)
  BY <1>1, <1>9
<1>13. n = Missing(Count(e))
  BY DEF n, Missing, Count
<1> QED BY <1>1, <1>8, <1>11, <1>12, <1>13, Zenon DEF PadRun

LEMMA PaddedType == ASSUME NEW e \in Enc PROVE Padded(e) \in Enc
<1>1. PICK s : PadRun(e, s)
  BY PaddedRun
<1>2. Missing(Count(e)) \in 0..Missing(Count(e))
  BY <1>1 DEF PadRun
<1> QED BY <1>1, <1>2, Zenon DEF PadRun

LEMMA PushOneType ==
    ASSUME NEW e \in Enc, NEW v \in Int
    PROVE  adpcm_enc_push(e, v) \in Enc
<1> DEFINE a == [e EXCEPT !.out = <<>>]
           b == [a EXCEPT !.prev = e.cur]
           c == [b EXCEPT !.cur = v]
           d == [c EXCEPT !.primed = TRUE]
           i == IF e.primed THEN e.idx + 1 ELSE e.idx
           f == [d EXCEPT !.idx = i]
<1>1. e.cur \in Int /\ i \in Nat /\ <<>> \in Seq(Int)
  BY DEF Enc
<1> HIDE DEF i
<1>2. f \in Enc
  <2>1. a \in Enc
    BY <1>1, SetEnc
  <2> HIDE DEF a
  <2>2. b \in Enc
    BY <1>1, <2>1, SetEnc
  <2> HIDE DEF b
  <2>3. c \in Enc
    BY <2>2, SetEnc
  <2> HIDE DEF c
  <2>4. d \in Enc
    BY <2>3, SetEnc
  <2> HIDE DEF d
  <2> QED BY <1>1, <2>4, SetEnc
<1>3. adpcm_enc_push(e, v) = IF e.primed /\ f.pos \div One = f.idx - 1
                             THEN Samples(f, Positions(f.pos, f.ratio, f.idx * One), FALSE)
                             ELSE f
  BY DEF adpcm_enc_push, i
<1> HIDE DEF f
<1>4. Positions(f.pos, f.ratio, f.idx * One) \in Nat
  <2>1. f.pos \in Nat /\ f.ratio \in Nat \ {0} /\ f.idx \in Nat
    BY <1>2 DEF Enc
  <2>2. f.idx * One \in Nat
    BY <2>1 DEF One
  <2> QED BY <2>1, <2>2, CountType
<1>5. Samples(f, Positions(f.pos, f.ratio, f.idx * One), FALSE) \in Enc
  BY <1>2, <1>4, SamplesType
<1> QED BY <1>2, <1>3, <1>5

\* A tail that ends has a first position past the last sample.
LEMMA TailEnds ==
    ASSUME NEW e, Ends(e)
    PROVE  TailCount(e) \in Nat /\ Past(e, TailCount(e))
           /\ \A m \in 0..TailCount(e) - 1 : ~Past(e, m)
<1> DEFINE S == {n \in 0..PosSize : Past(e, n)}
           First(n) == Past(e, n) /\ \A m \in 0..n - 1 : ~Past(e, m)
<1>1. PosSize \in Nat /\ S \in SUBSET Nat
  BY EncoderAssumption
<1>a. S # {}
  BY DEF Ends
<1>2. PICK n \in S : \A m \in S : n <= m
  BY <1>1, <1>a, LeastElement
<1>3. n \in 0..PosSize /\ First(n)
  BY <1>1, <1>2
<1>4. TailCount(e) = CHOOSE k \in 0..PosSize : First(k)
  BY Zenon DEF TailCount
<1>5. TailCount(e) \in 0..PosSize /\ First(TailCount(e))
  <2> HIDE DEF First
  <2> QED BY <1>3, <1>4
<1> QED BY <1>5

LEMMA FlushType == ASSUME NEW e \in Enc, Ends(e) PROVE Flush(e) \in Enc
<1> DEFINE f == [e EXCEPT !.out = <<>>]
           n == TailCount(e)
<1>1. f \in Enc
  <2>1. <<>> \in Seq(Int)
    OBVIOUS
  <2> QED BY <2>1, SetEnc
<1>2. Flush(e) = Padded(Samples(f, n, TRUE))
  BY DEF Flush
<1> HIDE DEF f
<1>3. n \in Nat
  BY TailEnds
<1> HIDE DEF n
<1>4. Samples(f, n, TRUE) \in Enc
  BY <1>1, <1>3, SamplesType
<1> QED BY <1>2, <1>4, PaddedType

\* One push of a run: what it produces goes behind what there is.
PushOn(f, v) == LET h == adpcm_enc_push(f, v) IN [h EXCEPT !.out = f.out \o h.out]

LEMMA PushOnType == ASSUME NEW e \in Enc, NEW v \in Int PROVE PushOn(e, v) \in Enc
<1> DEFINE h == adpcm_enc_push(e, v)
<1>1. h \in Enc
  BY PushOneType
<1> HIDE DEF h
<1>2. e.out \o h.out \in Seq(Int)
  BY <1>1 DEF Enc
<1>3. [h EXCEPT !.out = e.out \o h.out] \in Enc
  BY <1>1, <1>2, SetEnc
<1> QED BY <1>3 DEF PushOn, h

\* The encoders a run of pushes goes through.
PushRun(e, samples, s) ==
    /\ s[0] = [e EXCEPT !.out = <<>>] /\ Push(e, samples) = s[Len(samples)]
    /\ \A k \in 0..Len(samples) : s[k] \in Enc
    /\ \A k \in 1..Len(samples) : s[k] = PushOn(s[k - 1], samples[k])

LEMMA PushesRun ==
    ASSUME NEW e \in Enc, NEW samples \in Seq(Int)
    PROVE  \E s : PushRun(e, samples, s)
<1> DEFINE n == Len(samples)
           z == [e EXCEPT !.out = <<>>]
           F == [k \in 1..n |-> [t \in Enc |-> PushOn(t, samples[k])]]
<1>1. n \in Nat /\ \A k \in 1..n : samples[k] \in Int
  OBVIOUS
<1> HIDE DEF n
<1>2. z \in Enc
  <2>1. <<>> \in Seq(Int)
    OBVIOUS
  <2> QED BY <2>1, SetEnc
<1> HIDE DEF z
<1>3. F \in [1..n -> [Enc -> Enc]]
  BY <1>1, PushOnType
<1>4. HasRun(n, Enc, z, F)
  <2> HIDE DEF F
  <2> QED BY <1>1, <1>2, <1>3, RunExists
<1>5. PICK f \in [0..n -> Enc] : f[0] = z /\ \A k \in 1..n : f[k] = F[k][f[k - 1]]
  BY <1>4 DEF HasRun
<1>6. \A k \in 1..n : f[k] = PushOn(f[k - 1], samples[k])
  <2> SUFFICES ASSUME NEW k \in 1..n PROVE f[k] = PushOn(f[k - 1], samples[k])
    OBVIOUS
  <2>1. f[k - 1] \in Enc
    BY <1>1
  <2> QED BY <1>5, <2>1
<1> DEFINE Is(h) == h = [k \in 0..n |-> IF k = 0 THEN z ELSE PushOn(h[k - 1], samples[k])]
           s == CHOOSE h : Is(h)
<1>7. Is(f)
  <2>1. f = [k \in 0..n |-> f[k]]
    BY <1>5
  <2>2. \A k \in 0..n : f[k] = IF k = 0 THEN z ELSE PushOn(f[k - 1], samples[k])
    <3>1. \A k \in 0..n : k = 0 \/ k \in 1..n
      BY <1>1
    <3> QED BY <1>5, <1>6, <3>1, Zenon
  <2> QED BY <2>1, <2>2
<1>8. Is(s)
  <2> HIDE DEF Is
  <2> QED BY <1>7, Zenon
<1>9. Push(e, samples) = s[n]
  BY Zenon DEF Push, PushOn, n, z
<1> HIDE DEF s
<1>10. \A k \in 0..n : s[k] = IF k = 0 THEN z ELSE PushOn(s[k - 1], samples[k])
  BY <1>8
<1>11. s[0] \in Enc /\ \A k \in 1..n : s[k - 1] \in Enc => s[k] \in Enc
  <2>1. s[0] \in Enc
    BY <1>1, <1>2, <1>10
  <2>2. ASSUME NEW k \in 1..n, s[k - 1] \in Enc PROVE s[k] \in Enc
    <3>1. s[k] = PushOn(s[k - 1], samples[k])
      BY <1>1, <1>10
    <3>2. samples[k] \in Int
      BY <1>1
    <3> QED BY <2>2, <3>1, <3>2, PushOnType
  <2> QED BY <2>1, <2>2
<1>12. \A k \in 0..n : s[k] \in Enc
  BY <1>1, <1>11, RunStays, Zenon
<1>13. s[0] = z /\ \A k \in 1..n : s[k] = PushOn(s[k - 1], samples[k])
  BY <1>1, <1>10
<1> QED BY <1>9, <1>12, <1>13, Zenon DEF PushRun, n, z

LEMMA PushType ==
    ASSUME NEW e \in Enc, NEW samples \in Seq(Int)
    PROVE  Push(e, samples) \in Enc
<1>1. PICK s : PushRun(e, samples, s)
  BY PushesRun
<1>2. Len(samples) \in 0..Len(samples)
  OBVIOUS
<1> QED BY <1>1, <1>2, Zenon DEF PushRun

\* What a loader's pass gets from the encoder is a sequence.
LEMMA FeedType ==
    ASSUME NEW e \in Enc, NEW chunk \in Seq(Int), NEW last
    PROVE  Feed(e, chunk, last) \in Enc
<1> DEFINE f == Push(e, chunk)
           z == [f EXCEPT !.out = <<>>]
           g == IF Ends(f) THEN Flush(f) ELSE Samples(z, 2 * Half, TRUE)
<1>1. f \in Enc
  BY PushType
<1>2. g \in Enc
  <2> HIDE DEF f
  <2>1. CASE Ends(f)
    BY <1>1, <2>1, FlushType
  <2>2. CASE ~Ends(f)
    <3>1. <<>> \in Seq(Int) /\ 2 * Half \in Nat
      BY HalfType
    <3>2. z \in Enc
      BY <1>1, <3>1, SetEnc
    <3> QED BY <2>2, <3>1, <3>2, SamplesType
  <2> QED BY <2>1, <2>2
<1>3. Feed(e, chunk, last) = IF last THEN [g EXCEPT !.out = f.out \o g.out] ELSE f
  BY DEF Feed, Flushed, Stuck
<1> HIDE DEF f, g
<1>4. f.out \o g.out \in Seq(Int)
  BY <1>1, <1>2 DEF Enc
<1>5. [g EXCEPT !.out = f.out \o g.out] \in Enc
  BY <1>2, <1>4, SetEnc
<1> QED BY <1>1, <1>3, <1>5

-----------------------------------------------------------------------------
(* What is streamed is what the packer makes of the whole file.             *)

\* The packer's run over its targets: accumulator, step and nibbles.
RunState == [x : Int, step : 0..MaxStep, nib : Seq(Int)]
Advance(r, t) ==
    LET b == Pick(r.x, r.step, t)
    IN  [x |-> Next4(r.x, r.step, b),
         step |-> Clip(r.step + STEP_ADAPT[(b % 8) + 1], 0, MaxStep),
         nib |-> Append(r.nib, b)]
EncRun(G) ==
    LET run[k \in 0..Len(G)] ==
            IF k = 0 THEN [x |-> 0, step |-> 0, nib |-> <<>>]
            ELSE LET r == run[k - 1]
                     b == Pick(r.x, r.step, G[k])
                 IN  [x |-> Next4(r.x, r.step, b),
                      step |-> Clip(r.step + STEP_ADAPT[(b % 8) + 1], 0, MaxStep),
                      nib |-> Append(r.nib, b)]
    IN  run
RunX(G, k) == EncRun(G)[k].x
RunStep(G, k) == EncRun(G)[k].step
Nib(G, k) == Encode(G)[k]
Byte(G, i) == 16 * Nib(G, 2 * i - 1) + Nib(G, 2 * i)

LEMMA AdaptType ==
    ASSUME NEW step \in 0..MaxStep, NEW b \in 0..15
    PROVE  Clip(step + STEP_ADAPT[(b % 8) + 1], 0, MaxStep) \in 0..MaxStep
<1> DEFINE m == b % 8
           a == STEP_ADAPT[m + 1]
<1>1. m \in 0..7
  OBVIOUS
<1> HIDE DEF m
<1>2. a \in Int
  BY <1>1 DEF STEP_ADAPT
<1> HIDE DEF a
<1>3. MaxStep \in Nat
  BY EncoderAssumption
<1>4. Clip(step + a, 0, MaxStep) \in 0..MaxStep
  BY <1>2, <1>3 DEF Clip
<1> QED BY <1>4 DEF a, m

LEMMA AdvanceType ==
    ASSUME NEW r \in RunState, NEW t \in Int
    PROVE  Advance(r, t) \in RunState
<1> DEFINE b == Pick(r.x, r.step, t)
           x == Next4(r.x, r.step, b)
           step == Clip(r.step + STEP_ADAPT[(b % 8) + 1], 0, MaxStep)
<1>1. r.x \in Int /\ r.step \in 0..MaxStep /\ r.nib \in Seq(Int)
  BY DEF RunState
<1>2. b \in 0..15
  BY <1>1, PickType
<1>3. Advance(r, t) = [x |-> x, step |-> step, nib |-> Append(r.nib, b)]
  BY DEF Advance
<1> HIDE DEF b
<1>4. x \in Int /\ step \in 0..MaxStep
  BY <1>1, <1>2, NextType, AdaptType
<1> HIDE DEF x, step
<1>5. Append(r.nib, b) \in Seq(Int)
  BY <1>1, <1>2
<1> QED BY <1>3, <1>4, <1>5 DEF RunState

LEMMA EncRunRec ==
    ASSUME NEW G \in Seq(Int)
    PROVE  /\ EncRun(G)[0] = [x |-> 0, step |-> 0, nib |-> <<>>]
           /\ \A k \in 1..Len(G) : EncRun(G)[k] = Advance(EncRun(G)[k - 1], G[k])
           /\ \A k \in 0..Len(G) : EncRun(G)[k] \in RunState
           /\ Encode(G) = EncRun(G)[Len(G)].nib
<1> DEFINE n == Len(G)
           z == [x |-> 0, step |-> 0, nib |-> <<>>]
           F == [k \in 1..n |-> [t \in RunState |-> Advance(t, G[k])]]
<1>1. n \in Nat /\ \A k \in 1..n : G[k] \in Int
  OBVIOUS
<1> HIDE DEF n
<1>2. z \in RunState
  BY EncoderAssumption DEF RunState
<1> HIDE DEF z
<1>3. F \in [1..n -> [RunState -> RunState]]
  BY <1>1, AdvanceType
<1>4. HasRun(n, RunState, z, F)
  <2> HIDE DEF F
  <2> QED BY <1>1, <1>2, <1>3, RunExists
<1>5. PICK f \in [0..n -> RunState] : f[0] = z /\ \A k \in 1..n : f[k] = F[k][f[k - 1]]
  BY <1>4 DEF HasRun
<1>6. \A k \in 1..n : f[k] = Advance(f[k - 1], G[k])
  <2> SUFFICES ASSUME NEW k \in 1..n PROVE f[k] = Advance(f[k - 1], G[k])
    OBVIOUS
  <2>1. f[k - 1] \in RunState
    BY <1>1
  <2> QED BY <1>5, <2>1
<1> DEFINE Is(h) == h = [k \in 0..n |-> IF k = 0 THEN z ELSE Advance(h[k - 1], G[k])]
           s == CHOOSE h : Is(h)
<1>7. Is(f)
  <2>1. f = [k \in 0..n |-> f[k]]
    BY <1>5
  <2>2. \A k \in 0..n : f[k] = IF k = 0 THEN z ELSE Advance(f[k - 1], G[k])
    <3>1. \A k \in 0..n : k = 0 \/ k \in 1..n
      BY <1>1
    <3> QED BY <1>5, <1>6, <3>1, Zenon
  <2> QED BY <2>1, <2>2
<1>8. Is(s)
  <2> HIDE DEF Is
  <2> QED BY <1>7, Zenon
<1>9. EncRun(G) = s
  BY Zenon DEF EncRun, Advance, n, z
<1>10. Encode(G) = s[n].nib
  BY Zenon DEF Encode, Advance, n, z
<1> HIDE DEF s
<1>11. \A k \in 0..n : s[k] = IF k = 0 THEN z ELSE Advance(s[k - 1], G[k])
  BY <1>8
<1>12. s[0] = z /\ \A k \in 1..n : s[k] = Advance(s[k - 1], G[k])
  BY <1>1, <1>11
<1>13. s[0] \in RunState /\ \A k \in 1..n : s[k - 1] \in RunState => s[k] \in RunState
  <2>1. s[0] \in RunState
    BY <1>2, <1>12
  <2>2. ASSUME NEW k \in 1..n, s[k - 1] \in RunState PROVE s[k] \in RunState
    <3>1. s[k] = Advance(s[k - 1], G[k])
      BY <1>12
    <3>2. G[k] \in Int
      BY <1>1
    <3> QED BY <2>2, <3>1, <3>2, AdvanceType
  <2> QED BY <2>1, <2>2
<1>14. \A k \in 0..n : s[k] \in RunState
  BY <1>1, <1>13, RunStays, Zenon
<1> QED BY <1>9, <1>10, <1>12, <1>14, Zenon DEF n, z

LEMMA RefRun ==
    ASSUME NEW G \in Seq(Int)
    PROVE  /\ RunX(G, 0) = 0 /\ RunStep(G, 0) = 0 /\ Len(Encode(G)) = Len(G)
           /\ \A k \in 0..Len(G) : RunX(G, k) \in Int /\ RunStep(G, k) \in 0..MaxStep
           /\ \A k \in 1..Len(G) :
                 /\ Nib(G, k) = Pick(RunX(G, k - 1), RunStep(G, k - 1), G[k])
                 /\ RunX(G, k) = Next4(RunX(G, k - 1), RunStep(G, k - 1), Nib(G, k))
                 /\ RunStep(G, k) =
                       Clip(RunStep(G, k - 1) + STEP_ADAPT[(Nib(G, k) % 8) + 1], 0, MaxStep)
                 /\ Nib(G, k) \in 0..15
<1> DEFINE n == Len(G)
           r == EncRun(G)
           b(k) == Pick(r[k - 1].x, r[k - 1].step, G[k])
<1>1. n \in Nat /\ \A k \in 1..n : G[k] \in Int
  OBVIOUS
<1>2. /\ r[0] = [x |-> 0, step |-> 0, nib |-> <<>>]
      /\ \A k \in 1..n : r[k] = Advance(r[k - 1], G[k])
      /\ \A k \in 0..n : r[k] \in RunState
      /\ Encode(G) = r[n].nib
  BY EncRunRec
<1>3. RunX(G, 0) = 0 /\ RunStep(G, 0) = 0
  BY <1>2 DEF RunX, RunStep
<1>4. \A k \in 0..n : RunX(G, k) = r[k].x /\ RunStep(G, k) = r[k].step
  BY DEF RunX, RunStep
<1> HIDE DEF r, n
<1>5. \A k \in 0..n : r[k].x \in Int /\ r[k].step \in 0..MaxStep /\ r[k].nib \in Seq(Int)
  BY <1>2 DEF RunState
<1>6. ASSUME NEW k \in 1..n
      PROVE  /\ k - 1 \in 0..n /\ k \in 0..n /\ b(k) \in 0..15
             /\ r[k].x = Next4(r[k - 1].x, r[k - 1].step, b(k))
             /\ r[k].step = Clip(r[k - 1].step + STEP_ADAPT[(b(k) % 8) + 1], 0, MaxStep)
             /\ r[k].nib = Append(r[k - 1].nib, b(k))
  <2>1. k - 1 \in 0..n /\ k \in 0..n
    BY <1>1
  <2>2. b(k) \in 0..15
    BY <1>1, <1>5, <2>1, PickType
  <2>3. r[k] = [x |-> Next4(r[k - 1].x, r[k - 1].step, b(k)),
                step |-> Clip(r[k - 1].step + STEP_ADAPT[(b(k) % 8) + 1], 0, MaxStep),
                nib |-> Append(r[k - 1].nib, b(k))]
    BY <1>2, Zenon DEF Advance
  <2> HIDE DEF b
  <2>4. /\ r[k].x = Next4(r[k - 1].x, r[k - 1].step, b(k))
        /\ r[k].step = Clip(r[k - 1].step + STEP_ADAPT[(b(k) % 8) + 1], 0, MaxStep)
        /\ r[k].nib = Append(r[k - 1].nib, b(k))
    BY <2>3
  <2> QED BY <2>1, <2>2, <2>4
<1> HIDE DEF b
<1> DEFINE S == {k \in 0..n : Len(r[k].nib) = k /\ \A j \in 1..k : r[k].nib[j] = b(j)}
<1>7. 0 \in S
  <2>1. r[0].nib = <<>>
    BY <1>2
  <2> QED BY <1>1, <2>1
<1>8. ASSUME NEW k \in 1..n, k - 1 \in S PROVE k \in S
  <2>1. r[k].nib = Append(r[k - 1].nib, b(k)) /\ r[k - 1].nib \in Seq(Int) /\ b(k) \in 0..15
        /\ k \in 0..n
    BY <1>5, <1>6
  <2>2. Len(r[k - 1].nib) = k - 1 /\ \A j \in 1..k - 1 : r[k - 1].nib[j] = b(j)
    BY <1>8
  <2> DEFINE p == r[k - 1].nib
  <2> HIDE DEF p
  <2>3. p \in Seq(Int) /\ r[k].nib = Append(p, b(k)) /\ Len(p) = k - 1 /\ \A j \in 1..k - 1 : p[j] = b(j)
    BY <2>1, <2>2 DEF p
  <2>4. Len(r[k].nib) = k
    BY <2>1, <2>3
  <2>5. ASSUME NEW j \in 1..k PROVE r[k].nib[j] = b(j)
    BY <2>1, <2>3
  <2> QED BY <2>1, <2>4, <2>5
<1>9. n \in S
  <2>1. \A k \in 0..n : k \in S
    <3> HIDE DEF S
    <3> QED BY <1>1, <1>7, <1>8, Climb
  <2> QED BY <1>1, <2>1
<1>10. Len(Encode(G)) = n /\ \A j \in 1..n : Nib(G, j) = b(j)
  BY <1>2, <1>9 DEF Nib
<1>11. ASSUME NEW k \in 1..n
       PROVE  /\ Nib(G, k) = Pick(RunX(G, k - 1), RunStep(G, k - 1), G[k])
              /\ RunX(G, k) = Next4(RunX(G, k - 1), RunStep(G, k - 1), Nib(G, k))
              /\ RunStep(G, k) =
                    Clip(RunStep(G, k - 1) + STEP_ADAPT[(Nib(G, k) % 8) + 1], 0, MaxStep)
              /\ Nib(G, k) \in 0..15
  <2>1. Nib(G, k) = b(k)
    BY <1>10
  <2>2. RunX(G, k - 1) = r[k - 1].x /\ RunStep(G, k - 1) = r[k - 1].step
        /\ RunX(G, k) = r[k].x /\ RunStep(G, k) = r[k].step
    BY <1>4, <1>6
  <2> QED BY <1>6, <2>1, <2>2, Zenon DEF b
<1>12. \A k \in 0..n : RunX(G, k) \in Int /\ RunStep(G, k) \in 0..MaxStep
  BY <1>4, <1>5
<1> QED BY <1>3, <1>10, <1>11, <1>12 DEF n

\* The bytes handed over before this call, and what a nibble leaves alone.
Before(e) == e.bytes - Len(e.out)
Kept(e, f) == /\ f.ratio = e.ratio /\ f.idx = e.idx /\ f.prev = e.prev /\ f.cur = e.cur
              /\ f.primed = e.primed

LEMMA NibbleFields ==
    ASSUME NEW e \in Enc, NEW target \in Int
    PROVE  LET f == emit_nibble(e, target)
               b == Pick(e.x, e.step, target)
           IN  /\ f.x = Next4(e.x, e.step, b)
               /\ f.step = Clip(e.step + STEP_ADAPT[(b % 8) + 1], 0, MaxStep)
               /\ Kept(e, f) /\ f.pos = e.pos
               /\ e.half < 0 => f.half = b /\ f.bytes = e.bytes /\ f.out = e.out
               /\ ~(e.half < 0) => /\ f.half = -1 /\ f.bytes = e.bytes + 1
                                   /\ f.out = Append(e.out, 16 * e.half + b)
<1> DEFINE f == emit_nibble(e, target)
           b == Pick(e.x, e.step, target)
           x == Next4(e.x, e.step, b)
           step == Clip(e.step + STEP_ADAPT[(b % 8) + 1], 0, MaxStep)
           g1 == [e EXCEPT !.x = x]
           g == [g1 EXCEPT !.step = step]
           o == Append(e.out, 16 * e.half + b)
<1>1. f = IF e.half < 0 THEN [g EXCEPT !.half = b]
          ELSE [g EXCEPT !.half = -1, !.bytes = e.bytes + 1, !.out = o]
  BY DEF emit_nibble, Emitted
<1>2. b \in 0..15 /\ x \in Int /\ step \in 0..MaxStep
  <2>1. e.x \in Int /\ e.step \in 0..MaxStep
    BY DEF Enc
  <2>2. b \in 0..15
    BY <2>1, PickType
  <2> HIDE DEF b
  <2> QED BY <2>1, <2>2, NextType, AdaptType
<1> HIDE DEF b, x, step, f, o
<1>3. g1 \in Enc
  BY <1>2, SetEnc
<1>4. /\ g1.x = x /\ g1.step = e.step /\ Kept(e, g1) /\ g1.pos = e.pos /\ g1.half = e.half
      /\ g1.bytes = e.bytes /\ g1.out = e.out
  BY DEF Enc, Kept
<1> HIDE DEF g1
<1>5. g \in Enc
  BY <1>2, <1>3, SetEnc
<1>6. /\ g.x = x /\ g.step = step /\ Kept(e, g) /\ g.pos = e.pos /\ g.half = e.half
      /\ g.bytes = e.bytes /\ g.out = e.out
  BY <1>3, <1>4 DEF Enc, Kept
<1> HIDE DEF g
<1>7. CASE e.half < 0
  <2>1. f = [g EXCEPT !.half = b]
    BY <1>1, <1>7
  <2>2. f.x = x /\ f.step = step /\ Kept(e, f) /\ f.pos = e.pos /\ f.half = b
        /\ f.bytes = e.bytes /\ f.out = e.out
    BY <1>5, <1>6, <2>1 DEF Enc, Kept
  <2> QED BY <1>7, <2>2 DEF f, x, step, b
<1>8. CASE ~(e.half < 0)
  <2>1. f = [g EXCEPT !.half = -1, !.bytes = e.bytes + 1, !.out = o]
    BY <1>1, <1>8
  <2>2. f.x = g.x /\ f.step = g.step /\ Kept(g, f) /\ f.pos = g.pos /\ f.half = -1
        /\ f.bytes = e.bytes + 1 /\ f.out = o
    BY <1>5, <2>1 DEF Enc, Kept
  <2>3. f.x = x /\ f.step = step /\ Kept(e, f) /\ f.pos = e.pos
    BY <1>6, <2>2 DEF Kept
  <2> QED BY <1>8, <2>2, <2>3 DEF f, x, step, b, o
<1> QED BY <1>7, <1>8

LEMMA CountIs ==
    ASSUME NEW e
    PROVE  /\ e.half < 0 => Count(e) = 2 * e.bytes + 0
           /\ ~(e.half < 0) => Count(e) = 2 * e.bytes + 1
  BY Zenon DEF Count

\* A nibble is one more, whatever its target.
LEMMA NibbleCount ==
    ASSUME NEW e \in Enc, NEW target \in Int
    PROVE  LET f == emit_nibble(e, target)
           IN  Count(f) = Count(e) + 1 /\ Before(f) = Before(e)
<1> DEFINE f == emit_nibble(e, target)
           b == Pick(e.x, e.step, target)
<1>1. /\ e.half < 0 => f.half = b /\ f.bytes = e.bytes /\ f.out = e.out
      /\ ~(e.half < 0) => /\ f.half = -1 /\ f.bytes = e.bytes + 1
                          /\ f.out = Append(e.out, 16 * e.half + b)
  BY NibbleFields
<1>2. e.bytes \in Nat /\ e.out \in Seq(Int) /\ e.half \in Int /\ b \in 0..15
  BY PickType DEF Enc
<1> HIDE DEF f, b
<1>3. CASE e.half < 0
  <2>1. ~(f.half < 0) /\ f.bytes = e.bytes
    BY <1>1, <1>2, <1>3
  <2>2. Count(f) = 2 * e.bytes + 1 /\ Count(e) = 2 * e.bytes + 0
    BY <1>3, <2>1, CountIs
  <2>3. Before(f) = Before(e)
    BY <1>1, <1>3 DEF Before
  <2>4. Count(f) = Count(e) + 1
    BY <1>2, <2>2
  <2> QED BY <2>3, <2>4 DEF f
<1>4. CASE ~(e.half < 0)
  <2>1. Len(f.out) = Len(e.out) + 1 /\ Len(e.out) \in Nat
    BY <1>1, <1>2, <1>4
  <2>2. f.half < 0 /\ f.bytes = e.bytes + 1
    BY <1>1, <1>4
  <2>3. Count(f) = 2 * (e.bytes + 1) + 0 /\ Count(e) = 2 * e.bytes + 1
    BY <1>4, <2>2, CountIs
  <2>4. Count(f) = Count(e) + 1
    BY <1>2, <2>3
  <2>5. Before(f) = Before(e)
    BY <1>2, <2>1, <2>2 DEF Before
  <2> QED BY <2>4, <2>5 DEF f
<1> QED BY <1>3, <1>4

\* An encoder stands after the k-th target of G, and what it hands over are
\* the packer's bytes after the first a.
On(e, G, k, a) ==
    /\ k \in 0..Len(G) /\ e.x = RunX(G, k) /\ e.step = RunStep(G, k)
    /\ Count(e) = k /\ (e.half >= 0 => e.half = Nib(G, k))
    /\ a \in Nat /\ e.bytes = a + Len(e.out)
    /\ \A i \in 1..Len(e.out) : e.out[i] = Byte(G, a + i)

LEMMA NibbleOn ==
    ASSUME NEW e \in Enc, NEW G \in Seq(Int), NEW k \in Nat, k < Len(G), NEW a, On(e, G, k, a)
    PROVE  On(emit_nibble(e, G[k + 1]), G, k + 1, a)
<1> DEFINE t == G[k + 1]
           f == emit_nibble(e, t)
           b == Pick(e.x, e.step, t)
           j == k + 1
<1>1. t \in Int /\ j \in 1..Len(G) /\ j - 1 = k
  OBVIOUS
<1>2. /\ f.x = Next4(e.x, e.step, b)
      /\ f.step = Clip(e.step + STEP_ADAPT[(b % 8) + 1], 0, MaxStep)
      /\ e.half < 0 => f.half = b /\ f.bytes = e.bytes /\ f.out = e.out
      /\ ~(e.half < 0) => /\ f.half = -1 /\ f.bytes = e.bytes + 1
                          /\ f.out = Append(e.out, 16 * e.half + b)
  BY <1>1, NibbleFields
<1>3. Count(f) = Count(e) + 1
  BY <1>1, NibbleCount
<1>4. e.x = RunX(G, k) /\ e.step = RunStep(G, k) /\ Count(e) = k
      /\ (e.half >= 0 => e.half = Nib(G, k)) /\ a \in Nat /\ e.bytes = a + Len(e.out)
      /\ \A i \in 1..Len(e.out) : e.out[i] = Byte(G, a + i)
  BY DEF On
<1>5. /\ Nib(G, j) = Pick(RunX(G, j - 1), RunStep(G, j - 1), G[j])
      /\ RunX(G, j) = Next4(RunX(G, j - 1), RunStep(G, j - 1), Nib(G, j))
      /\ RunStep(G, j) = Clip(RunStep(G, j - 1) + STEP_ADAPT[(Nib(G, j) % 8) + 1], 0, MaxStep)
      /\ Nib(G, j) \in 0..15
  BY <1>1, RefRun
<1>6. b = Nib(G, j)
  BY <1>1, <1>4, <1>5
<1>7. f.x = RunX(G, j) /\ f.step = RunStep(G, j)
  BY <1>1, <1>2, <1>4, <1>5, <1>6
<1>8. e.bytes \in Nat /\ e.out \in Seq(Int) /\ e.half \in Int
  BY DEF Enc
<1>9. j \in 0..Len(G) /\ Count(f) = j
  BY <1>1, <1>3, <1>4
<1> HIDE DEF f, b, t
<1>10. f.half >= 0 => f.half = Nib(G, j)
  BY <1>2, <1>5, <1>6, <1>8
<1>11. f.bytes = a + Len(f.out) /\ \A i \in 1..Len(f.out) : f.out[i] = Byte(G, a + i)
  <2>1. CASE e.half < 0
    BY <1>2, <1>4, <2>1
  <2>2. CASE ~(e.half < 0)
    <3> DEFINE n == Len(e.out)
               v == 16 * e.half + b
    <3>1. n \in Nat /\ f.out = Append(e.out, v) /\ f.bytes = e.bytes + 1
      BY <1>2, <1>8, <2>2
    <3>2. Len(f.out) = n + 1 /\ f.out[n + 1] = v /\ \A i \in 1..n : f.out[i] = e.out[i]
      BY <1>8, <3>1
    <3>3. v = Byte(G, a + (n + 1))
      <4>1. k = 2 * e.bytes + 1
        BY <1>4, <1>8, <2>2, CountIs
      <4>2. 2 * (a + (n + 1)) - 1 = k /\ 2 * (a + (n + 1)) = j
        <5>1. n \in Nat /\ a \in Nat /\ e.bytes = a + n /\ j = k + 1
          BY <1>4, <3>1
        <5> HIDE DEF n, j
        <5> QED BY <4>1, <5>1
      <4>3. e.half = Nib(G, k)
        BY <1>4, <1>8, <2>2
      <4> QED BY <1>6, <4>2, <4>3 DEF Byte
    <3> HIDE DEF v, n
    <3>4. ASSUME NEW i \in 1..Len(f.out) PROVE f.out[i] = Byte(G, a + i)
      <4>1. i = n + 1 \/ i \in 1..n
        BY <3>1, <3>2
      <4> QED BY <1>4, <3>2, <3>3, <4>1 DEF n
    <3>5. f.bytes = a + Len(f.out)
      BY <1>4, <1>8, <3>1, <3>2 DEF n
    <3> QED BY <3>4, <3>5
  <2> QED BY <2>1, <2>2
<1> HIDE DEF j
<1>12. On(f, G, j, a)
  BY <1>4, <1>7, <1>9, <1>10, <1>11, Zenon DEF On
<1> QED BY <1>12 DEF f, t, j

\* Handing over starts anew; and two handovers in a row are one.
LEMMA OnAnew ==
    ASSUME NEW e \in Enc, NEW G, NEW k, NEW a, On(e, G, k, a)
    PROVE  On([e EXCEPT !.out = <<>>], G, k, e.bytes)
<1> DEFINE f == [e EXCEPT !.out = <<>>]
<1>1. f.x = e.x /\ f.step = e.step /\ f.bytes = e.bytes /\ f.half = e.half /\ f.out = <<>>
      /\ e.bytes \in Nat
  BY DEF Enc
<1> HIDE DEF f
<1>2. Count(f) = Count(e) /\ e.bytes = e.bytes + 0 /\ Len(f.out) = 0
  BY <1>1 DEF Count
<1>3. On(f, G, k, e.bytes)
  BY <1>1, <1>2 DEF On
<1> QED BY <1>3 DEF f

LEMMA OnJoined ==
    ASSUME NEW e \in Enc, NEW f \in Enc, NEW G, NEW j, NEW k, NEW a,
           On(e, G, j, a), On(f, G, k, e.bytes)
    PROVE  On([f EXCEPT !.out = e.out \o f.out], G, k, a)
<1> DEFINE o == e.out \o f.out
           h == [f EXCEPT !.out = o]
           p == e.out
           q == f.out
<1>1. h.x = f.x /\ h.step = f.step /\ h.bytes = f.bytes /\ h.half = f.half /\ h.out = o
      /\ p \in Seq(Int) /\ q \in Seq(Int) /\ f.bytes \in Nat /\ e.bytes \in Nat
  BY DEF Enc
<1>2. a \in Nat /\ e.bytes = a + Len(p) /\ f.bytes = e.bytes + Len(q)
      /\ (\A i \in 1..Len(p) : p[i] = Byte(G, a + i))
      /\ (\A i \in 1..Len(q) : q[i] = Byte(G, e.bytes + i))
  BY DEF On
<1>3. o = p \o q
  OBVIOUS
<1> HIDE DEF h, o, p, q
<1>4. Len(o) = Len(p) + Len(q) /\ Len(p) \in Nat /\ Len(q) \in Nat
      /\ (\A i \in 1..Len(p) : o[i] = p[i])
      /\ (\A i \in 1..Len(q) : o[Len(p) + i] = q[i])
  BY <1>1, <1>3
<1>5. ASSUME NEW i \in 1..Len(o) PROVE o[i] = Byte(G, a + i)
  <2>1. CASE i <= Len(p)
    <3>1. i \in 1..Len(p)
      BY <1>4, <2>1
    <3> QED BY <1>2, <1>4, <3>1
  <2>2. CASE ~(i <= Len(p))
    <3> DEFINE m == i - Len(p)
    <3>1. m \in 1..Len(q) /\ i = Len(p) + m /\ a + i = e.bytes + m
      BY <1>2, <1>4, <2>2
    <3> HIDE DEF m
    <3>2. q[m] = Byte(G, e.bytes + m) /\ o[Len(p) + m] = q[m]
      BY <1>2, <1>4, <3>1
    <3> QED BY <3>1, <3>2
  <2> QED BY <2>1, <2>2
<1>6. f.bytes = a + Len(o)
  BY <1>1, <1>2, <1>4
<1>7. Count(h) = Count(f)
  BY <1>1 DEF Count
<1>8. On(h, G, k, a)
  <2>1. k \in 0..Len(G) /\ f.x = RunX(G, k) /\ f.step = RunStep(G, k) /\ Count(f) = k
        /\ (f.half >= 0 => f.half = Nib(G, k))
    BY DEF On
  <2> QED BY <1>1, <1>2, <1>5, <1>6, <1>7, <2>1 DEF On
<1> QED BY <1>8 DEF h, o, p, q

LEMMA TimesOrder ==
    ASSUME NEW a \in Nat, NEW b \in Nat, NEW r \in Nat \ {0}
    PROVE  (a <= b => a * r <= b * r) /\ (a < b => a * r + r <= b * r)
<1>1. ASSUME a <= b PROVE a * r <= b * r
  <2> DEFINE d == b - a
  <2>1. d \in Nat /\ b = a + d
    BY <1>1
  <2> HIDE DEF d
  <2>2. b * r = a * r + d * r /\ d * r \in Nat /\ a * r \in Nat
    BY <2>1
  <2> QED BY <2>2
<1>2. ASSUME a < b PROVE a * r + r <= b * r
  <2> DEFINE d == b - a - 1
  <2>1. d \in Nat /\ b = a + d + 1
    BY <1>2
  <2> HIDE DEF d
  <2>2. b * r = a * r + d * r + r /\ d * r \in Nat /\ a * r \in Nat
    BY <2>1
  <2> QED BY <2>2
<1> QED BY <1>1, <1>2

\* The positions below a limit are counted right.
LEMMA PositionsAre ==
    ASSUME NEW pos \in Nat, NEW r \in Nat \ {0}, NEW lim \in Nat
    PROVE  LET n == Positions(pos, r, lim)
           IN  /\ n \in Nat /\ (pos >= lim => n = 0)
               /\ pos < lim => n >= 1 /\ pos + (n - 1) * r < lim /\ lim <= pos + n * r
<1> DEFINE n == Positions(pos, r, lim)
           m == lim - pos + r - 1
           q == m \div r
<1>1. n \in Nat
  BY CountType
<1>2. pos >= lim => n = 0
  BY DEF Positions
<1>3. ASSUME pos < lim PROVE n >= 1 /\ pos + (n - 1) * r < lim /\ lim <= pos + n * r
  <2>1. n = q
    BY <1>3 DEF Positions
  <2>2. m \in Nat /\ m = lim - pos + r - 1
    BY <1>3
  <2> HIDE DEF m
  <2>3. q \in Nat /\ r * q <= m /\ m < r * q + r
    BY <2>2
  <2> HIDE DEF q, n
  <2> DEFINE u == q * r
  <2>4. u \in Nat /\ r * q = u /\ (q - 1) * r = u - r
    BY <2>3
  <2>5. q # 0
    BY <1>3, <2>2, <2>3
  <2> HIDE DEF u
  <2>6. pos + (u - r) < lim /\ lim <= pos + u
    BY <2>2, <2>3, <2>4
  <2> QED BY <2>1, <2>3, <2>4, <2>5, <2>6 DEF u
<1> QED BY <1>1, <1>2, <1>3

\* The packer's source value at a position, and its targets for a file: the
\* file at the store's rate, and silence to the end of the page.
SourceAt(pcm, p) ==
    LET j == p \div One IN
    IF j >= Len(pcm) - 1 THEN pcm[Len(pcm)]
    ELSE pcm[j + 1] + ((pcm[j + 2] - pcm[j + 1]) * (p % One)) \div One
Level(v) == Clip(v \div 16, -2048, 2047)
Total(pcm, r) == Positions(0, r, Len(pcm) * One)
Silence(n) == [k \in 1..Missing(n) |-> 0]
Targets(pcm, r) == LET body == Resample(pcm, r) IN body \o Silence(Len(body))

LEMMA LevelType == ASSUME NEW v \in Int PROVE Level(v) \in Int
<1>1. v \div 16 \in Int
  OBVIOUS
<1> QED BY <1>1 DEF Level, Clip

LEMMA SourceType ==
    ASSUME NEW pcm \in Seq(Int), Len(pcm) >= 1, NEW p \in Nat
    PROVE  SourceAt(pcm, p) \in Int
<1> DEFINE j == p \div One
           q == p % One
           n == Len(pcm)
<1>1. j \in Nat /\ q \in Nat
  BY DEF One
<1>2. n \in Nat \ {0} /\ \A i \in 1..n : pcm[i] \in Int
  OBVIOUS
<1>3. SourceAt(pcm, p) = IF j >= n - 1 THEN pcm[n]
                         ELSE pcm[j + 1] + ((pcm[j + 2] - pcm[j + 1]) * q) \div One
  BY DEF SourceAt
<1> HIDE DEF j, q, n
<1>4. CASE j >= n - 1
  BY <1>2, <1>3, <1>4
<1>5. CASE ~(j >= n - 1)
  <2> DEFINE a == pcm[j + 1]
             b == pcm[j + 2]
  <2>1. a \in Int /\ b \in Int
    <3>1. j + 1 \in 1..n /\ j + 2 \in 1..n
      BY <1>1, <1>2, <1>5
    <3> QED BY <1>2, <3>1
  <2> HIDE DEF a, b
  <2>2. (b - a) * q \in Int
    BY <1>1, <2>1
  <2>3. ((b - a) * q) \div One \in Int
    BY <2>2 DEF One
  <2>4. a + (((b - a) * q) \div One) \in Int
    BY <2>1, <2>3
  <2> QED BY <1>3, <1>5, <2>4 DEF a, b
<1> QED BY <1>4, <1>5

LEMMA MissingType ==
    ASSUME NEW c \in Int
    PROVE  Missing(c) \in Nat
<1> DEFINE m == -c
           q == 2 * PageBytes
<1>1. m \in Int /\ q \in Nat \ {0}
  BY EncoderAssumption
<1> HIDE DEF m, q
<1>2. m % q \in Nat
  BY <1>1
<1> QED BY <1>2 DEF Missing, m, q

LEMMA TargetsAre ==
    ASSUME NEW pcm \in Seq(Int), Len(pcm) >= 1, NEW r \in Nat \ {0}
    PROVE  LET G == Targets(pcm, r)
               L == Total(pcm, r)
           IN  /\ G \in Seq(Int) /\ L \in Nat /\ Len(G) = L + Missing(L)
               /\ \A k \in 1..L : G[k] = Level(SourceAt(pcm, (k - 1) * r))
               /\ \A k \in L + 1..Len(G) : G[k] = 0
<1> DEFINE L == Total(pcm, r)
           n == Missing(L)
           v(k) == Level(SourceAt(pcm, (k - 1) * r))
           body == [k \in 1..L |-> v(k)]
           S == [k \in 1..n |-> 0]
           G == Targets(pcm, r)
<1>1. L \in Nat
  <2>1. Len(pcm) * One \in Nat
    BY DEF One
  <2> QED BY <2>1, CountType DEF Total
<1>2. Resample(pcm, r) = body
  BY Zenon DEF Resample, Total, Level, SourceAt
<1> HIDE DEF L
<1>3. n \in Nat
  <2>1. L \in Int
    BY <1>1
  <2> QED BY <2>1, MissingType
<1>4. ASSUME NEW k \in 1..L PROVE v(k) \in Int
  <2>1. (k - 1) * r \in Nat
    BY <1>1
  <2> QED BY <2>1, SourceType, LevelType
<1> HIDE DEF v
<1>5. body \in Seq(Int) /\ Len(body) = L
  BY <1>1, <1>4
<1>6. G = body \o S
  BY <1>2, <1>5 DEF Targets, Silence
<1> HIDE DEF n
<1>7. S \in Seq(Int) /\ Len(S) = n
  BY <1>3
<1>8. \A k \in 1..L : body[k] = v(k)
  OBVIOUS
<1>9. \A k \in 1..n : S[k] = 0
  OBVIOUS
<1> HIDE DEF body, S, G
<1>10. G \in Seq(Int) /\ Len(G) = L + n /\ (\A k \in 1..L : G[k] = body[k])
       /\ \A k \in 1..n : G[L + k] = S[k]
  <2>1. body \in Seq(Int) /\ S \in Seq(Int) /\ G = body \o S
    BY <1>5, <1>6, <1>7
  <2>2. G \in Seq(Int) /\ Len(G) = Len(body) + Len(S)
        /\ (\A k \in 1..Len(body) : G[k] = body[k])
        /\ \A k \in 1..Len(S) : G[Len(body) + k] = S[k]
    BY <2>1
  <2> QED BY <1>5, <1>7, <2>2
<1>11. ASSUME NEW k \in L + 1..Len(G) PROVE G[k] = 0
  <2> DEFINE i == k - L
  <2>1. i \in 1..n /\ k = L + i
    BY <1>1, <1>3, <1>10
  <2> HIDE DEF i
  <2> QED BY <1>9, <1>10, <2>1
<1> QED BY <1>1, <1>8, <1>10, <1>11 DEF L, v, n, G

\* A file's positions: the j-th is counted if it lies before the file's end.
LEMMA TotalIs ==
    ASSUME NEW pcm \in Seq(Int), Len(pcm) >= 1, NEW r \in Nat \ {0}
    PROVE  LET L == Total(pcm, r)
           IN  /\ L \in Nat \ {0} /\ (L - 1) * r < Len(pcm) * One /\ Len(pcm) * One <= L * r
               /\ \A j \in Nat : j < L <=> j * r < Len(pcm) * One
<1> DEFINE L == Total(pcm, r)
           lim == Len(pcm) * One
<1>1. lim \in Nat /\ 0 < lim
  BY DEF One
<1> HIDE DEF lim
<1>2. L = Positions(0, r, lim)
  BY DEF Total, lim
<1>3. L \in Nat /\ L >= 1 /\ 0 + (L - 1) * r < lim /\ lim <= 0 + L * r
  BY <1>1, <1>2, PositionsAre
<1> HIDE DEF L
<1>4. L - 1 \in Nat /\ (L - 1) * r \in Nat /\ L * r \in Nat /\ (L - 1) * r < lim /\ lim <= L * r
  <2>1. L - 1 \in Nat
    BY <1>3
  <2>2. (L - 1) * r \in Nat /\ L * r \in Nat
    BY <1>3, <2>1
  <2> QED BY <1>3, <2>1, <2>2
<1>5. ASSUME NEW j \in Nat PROVE j < L <=> j * r < lim
  <2>1. j * r \in Nat
    OBVIOUS
  <2>2. ASSUME j < L PROVE j * r < lim
    <3>1. j <= L - 1
      BY <1>3, <2>2
    <3>2. j * r <= (L - 1) * r
      BY <1>4, <3>1, TimesOrder
    <3> QED BY <1>1, <1>4, <2>1, <3>2
  <2>3. ASSUME ~(j < L) PROVE ~(j * r < lim)
    <3>1. L <= j
      BY <1>3, <2>3
    <3>2. L * r <= j * r
      BY <1>3, <3>1, TimesOrder
    <3> QED BY <1>1, <1>4, <2>1, <3>2
  <2> QED BY <2>2, <2>3
<1> QED BY <1>3, <1>4, <1>5 DEF L, lim

\* The value of a sample at a position: it depends on the window alone.
ValueAt(e, p, flat) ==
    IF flat THEN e.cur ELSE e.prev + ((e.cur - e.prev) * (p % One)) \div One

LEMMA ValueType == ASSUME NEW e \in Enc, NEW p \in Nat, NEW flat PROVE ValueAt(e, p, flat) \in Int
<1> DEFINE q == p % One
           a == e.prev
           b == e.cur
<1>1. a \in Int /\ b \in Int
  BY DEF Enc
<1>2. q \in Nat
  BY DEF One
<1> HIDE DEF a, b, q
<1>3. (b - a) * q \in Int
  BY <1>1, <1>2
<1>4. ((b - a) * q) \div One \in Int
  BY <1>3 DEF One
<1>5. a + (((b - a) * q) \div One) \in Int
  BY <1>1, <1>4
<1> QED BY <1>1, <1>5 DEF ValueAt, a, b, q

\* A sample is a nibble, and the position moves on.
LEMMA SampleFields ==
    ASSUME NEW e \in Enc, NEW flat
    PROVE  LET f == emit_sample(e, flat)
               t == Level(ValueAt(e, e.pos, flat))
               g == emit_nibble(e, t)
           IN  /\ t \in Int /\ Kept(e, f) /\ f.pos = (e.pos + e.ratio) % PosSize
               /\ f.x = g.x /\ f.step = g.step /\ f.bytes = g.bytes /\ f.half = g.half
               /\ f.out = g.out
<1> DEFINE f == emit_sample(e, flat)
           t == Level(ValueAt(e, e.pos, flat))
           g == emit_nibble(e, t)
           p == (e.pos + e.ratio) % PosSize
<1>1. t \in Int
  <2>1. e.pos \in Nat
    BY DEF Enc
  <2> QED BY <2>1, ValueType, LevelType
<1>2. f = [g EXCEPT !.pos = p]
  BY Zenon DEF emit_sample, ValueAt, Level
<1> HIDE DEF f, t, p
<1>3. g \in Enc /\ Kept(e, g)
  BY <1>1, NibbleStep, NibbleFields
<1> HIDE DEF g
<1>4. Kept(g, f) /\ f.pos = p /\ f.x = g.x /\ f.step = g.step /\ f.bytes = g.bytes
      /\ f.half = g.half /\ f.out = g.out
  BY <1>2, <1>3 DEF Enc, Kept
<1>5. Kept(e, f)
  BY <1>3, <1>4 DEF Kept
<1> QED BY <1>1, <1>4, <1>5 DEF f, t, g, p

LEMMA SampleCount ==
    ASSUME NEW e \in Enc, NEW flat
    PROVE  LET f == emit_sample(e, flat)
           IN  Kept(e, f) /\ Count(f) = Count(e) + 1 /\ Before(f) = Before(e)
<1> DEFINE f == emit_sample(e, flat)
           t == Level(ValueAt(e, e.pos, flat))
           g == emit_nibble(e, t)
<1>1. t \in Int /\ Kept(e, f) /\ f.bytes = g.bytes /\ f.half = g.half /\ f.out = g.out
  BY SampleFields
<1>2. Count(g) = Count(e) + 1 /\ Before(g) = Before(e)
  BY <1>1, NibbleCount
<1> HIDE DEF f, g
<1>3. Count(f) = Count(g) /\ Before(f) = Before(g)
  BY <1>1 DEF Count, Before
<1> QED BY <1>1, <1>2, <1>3 DEF f

LEMMA SampleOn ==
    ASSUME NEW e \in Enc, NEW flat, NEW G \in Seq(Int), NEW k \in Nat, k < Len(G), NEW a,
           On(e, G, k, a), Level(ValueAt(e, e.pos, flat)) = G[k + 1]
    PROVE  On(emit_sample(e, flat), G, k + 1, a)
<1> DEFINE f == emit_sample(e, flat)
           t == Level(ValueAt(e, e.pos, flat))
           g == emit_nibble(e, t)
           j == k + 1
<1>1. f.x = g.x /\ f.step = g.step /\ f.bytes = g.bytes /\ f.half = g.half /\ f.out = g.out
  BY SampleFields
<1>2. On(g, G, j, a)
  BY NibbleOn
<1> HIDE DEF f, g, j
<1>3. Count(f) = Count(g)
  BY <1>1 DEF Count
<1>4. On(f, G, j, a)
  BY <1>1, <1>2, <1>3, Zenon DEF On
<1> QED BY <1>4 DEF f, j

\* A run of samples.
LEMMA SamplesCount ==
    ASSUME NEW e \in Enc, NEW n \in Nat, NEW flat
    PROVE  LET h == Samples(e, n, flat)
           IN  Kept(e, h) /\ Count(h) = Count(e) + n /\ Before(h) = Before(e)
<1>1. PICK s : SampleRun(e, n, flat, s)
  BY SamplesRun
<1>2. /\ s[0] = e /\ Samples(e, n, flat) = s[n] /\ (\A k \in 0..n : s[k] \in Enc)
      /\ \A k \in 1..n : s[k] = emit_sample(s[k - 1], flat)
  BY <1>1 DEF SampleRun
<1> DEFINE S == {k \in 0..n : Kept(e, s[k]) /\ Count(s[k]) = Count(e) + k
                              /\ Before(s[k]) = Before(e)}
<1>3. Count(e) \in Nat
  <2>1. e.bytes \in Nat
    BY DEF Enc
  <2> QED BY <2>1, CountIs
<1>4. 0 \in S
  <2>1. Kept(e, e)
    BY DEF Kept
  <2> QED BY <1>2, <1>3, <2>1
<1>5. ASSUME NEW k \in 1..n, k - 1 \in S PROVE k \in S
  <2> DEFINE d == s[k - 1]
  <2>1. d \in Enc /\ s[k] = emit_sample(d, flat) /\ k \in 0..n
    BY <1>2
  <2>2. Kept(e, d) /\ Count(d) = Count(e) + (k - 1) /\ Before(d) = Before(e)
    BY <1>5
  <2> HIDE DEF d
  <2>3. Kept(d, s[k]) /\ Count(s[k]) = Count(d) + 1 /\ Before(s[k]) = Before(d)
    BY <2>1, SampleCount
  <2>4. Count(s[k]) = Count(e) + k
    BY <1>3, <2>2, <2>3
  <2>5. Kept(e, s[k])
    BY <2>2, <2>3 DEF Kept
  <2> QED BY <2>1, <2>2, <2>3, <2>4, <2>5
<1>6. n \in S
  <2>1. \A k \in 0..n : k \in S
    <3> HIDE DEF S
    <3> QED BY <1>4, <1>5, Climb
  <2> QED BY <2>1
<1> QED BY <1>2, <1>6

\* A position that does not wrap is itself.
LEMMA SmallMod ==
    ASSUME NEW x \in Nat, NEW y \in Nat \ {0}, x < y PROVE x % y = x
OBVIOUS

LEMMA SamplesOn ==
    ASSUME NEW e \in Enc, NEW n \in Nat, NEW flat, NEW G \in Seq(Int), NEW k \in Nat, NEW a,
           On(e, G, k, a), k + n <= Len(G),
           \A i \in 0..n - 1 : /\ Level(ValueAt(e, e.pos + i * e.ratio, flat)) = G[k + i + 1]
                               /\ e.pos + (i + 1) * e.ratio < PosSize
    PROVE  LET h == Samples(e, n, flat)
           IN  On(h, G, k + n, a) /\ h.pos = e.pos + n * e.ratio
<1>1. PICK s : SampleRun(e, n, flat, s)
  BY SamplesRun
<1>2. /\ s[0] = e /\ Samples(e, n, flat) = s[n] /\ (\A i \in 0..n : s[i] \in Enc)
      /\ \A i \in 1..n : s[i] = emit_sample(s[i - 1], flat)
  BY <1>1 DEF SampleRun
<1>3. e.pos \in Nat /\ e.ratio \in Nat \ {0} /\ PosSize \in Nat \ {0}
  BY EncoderAssumption DEF Enc
<1> DEFINE S == {i \in 0..n : Kept(e, s[i]) /\ On(s[i], G, k + i, a)
                              /\ s[i].pos = e.pos + i * e.ratio}
<1>4. 0 \in S
  <2>1. Kept(e, e)
    BY DEF Kept
  <2>2. k + 0 = k /\ e.pos + 0 * e.ratio = e.pos
    BY <1>3
  <2> QED BY <1>2, <2>1, <2>2
<1>5. ASSUME NEW j \in 1..n, j - 1 \in S PROVE j \in S
  <2> DEFINE i == j - 1
             d == s[i]
  <2>1. d \in Enc /\ s[j] = emit_sample(d, flat) /\ j \in 0..n /\ i \in 0..n - 1 /\ j = i + 1 /\ i \in Nat
    BY <1>2
  <2>2. Kept(e, d) /\ On(d, G, k + i, a) /\ d.pos = e.pos + i * e.ratio
    BY <1>5
  <2> HIDE DEF d, i
  <2>3. Kept(d, s[j]) /\ s[j].pos = (d.pos + d.ratio) % PosSize
    BY <2>1, SampleFields
  <2>4. Level(ValueAt(d, d.pos, flat)) = G[(k + i) + 1]
    <3>1. ValueAt(d, d.pos, flat) = ValueAt(e, d.pos, flat)
      BY <2>2, Zenon DEF ValueAt, Kept
    <3> QED BY <2>1, <2>2, <3>1
  <2>5. k + i \in Nat /\ k + i < Len(G) /\ (k + i) + 1 = k + j
    BY <2>1
  <2>6. On(s[j], G, k + j, a)
    <3> DEFINE m == k + i
    <3>1. On(d, G, m, a) /\ m \in Nat /\ m < Len(G) /\ Level(ValueAt(d, d.pos, flat)) = G[m + 1]
      BY <2>2, <2>4, <2>5
    <3> HIDE DEF m
    <3>2. On(emit_sample(d, flat), G, m + 1, a)
      BY <2>1, <3>1, SampleOn
    <3> QED BY <2>1, <2>5, <3>2 DEF m
  <2>7. s[j].pos = e.pos + j * e.ratio
    <3> DEFINE r == e.ratio
               u == i * r
               p == e.pos + j * r
    <3>1. d.ratio = r /\ d.pos = e.pos + u /\ r \in Nat
      BY <1>3, <2>2 DEF Kept
    <3>2. p < PosSize
      BY <2>1
    <3> HIDE DEF r
    <3>3. u \in Nat /\ j * r = u + r
      BY <2>1, <3>1
    <3> HIDE DEF u
    <3>4. d.pos + d.ratio = p /\ p \in Nat
      <4> DEFINE w == j * r
      <4>1. w = u + r /\ d.pos = e.pos + u /\ d.ratio = r /\ r \in Nat /\ u \in Nat
            /\ e.pos \in Nat /\ p = e.pos + w
        BY <1>3, <3>1, <3>3
      <4> HIDE DEF w, p
      <4> QED BY <4>1
    <3> HIDE DEF p
    <3>5. p % PosSize = p
      BY <1>3, <3>2, <3>4, SmallMod
    <3>6. s[j].pos = p
      BY <2>3, <3>4, <3>5
    <3> QED BY <3>6 DEF p, r
  <2>8. Kept(e, s[j])
    BY <2>2, <2>3 DEF Kept
  <2> QED BY <2>1, <2>6, <2>7, <2>8
<1>6. n \in S
  <2>1. \A i \in 0..n : i \in S
    <3> HIDE DEF S
    <3> QED BY <1>4, <1>5, Climb
  <2> QED BY <2>1
<1> QED BY <1>2, <1>6

LEMMA DivOne ==
    ASSUME NEW p \in Nat, NEW m \in Nat
    PROVE  /\ p \div One \in Nat
           /\ m * One <= p => p \div One >= m
           /\ m * One <= p /\ p < (m + 1) * One => p \div One = m
           /\ p < m * One => p \div One < m
  BY DEF One

\* Within its window the encoder interpolates as the packer does, and past
\* the last sample it holds as the packer does.
LEMMA WindowValue ==
    ASSUME NEW pcm \in Seq(Int), NEW m \in Nat \ {0}, m < Len(pcm), NEW e, NEW p \in Nat,
           e.prev = pcm[m], e.cur = pcm[m + 1], (m - 1) * One <= p, p < m * One
    PROVE  ValueAt(e, p, FALSE) = SourceAt(pcm, p)
<1> DEFINE j == m - 1
<1>1. j \in Nat /\ m = j + 1
  OBVIOUS
<1> HIDE DEF j
<1>2. p \div One = j
  BY <1>1, DivOne DEF j
<1>3. ~(j >= Len(pcm) - 1) /\ j + 1 = m /\ j + 2 = m + 1
  BY <1>1
<1>4. SourceAt(pcm, p) = pcm[m] + ((pcm[m + 1] - pcm[m]) * (p % One)) \div One
  BY <1>2, <1>3 DEF SourceAt
<1> QED BY <1>4 DEF ValueAt

LEMMA TailValue ==
    ASSUME NEW pcm \in Seq(Int), NEW e, NEW p \in Nat, Len(pcm) >= 1,
           e.cur = pcm[Len(pcm)], (Len(pcm) - 1) * One <= p
    PROVE  ValueAt(e, p, TRUE) = SourceAt(pcm, p)
<1> DEFINE j == Len(pcm) - 1
<1>1. j \in Nat
  OBVIOUS
<1>2. p \div One >= j
  <2> HIDE DEF j
  <2> QED BY <1>1, DivOne DEF j
<1> QED BY <1>2 DEF SourceAt, ValueAt

LEMMA CountNat == ASSUME NEW e \in Enc PROVE Count(e) \in Nat
<1>1. e.bytes \in Nat
  BY DEF Enc
<1> QED BY <1>1, CountIs

\* m samples of the file have been pushed: all positions below the newest one
\* have been served, and no other.
Reached(e, pcm, m) ==
    /\ e.idx = m - 1 /\ e.cur = pcm[m]
    /\ e.pos = Count(e) * e.ratio /\ (m - 1) * One <= e.pos
    /\ Count(e) = 0 \/ (Count(e) - 1) * e.ratio < (m - 1) * One
Served(e, pcm, m) == e.primed = TRUE /\ Reached(e, pcm, m)
Fresh(e) == e.primed = FALSE /\ e.idx = 0 /\ e.cur = 0 /\ e.pos = 0 /\ Count(e) = 0
Stream(e, pcm, m, a) ==
    /\ m \in 0..Len(pcm) /\ On(e, Targets(pcm, e.ratio), Count(e), a)
    /\ IF m = 0 THEN Fresh(e) ELSE Served(e, pcm, m)

\* The encoder as a push sets it up.
Turned(e, v) == [e EXCEPT !.out = <<>>, !.prev = e.cur, !.cur = v, !.primed = TRUE,
                          !.idx = IF e.primed THEN e.idx + 1 ELSE e.idx]

LEMMA TurnedIs ==
    ASSUME NEW e \in Enc, NEW v \in Int
    PROVE  LET f == Turned(e, v)
           IN  /\ f \in Enc /\ f.out = <<>> /\ f.prev = e.cur /\ f.cur = v /\ f.primed = TRUE
               /\ (e.primed => f.idx = e.idx + 1) /\ (~e.primed => f.idx = e.idx)
               /\ f.ratio = e.ratio /\ f.pos = e.pos /\ f.x = e.x /\ f.step = e.step
               /\ f.bytes = e.bytes /\ f.half = e.half /\ Count(f) = Count(e)
               /\ adpcm_enc_push(e, v) =
                     IF e.primed /\ f.pos \div One = f.idx - 1
                     THEN Samples(f, Positions(f.pos, f.ratio, f.idx * One), FALSE) ELSE f
<1> DEFINE i == IF e.primed THEN e.idx + 1 ELSE e.idx
           f == Turned(e, v)
<1>1. i \in Nat
  BY DEF Enc
<1>2. f = [e EXCEPT !.out = <<>>, !.prev = e.cur, !.cur = v, !.primed = TRUE, !.idx = i]
  BY DEF Turned
<1>3. adpcm_enc_push(e, v) =
         IF e.primed /\ f.pos \div One = f.idx - 1
         THEN Samples(f, Positions(f.pos, f.ratio, f.idx * One), FALSE) ELSE f
  BY Zenon DEF adpcm_enc_push, Turned
<1> HIDE DEF f, i
<1>4. f.out = <<>> /\ f.prev = e.cur /\ f.cur = v /\ f.primed = TRUE /\ f.idx = i
  BY <1>2 DEF Enc
<1>5. f.ratio = e.ratio /\ f.pos = e.pos /\ f.x = e.x /\ f.step = e.step
      /\ f.bytes = e.bytes /\ f.half = e.half
  BY <1>2 DEF Enc
<1>6. f \in Enc
  <2> DEFINE a == [e EXCEPT !.out = <<>>]
             b == [a EXCEPT !.prev = e.cur]
             c == [b EXCEPT !.cur = v]
             d == [c EXCEPT !.primed = TRUE]
  <2>1. e.cur \in Int /\ <<>> \in Seq(Int)
    BY DEF Enc
  <2>2. f = [d EXCEPT !.idx = i]
    BY <1>2
  <2>3. a \in Enc
    BY <2>1, SetEnc
  <2> HIDE DEF a
  <2>4. b \in Enc
    BY <2>1, <2>3, SetEnc
  <2> HIDE DEF b
  <2>5. c \in Enc
    BY <2>4, SetEnc
  <2> HIDE DEF c
  <2>6. d \in Enc
    BY <2>5, SetEnc
  <2> HIDE DEF d
  <2> QED BY <1>1, <2>2, <2>6, SetEnc
<1>7. Count(f) = Count(e)
  BY <1>5 DEF Count
<1>8. (e.primed => f.idx = e.idx + 1) /\ (~e.primed => f.idx = e.idx)
  BY <1>4 DEF i
<1> QED BY <1>3, <1>4, <1>5, <1>6, <1>7, <1>8, Zenon DEF f

LEMMA TurnedOn ==
    ASSUME NEW e \in Enc, NEW v \in Int, NEW G, NEW k, NEW a, On(e, G, k, a)
    PROVE  On(Turned(e, v), G, k, e.bytes)
<1> DEFINE f == Turned(e, v)
           o == f.out
<1>1. o = <<>> /\ f.x = e.x /\ f.step = e.step /\ f.bytes = e.bytes /\ f.half = e.half
      /\ Count(f) = Count(e)
  BY TurnedIs
<1>2. e.bytes \in Nat
  BY DEF Enc
<1> HIDE DEF f
<1>3. Len(o) = 0 /\ e.bytes = e.bytes + 0 /\ \A i \in 1..0 : o[i] = Byte(G, e.bytes + i)
  BY <1>1, <1>2
<1>4. On(f, G, k, e.bytes)
  BY <1>1, <1>2, <1>3 DEF On
<1> QED BY <1>4 DEF f

\* A push serves the positions between the last two samples, each as the
\* packer does, and stays in step with the file.
LEMMA PushServes ==
    ASSUME NEW f \in Enc, NEW pcm \in Seq(Int), NEW m \in Nat \ {0}, m < Len(pcm), NEW a,
           On(f, Targets(pcm, f.ratio), Count(f), a),
           f.primed = TRUE, f.idx = m, f.prev = pcm[m], f.cur = pcm[m + 1],
           f.pos = Count(f) * f.ratio, (m - 1) * One <= f.pos, f.pos < m * One,
           Len(pcm) * One + f.ratio <= PosSize
    PROVE  LET h == Samples(f, Positions(f.pos, f.ratio, m * One), FALSE)
           IN  Stream(h, pcm, m + 1, a) /\ h.ratio = f.ratio
<1> DEFINE r == f.ratio
           k == Count(f)
           pos == f.pos
           lim == m * One
           N == Len(pcm)
           G == Targets(pcm, r)
           L == Total(pcm, r)
           n == Positions(pos, r, lim)
           h == Samples(f, n, FALSE)
<1>1. r \in Nat \ {0} /\ k \in Nat /\ pos \in Nat /\ N \in Nat /\ m < N
  BY CountNat DEF Enc
<1>2. lim \in Nat /\ (m - 1) * One = lim - One /\ lim <= N * One /\ N * One \in Nat
      /\ One \in Nat
  BY <1>1 DEF One
<1>3. pos = k * r /\ pos < lim /\ (m - 1) * One <= pos /\ N * One + r <= PosSize /\ PosSize \in Nat
  BY EncoderAssumption
<1>4. n \in Nat /\ n >= 1 /\ pos + (n - 1) * r < lim /\ lim <= pos + n * r
  <2> HIDE DEF r, pos, lim
  <2> QED BY <1>1, <1>2, <1>3, PositionsAre
<1>5. /\ G \in Seq(Int) /\ L \in Nat /\ Len(G) = L + Missing(L) /\ Missing(L) \in Nat
      /\ \A i \in 1..L : G[i] = Level(SourceAt(pcm, (i - 1) * r))
      /\ \A j \in Nat : j < L <=> j * r < N * One
  <2> HIDE DEF r
  <2>1. Len(pcm) >= 1
    BY <1>1
  <2>2. /\ G \in Seq(Int) /\ L \in Nat /\ Len(G) = L + Missing(L)
        /\ \A i \in 1..L : G[i] = Level(SourceAt(pcm, (i - 1) * r))
    BY <1>1, <2>1, TargetsAre
  <2>3. \A j \in Nat : j < L <=> j * r < N * One
    BY <1>1, <2>1, TotalIs
  <2> HIDE DEF L
  <2>4. Missing(L) \in Nat
    BY <2>2, MissingType
  <2> QED BY <2>2, <2>3, <2>4
<1>6. On(f, G, k, a)
  OBVIOUS
<1> HIDE DEF r, k, pos, lim, N, G, L, n
\* Positions as multiples of the ratio.
<1>7. ASSUME NEW i \in 0..n - 1
      PROVE  /\ i \in Nat /\ k + i \in Nat /\ (k + i) * r \in Nat
             /\ (k + i) * r = pos + i * r /\ i * r \in Nat
             /\ i * r <= (n - 1) * r /\ (n - 1) * r \in Nat
  <2>1. i \in Nat /\ n - 1 \in Nat /\ i <= n - 1
    BY <1>4
  <2>2. i * r <= (n - 1) * r
    BY <1>1, <2>1, TimesOrder
  <2>3. (k + i) * r = k * r + i * r /\ i * r \in Nat /\ (n - 1) * r \in Nat /\ k + i \in Nat
        /\ (k + i) * r \in Nat
    BY <1>1, <2>1
  <2> QED BY <1>3, <2>1, <2>2, <2>3
<1>8. ASSUME NEW i \in 0..n - 1
      PROVE  /\ Level(ValueAt(f, pos + i * r, FALSE)) = G[k + i + 1]
             /\ pos + (i + 1) * r < PosSize /\ k + i < L
  <2> DEFINE p == (k + i) * r
             u == i * r
             w == (n - 1) * r
  <2>1. i \in Nat /\ k + i \in Nat /\ p \in Nat /\ p = pos + u /\ u \in Nat /\ u <= w /\ w \in Nat
        /\ pos + w < lim
    BY <1>4, <1>7
  <2>2. (i + 1) * r = u + r
    BY <1>1, <2>1
  <2> HIDE DEF u, w
  <2>3. lim - One <= p /\ p < lim /\ p < N * One
    <3> DEFINE c == N * One
               d == (m - 1) * One
    <3>1. c \in Nat /\ lim <= c /\ d = lim - One /\ d <= pos
      BY <1>2, <1>3
    <3> HIDE DEF c, d, p
    <3>2. lim - One <= p /\ p < lim /\ p < c
      BY <1>1, <1>2, <2>1, <3>1
    <3> QED BY <3>2 DEF c
  <2>4. pos + (i + 1) * r < PosSize
    BY <1>1, <1>2, <1>3, <2>1, <2>2
  <2>5. k + i < L
    BY <1>5, <2>1, <2>3
  <2>6. G[k + i + 1] = Level(SourceAt(pcm, p))
    <3> DEFINE q == k + i + 1
    <3>1. q \in 1..L /\ q - 1 = k + i
      BY <1>1, <1>5, <2>1, <2>5
    <3> HIDE DEF q
    <3>2. G[q] = Level(SourceAt(pcm, (q - 1) * r))
      BY <1>5, <3>1
    <3> QED BY <3>1, <3>2 DEF q
  <2>7. ValueAt(f, p, FALSE) = SourceAt(pcm, p)
    <3> HIDE DEF p
    <3>1. (m - 1) * One <= p /\ p < m * One
      BY <1>2, <2>3 DEF lim
    <3> QED BY <2>1, <3>1, WindowValue
  <2> QED BY <2>1, <2>4, <2>5, <2>6, <2>7 DEF u
<1>9. k + n <= Len(G)
  <2>1. n - 1 \in 0..n - 1
    BY <1>4
  <2>2. k + (n - 1) < L
    BY <1>8, <2>1
  <2> QED BY <1>1, <1>4, <1>5, <2>2
<1>10. On(h, G, k + n, a) /\ h.pos = pos + n * r
  <2>1. \A i \in 0..n - 1 : /\ Level(ValueAt(f, f.pos + i * f.ratio, FALSE)) = G[k + i + 1]
                             /\ f.pos + (i + 1) * f.ratio < PosSize
    BY <1>8, Zenon DEF pos, r
  <2>2. f \in Enc /\ n \in Nat /\ G \in Seq(Int) /\ k \in Nat
    BY <1>1, <1>4, <1>5
  <2>3. On(h, G, k + n, a) /\ h.pos = f.pos + n * f.ratio
    BY <1>6, <1>9, <2>1, <2>2, SamplesOn
  <2> QED BY <2>3 DEF pos, r
<1>11. Kept(f, h) /\ h \in Enc
  BY <1>4, SamplesCount, SamplesType
<1> HIDE DEF h
<1>12. h.ratio = r /\ h.idx = m /\ h.cur = pcm[m + 1] /\ h.primed = TRUE
  BY <1>11 DEF Kept, r
<1>13. Count(h) = k + n
  BY <1>10 DEF On
<1>14. h.pos = (k + n) * r /\ lim <= h.pos /\ ((k + n) - 1) * r < lim
  <2> DEFINE w == (n - 1) * r
  <2>1. n - 1 \in Nat
    BY <1>4
  <2>2. (k + n) * r = k * r + n * r /\ ((k + n) - 1) * r = k * r + w
    <3>1. (k + n) * r = k * r + n * r
      BY <1>1, <1>4
    <3>2. (k + (n - 1)) * r = k * r + (n - 1) * r
      BY <1>1, <2>1
    <3>3. (k + n) - 1 = k + (n - 1)
      BY <1>1, <1>4
    <3> QED BY <3>1, <3>2, <3>3
  <2> QED BY <1>3, <1>4, <1>10, <2>2
<1>15. Served(h, pcm, m + 1)
  <2>1. m + 1 - 1 = m
    OBVIOUS
  <2>2. h.pos = Count(h) * h.ratio /\ m * One <= h.pos /\ (Count(h) - 1) * h.ratio < m * One
    BY <1>12, <1>13, <1>14 DEF lim
  <2> QED BY <1>12, <2>1, <2>2 DEF Served, Reached
<1>16. m + 1 \in 0..Len(pcm) /\ m + 1 # 0
  BY <1>1 DEF N
<1>17. On(h, Targets(pcm, h.ratio), Count(h), a)
  BY <1>10, <1>12, <1>13 DEF G
<1>18. Stream(h, pcm, m + 1, a) /\ h.ratio = r
  BY <1>12, <1>15, <1>16, <1>17 DEF Stream
<1> QED BY <1>18 DEF h, n, pos, r, lim

LEMMA PushOneOn ==
    ASSUME NEW e \in Enc, NEW pcm \in Seq(Int), NEW m \in Nat, m < Len(pcm), NEW a,
           Stream(e, pcm, m, a), Len(pcm) * One + e.ratio <= PosSize
    PROVE  LET h == adpcm_enc_push(e, pcm[m + 1])
           IN  Stream(h, pcm, m + 1, e.bytes) /\ h.ratio = e.ratio
<1> DEFINE v == pcm[m + 1]
           f == Turned(e, v)
           h == adpcm_enc_push(e, v)
           G == Targets(pcm, e.ratio)
<1>1. v \in Int
  OBVIOUS
<1> HIDE DEF v
<1>2. /\ f \in Enc /\ f.prev = e.cur /\ f.cur = v /\ f.primed = TRUE
      /\ (e.primed => f.idx = e.idx + 1) /\ (~e.primed => f.idx = e.idx)
      /\ f.ratio = e.ratio /\ f.pos = e.pos /\ Count(f) = Count(e)
      /\ h = IF e.primed /\ f.pos \div One = f.idx - 1
             THEN Samples(f, Positions(f.pos, f.ratio, f.idx * One), FALSE) ELSE f
  <2>1. /\ f \in Enc /\ f.prev = e.cur /\ f.cur = v /\ f.primed = TRUE
        /\ f.ratio = e.ratio /\ f.pos = e.pos /\ Count(f) = Count(e)
    BY <1>1, TurnedIs
  <2>3. (e.primed => f.idx = e.idx + 1) /\ (~e.primed => f.idx = e.idx)
    BY <1>1, TurnedIs
  <2>2. h = IF e.primed /\ f.pos \div One = f.idx - 1
            THEN Samples(f, Positions(f.pos, f.ratio, f.idx * One), FALSE) ELSE f
    BY <1>1, TurnedIs
  <2> QED BY <2>1, <2>2, <2>3, Zenon
<1>3. On(f, G, Count(e), e.bytes)
  BY <1>1, TurnedOn DEF Stream
<1>4. e.pos \in Nat /\ e.ratio \in Nat \ {0} /\ Count(e) \in Nat
  BY CountNat DEF Enc
<1> HIDE DEF f, h
<1>5. m + 1 \in 0..Len(pcm) /\ m + 1 # 0 /\ m + 1 - 1 = m
  OBVIOUS
<1>6. ASSUME Served(f, pcm, m + 1), h = f PROVE Stream(h, pcm, m + 1, e.bytes) /\ h.ratio = e.ratio
  BY <1>2, <1>3, <1>5, <1>6 DEF Stream
<1>7. CASE m = 0
  <2>1. Fresh(e)
    BY <1>7 DEF Stream
  <2>2. h = f /\ f.idx = 0 /\ f.pos = 0 /\ Count(f) = 0
    BY <1>2, <2>1 DEF Fresh
  <2>3. Served(f, pcm, m + 1)
    <3>1. 0 = 0 * f.ratio /\ (m + 1 - 1) * One <= 0 /\ m + 1 - 1 = 0
      BY <1>2, <1>4, <1>7 DEF One
    <3>2. f.pos = Count(f) * f.ratio /\ (m + 1 - 1) * One <= f.pos /\ f.idx = m + 1 - 1
      BY <2>2, <3>1
    <3>3. f.cur = pcm[m + 1]
      BY <1>2 DEF v
    <3> QED BY <1>2, <2>2, <3>2, <3>3 DEF Served, Reached
  <2> QED BY <1>6, <2>2, <2>3 DEF h, v
<1>8. CASE m # 0
  <2>1. Served(e, pcm, m) /\ m \in Nat \ {0}
    BY <1>8 DEF Stream
  <2>2. /\ e.primed = TRUE /\ e.idx = m - 1 /\ e.cur = pcm[m] /\ e.pos = Count(e) * e.ratio
        /\ (m - 1) * One <= e.pos
        /\ Count(e) = 0 \/ (Count(e) - 1) * e.ratio < (m - 1) * One
    BY <2>1 DEF Served, Reached
  <2>3. f.idx = m /\ f.prev = pcm[m] /\ f.cur = pcm[m + 1]
    BY <1>2, <2>2 DEF v
  <2>4. CASE e.pos < m * One
    <3>1. f.pos \div One = f.idx - 1
      <4>1. m - 1 \in Nat /\ (m - 1) + 1 = m
        BY <2>1
      <4>2. e.pos \div One = m - 1
        BY <1>4, <2>2, <2>4, <4>1, DivOne
      <4> QED BY <1>2, <2>3, <4>2
    <3>2. h = Samples(f, Positions(f.pos, f.ratio, m * One), FALSE)
      BY <1>2, <2>2, <2>3, <3>1
    <3>3. On(f, Targets(pcm, f.ratio), Count(f), e.bytes) /\ f.pos = Count(f) * f.ratio
          /\ (m - 1) * One <= f.pos /\ f.pos < m * One /\ Len(pcm) * One + f.ratio <= PosSize
      BY <1>2, <1>3, <2>2, <2>4
    <3>4. LET g == Samples(f, Positions(f.pos, f.ratio, m * One), FALSE)
          IN  Stream(g, pcm, m + 1, e.bytes) /\ g.ratio = f.ratio
      BY <1>2, <2>1, <2>3, <3>3, PushServes
    <3>5. Stream(h, pcm, m + 1, e.bytes) /\ h.ratio = e.ratio
      BY <1>2, <3>2, <3>4
    <3> QED BY <3>5 DEF h, v
  <2>5. CASE ~(e.pos < m * One)
    <3>1. m * One <= e.pos /\ (m - 1) * One <= m * One
      BY <1>4, <2>5 DEF One
    <3>2. e.pos \div One >= m /\ e.pos \div One \in Nat
      BY <1>4, <3>1, DivOne
    <3>3. h = f
      <4> DEFINE d == e.pos \div One
      <4>1. d >= m /\ d \in Nat
        BY <3>2
      <4> HIDE DEF d
      <4>2. ~(d = m - 1)
        BY <4>1
      <4> QED BY <1>2, <2>3, <4>2 DEF d
    <3>4. Served(f, pcm, m + 1)
      <4>1. Count(e) = 0 \/ (Count(e) - 1) * e.ratio < m * One
        <5>1. CASE Count(e) # 0
          <6>1. Count(e) - 1 \in Nat
            BY <1>4, <5>1
          <6>2. (Count(e) - 1) * e.ratio \in Nat /\ (m - 1) * One \in Int /\ m * One \in Nat
            BY <1>4, <6>1 DEF One
          <6> QED BY <2>2, <3>1, <5>1, <6>2
        <5> QED BY <5>1
      <4> QED BY <1>2, <1>5, <2>2, <2>3, <3>1, <4>1 DEF Served, Reached
    <3> QED BY <1>6, <3>3, <3>4 DEF h, v
  <2> QED BY <2>4, <2>5
<1> QED BY <1>7, <1>8

LEMMA BytesIs ==
    ASSUME NEW e \in Enc, NEW b \in Nat, Before(e) = b
    PROVE  e.bytes = b + Len(e.out)
<1>1. e.bytes \in Nat /\ Len(e.out) \in Nat
  BY DEF Enc
<1> QED BY <1>1 DEF Before

LEMMA PushOneCount ==
    ASSUME NEW e \in Enc, NEW v \in Int
    PROVE  Before(adpcm_enc_push(e, v)) = e.bytes
<1> DEFINE f == Turned(e, v)
           n == Positions(f.pos, f.ratio, f.idx * One)
           h == adpcm_enc_push(e, v)
<1>1. f \in Enc /\ f.out = <<>> /\ f.bytes = e.bytes
  BY TurnedIs
<1>2. h = f \/ h = Samples(f, n, FALSE)
  BY TurnedIs
<1> HIDE DEF f, h
<1>3. Before(f) = e.bytes
  <2>1. e.bytes \in Nat /\ Len(f.out) = 0
    BY <1>1 DEF Enc
  <2> QED BY <1>1, <2>1 DEF Before
<1>4. n \in Nat
  <2>1. f.pos \in Nat /\ f.ratio \in Nat \ {0} /\ f.idx \in Nat
    BY <1>1 DEF Enc
  <2>2. f.idx * One \in Nat
    BY <2>1 DEF One
  <2> QED BY <2>1, <2>2, CountType
<1> HIDE DEF n
<1>5. Before(Samples(f, n, FALSE)) = Before(f)
  BY <1>1, <1>4, SamplesCount
<1>6. Before(h) = e.bytes
  BY <1>2, <1>3, <1>5
<1> QED BY <1>6 DEF h

LEMMA PushOnCount ==
    ASSUME NEW e \in Enc, NEW v \in Int
    PROVE  Before(PushOn(e, v)) = Before(e)
<1> DEFINE h == adpcm_enc_push(e, v)
           p == e.out
           q == h.out
           g == [h EXCEPT !.out = p \o q]
<1>1. h \in Enc /\ Before(h) = e.bytes
  BY PushOneType, PushOneCount
<1>2. PushOn(e, v) = g
  BY DEF PushOn
<1> HIDE DEF h
<1>3. g.bytes = h.bytes /\ g.out = p \o q /\ p \in Seq(Int) /\ q \in Seq(Int) /\ e.bytes \in Nat
  BY <1>1 DEF Enc
<1>4. h.bytes = e.bytes + Len(q)
  BY <1>1, <1>3, BytesIs
<1> HIDE DEF p, q, g
<1>5. Len(g.out) = Len(p) + Len(q) /\ Len(p) \in Nat /\ Len(q) \in Nat
  BY <1>3
<1>6. Before(g) = e.bytes - Len(p)
  BY <1>3, <1>4, <1>5 DEF Before
<1> QED BY <1>2, <1>6 DEF Before, p

LEMMA PushCount ==
    ASSUME NEW e \in Enc, NEW samples \in Seq(Int)
    PROVE  Before(Push(e, samples)) = e.bytes
<1> DEFINE n == Len(samples)
<1>1. PICK s : PushRun(e, samples, s)
  BY PushesRun
<1>2. /\ s[0] = [e EXCEPT !.out = <<>>] /\ Push(e, samples) = s[n]
      /\ (\A k \in 0..n : s[k] \in Enc)
      /\ \A k \in 1..n : s[k] = PushOn(s[k - 1], samples[k])
  BY <1>1, Zenon DEF PushRun
<1>3. n \in Nat /\ \A k \in 1..n : samples[k] \in Int
  OBVIOUS
<1> HIDE DEF n
<1> DEFINE S == {k \in 0..n : Before(s[k]) = e.bytes}
<1>4. 0 \in S
  <2>1. s[0].bytes = e.bytes /\ s[0].out = <<>> /\ e.bytes \in Nat
    BY <1>2 DEF Enc
  <2>2. Before(s[0]) = e.bytes
    BY <2>1 DEF Before
  <2> QED BY <1>3, <2>2
<1>5. ASSUME NEW k \in 1..n, k - 1 \in S PROVE k \in S
  <2> DEFINE d == s[k - 1]
  <2>1. d \in Enc /\ s[k] = PushOn(d, samples[k]) /\ samples[k] \in Int /\ k \in 0..n
    BY <1>2, <1>3
  <2>2. Before(d) = e.bytes
    BY <1>5
  <2> HIDE DEF d
  <2>3. Before(s[k]) = Before(d)
    BY <2>1, PushOnCount
  <2> QED BY <2>1, <2>2, <2>3
<1>6. \A k \in 0..n : k \in S
  <2> HIDE DEF S
  <2> QED BY <1>3, <1>4, <1>5, Climb
<1> QED BY <1>2, <1>3, <1>6

\* The padding: so many nibbles more, and a whole number of pages.
LEMMA PaddedCount ==
    ASSUME NEW e \in Enc
    PROVE  LET h == Padded(e)
           IN  Count(h) = Count(e) + Missing(Count(e)) /\ Before(h) = Before(e)
<1> DEFINE n == Missing(Count(e))
<1>1. PICK s : PadRun(e, s)
  BY PaddedRun
<1>2. /\ n \in Nat /\ s[0] = e /\ Padded(e) = s[n] /\ (\A k \in 0..n : s[k] \in Enc)
      /\ \A k \in 1..n : s[k] = emit_nibble(s[k - 1], 0)
  BY <1>1, Zenon DEF PadRun
<1>3. Count(e) \in Nat
  BY CountNat
<1> DEFINE S == {k \in 0..n : Count(s[k]) = Count(e) + k /\ Before(s[k]) = Before(e)}
<1> HIDE DEF n
<1>4. 0 \in S
  BY <1>2, <1>3
<1>5. ASSUME NEW k \in 1..n, k - 1 \in S PROVE k \in S
  <2> DEFINE d == s[k - 1]
  <2>1. d \in Enc /\ s[k] = emit_nibble(d, 0) /\ 0 \in Int /\ k \in 0..n
    BY <1>2
  <2>2. Count(d) = Count(e) + (k - 1) /\ Before(d) = Before(e)
    BY <1>5
  <2> HIDE DEF d
  <2>3. Count(s[k]) = Count(d) + 1 /\ Before(s[k]) = Before(d)
    BY <2>1, NibbleCount
  <2> QED BY <1>3, <2>1, <2>2, <2>3
<1>6. \A k \in 0..n : k \in S
  <2> HIDE DEF S
  <2> QED BY <1>2, <1>4, <1>5, Climb
<1>7. n \in S
  BY <1>2, <1>6
<1> QED BY <1>2, <1>7 DEF n

Aligned(a) == \E q \in Nat : a = q * PageBytes

LEMMA WholePages ==
    ASSUME NEW c \in Nat
    PROVE  \E q \in Nat : c + Missing(c) = 2 * (q * PageBytes)
<1> DEFINE d == 2 * PageBytes
           x == -c
           y == x \div d
           z == x % d
<1>1. d \in Nat \ {0} /\ x \in Int /\ x <= 0 /\ PageBytes \in Nat \ {0}
  BY EncoderAssumption
<1> HIDE DEF d
<1>2. z \in Nat /\ y \in Int /\ x = d * y + z /\ z < d
  <2> HIDE DEF x
  <2> QED BY <1>1
<1>3. z = Missing(c)
  BY DEF Missing, d
<1> HIDE DEF z, y
<1> DEFINE w == -y
<1>4. w \in Int /\ c + z = d * w
  <2>1. c = -(d * y + z) /\ d * w = -(d * y)
    BY <1>1, <1>2
  <2> QED BY <1>1, <1>2, <2>1
<1>5. w >= 0
  <2> HIDE DEF w
  <2> QED BY <1>1, <1>2, <1>4
<1> HIDE DEF w
<1>6. d * w = 2 * (w * PageBytes)
  BY <1>1, <1>4 DEF d
<1> QED BY <1>3, <1>4, <1>5, <1>6

LEMMA WholeBytes ==
    ASSUME NEW e \in Enc, NEW q \in Nat, Count(e) = 2 * (q * PageBytes)
    PROVE  e.bytes = q * PageBytes /\ e.half < 0
<1> DEFINE u == q * PageBytes
<1>1. u \in Nat /\ e.bytes \in Nat /\ Count(e) = 2 * u /\ e.half \in Int
  BY EncoderAssumption DEF Enc
<1> HIDE DEF u
<1>2. CASE e.half < 0
  <2>1. Count(e) = 2 * e.bytes + 0
    BY <1>2, CountIs
  <2>2. e.bytes = u
    BY <1>1, <2>1
  <2> QED BY <1>2, <2>2 DEF u
<1>3. CASE ~(e.half < 0)
  <2>1. Count(e) = 2 * e.bytes + 1
    BY <1>3, CountIs
  <2>2. FALSE
    <3> DEFINE b == e.bytes
    <3>1. b \in Nat /\ 2 * u = 2 * b + 1
      BY <1>1, <2>1
    <3> HIDE DEF b
    <3> QED BY <1>1, <3>1
  <2> QED BY <2>2
<1> QED BY <1>2, <1>3

\* A flush that ends leaves whole pages behind what was handed over.
LEMMA FlushCount ==
    ASSUME NEW e \in Enc, Ends(e)
    PROVE  Before(Flush(e)) = e.bytes /\ Aligned(Flush(e).bytes)
<1> DEFINE f == [e EXCEPT !.out = <<>>]
           n == TailCount(e)
           g == Samples(f, n, TRUE)
           h == Padded(g)
<1>1. f \in Enc /\ Before(f) = e.bytes
  <2>1. <<>> \in Seq(Int)
    OBVIOUS
  <2>2. f.bytes = e.bytes /\ f.out = <<>> /\ e.bytes \in Nat
    BY DEF Enc
  <2>3. f \in Enc
    BY <2>1, SetEnc
  <2> HIDE DEF f
  <2> QED BY <2>2, <2>3 DEF Before
<1>2. Flush(e) = h
  BY DEF Flush
<1>3. n \in Nat
  BY TailEnds
<1> HIDE DEF f, n
<1>4. g \in Enc /\ Before(g) = Before(f)
  BY <1>1, <1>3, SamplesType, SamplesCount
<1> HIDE DEF g
<1>5. h \in Enc /\ Before(h) = Before(g) /\ Count(h) = Count(g) + Missing(Count(g))
  BY <1>4, PaddedType, PaddedCount
<1> HIDE DEF h
<1>6. PICK q \in Nat : Count(h) = 2 * (q * PageBytes)
  <2>1. Count(g) \in Nat
    BY <1>4, CountNat
  <2> QED BY <1>5, <2>1, WholePages
<1>7. h.bytes = q * PageBytes
  BY <1>5, <1>6, WholeBytes
<1> QED BY <1>1, <1>2, <1>4, <1>5, <1>7 DEF Aligned

\* What a pass hands over comes right behind what there was.
LEMMA FeedCount ==
    ASSUME NEW e \in Enc, NEW chunk \in Seq(Int), NEW last, ~Hangs(e, chunk, last)
    PROVE  LET h == Feed(e, chunk, last)
           IN  h.bytes = e.bytes + Len(h.out) /\ (last => Aligned(h.bytes))
<1> DEFINE f == Push(e, chunk)
           h == Feed(e, chunk, last)
<1>1. f \in Enc /\ Before(f) = e.bytes /\ h \in Enc /\ e.bytes \in Nat
  BY PushType, PushCount, FeedType DEF Enc
<1>2. CASE ~last
  <2>1. h = f
    BY <1>2 DEF Feed
  <2> HIDE DEF f, h
  <2>2. h.bytes = e.bytes + Len(h.out)
    BY <1>1, <2>1, BytesIs
  <2> QED BY <1>2, <2>2 DEF h
<1>3. CASE last
  <2> DEFINE g == Flush(f)
             p == f.out
             q == g.out
  <2>1. Ends(f)
    BY <1>3 DEF Hangs
  <2>2. h = [g EXCEPT !.out = p \o q]
    BY <1>3, <2>1 DEF Feed, Flushed
  <2> HIDE DEF f, h
  <2>3. g \in Enc /\ Before(g) = f.bytes /\ Aligned(g.bytes)
    BY <1>1, <2>1, FlushType, FlushCount
  <2> HIDE DEF g
  <2>4. h.bytes = g.bytes /\ h.out = p \o q /\ p \in Seq(Int) /\ q \in Seq(Int) /\ f.bytes \in Nat
    BY <1>1, <2>2, <2>3 DEF Enc
  <2>5. g.bytes = f.bytes + Len(q) /\ f.bytes = e.bytes + Len(p)
    BY <1>1, <2>3, <2>4, BytesIs
  <2> HIDE DEF p, q
  <2>6. Len(h.out) = Len(p) + Len(q) /\ Len(p) \in Nat /\ Len(q) \in Nat
    BY <2>4
  <2>7. h.bytes = e.bytes + Len(h.out) /\ Aligned(h.bytes)
    BY <1>1, <2>3, <2>4, <2>5, <2>6
  <2> QED BY <2>7 DEF h
<1> QED BY <1>2, <1>3

\* One push of a run, and a run of them, stay in step with the file.
LEMMA StreamPush ==
    ASSUME NEW e \in Enc, NEW pcm \in Seq(Int), NEW m \in Nat, m < Len(pcm), NEW a,
           Stream(e, pcm, m, a), Len(pcm) * One + e.ratio <= PosSize
    PROVE  LET h == PushOn(e, pcm[m + 1])
           IN  Stream(h, pcm, m + 1, a) /\ h.ratio = e.ratio
<1> DEFINE v == pcm[m + 1]
           g == adpcm_enc_push(e, v)
           h == [g EXCEPT !.out = e.out \o g.out]
           G == Targets(pcm, e.ratio)
<1>1. v \in Int
  OBVIOUS
<1>2. Stream(g, pcm, m + 1, e.bytes) /\ g.ratio = e.ratio
  BY PushOneOn
<1>3. PushOn(e, v) = h
  BY DEF PushOn
<1>4. g \in Enc
  BY <1>1, PushOneType
<1> HIDE DEF g
<1>5. On(e, G, Count(e), a) /\ On(g, G, Count(g), e.bytes)
  BY <1>2 DEF Stream
<1>6. On(h, G, Count(g), a)
  <2> HIDE DEF G
  <2> QED BY <1>4, <1>5, OnJoined
<1>7. h.idx = g.idx /\ h.cur = g.cur /\ h.pos = g.pos /\ h.ratio = g.ratio /\ h.primed = g.primed
      /\ h.bytes = g.bytes /\ h.half = g.half
  BY <1>4 DEF Enc
<1> HIDE DEF h
<1>8. Count(h) = Count(g)
  BY <1>7 DEF Count
<1>9. m + 1 \in 0..Len(pcm) /\ m + 1 # 0
  OBVIOUS
<1>10. Served(g, pcm, m + 1)
  BY <1>2, <1>9 DEF Stream
<1>11. Served(h, pcm, m + 1)
  BY <1>7, <1>8, <1>10 DEF Served, Reached
<1>12. Stream(h, pcm, m + 1, a)
  BY <1>2, <1>6, <1>7, <1>8, <1>9, <1>11 DEF Stream
<1> QED BY <1>2, <1>3, <1>7, <1>12

LEMMA StreamAnew ==
    ASSUME NEW e \in Enc, NEW pcm, NEW m, NEW a, Stream(e, pcm, m, a)
    PROVE  LET f == [e EXCEPT !.out = <<>>]
           IN  f \in Enc /\ Stream(f, pcm, m, e.bytes) /\ f.ratio = e.ratio /\ f.bytes = e.bytes
<1> DEFINE f == [e EXCEPT !.out = <<>>]
           G == Targets(pcm, e.ratio)
<1>1. f.idx = e.idx /\ f.cur = e.cur /\ f.pos = e.pos /\ f.ratio = e.ratio /\ f.primed = e.primed
      /\ f.bytes = e.bytes /\ f.half = e.half
  BY DEF Enc
<1>2. f \in Enc
  <2>1. <<>> \in Seq(Int)
    OBVIOUS
  <2> QED BY <2>1, SetEnc
<1>3. On(f, G, Count(e), e.bytes)
  BY OnAnew DEF Stream
<1> HIDE DEF f
<1>4. Count(f) = Count(e)
  BY <1>1 DEF Count
<1>5. Fresh(e) => Fresh(f)
  BY <1>1, <1>4 DEF Fresh
<1>6. Served(e, pcm, m) => Served(f, pcm, m)
  BY <1>1, <1>4 DEF Served, Reached
<1>7. Stream(f, pcm, m, e.bytes)
  BY <1>1, <1>3, <1>4, <1>5, <1>6 DEF Stream
<1> QED BY <1>1, <1>2, <1>7 DEF f

LEMMA StreamPushes ==
    ASSUME NEW e \in Enc, NEW pcm \in Seq(Int), NEW m \in Nat, NEW a, Stream(e, pcm, m, a),
           Len(pcm) * One + e.ratio <= PosSize,
           NEW chunk \in Seq(Int), m + Len(chunk) <= Len(pcm),
           \A i \in 1..Len(chunk) : chunk[i] = pcm[m + i]
    PROVE  LET h == Push(e, chunk)
           IN  Stream(h, pcm, m + Len(chunk), e.bytes) /\ h.ratio = e.ratio
<1> DEFINE n == Len(chunk)
<1>1. PICK s : PushRun(e, chunk, s)
  BY PushesRun
<1>2. /\ s[0] = [e EXCEPT !.out = <<>>] /\ Push(e, chunk) = s[n]
      /\ (\A k \in 0..n : s[k] \in Enc)
      /\ \A k \in 1..n : s[k] = PushOn(s[k - 1], chunk[k])
  BY <1>1, Zenon DEF PushRun
<1>3. n \in Nat
  OBVIOUS
<1> DEFINE S == {k \in 0..n : Stream(s[k], pcm, m + k, e.bytes) /\ s[k].ratio = e.ratio}
<1>4. 0 \in S
  <2>1. Stream(s[0], pcm, m, e.bytes) /\ s[0].ratio = e.ratio
    BY <1>2, StreamAnew
  <2>2. m + 0 = m
    OBVIOUS
  <2> QED BY <1>3, <2>1, <2>2
<1>5. ASSUME NEW k \in 1..n, k - 1 \in S PROVE k \in S
  <2> DEFINE d == s[k - 1]
             j == m + (k - 1)
  <2>1. j \in Nat /\ j < Len(pcm) /\ j + 1 = m + k /\ k \in 0..n
    BY <1>3
  <2>2. d \in Enc /\ s[k] = PushOn(d, pcm[j + 1])
    <3>1. chunk[k] = pcm[j + 1]
      <4> HIDE DEF j
      <4>1. chunk[k] = pcm[m + k]
        OBVIOUS
      <4> QED BY <2>1, <4>1
    <3>2. k - 1 \in 0..n
      BY <1>3
    <3>3. s[k] = PushOn(d, chunk[k]) /\ d \in Enc
      BY <1>2, <3>2
    <3> HIDE DEF d, j
    <3> QED BY <3>1, <3>3
  <2>3. Stream(d, pcm, j, e.bytes) /\ d.ratio = e.ratio
    BY <1>5
  <2> HIDE DEF d, j
  <2>4. Stream(s[k], pcm, j + 1, e.bytes) /\ s[k].ratio = d.ratio
    BY <2>1, <2>2, <2>3, StreamPush
  <2> QED BY <2>1, <2>3, <2>4
<1>6. \A k \in 0..n : k \in S
  <2> HIDE DEF S
  <2> QED BY <1>3, <1>4, <1>5, Climb
<1>7. n \in S
  BY <1>3, <1>6
<1> QED BY <1>2, <1>7

\* The tail: the positions that are left, then the silence; all of the file.
LEMMA TailIs ==
    ASSUME NEW e \in Enc, NEW pcm \in Seq(Int), Len(pcm) >= 1, Reached(e, pcm, Len(pcm)),
           Len(pcm) * One + e.ratio <= PosSize
    PROVE  LET L == Total(pcm, e.ratio)
           IN  L - Count(e) \in Nat /\ Ends(e) /\ TailCount(e) = L - Count(e)
<1> DEFINE r == e.ratio
           c == Count(e)
           N == Len(pcm)
           lim == N * One
           L == Total(pcm, r)
           T == L - c
<1>1. r \in Nat \ {0} /\ c \in Nat /\ N \in Nat \ {0} /\ PosSize \in Nat
  <2>1. r \in Nat \ {0}
    BY DEF Enc
  <2>2. c \in Nat
    BY CountNat
  <2> QED BY <2>1, <2>2, EncoderAssumption
<1>2. e.idx = N - 1 /\ e.pos = c * r /\ (c = 0 \/ (c - 1) * r < (N - 1) * One)
  BY DEF Reached
<1>3. lim + r <= PosSize /\ lim \in Nat /\ (N - 1) * One < lim
  BY <1>1 DEF One
<1>4. L \in Nat \ {0} /\ (L - 1) * r < lim /\ lim <= L * r
      /\ \A j \in Nat : j < L <=> j * r < lim
  BY <1>1, TotalIs
<1> HIDE DEF r, c, lim, L
<1>5. T \in Nat /\ c + T = L
  <2>1. c <= L
    <3>1. CASE c # 0
      <4> DEFINE b == c - 1
      <4>1. b \in Nat /\ c = b + 1
        BY <1>1, <3>1
      <4>2. b * r < (N - 1) * One
        BY <1>2, <3>1
      <4> HIDE DEF b
      <4>3. b * r < lim
        <5> DEFINE u == b * r
                   w == (N - 1) * One
        <5>1. u \in Nat /\ w \in Int /\ u < w /\ w < lim
          BY <1>1, <1>3, <4>1, <4>2 DEF One
        <5> HIDE DEF u, w
        <5>2. u < lim
          BY <1>3, <5>1
        <5> QED BY <5>2 DEF u
      <4>4. b < L
        BY <1>4, <4>1, <4>3
      <4> QED BY <1>1, <1>4, <4>1, <4>4
    <3> QED BY <1>4, <3>1
  <2> QED BY <1>1, <1>4, <2>1
<1> HIDE DEF T
\* No position of the file wraps: the sum is the position.
<1>6. ASSUME NEW n \in Nat, n <= T
      PROVE  /\ (c + n) * r \in Nat /\ (e.pos + n * r) % PosSize = (c + n) * r
             /\ n < T => (c + n) * r < lim
  <2>1. (c + n) * r = c * r + n * r /\ (c + n) * r \in Nat /\ c + n \in Nat /\ c + n <= L
    BY <1>1, <1>4, <1>5, <1>6
  <2>2. (c + n) * r <= L * r
    BY <1>1, <1>4, <2>1, TimesOrder
  <2>3. L * r = (L - 1) * r + r /\ (L - 1) * r \in Nat /\ L * r \in Nat
    <3>1. L - 1 \in Nat
      BY <1>4
    <3> QED BY <1>1, <1>4, <3>1
  <2>4. L * r < PosSize
    <3> DEFINE u == (L - 1) * r
    <3>1. L * r = u + r /\ u \in Nat /\ u < lim
      BY <1>4, <2>3
    <3> HIDE DEF u
    <3> QED BY <1>1, <1>3, <3>1
  <2>5. (c + n) * r < PosSize
    BY <1>1, <2>1, <2>2, <2>3, <2>4
  <2>6. n < T => (c + n) * r < lim
    <3>1. n < T => c + n < L
      BY <1>1, <1>4, <1>5
    <3> QED BY <1>4, <2>1, <3>1
  <2> DEFINE p == (c + n) * r
  <2>7. e.pos + n * r = p
    BY <1>2, <2>1
  <2> HIDE DEF p
  <2>8. p % PosSize = p
    BY <1>1, <2>1, <2>5, SmallMod DEF p
  <2> QED BY <2>1, <2>6, <2>7, <2>8 DEF p
<1>7. Past(e, T)
  <2> DEFINE p == (c + T) * r
  <2>1. p \in Nat /\ (e.pos + T * r) % PosSize = p
    BY <1>5, <1>6
  <2>2. N * One <= p
    BY <1>4, <1>5 DEF lim
  <2> HIDE DEF p
  <2>3. p \div One >= N /\ p \div One \in Nat
    BY <1>1, <2>1, <2>2, DivOne
  <2>4. p \div One > e.idx
    BY <1>1, <1>2, <2>3
  <2> QED BY <2>1, <2>4 DEF Past, r
<1>8. ASSUME NEW n \in Nat, n < T PROVE ~Past(e, n)
  <2> DEFINE p == (c + n) * r
  <2>1. n <= T
    BY <1>5, <1>8
  <2>2. p \in Nat /\ (e.pos + n * r) % PosSize = p /\ p < N * One
    BY <1>6, <1>8, <2>1 DEF lim
  <2> HIDE DEF p
  <2>3. p \div One < N /\ p \div One \in Nat
    BY <1>1, <2>2, DivOne
  <2>4. ~(p \div One > e.idx)
    BY <1>1, <1>2, <2>3
  <2> QED BY <2>2, <2>4 DEF Past, r
<1>9. T \in 0..PosSize
  <2>1. L <= PosSize
    <3>1. L * r < PosSize
      <4> DEFINE u == (L - 1) * r
      <4>1. L * r = u + r /\ u \in Nat /\ u < lim
        <5>1. L - 1 \in Nat
          BY <1>4
        <5> QED BY <1>1, <1>4, <5>1
      <4> HIDE DEF u
      <4> QED BY <1>1, <1>3, <4>1
    <3>2. L <= L * r
      BY <1>1, <1>4
    <3>3. L * r \in Nat
      BY <1>1, <1>4
    <3> QED BY <1>1, <1>4, <3>1, <3>2, <3>3
  <2> QED BY <1>1, <1>4, <1>5, <2>1
<1>10. Ends(e)
  BY <1>7, <1>9 DEF Ends
<1>11. TailCount(e) = T
  <2> DEFINE n == TailCount(e)
  <2>1. n \in Nat /\ Past(e, n) /\ \A k \in 0..n - 1 : ~Past(e, k)
    BY <1>10, TailEnds
  <2> HIDE DEF n
  <2>2. ~(n < T)
    BY <1>8, <2>1
  <2>3. ~(T < n)
    BY <1>5, <1>7, <2>1
  <2> QED BY <1>5, <2>1, <2>2, <2>3 DEF n
<1> QED BY <1>5, <1>10, <1>11 DEF T, L, c, r

LEMMA PaddedOn ==
    ASSUME NEW e \in Enc, NEW G \in Seq(Int), NEW L \in Nat, NEW a, On(e, G, L, a),
           Len(G) = L + Missing(L), \A k \in L + 1..Len(G) : G[k] = 0
    PROVE  On(Padded(e), G, Len(G), a)
<1> DEFINE n == Missing(L)
<1>1. Count(e) = L
  BY DEF On
<1>2. PICK s : PadRun(e, s)
  BY PaddedRun
<1>3. /\ n \in Nat /\ s[0] = e /\ Padded(e) = s[n] /\ (\A k \in 0..n : s[k] \in Enc)
      /\ \A k \in 1..n : s[k] = emit_nibble(s[k - 1], 0)
  BY <1>1, <1>2, Zenon DEF PadRun
<1>4. Len(G) = L + n
  OBVIOUS
<1> HIDE DEF n
<1> DEFINE S == {k \in 0..n : On(s[k], G, L + k, a)}
<1>5. 0 \in S
  <2>1. L + 0 = L
    OBVIOUS
  <2> QED BY <1>3, <2>1
<1>6. ASSUME NEW k \in 1..n, k - 1 \in S PROVE k \in S
  <2> DEFINE d == s[k - 1]
             j == L + (k - 1)
  <2>1. j \in Nat /\ j < Len(G) /\ j + 1 = L + k /\ k \in 0..n /\ j + 1 \in L + 1..Len(G)
    BY <1>3, <1>4
  <2>2. d \in Enc /\ s[k] = emit_nibble(d, 0) /\ On(d, G, j, a)
    BY <1>3, <1>6
  <2> HIDE DEF d, j
  <2>3. G[j + 1] = 0
    BY <2>1
  <2>4. On(s[k], G, j + 1, a)
    BY <2>1, <2>2, <2>3, NibbleOn
  <2> QED BY <2>1, <2>4
<1>7. \A k \in 0..n : k \in S
  <2> HIDE DEF S
  <2> QED BY <1>3, <1>5, <1>6, Climb
<1> QED BY <1>3, <1>4, <1>7

LEMMA FlushOn ==
    ASSUME NEW e \in Enc, NEW pcm \in Seq(Int), Len(pcm) >= 1, Reached(e, pcm, Len(pcm)),
           NEW a, On(e, Targets(pcm, e.ratio), Count(e), a), Len(pcm) * One + e.ratio <= PosSize
    PROVE  LET G == Targets(pcm, e.ratio)
           IN  Ends(e) /\ On(Flush(e), G, Len(G), e.bytes)
<1> DEFINE r == e.ratio
           c == Count(e)
           N == Len(pcm)
           lim == N * One
           G == Targets(pcm, r)
           L == Total(pcm, r)
           T == TailCount(e)
           f == [e EXCEPT !.out = <<>>]
           g == Samples(f, T, TRUE)
<1>1. r \in Nat \ {0} /\ c \in Nat /\ N \in Nat \ {0} /\ PosSize \in Nat /\ N >= 1
  <2>1. r \in Nat \ {0}
    BY DEF Enc
  <2>2. c \in Nat
    BY CountNat
  <2> QED BY <2>1, <2>2, EncoderAssumption
<1>2. e.pos = c * r /\ (N - 1) * One <= e.pos /\ e.cur = pcm[N] /\ e.pos \in Nat
  BY DEF Reached, Enc
<1>3. Ends(e) /\ T \in Nat /\ T = L - c
  BY TailIs
<1>4. /\ G \in Seq(Int) /\ L \in Nat /\ Len(G) = L + Missing(L)
      /\ \A i \in 1..L : G[i] = Level(SourceAt(pcm, (i - 1) * r))
      /\ \A k \in L + 1..Len(G) : G[k] = 0
  <2> HIDE DEF r
  <2> QED BY <1>1, TargetsAre
<1>5. (L - 1) * r < lim /\ lim <= L * r /\ L \in Nat \ {0}
  <2> HIDE DEF r
  <2> QED BY <1>1, TotalIs
<1>6. f \in Enc /\ On(f, G, c, e.bytes) /\ f.pos = e.pos /\ f.ratio = r /\ f.cur = e.cur
  <2>1. <<>> \in Seq(Int)
    OBVIOUS
  <2>2. f.pos = e.pos /\ f.ratio = r /\ f.cur = e.cur
    BY DEF Enc
  <2>3. f \in Enc
    BY <2>1, SetEnc
  <2>4. On(f, G, c, e.bytes)
    BY OnAnew
  <2> QED BY <2>2, <2>3, <2>4
<1>7. lim \in Nat /\ lim + r <= PosSize
  BY <1>1 DEF One
<1>8. Flush(e) = Padded(g)
  BY DEF Flush
<1> HIDE DEF r, c, lim, G, L, T, f
<1>9. Missing(L) \in Nat /\ c + T = L /\ c + T <= Len(G)
  BY <1>1, <1>3, <1>4, MissingType
<1>10. ASSUME NEW i \in 0..T - 1
       PROVE  /\ Level(ValueAt(f, f.pos + i * f.ratio, TRUE)) = G[c + i + 1]
              /\ f.pos + (i + 1) * f.ratio < PosSize
  <2> DEFINE p == (c + i) * r
             j == c + i
             u == i * r
  <2>1. i \in Nat /\ j \in Nat /\ j <= L - 1 /\ j + 1 \in 1..L /\ (j + 1) - 1 = j /\ L - 1 \in Nat
    BY <1>1, <1>3, <1>5, <1>9
  <2>2. p \in Nat /\ u \in Nat /\ p = e.pos + u /\ (i + 1) * r = u + r
    BY <1>1, <1>2, <2>1
  <2>3. p <= (L - 1) * r
    BY <1>1, <2>1, TimesOrder
  <2>4. p < lim
    <3> DEFINE w == (L - 1) * r
    <3>1. w \in Nat /\ w < lim /\ p <= w
      BY <1>1, <1>5, <2>1, <2>3
    <3> HIDE DEF w, p
    <3> QED BY <1>7, <2>2, <3>1
  <2>5. G[c + i + 1] = Level(SourceAt(pcm, p))
    <3>1. c + i + 1 = j + 1
      BY <1>1, <2>1
    <3> HIDE DEF j
    <3>2. G[j + 1] = Level(SourceAt(pcm, ((j + 1) - 1) * r))
      BY <1>4, <2>1
    <3> QED BY <2>1, <3>1, <3>2 DEF j
  <2>6. ValueAt(f, p, TRUE) = SourceAt(pcm, p)
    <3> HIDE DEF p
    <3>1. (Len(pcm) - 1) * One <= p
      <4> DEFINE w == (N - 1) * One
      <4>1. w <= e.pos /\ w \in Int
        BY <1>1, <1>2 DEF One
      <4> HIDE DEF w, u
      <4>2. w <= p
        BY <1>2, <2>2, <4>1
      <4> QED BY <4>2 DEF w
    <3> QED BY <1>1, <1>2, <1>6, <2>2, <3>1, TailValue
  <2>7. f.pos + i * f.ratio = p
    BY <1>6, <2>2
  <2>8. f.pos + (i + 1) * f.ratio < PosSize
    <3> DEFINE w == (i + 1) * r
    <3>1. w = u + r /\ f.pos = e.pos /\ f.ratio = r
      BY <1>6, <2>2
    <3> HIDE DEF w, u, p
    <3>2. e.pos + w < PosSize
      BY <1>1, <1>2, <1>7, <2>2, <2>4, <3>1
    <3> QED BY <3>1, <3>2 DEF w
  <2> HIDE DEF p
  <2> QED BY <2>5, <2>6, <2>7, <2>8
<1>11. On(g, G, c + T, e.bytes)
  BY <1>1, <1>3, <1>4, <1>6, <1>9, <1>10, SamplesOn
<1>12. g \in Enc
  BY <1>3, <1>6, SamplesType
<1> HIDE DEF g
<1>13. On(Padded(g), G, Len(G), e.bytes)
  BY <1>4, <1>9, <1>11, <1>12, PaddedOn
<1> QED BY <1>3, <1>8, <1>13 DEF G, r

\* The packer's file, byte by byte.
File(pcm) == IF pcm = <<>> THEN <<0>> ELSE pcm
FileTargets(pcm, rate) == Targets(File(pcm), Ratio(rate))

LEMMA FileIs == ASSUME NEW pcm \in Seq(Int) PROVE File(pcm) \in Seq(Int) /\ Len(File(pcm)) >= 1
<1>1. CASE pcm = <<>>
  BY <1>1 DEF File
<1>2. CASE pcm # <<>>
  <2>1. Len(pcm) # 0 /\ Len(pcm) \in Nat
    BY <1>2, EmptySeq
  <2> QED BY <1>2, <2>1 DEF File
<1> QED BY <1>1, <1>2

LEMMA TargetsWhole ==
    ASSUME NEW pcm \in Seq(Int), NEW rate \in Nat \ {0}
    PROVE  LET G == FileTargets(pcm, rate)
           IN  G \in Seq(Int) /\ \E q \in Nat : Len(G) = 2 * (q * PageBytes)
<1> DEFINE G == FileTargets(pcm, rate)
           L == Total(File(pcm), Ratio(rate))
<1>1. File(pcm) \in Seq(Int) /\ Len(File(pcm)) >= 1 /\ Ratio(rate) \in Nat \ {0}
  BY FileIs, RatioType
<1>2. G \in Seq(Int) /\ L \in Nat /\ Len(G) = L + Missing(L)
  BY <1>1, TargetsAre DEF FileTargets
<1>3. \E q \in Nat : L + Missing(L) = 2 * (q * PageBytes)
  BY <1>2, WholePages
<1> QED BY <1>2, <1>3

LEMMA PackIs ==
    ASSUME NEW pcm \in Seq(Int), NEW rate \in Nat \ {0}
    PROVE  LET P == Packed(pcm, rate)
               G == FileTargets(pcm, rate)
           IN  /\ Len(P) \in Nat /\ Len(G) = 2 * Len(P)
               /\ \A i \in 1..Len(P) : P[i] = Byte(G, i)
               /\ P = [i \in 1..Len(P) |-> P[i]]
<1> DEFINE F == File(pcm)
           r == Ratio(rate)
           G == FileTargets(pcm, rate)
           n == Len(G) \div 2
           P == Packed(pcm, rate)
           nib == Encode(G)
<1>1. G \in Seq(Int) /\ \E q \in Nat : Len(G) = 2 * (q * PageBytes)
  BY TargetsWhole
<1>2. Len(nib) = Len(G)
  BY <1>1, RefRun
<1>3. G = Resample(F, r) \o [k \in 1..(-Len(Resample(F, r))) % (2 * PageBytes) |-> 0]
  BY Zenon DEF FileTargets, Targets, Silence, Missing
<1>4. P = [k \in 1..Len(nib) \div 2 |-> 16 * nib[2 * k - 1] + nib[2 * k]]
  <2>1. Packed(pcm, rate) = PackVoice(F, rate)
    BY Zenon DEF Packed, File
  <2> QED BY <1>3, <2>1, Zenon DEF PackVoice
<1> HIDE DEF G, P, nib
<1>5. P = [k \in 1..n |-> 16 * nib[2 * k - 1] + nib[2 * k]]
  BY <1>2, <1>4
<1>6. n \in Nat /\ Len(G) = 2 * n
  <2>1. PICK q \in Nat : Len(G) = 2 * (q * PageBytes)
    BY <1>1
  <2> DEFINE u == q * PageBytes
  <2>2. u \in Nat /\ Len(G) = 2 * u
    BY <2>1, EncoderAssumption
  <2> HIDE DEF u
  <2> QED BY <2>2
<1> HIDE DEF n
<1>7. Len(P) = n /\ \A i \in 1..n : P[i] = 16 * nib[2 * i - 1] + nib[2 * i]
  BY <1>5, <1>6
<1>8. \A i \in 1..n : P[i] = Byte(G, i)
  BY <1>7 DEF Byte, Nib, nib
<1>9. P = [i \in 1..Len(P) |-> P[i]]
  BY <1>5, <1>7
<1> QED BY <1>6, <1>7, <1>8, <1>9 DEF P, G

\* A loader in the middle of a file: left is what is still to come.
Loading(e, pcm, rate, left) ==
    LET m == Len(pcm) - Len(left)
    IN  /\ m \in Nat /\ left \in Seq(Int) /\ \A i \in 1..Len(left) : left[i] = pcm[m + i]
        /\ e.ratio = Ratio(rate) /\ e.out = <<>> /\ Stream(e, File(pcm), m, e.bytes)

\* What a pass hands over are the next bytes of the packer's file.
HandsOver(e, h, G) == \A i \in 1..Len(h.out) : h.out[i] = Byte(G, e.bytes + i)

LEMMA LoadingStarts ==
    ASSUME NEW pcm \in Seq(Int), NEW rate \in Nat \ {0}
    PROVE  Loading(adpcm_enc_init(rate), pcm, rate, pcm)
<1> DEFINE e == adpcm_enc_init(rate)
           F == File(pcm)
           G == Targets(F, e.ratio)
           m == Len(pcm) - Len(pcm)
<1>1. /\ e.ratio = Ratio(rate) /\ e.pos = 0 /\ e.idx = 0 /\ e.cur = 0 /\ e.primed = FALSE
      /\ e.x = 0 /\ e.step = 0 /\ e.bytes = 0 /\ e.half = -1 /\ e.out = <<>>
  BY DEF adpcm_enc_init
<1>2. m = 0 /\ F \in Seq(Int) /\ Len(F) >= 1
  BY FileIs
<1>3. e.ratio \in Nat \ {0}
  BY <1>1, RatioType
<1> HIDE DEF e
<1>4. Count(e) = 0
  <2>1. e.half < 0
    BY <1>1
  <2> QED BY <1>1, <2>1, CountIs
<1>5. G \in Seq(Int)
  BY <1>2, <1>3, TargetsAre
<1>6. RunX(G, 0) = 0 /\ RunStep(G, 0) = 0
  BY <1>5, RefRun
<1>7. On(e, G, 0, 0)
  <2>1. 0 \in 0..Len(G) /\ Len(e.out) = 0 /\ ~(e.half >= 0) /\ e.bytes = 0 + Len(e.out)
    BY <1>1, <1>5
  <2>2. \A i \in 1..Len(e.out) : e.out[i] = Byte(G, 0 + i)
    BY <2>1
  <2> QED BY <1>1, <1>4, <1>6, <2>1, <2>2 DEF On
<1>8. Fresh(e)
  BY <1>1, <1>4 DEF Fresh
<1>9. Stream(e, F, m, e.bytes)
  <2>1. m \in 0..Len(F)
    BY <1>2
  <2> QED BY <1>1, <1>2, <1>4, <1>7, <1>8, <2>1 DEF Stream
<1>10. \A i \in 1..Len(pcm) : pcm[i] = pcm[m + i]
  BY <1>2
<1>11. m \in Nat
  BY <1>2
<1> QED BY <1>1, <1>9, <1>10, <1>11 DEF Loading, e

LEMMA InFile ==
    ASSUME NEW pcm \in Seq(Int), NEW rate, InRange(pcm, rate)
    PROVE  Len(File(pcm)) * One + Ratio(rate) <= PosSize
<1>1. Len(File(pcm)) = IF pcm = <<>> THEN 1 ELSE Len(pcm)
  BY DEF File
<1> QED BY <1>1, Zenon DEF InRange

\* The first n of the samples to come, pushed.
LEMMA LoadingPush ==
    ASSUME NEW e \in Enc, NEW pcm \in Seq(Int), NEW rate \in Nat \ {0}, NEW left,
           Loading(e, pcm, rate, left), InRange(pcm, rate), NEW n \in Nat, n <= Len(left)
    PROVE  LET h == Push(e, SubSeq(left, 1, n))
               m == Len(pcm) - Len(left)
           IN  /\ h \in Enc /\ Stream(h, File(pcm), m + n, e.bytes) /\ h.ratio = Ratio(rate)
               /\ m \in Nat /\ m + n <= Len(pcm)
<1> DEFINE chunk == SubSeq(left, 1, n)
           h == Push(e, chunk)
           m == Len(pcm) - Len(left)
           F == File(pcm)
<1>1. /\ m \in Nat /\ left \in Seq(Int) /\ (\A i \in 1..Len(left) : left[i] = pcm[m + i])
      /\ e.ratio = Ratio(rate) /\ Stream(e, F, m, e.bytes)
  BY DEF Loading
<1>2. m + n <= Len(pcm)
  BY <1>1
<1>3. F \in Seq(Int) /\ Len(F) * One + e.ratio <= PosSize
  BY <1>1, FileIs, InFile
<1>4. chunk \in Seq(Int) /\ Len(chunk) = n /\ \A i \in 1..n : chunk[i] = left[i]
  BY <1>1
<1>5. \A i \in 1..n : chunk[i] = F[m + i]
  <2> SUFFICES ASSUME NEW i \in 1..n PROVE chunk[i] = F[m + i]
    OBVIOUS
  <2>1. i \in 1..Len(left) /\ Len(pcm) # 0
    BY <1>1, <1>2
  <2>2. F = pcm
    BY <2>1 DEF File
  <2>3. chunk[i] = left[i] /\ left[i] = pcm[m + i]
    BY <1>1, <1>4, <2>1
  <2> HIDE DEF chunk, m, F
  <2> QED BY <2>2, <2>3
<1>6. Len(pcm) <= Len(F)
  <2>1. pcm = <<>> => Len(pcm) = 0 /\ Len(F) = 1
    BY DEF File
  <2>2. pcm # <<>> => F = pcm
    BY DEF File
  <2>3. Len(pcm) \in Nat
    OBVIOUS
  <2> QED BY <2>1, <2>2, <2>3
<1> HIDE DEF chunk, m, F
<1>7. m + Len(chunk) <= Len(F) /\ Len(F) \in Nat
  <2>1. Len(F) \in Nat /\ Len(pcm) \in Nat
    BY <1>3
  <2> QED BY <1>1, <1>2, <1>4, <1>6, <2>1
<1>8. Stream(h, F, m + Len(chunk), e.bytes) /\ h.ratio = e.ratio
  BY <1>1, <1>3, <1>4, <1>5, <1>7, StreamPushes
<1>9. h \in Enc
  BY <1>4, PushType
<1> QED BY <1>1, <1>2, <1>4, <1>8, <1>9 DEF chunk, m, F

LEMMA StreamBytes ==
    ASSUME NEW e \in Enc, NEW pcm, NEW m, NEW a, Stream(e, pcm, m, a)
    PROVE  /\ Count(e) <= Len(Targets(pcm, e.ratio)) /\ Len(Targets(pcm, e.ratio)) \in Int
           /\ \A i \in 1..Len(e.out) : e.out[i] = Byte(Targets(pcm, e.ratio), a + i)
  BY DEF Stream, On

\* A chunk in the middle of the file.
LEMMA LoadingGoesOn ==
    ASSUME NEW e \in Enc, NEW pcm \in Seq(Int), NEW rate \in Nat \ {0}, NEW left,
           Loading(e, pcm, rate, left), InRange(pcm, rate), NEW n \in Nat, n <= Len(left)
    PROVE  LET h == Feed(e, SubSeq(left, 1, n), FALSE)
           IN  /\ Loading([h EXCEPT !.out = <<>>], pcm, rate, Drop(left, n))
               /\ HandsOver(e, h, FileTargets(pcm, rate))
<1> DEFINE h == Push(e, SubSeq(left, 1, n))
           g == [h EXCEPT !.out = <<>>]
           F == File(pcm)
           m == Len(pcm) - Len(left)
           rest == Drop(left, n)
<1>1. Feed(e, SubSeq(left, 1, n), FALSE) = h
  BY DEF Feed
<1>2. h \in Enc /\ Stream(h, F, m + n, e.bytes) /\ h.ratio = Ratio(rate)
      /\ m \in Nat /\ m + n <= Len(pcm)
  BY LoadingPush
<1> HIDE DEF h
<1>3. g \in Enc /\ Stream(g, F, m + n, h.bytes) /\ g.ratio = h.ratio /\ g.bytes = h.bytes
  BY <1>2, StreamAnew
<1>4. g.out = <<>>
  BY <1>2 DEF Enc
<1> HIDE DEF g
<1>5. left \in Seq(Int) /\ (\A i \in 1..Len(left) : left[i] = pcm[m + i])
  BY DEF Loading
<1>6. rest \in Seq(Int) /\ Len(rest) = Len(left) - n /\ \A i \in 1..Len(rest) : rest[i] = left[n + i]
  <2>1. rest \in Seq(Int) /\ Len(rest) = Len(left) - n
    BY <1>5 DEF Drop
  <2>2. ASSUME NEW i \in 1..Len(rest) PROVE rest[i] = left[n + i]
    <3>1. i \in 1..Len(left) - n
      BY <2>1
    <3>2. SubSeq(left, n + 1, Len(left))[i] = left[n + i]
      BY <1>5, <3>1
    <3> QED BY <3>2 DEF Drop
  <2> QED BY <2>1, <2>2
<1> HIDE DEF rest, F
<1>7. Len(pcm) - Len(rest) = m + n
  <2> DEFINE p == Len(pcm)
             q == Len(left)
  <2>1. p \in Nat /\ q \in Nat /\ Len(rest) = q - n /\ m = p - q
    BY <1>5, <1>6
  <2> HIDE DEF p, q, m
  <2>2. p - (q - n) = m + n
    BY <2>1
  <2> QED BY <2>1, <2>2 DEF p
<1>8. \A i \in 1..Len(rest) : rest[i] = pcm[(m + n) + i]
  <2> SUFFICES ASSUME NEW i \in 1..Len(rest) PROVE rest[i] = pcm[(m + n) + i]
    OBVIOUS
  <2>1. n + i \in 1..Len(left) /\ m + (n + i) = (m + n) + i
    BY <1>2, <1>5, <1>6
  <2> HIDE DEF m
  <2> QED BY <1>5, <1>6, <2>1
<1> HIDE DEF m
<1>9. m + n \in Nat
  BY <1>2
<1>10. Loading(g, pcm, rate, rest)
  BY <1>2, <1>3, <1>4, <1>6, <1>7, <1>8, <1>9 DEF Loading, F
<1>11. HandsOver(e, h, FileTargets(pcm, rate))
  <2> HIDE DEF h, F
  <2>1. \A i \in 1..Len(h.out) : h.out[i] = Byte(Targets(F, h.ratio), e.bytes + i)
    <3> DEFINE k == m + n
               b == e.bytes
    <3>1. h \in Enc /\ Stream(h, F, k, b)
      BY <1>2
    <3> HIDE DEF k, b
    <3>2. \A i \in 1..Len(h.out) : h.out[i] = Byte(Targets(F, h.ratio), b + i)
      BY <3>1, StreamBytes
    <3> QED BY <3>2 DEF b
  <2>2. Targets(F, h.ratio) = FileTargets(pcm, rate)
    BY <1>2 DEF FileTargets, F
  <2> QED BY <2>1, <2>2 DEF HandsOver
<1> QED BY <1>1, <1>10, <1>11 DEF g, rest

\* The last chunk, and the flush: it ends, and the file is complete.
LEMMA LoadingEnds ==
    ASSUME NEW e \in Enc, NEW pcm \in Seq(Int), NEW rate \in Nat \ {0}, NEW left,
           Loading(e, pcm, rate, left), InRange(pcm, rate)
    PROVE  LET chunk == SubSeq(left, 1, Len(left))
               h == Feed(e, chunk, TRUE)
               G == FileTargets(pcm, rate)
           IN  ~Hangs(e, chunk, TRUE) /\ 2 * h.bytes = Len(G) /\ HandsOver(e, h, G)
<1> DEFINE n == Len(left)
           chunk == SubSeq(left, 1, n)
           f == Push(e, chunk)
           F == File(pcm)
           m == Len(pcm) - Len(left)
           G == FileTargets(pcm, rate)
           g == Flush(f)
           h == [g EXCEPT !.out = f.out \o g.out]
<1>1. left \in Seq(Int) /\ n \in Nat /\ n <= Len(left)
  BY DEF Loading
<1>2. f \in Enc /\ Stream(f, F, m + n, e.bytes) /\ f.ratio = Ratio(rate) /\ m \in Nat
  BY <1>1, LoadingPush
<1>3. m + n = Len(pcm)
  BY <1>1, <1>2
<1>4. F \in Seq(Int) /\ Len(F) >= 1 /\ Len(F) * One + f.ratio <= PosSize
  BY <1>2, FileIs, InFile
<1> HIDE DEF f, m, n
<1>5. G = Targets(F, f.ratio)
  BY <1>2 DEF FileTargets
<1>6. On(f, G, Count(f), e.bytes)
  BY <1>2, <1>5 DEF Stream
<1>7. Reached(f, F, Len(F))
  <2>1. CASE pcm = <<>>
    <3>1. m + n = 0 /\ Len(F) = 1 /\ F[1] = 0
      BY <1>3, <2>1 DEF File
    <3>2. Fresh(f)
      BY <1>2, <3>1 DEF Stream
    <3>3. f.ratio \in Nat
      BY <1>2 DEF Enc
    <3>4. f.pos = 0 /\ Count(f) = 0 /\ 0 = 0 * f.ratio /\ (1 - 1) * One <= 0 /\ f.idx = 1 - 1
      BY <3>2, <3>3 DEF Fresh, One
    <3>5. Reached(f, F, 1)
      BY <3>1, <3>2, <3>4 DEF Reached, Fresh
    <3> QED BY <3>1, <3>5
  <2>2. CASE pcm # <<>>
    <3>1. F = pcm
      BY <2>2 DEF File
    <3>2. m + n = Len(F) /\ m + n # 0
      BY <1>3, <1>4, <3>1
    <3> QED BY <1>2, <3>2 DEF Stream, Served
  <2> QED BY <2>1, <2>2
<1> HIDE DEF F, G
<1>8. Ends(f) /\ On(g, G, Len(G), f.bytes)
  BY <1>2, <1>4, <1>5, <1>6, <1>7, FlushOn
<1>9. ~Hangs(e, chunk, TRUE)
  BY <1>8 DEF Hangs, f
<1>10. Feed(e, chunk, TRUE) = h
  BY <1>8 DEF Feed, Flushed, f
<1>11. g \in Enc
  BY <1>2, <1>8, FlushType
<1> HIDE DEF g
<1>12. On(h, G, Len(G), e.bytes)
  BY <1>2, <1>6, <1>8, <1>11, OnJoined
<1>13. h \in Enc
  <2>1. f.out \o g.out \in Seq(Int)
    BY <1>2, <1>11 DEF Enc
  <2> QED BY <1>11, <2>1, SetEnc
<1> HIDE DEF h
<1>14. HandsOver(e, h, G)
  BY <1>12 DEF On, HandsOver
<1>15. 2 * h.bytes = Len(G)
  <2>1. PICK q \in Nat : Len(G) = 2 * (q * PageBytes)
    BY TargetsWhole DEF G
  <2>2. Count(h) = Len(G)
    BY <1>12 DEF On
  <2>3. h.bytes = q * PageBytes
    BY <1>13, <2>1, <2>2, WholeBytes
  <2> QED BY <2>1, <2>3
<1> QED BY <1>9, <1>10, <1>14, <1>15 DEF G, chunk, n

\* The encoder makes of a file what the packer makes of it: every sample
\* pushed (adpcm_enc_push) and the end flushed (adpcm_enc_flush), the flush
\* returns and the bytes are those of pack_voice, as long as no position of
\* the file wraps.
THEOREM EncoderIsPacker ==
    ASSUME NEW pcm \in Seq(Int), NEW rate \in Nat \ {0}, InRange(pcm, rate)
    PROVE  LET e == adpcm_enc_init(rate)
           IN  ~Hangs(e, pcm, TRUE) /\ Feed(e, pcm, TRUE).out = Packed(pcm, rate)
<1> DEFINE e == adpcm_enc_init(rate)
           h == Feed(e, pcm, TRUE)
           G == FileTargets(pcm, rate)
           P == Packed(pcm, rate)
<1>1. e \in Enc /\ e.bytes = 0
  <2>1. e \in Enc
    BY NewEncoder
  <2> QED BY <2>1 DEF adpcm_enc_init
<1>2. Loading(e, pcm, rate, pcm)
  BY LoadingStarts
<1>3. SubSeq(pcm, 1, Len(pcm)) = pcm
  OBVIOUS
<1> HIDE DEF e
<1>4. ~Hangs(e, pcm, TRUE) /\ 2 * h.bytes = Len(G) /\ HandsOver(e, h, G)
  <2> DEFINE chunk == SubSeq(pcm, 1, Len(pcm))
             f == Feed(e, chunk, TRUE)
  <2>1. ~Hangs(e, chunk, TRUE) /\ 2 * f.bytes = Len(G) /\ HandsOver(e, f, G)
    BY <1>1, <1>2, LoadingEnds
  <2> HIDE DEF chunk
  <2>2. chunk = pcm
    BY <1>3 DEF chunk
  <2> QED BY <2>1, <2>2
<1>5. h \in Enc /\ h.bytes = e.bytes + Len(h.out)
  BY <1>1, <1>4, FeedType, FeedCount
<1>6. /\ P = [i \in 1..Len(P) |-> P[i]] /\ Len(P) \in Nat /\ Len(G) = 2 * Len(P)
      /\ \A i \in 1..Len(P) : P[i] = Byte(G, i)
  BY PackIs
<1> HIDE DEF h, G, P
<1>7. h.out \in Seq(Int) /\ Len(h.out) = Len(P)
  <2>1. h.out \in Seq(Int) /\ Len(h.out) \in Nat /\ h.bytes \in Nat
    BY <1>5 DEF Enc
  <2> QED BY <1>1, <1>4, <1>5, <1>6, <2>1
<1>8. \A i \in 1..Len(P) : h.out[i] = P[i]
  <2> SUFFICES ASSUME NEW i \in 1..Len(P) PROVE h.out[i] = P[i]
    OBVIOUS
  <2>1. h.out[i] = Byte(G, e.bytes + i)
    BY <1>4, <1>7 DEF HandsOver
  <2>2. e.bytes + i = i
    BY <1>1, <1>6
  <2> QED BY <1>6, <2>1, <2>2
<1>9. h.out = P
  <2> DEFINE o == h.out
  <2>1. o \in Seq(Int) /\ Len(o) = Len(P) /\ \A i \in 1..Len(P) : o[i] = P[i]
    BY <1>7, <1>8
  <2> HIDE DEF o
  <2>2. o \in [1..Len(P) -> Int]
    BY <2>1
  <2>3. o = [i \in 1..Len(P) |-> o[i]]
    BY <2>2, Zenon
  <2>4. o = P
    BY <1>6, <2>1, <2>3, Zenon
  <2> QED BY <2>4 DEF o
<1> QED BY <1>4, <1>9 DEF e, h, P

-----------------------------------------------------------------------------
(* The borrowed channels.                                                   *)

\* The pairs a channel can be given, and the states of the service.
Pairs == {pair[c] : c \in Ch} \cup {rhythm[c] : c \in Ch} \cup {drv[g] : g \in 1..5}
ServiceType == [pair : [Ch -> Pairs], lr : [Ch -> {"guest", "kit"}], flag : SUBSET Ch,
                seg : [Ch -> 0..5], age : [Ch -> Nat]]

\* A channel that is not held plays drums at the guest's level, and a loop
\* holds one channel at most.
Free(p, l, g) == \A c \in Ch : g[c] = 0 => p[c][2] < HalfPages /\ l[c] = "guest"
Single(g) == \A c, d \in Ch : g[c] \in 3..5 /\ g[c] = g[d] => c = d

Proper == {s \in ServiceType : Free(s.pair, s.lr, s.seg) /\ Single(s.seg)}
Drums == \A v \in Ch : rhythm[v][2] < HalfPages

LEMMA Highest ==
    ASSUME NEW S \in SUBSET Ch, S # {}
    PROVE  (CHOOSE x \in S : \A y \in S : y <= x) \in S
<1> DEFINE D == {Channels - 1 - x : x \in S}
<1>1. Channels \in Nat /\ \A x \in S : x \in Nat /\ x <= Channels - 1
  BY SoundAssumption DEF Ch
<1>2. D \in SUBSET Nat /\ D # {}
  BY <1>1
<1>3. PICK m \in D : \A n \in D : m <= n
  BY <1>2, LeastElement
<1>4. PICK x \in S : m = Channels - 1 - x
  OBVIOUS
<1>5. ASSUME NEW y \in S PROVE y <= x
  <2>1. m <= Channels - 1 - y
    BY <1>3
  <2> QED BY <1>1, <1>4, <2>1
<1> QED BY <1>5

LEMMA Handing ==
    ASSUME NEW s \in Proper, NEW c \in Ch, NEW g \in 0..5, NEW q \in Pairs,
           NEW l \in {"guest", "kit"}, NEW a \in Nat, NEW F \in SUBSET Ch,
           g = 0 => q[2] < HalfPages /\ l = "guest",
           g \in 3..5 => \A d \in Ch : s.seg[d] # g
    PROVE  [s EXCEPT !.flag = F, !.pair[c] = q, !.lr[c] = l, !.seg[c] = g, !.age[c] = a] \in Proper
<1> DEFINE t == [s EXCEPT !.flag = F, !.pair[c] = q, !.lr[c] = l, !.seg[c] = g, !.age[c] = a]
<1>1. s \in ServiceType /\ Free(s.pair, s.lr, s.seg) /\ Single(s.seg)
  BY DEF Proper
<1>2. /\ t.pair = [s.pair EXCEPT ![c] = q] /\ t.lr = [s.lr EXCEPT ![c] = l] /\ t.flag = F
      /\ t.seg = [s.seg EXCEPT ![c] = g] /\ t.age = [s.age EXCEPT ![c] = a]
  BY <1>1 DEF ServiceType
<1>3. /\ s.pair \in [Ch -> Pairs] /\ s.lr \in [Ch -> {"guest", "kit"}]
      /\ s.seg \in [Ch -> 0..5] /\ s.age \in [Ch -> Nat]
  BY <1>1 DEF ServiceType
<1>4. t \in ServiceType
  <2> DEFINE t1 == [s EXCEPT !.flag = F]
             t2 == [t1 EXCEPT !.pair = [s.pair EXCEPT ![c] = q]]
             t3 == [t2 EXCEPT !.lr = [s.lr EXCEPT ![c] = l]]
             t4 == [t3 EXCEPT !.seg = [s.seg EXCEPT ![c] = g]]
             t5 == [t4 EXCEPT !.age = [s.age EXCEPT ![c] = a]]
  <2>1. /\ [s.pair EXCEPT ![c] = q] \in [Ch -> Pairs]
        /\ [s.lr EXCEPT ![c] = l] \in [Ch -> {"guest", "kit"}]
        /\ [s.seg EXCEPT ![c] = g] \in [Ch -> 0..5] /\ [s.age EXCEPT ![c] = a] \in [Ch -> Nat]
    BY <1>3
  <2>2. t = t5
    BY <1>1 DEF ServiceType
  <2>3. t1 \in ServiceType
    BY <1>1 DEF ServiceType
  <2> HIDE DEF t1
  <2>4. t2 \in ServiceType
    BY <2>1, <2>3 DEF ServiceType
  <2> HIDE DEF t2
  <2>5. t3 \in ServiceType
    BY <2>1, <2>4 DEF ServiceType
  <2> HIDE DEF t3
  <2>6. t4 \in ServiceType
    BY <2>1, <2>5 DEF ServiceType
  <2> HIDE DEF t4
  <2>7. t5 \in ServiceType
    BY <2>1, <2>6 DEF ServiceType
  <2> QED BY <2>2, <2>7
<1> HIDE DEF t
<1>5. Free(t.pair, t.lr, t.seg)
  BY <1>1, <1>2, <1>3 DEF Free
<1>6. Single(t.seg)
  BY <1>1, <1>2, <1>3 DEF Single
<1> QED BY <1>4, <1>5, <1>6 DEF Proper, t

LEMMA PlayStep ==
    ASSUME NEW s \in Proper, NEW g \in 1..5, g \in 3..5 => ~Playing(s, g)
    PROVE  chan_play(s, g) \in Proper
<1> DEFINE free == {c \in Ch : s.seg[c] = 0}
           ended == free \cap s.flag
           best == IF ended # {} THEN ended ELSE free
           c == CHOOSE x \in best : \A y \in best : y <= x
<1>1. chan_play(s, g) = IF free = {} THEN s
                        ELSE [s EXCEPT !.flag = s.flag \ {c}, !.pair[c] = drv[g], !.lr[c] = "kit",
                                       !.seg[c] = g, !.age[c] = 0]
  BY Zenon DEF chan_play
<1>2. CASE free = {}
  BY <1>1, <1>2
<1>3. CASE free # {}
  <2>1. best \in SUBSET Ch /\ best # {}
    BY <1>3
  <2> HIDE DEF best
  <2>2. c \in Ch
    <3>1. c \in best
      BY <2>1, Highest
    <3> QED BY <2>1, <3>1
  <2> HIDE DEF c
  <2>3. s.flag \ {c} \in SUBSET Ch /\ drv[g] \in Pairs
    BY DEF Proper, ServiceType, Pairs
  <2>4. g \in 0..5 /\ g # 0 /\ 0 \in Nat
    OBVIOUS
  <2>5. g \in 3..5 => \A d \in Ch : s.seg[d] # g
    BY DEF Playing
  <2>6. [s EXCEPT !.flag = s.flag \ {c}, !.pair[c] = drv[g], !.lr[c] = "kit",
                  !.seg[c] = g, !.age[c] = 0] \in Proper
    BY <2>2, <2>3, <2>4, <2>5, Handing
  <2> QED BY <1>1, <1>3, <2>6
<1> QED BY <1>2, <1>3

LEMMA PlaysProper ==
    ASSUME NEW s \in Proper, NEW step, NEW clunk, NEW hold, NEW xfer, NEW motor
    PROVE  Plays(s, step, clunk, hold, xfer, motor) \in Proper
<1> DEFINE a == PlayEdge(step, s, 1)
           b == PlayEdge(clunk, a, 2)
           c == PlayLoop(hold > 0, b, 3)
           d == PlayLoop(xfer, c, 4)
           e == PlayLoop(motor, d, 5)
<1>1. Plays(s, step, clunk, hold, xfer, motor) = e
  BY DEF Plays
<1>2. a \in Proper
  BY PlayStep DEF PlayEdge
<1> HIDE DEF a
<1>3. b \in Proper
  BY <1>2, PlayStep DEF PlayEdge
<1> HIDE DEF b
<1>4. c \in Proper
  BY <1>3, PlayStep DEF PlayLoop
<1> HIDE DEF c
<1>5. d \in Proper
  BY <1>4, PlayStep DEF PlayLoop
<1> HIDE DEF d
<1>6. e \in Proper
  BY <1>5, PlayStep DEF PlayLoop
<1> QED BY <1>1, <1>6

\* Ageing alone hands nothing over.
LEMMA AgeProper ==
    ASSUME NEW s \in Proper, NEW c \in Ch, NEW a \in Nat
    PROVE  [s EXCEPT !.age[c] = a] \in Proper
<1> DEFINE t == [s EXCEPT !.age[c] = a]
<1>1. s \in ServiceType /\ s.age \in [Ch -> Nat]
  BY DEF Proper, ServiceType
<1>2. t.pair = s.pair /\ t.lr = s.lr /\ t.seg = s.seg
  BY <1>1 DEF ServiceType
<1>3. t \in ServiceType
  <2>1. [s.age EXCEPT ![c] = a] \in [Ch -> Nat]
    BY <1>1
  <2> QED BY <1>1, <2>1 DEF ServiceType
<1> HIDE DEF t
<1>4. t \in Proper
  BY <1>2, <1>3 DEF Proper
<1> QED BY <1>4 DEF t

LEMMA RestoreProper ==
    ASSUME Drums, NEW s \in Proper, NEW c \in Ch
    PROVE  chan_restore(s, c) \in Proper
<1>1. s \in ServiceType
  BY DEF Proper
<1>2. chan_restore(s, c) = [s EXCEPT !.flag = s.flag, !.pair[c] = rhythm[c], !.lr[c] = "guest",
                                     !.seg[c] = 0, !.age[c] = 0]
  BY <1>1 DEF chan_restore, ServiceType
<1>3. rhythm[c] \in Pairs /\ rhythm[c][2] < HalfPages /\ s.flag \in SUBSET Ch
  BY <1>1 DEF Pairs, Drums, ServiceType
<1>4. 0 \in 0..5 /\ 0 \notin 3..5 /\ 0 \in Nat
  OBVIOUS
<1>5. [s EXCEPT !.flag = s.flag, !.pair[c] = rhythm[c], !.lr[c] = "guest",
                !.seg[c] = 0, !.age[c] = 0] \in Proper
  BY <1>3, <1>4, Handing
<1> QED BY <1>2, <1>5

LEMMA SweptProper ==
    ASSUME Drums, NEW s \in Proper, NEW c \in Ch, NEW want
    PROVE  Swept(s, c, want) \in Proper
<1> DEFINE a == Least(s.age[c] + 1, AgeMax)
           t == [s EXCEPT !.age[c] = a]
<1>1. s.age[c] \in Nat
  BY DEF Proper, ServiceType
<1>2. a \in Nat
  BY <1>1, SoundAssumption DEF Least
<1> HIDE DEF a
<1>3. t \in Proper
  BY <1>2, AgeProper
<1>4. Swept(s, c, want) = IF s.seg[c] = 0 THEN s
                          ELSE IF c \notin s.flag /\ t.age[c] < AgeMax THEN t
                          ELSE IF s.seg[c] \in want THEN [t EXCEPT !.age[c] = 0]
                          ELSE chan_restore(t, c)
  BY DEF Swept, a
<1> HIDE DEF t
<1>5. [t EXCEPT !.age[c] = 0] \in Proper
  <2>1. 0 \in Nat
    OBVIOUS
  <2> QED BY <1>3, <2>1, AgeProper
<1>6. chan_restore(t, c) \in Proper
  BY <1>3, RestoreProper
<1> QED BY <1>3, <1>4, <1>5, <1>6

LEMMA SweepProper ==
    ASSUME Drums, NEW s \in Proper, NEW want
    PROVE  Sweep(s, want) \in Proper
<1> DEFINE F == [k \in 1..Channels |-> [t \in Proper |-> Swept(t, k - 1, want)]]
<1>1. Channels \in Nat /\ \A k \in 1..Channels : k - 1 \in Ch
  BY SoundAssumption DEF Ch
<1>2. F \in [1..Channels -> [Proper -> Proper]]
  BY <1>1, SweptProper
<1>3. HasRun(Channels, Proper, s, F)
  <2> HIDE DEF F
  <2> QED BY <1>1, <1>2, RunExists
<1>4. PICK f \in [0..Channels -> Proper] : f[0] = s /\ \A k \in 1..Channels : f[k] = F[k][f[k - 1]]
  BY <1>3 DEF HasRun
<1>5. \A k \in 1..Channels : f[k] = Swept(f[k - 1], k - 1, want)
  <2> SUFFICES ASSUME NEW k \in 1..Channels PROVE f[k] = Swept(f[k - 1], k - 1, want)
    OBVIOUS
  <2>1. f[k - 1] \in Proper
    BY <1>1
  <2> QED BY <1>4, <2>1
<1> DEFINE Is(h) == h = [k \in 0..Channels |-> IF k = 0 THEN s
                                               ELSE LET t == h[k - 1] IN Swept(t, k - 1, want)]
           r == CHOOSE h : Is(h)
<1>6. Is(f)
  <2>1. f = [k \in 0..Channels |-> f[k]]
    BY <1>4
  <2>2. \A k \in 0..Channels : f[k] = IF k = 0 THEN s ELSE Swept(f[k - 1], k - 1, want)
    <3>1. \A k \in 0..Channels : k = 0 \/ k \in 1..Channels
      BY <1>1
    <3> QED BY <1>4, <1>5, <3>1, Zenon
  <2> QED BY <2>1, <2>2
<1>7. Is(r)
  <2> HIDE DEF Is
  <2> QED BY <1>6, Zenon
<1>8. Sweep(s, want) = r[Channels]
  BY Zenon DEF Sweep
<1> HIDE DEF r
<1>9. \A k \in 0..Channels : r[k] = IF k = 0 THEN s ELSE Swept(r[k - 1], k - 1, want)
  BY <1>7
<1>10. r[0] \in Proper /\ \A k \in 1..Channels : r[k - 1] \in Proper => r[k] \in Proper
  <2>1. r[0] \in Proper
    BY <1>1, <1>9
  <2>2. ASSUME NEW k \in 1..Channels, r[k - 1] \in Proper PROVE r[k] \in Proper
    <3>1. r[k] = Swept(r[k - 1], k - 1, want)
      BY <1>1, <1>9
    <3> QED BY <1>1, <2>2, <3>1, SweptProper
  <2> QED BY <2>1, <2>2
<1>11. \A k \in 0..Channels : r[k] \in Proper
  BY <1>1, <1>10, RunStays, Zenon
<1> QED BY <1>1, <1>8, <1>11

-----------------------------------------------------------------------------
(* The invariant.                                                           *)

WavType == [voice : Nat, cursor : Nat, open : BOOLEAN, left : Seq(Int), written : Nat,
            enc : Enc \cup {NoEnc}, packed : SUBSET Nat]

\* What wav_step has written never goes past the wall of the drum half.
Loader ==
    /\ wav \in WavType
    /\ wav.cursor + wav.written <= Half
    /\ wav.open => wav.enc \in Enc

\* A table with an entry for every channel.
IsTable(f) == f = [c \in Ch |-> f[c]]

Lending ==
    /\ IsTable(rhythm) /\ Drums
    /\ IsTable(pair) /\ lr \in [Ch -> {"guest", "kit"}]
    /\ ch_seg \in [Ch -> 0..5] /\ ch_age \in [Ch -> Nat]
    /\ Free(pair, lr, ch_seg) /\ Single(ch_seg)

SoundInv == Loader /\ Lending

LEMMA SoundInit == Init => SoundInv
<1> SUFFICES ASSUME Init PROVE SoundInv
  OBVIOUS
<1>1. Loader
  <2>1. 0 + 0 <= Half /\ <<>> \in Seq(Int) /\ {} \in SUBSET Nat
    BY HalfType
  <2> QED BY <2>1 DEF Init, Loader, WavType
<1>2. Lending
  <2>1. IsTable(rhythm) /\ IsTable(pair)
    BY DEF Init, IsTable
  <2>2. Drums /\ Free(pair, lr, ch_seg)
    BY HalfType DEF Init, Drums, Free
  <2>3. Single(ch_seg)
    BY DEF Init, Single
  <2>4. lr \in [Ch -> {"guest", "kit"}] /\ ch_seg \in [Ch -> 0..5] /\ ch_age \in [Ch -> Nat]
    BY DEF Init
  <2> QED BY <2>1, <2>2, <2>3, <2>4 DEF Lending
<1> QED BY <1>1, <1>2 DEF SoundInv

\* Bytes that end at or below the wall have their last page in the half.
LEMMA LastPage ==
    ASSUME NEW n \in Nat \ {0}, n <= Half
    PROVE  (n - 1) \div PageBytes < HalfPages
<1> DEFINE m == n - 1
           q == m \div PageBytes
<1>1. m \in Nat /\ m < HalfPages * PageBytes
  BY HalfType DEF Half
<1> HIDE DEF m
<1>2. q \in Nat /\ PageBytes * q <= m
  BY <1>1, HalfType
<1> HIDE DEF q
<1>3. CASE q >= HalfPages
  <2>1. PageBytes * q >= PageBytes * HalfPages
    BY <1>2, <1>3, HalfType
  <2>2. PageBytes * HalfPages = HalfPages * PageBytes /\ PageBytes * q \in Nat
        /\ HalfPages * PageBytes \in Nat
    BY <1>2, HalfType
  <2> DEFINE u == PageBytes * q
             w == HalfPages * PageBytes
  <2>3. u <= m /\ m < w /\ u >= w /\ u \in Nat /\ w \in Nat
    BY <1>1, <1>2, <2>1, <2>2
  <2> HIDE DEF u, w
  <2> QED BY <1>1, <2>3
<1>4. CASE ~(q >= HalfPages)
  <2>1. q < HalfPages
    BY <1>2, <1>4, HalfType
  <2> QED BY <2>1 DEF q, m
<1> QED BY <1>3, <1>4

LEMMA Fits ==
    ASSUME NEW bytes \in Seq(Int), NEW room \in Nat
    PROVE  Len(Fitting(bytes, room)) \in Nat /\ Len(Fitting(bytes, room)) <= room
<1> DEFINE n == Least(Len(bytes), room)
<1>1. n \in Nat /\ n <= room /\ n <= Len(bytes)
  BY DEF Least
<1> HIDE DEF n
<1>2. Len(SubSeq(bytes, 1, n)) = n
  BY <1>1
<1> QED BY <1>1, <1>2 DEF Fitting, n

\* A drum is programmed: whoever holds its channel, the guest's stay drums.
LEMMA Programmed ==
    ASSUME Lending, NEW v, NEW q, q[2] < HalfPages,
           rhythm' = [rhythm EXCEPT ![v] = q], pair' = [pair EXCEPT ![v] = q],
           UNCHANGED <<lr, ch_seg, ch_age>>
    PROVE  Lending'
<1>1. IsTable(rhythm') /\ IsTable(pair')
  BY DEF Lending, IsTable
<1>2. \A c \in Ch : /\ rhythm'[c] = IF c = v THEN q ELSE rhythm[c]
                    /\ pair'[c] = IF c = v THEN q ELSE pair[c]
  BY DEF Lending, IsTable
<1>3. Drums'
  BY <1>2 DEF Lending, Drums
<1>4. Free(pair, lr, ch_seg)'
  BY <1>2 DEF Lending, Free
<1> QED BY <1>1, <1>3, <1>4 DEF Lending, Single

LEMMA WavStep == ASSUME SoundInv, NEW ok \in BOOLEAN, wav_step(ok) PROVE SoundInv'
<1> DEFINE v == wav.voice
           w1 == [wav EXCEPT !.open = TRUE]
           w2 == [w1 EXCEPT !.left = WavData[v]]
           w3 == [w2 EXCEPT !.written = 0]
           w4 == [w3 EXCEPT !.enc = adpcm_enc_init(WavRate[v])]
           w == IF wav.open THEN wav ELSE w4
           at == w.cursor + w.written
           left == IF at >= Half THEN <<>> ELSE w.left
           n == Least(Len(left), Chunk)
           rest == IF ok THEN Drop(left, n) ELSE left
           ends == ~ok \/ rest = <<>>
           chunk == IF ok THEN SubSeq(left, 1, n) ELSE <<>>
           hangs == Hangs(w.enc, chunk, ends)
           e == Feed(w.enc, chunk, ends)
           bytes == Fitting(e.out, Half - at)
           written == w.written + Len(bytes)
           keep == ok /\ written > 0
           pages == <<w.cursor \div PageBytes, (w.cursor + written - 1) \div PageBytes>>
<1>1. /\ v < Channels
      /\ IF ~ends \/ hangs
         THEN /\ wav' = [w EXCEPT !.left = rest, !.written = written,
                                  !.enc = [e EXCEPT !.out = <<>>]]
              /\ UNCHANGED <<rhythm, pair>>
         ELSE /\ wav' = [voice |-> v + 1, open |-> FALSE, left |-> <<>>, enc |-> NoEnc,
                         written |-> 0,
                         cursor |-> IF keep THEN w.cursor + written ELSE w.cursor,
                         packed |-> IF keep THEN w.packed \cup {v} ELSE w.packed]
              /\ IF keep THEN rhythm' = [rhythm EXCEPT ![v] = pages]
                              /\ pair' = [pair EXCEPT ![v] = pages]
                 ELSE UNCHANGED <<rhythm, pair>>
      /\ UNCHANGED <<lr, ch_seg, ch_age>>
  BY Zenon DEF wav_step, pollVars
<1>2. wav \in WavType /\ wav.cursor + wav.written <= Half /\ (wav.open => wav.enc \in Enc)
  BY DEF SoundInv, Loader
<1>3. v \in Ch /\ v \in Nat
  BY <1>1, <1>2, SoundAssumption DEF WavType, Ch
<1>4. /\ w \in WavType /\ w.cursor + w.written <= Half /\ w.enc \in Enc /\ w.open = TRUE
  <2>1. CASE wav.open
    BY <1>2, <2>1 DEF WavType
  <2>2. CASE ~wav.open
    <3>1. WavData[v] \in Seq(Int) /\ adpcm_enc_init(WavRate[v]) \in Enc
      BY <1>3, NewEncoder, SoundAssumption
    <3>2. w1 \in WavType
      BY <1>2 DEF WavType
    <3>3. w1.cursor = wav.cursor /\ w1.open = TRUE
      BY <1>2 DEF WavType
    <3> HIDE DEF w1
    <3>4. w2 \in WavType
      BY <3>1, <3>2 DEF WavType
    <3>5. w2.cursor = wav.cursor /\ w2.open = TRUE
      BY <3>2, <3>3 DEF WavType
    <3> HIDE DEF w2
    <3>6. w3 \in WavType /\ w3.cursor = wav.cursor /\ w3.written = 0 /\ w3.open = TRUE
      BY <3>4, <3>5 DEF WavType
    <3> HIDE DEF w3
    <3>7. w4 \in WavType
      BY <3>1, <3>6 DEF WavType
    <3>8. w4.cursor = wav.cursor /\ w4.written = 0 /\ w4.enc \in Enc /\ w4.open = TRUE
      BY <3>1, <3>6 DEF WavType
    <3> HIDE DEF w4
    <3>9. wav.cursor + 0 <= Half
      BY <1>2, HalfType DEF WavType
    <3> QED BY <2>2, <3>7, <3>8, <3>9
  <2> QED BY <2>1, <2>2
<1> HIDE DEF w
<1>5. w.cursor \in Nat /\ w.written \in Nat /\ w.left \in Seq(Int) /\ w.packed \in SUBSET Nat
  BY <1>4 DEF WavType
<1>6. at \in Nat /\ Half - at \in Nat
  BY <1>4, <1>5, HalfType
<1>7. left \in Seq(Int)
  BY <1>5
<1> HIDE DEF at, left
<1>8. n \in Nat /\ n <= Len(left)
  BY <1>7, SoundAssumption DEF Least
<1> HIDE DEF n
<1>9. chunk \in Seq(Int) /\ rest \in Seq(Int)
  <2>1. SubSeq(left, 1, n) \in Seq(Int)
    BY <1>7, <1>8
  <2>2. SubSeq(left, n + 1, Len(left)) \in Seq(Int)
    BY <1>7, <1>8
  <2> QED BY <1>7, <2>1, <2>2 DEF Drop
<1> HIDE DEF chunk, rest, ends, hangs
<1>10. e \in Enc
  BY <1>4, <1>9, FeedType
<1> HIDE DEF e
<1>11. Len(bytes) \in Nat /\ Len(bytes) <= Half - at
  <2>1. e.out \in Seq(Int)
    BY <1>10 DEF Enc
  <2> QED BY <1>6, <2>1, Fits
<1> HIDE DEF bytes
<1>12. written \in Nat /\ w.cursor + written <= Half
  BY <1>5, <1>6, <1>11, HalfType DEF at
<1> HIDE DEF written
<1>13. CASE ~ends \/ hangs
  <2> DEFINE f == [e EXCEPT !.out = <<>>]
             a == [w EXCEPT !.left = rest]
             b == [a EXCEPT !.written = written]
             c == [b EXCEPT !.enc = f]
  <2>1. wav' = c /\ UNCHANGED <<rhythm, pair, lr, ch_seg, ch_age>>
    BY <1>1, <1>13
  <2>2. f \in Enc
    <3>1. <<>> \in Seq(Int)
      OBVIOUS
    <3> QED BY <1>10, <3>1, SetEnc
  <2> HIDE DEF f
  <2>3. a \in WavType /\ a.cursor = w.cursor
    BY <1>4, <1>9 DEF WavType
  <2> HIDE DEF a
  <2>4. b \in WavType /\ b.cursor = w.cursor /\ b.written = written
    BY <1>12, <2>3 DEF WavType
  <2> HIDE DEF b
  <2>5. c \in WavType /\ c.cursor = w.cursor /\ c.written = written /\ c.enc \in Enc
    BY <2>2, <2>4 DEF WavType
  <2> HIDE DEF c
  <2>6. Loader'
    BY <1>12, <2>1, <2>5 DEF Loader
  <2>7. Lending'
    BY <2>1 DEF SoundInv, Lending, Drums, Free, Single, IsTable
  <2> QED BY <2>6, <2>7 DEF SoundInv
<1>14. CASE ~(~ends \/ hangs)
  <2> DEFINE cursor == IF keep THEN w.cursor + written ELSE w.cursor
             packed == IF keep THEN w.packed \cup {v} ELSE w.packed
  <2>1. wav' = [voice |-> v + 1, open |-> FALSE, left |-> <<>>, enc |-> NoEnc,
                written |-> 0, cursor |-> cursor, packed |-> packed]
    BY <1>1, <1>14
  <2>2. cursor \in Nat /\ cursor + 0 <= Half /\ packed \in SUBSET Nat /\ v + 1 \in Nat
    <3>1. w.cursor + 0 <= Half
      BY <1>5, <1>12, HalfType
    <3> QED BY <1>3, <1>5, <1>12, <3>1
  <2> HIDE DEF cursor, packed
  <2>3. Loader'
    <3>1. <<>> \in Seq(Int)
      OBVIOUS
    <3> QED BY <2>1, <2>2, <3>1 DEF Loader, WavType
  <2>4. Lending'
    <3>1. CASE keep
      <4>1. rhythm' = [rhythm EXCEPT ![v] = pages] /\ pair' = [pair EXCEPT ![v] = pages]
            /\ UNCHANGED <<lr, ch_seg, ch_age>>
        BY <1>1, <1>14, <3>1
      <4>2. w.cursor + written \in Nat \ {0}
        BY <1>5, <1>12, <3>1
      <4>3. (w.cursor + written - 1) \div PageBytes < HalfPages
        <5> DEFINE m == w.cursor + written
        <5>1. m \in Nat \ {0} /\ m <= Half
          BY <1>12, <4>2
        <5> HIDE DEF m
        <5>2. (m - 1) \div PageBytes < HalfPages
          BY <5>1, LastPage
        <5>3. w.cursor + written - 1 = m - 1
          <6>1. \A i, j \in Nat : i + j - 1 = (i + j) - 1
            OBVIOUS
          <6> QED BY <1>5, <1>12, <6>1, Zenon DEF m
        <5> QED BY <5>2, <5>3
      <4>4. pages[2] < HalfPages
        BY <4>3
      <4> HIDE DEF pages, v
      <4> QED BY <4>1, <4>4, Programmed DEF SoundInv
    <3>2. CASE ~keep
      <4>1. UNCHANGED <<rhythm, pair, lr, ch_seg, ch_age>>
        BY <1>1, <1>14, <3>2
      <4> QED BY <4>1 DEF SoundInv, Lending, Drums, Free, Single, IsTable
    <3> QED BY <3>1, <3>2
  <2> QED BY <2>3, <2>4 DEF SoundInv
<1> QED BY <1>13, <1>14

\* The whole drum file in one call: its pairs are pulled into the half.
LEMMA BinStep == ASSUME SoundInv, NEW n, bin_load(n) PROVE SoundInv'
<1> DEFINE q(v) == ClampPair(BinPair[v])
<1>1. /\ rhythm' = [v \in Ch |-> q(v)]
      /\ pair' = rhythm' \/ pair' = pair
      /\ UNCHANGED <<wav, lr, ch_seg, ch_age>>
  BY Zenon DEF bin_load, pollVars
<1>2. ASSUME NEW v \in Ch PROVE q(v)[2] < HalfPages
  <2>1. BinPair[v][2] \in Nat
    BY SoundAssumption
  <2> QED BY <2>1, HalfType DEF ClampPair
<1> HIDE DEF q
<1>3. Loader'
  BY <1>1 DEF SoundInv, Loader
<1>4. IsTable(rhythm') /\ Drums'
  BY <1>1, <1>2 DEF IsTable, Drums
<1>5. IsTable(pair') /\ Free(pair, lr, ch_seg)'
  BY <1>1, <1>4 DEF SoundInv, Lending, IsTable, Free, Drums
<1>6. Lending'
  BY <1>1, <1>4, <1>5 DEF SoundInv, Lending, Single
<1> QED BY <1>3, <1>6 DEF SoundInv

LEMMA PollStep ==
    ASSUME SoundInv, NEW step, NEW head, NEW xfer, NEW motor, NEW ended \in SUBSET Ch,
           drive_sound_poll(step, head, xfer, motor, ended)
    PROVE  SoundInv'
<1> DEFINE hold == IF on /\ step THEN Hold ELSE seek_hold
           left == IF hold > 0 THEN hold - 1 ELSE 0
           played == IF on THEN Plays(Service(ended), step, head /\ ~last_head, hold, xfer, motor)
                     ELSE Service(ended)
           want == IF ~on THEN {}
                   ELSE {g \in 3..5 : (g = 3 /\ left > 0) \/ (g = 4 /\ xfer) \/ (g = 5 /\ motor)}
           s == Sweep(played, want)
<1>1. /\ pair' = s.pair /\ lr' = s.lr /\ ch_seg' = s.seg /\ ch_age' = s.age
      /\ UNCHANGED <<wav, rhythm>>
  BY Zenon DEF drive_sound_poll, rhythmVars
<1>2. Service(ended) \in Proper
  <2>1. pair \in [Ch -> Pairs]
    <3>1. pair = [c \in Ch |-> pair[c]] /\ \A c \in Ch : pair[c] \in Pairs
      BY DEF SoundInv, Lending, IsTable, Pairs
    <3> QED BY <3>1
  <2>2. Service(ended) \in ServiceType
    BY <2>1 DEF SoundInv, Lending, Service, ServiceType
  <2> QED BY <2>2 DEF SoundInv, Lending, Service, Proper
<1>3. played \in Proper
  <2> DEFINE clunk == head /\ ~last_head
  <2> HIDE DEF clunk, hold
  <2>1. Plays(Service(ended), step, clunk, hold, xfer, motor) \in Proper
    BY <1>2, PlaysProper
  <2> QED BY <1>2, <2>1 DEF clunk
<1> HIDE DEF played, want
<1>4. s \in Proper
  BY <1>3, SweepProper DEF SoundInv, Lending
<1> HIDE DEF s
<1>5. /\ s.pair \in [Ch -> Pairs] /\ s.lr \in [Ch -> {"guest", "kit"}]
      /\ s.seg \in [Ch -> 0..5] /\ s.age \in [Ch -> Nat]
      /\ Free(s.pair, s.lr, s.seg) /\ Single(s.seg)
  BY <1>4 DEF Proper, ServiceType
<1>6. IsTable(pair')
  BY <1>1, <1>5 DEF IsTable
<1>7. Loader'
  BY <1>1 DEF SoundInv, Loader
<1>8. IsTable(rhythm)' /\ Drums'
  BY <1>1 DEF SoundInv, Lending, IsTable, Drums
<1>9. Free(pair, lr, ch_seg)' /\ Single(ch_seg)'
  BY <1>1, <1>5 DEF Free, Single
<1>10. Lending'
  BY <1>1, <1>5, <1>6, <1>8, <1>9 DEF Lending
<1> QED BY <1>7, <1>10 DEF SoundInv

LEMMA SoundStep == SoundInv /\ [Next]_vars => SoundInv'
<1> SUFFICES ASSUME SoundInv, [Next]_vars PROVE SoundInv'
  OBVIOUS
<1>1. ASSUME UNCHANGED <<wav, rhythm, pair, lr, ch_seg, ch_age>> PROVE SoundInv'
  <2>1. Loader'
    BY <1>1 DEF SoundInv, Loader
  <2> QED BY <1>1, <2>1 DEF SoundInv, Lending, Drums, Free, Single, IsTable
<1>2. CASE RhythmIdle \/ BinRefused \/ WavEnd
  BY <1>1, <1>2 DEF RhythmIdle, BinRefused, WavEnd, chipVars, pollVars
<1>3. CASE WavSkip
  <2>1. wav' = [wav EXCEPT !.voice = wav.voice + 1] /\ UNCHANGED <<rhythm, pair, lr, ch_seg, ch_age>>
    BY <1>3 DEF WavSkip, chipVars, pollVars
  <2>2. wav \in WavType /\ wav.voice + 1 \in Nat
    BY DEF SoundInv, Loader, WavType
  <2>3. wav' \in WavType
    BY <2>1, <2>2 DEF WavType
  <2>4. UNCHANGED <<wav.cursor, wav.written, wav.open, wav.enc>>
    BY <2>1, <2>2 DEF WavType
  <2>5. Loader'
    BY <2>3, <2>4 DEF SoundInv, Loader
  <2> QED BY <2>1, <2>5 DEF SoundInv, Lending, Drums, Free, Single, IsTable
<1>4. ASSUME NEW n, bin_load(n) PROVE SoundInv'
  BY <1>4, BinStep
<1>5. ASSUME NEW ok \in BOOLEAN, wav_step(ok) PROVE SoundInv'
  BY <1>5, WavStep
<1>6. CASE DriveIdle \/ DriveEnd
  BY <1>1, <1>6 DEF DriveIdle, DriveEnd, rhythmVars, chipVars, pollVars
<1>7. ASSUME NEW ok \in BOOLEAN, DriveHeader(ok) PROVE SoundInv'
  BY <1>1, <1>7 DEF DriveHeader, rhythmVars, chipVars, pollVars
<1>8. ASSUME NEW ok \in BOOLEAN, drive_sound_load(ok) PROVE SoundInv'
  <2>1. UNCHANGED <<wav, rhythm, pair, lr, ch_seg, ch_age>>
    BY <1>8, Zenon DEF drive_sound_load, rhythmVars, chipVars, pollVars
  <2> QED BY <1>1, <2>1
<1>9. CASE PollIdle
  BY <1>1, <1>9 DEF PollIdle, rhythmVars, chipVars, pollVars
<1>10. ASSUME NEW step, NEW head, NEW xfer, NEW motor, NEW ended \in SUBSET Ch,
              drive_sound_poll(step, head, xfer, motor, ended)
       PROVE  SoundInv'
  BY <1>10, PollStep, Zenon
<1>11. ASSUME NEW s, Bind(s) PROVE SoundInv'
  BY <1>1, <1>11 DEF Bind, rhythmVars, chipVars, pollVars
<1>12. CASE Toggle
  BY <1>1, <1>12 DEF Toggle, rhythmVars, chipVars, pollVars
<1>13. ASSUME NEW c \in Ch, GuestLevel(c) PROVE SoundInv'
  <2>1. lr' = [lr EXCEPT ![c] = "guest"] /\ UNCHANGED <<wav, rhythm, pair, ch_seg, ch_age>>
    BY <1>13 DEF GuestLevel, rhythmVars, pollVars
  <2>2. lr' \in [Ch -> {"guest", "kit"}] /\ \A d \in Ch : lr[d] = "guest" => lr'[d] = "guest"
    BY <2>1 DEF SoundInv, Lending
  <2>3. Free(pair, lr, ch_seg)'
    BY <2>1, <2>2 DEF SoundInv, Lending, Free
  <2>4. Loader'
    BY <2>1 DEF SoundInv, Loader
  <2> QED BY <2>1, <2>2, <2>3, <2>4 DEF SoundInv, Lending, Drums, Single, IsTable
<1>14. CASE UNCHANGED vars
  BY <1>1, <1>14 DEF vars, rhythmVars, chipVars, pollVars
<1>15. CASE MainLoop
  BY <1>2, <1>3, <1>4, <1>5, <1>6, <1>7, <1>8, <1>9, <1>10, <1>15, Zenon DEF MainLoop
<1>16. CASE Environment
  BY <1>11, <1>12, <1>13, <1>16, Zenon DEF Environment
<1> QED BY <1>14, <1>15, <1>16 DEF Next

LEMMA Handed == Lending => HandedBack
<1> SUFFICES ASSUME Lending PROVE HandedBack
  OBVIOUS
<1>1. \A c \in Ch : ch_seg[c] = 0 => pair[c][2] < HalfPages /\ lr[c] = "guest"
  BY DEF Lending, Free
<1>2. ASSUME NEW g \in 3..5 PROVE Cardinality({c \in Ch : ch_seg[c] = g}) <= 1
  <2> DEFINE S == {c \in Ch : ch_seg[c] = g}
  <2>1. \A c, d \in S : c = d
    BY DEF Lending, Single
  <2>2. S = {} \/ \E c : S = {c}
    BY <2>1
  <2>3. Cardinality(S) = 0 \/ Cardinality(S) = 1
    BY <2>2, FS_EmptySet, FS_Singleton, Zenon
  <2> QED BY <2>3
<1> QED BY <1>1, <1>2 DEF HandedBack

\* For any kit, any number of channels and any end flags: a channel the drive
\* noise does not hold has a drum's pages and the guest's level (chan_restore,
\* rhythm.c's inject_pair while a channel is borrowed, the wall of the drum
\* half), and drive_sound_poll plays each loop on one channel at most.
THEOREM AlwaysHandedBack == Spec => []HandedBack
<1>1. Init => SoundInv
  BY SoundInit
<1>2. SoundInv /\ [Next]_vars => SoundInv'
  BY SoundStep
<1>3. SoundInv => HandedBack
  BY Handed DEF SoundInv
<1> QED BY <1>1, <1>2, <1>3, PTL DEF Spec

-----------------------------------------------------------------------------
(* The store.                                                               *)

\* Page arithmetic.
LEMMA AlignedPages ==
    ASSUME NEW a, Aligned(a)
    PROVE  a \in Nat /\ a \div PageBytes \in Nat /\ (a \div PageBytes) * PageBytes = a
<1>1. PICK q \in Nat : a = q * PageBytes
  BY DEF Aligned
<1>2. PageBytes \in Nat \ {0}
  BY EncoderAssumption
<1>3. (q * PageBytes) \div PageBytes = q
  BY <1>2
<1> QED BY <1>1, <1>2, <1>3

LEMMA AlignedSums ==
    ASSUME NEW a, NEW b, Aligned(a), Aligned(b)
    PROVE  Aligned(a + b) /\ (b <= a => Aligned(a - b)) /\ Aligned(Least(a, b))
<1>1. PICK q \in Nat : a = q * PageBytes
  BY DEF Aligned
<1>2. PICK r \in Nat : b = r * PageBytes
  BY DEF Aligned
<1>3. PageBytes \in Nat \ {0}
  BY EncoderAssumption
<1>4. a + b = (q + r) * PageBytes /\ q + r \in Nat
  BY <1>1, <1>2, <1>3
<1>5. ASSUME b <= a PROVE Aligned(a - b)
  <2>1. r <= q
    <3>1. CASE q < r
      <4>1. q * PageBytes + PageBytes <= r * PageBytes
        BY <1>3, <3>1, TimesOrder
      <4>2. a \in Nat /\ b \in Nat /\ a + PageBytes <= b
        BY <1>1, <1>2, <1>3, <4>1
      <4> QED BY <1>3, <1>5, <4>2
    <3> QED BY <3>1
  <2>2. q - r \in Nat /\ a - b = (q - r) * PageBytes
    BY <1>1, <1>2, <1>3, <2>1
  <2> QED BY <2>2 DEF Aligned
<1>6. Aligned(a + b)
  BY <1>4 DEF Aligned
<1> QED BY <1>5, <1>6 DEF Least

LEMMA AlignedHalf == Aligned(Half) /\ Aligned(2 * Half)
<1>1. HalfPages \in Nat /\ 2 * HalfPages \in Nat /\ 2 * Half = (2 * HalfPages) * PageBytes
  BY HalfType DEF Half
<1> QED BY <1>1 DEF Aligned, Half

\* The pages of what lies between two page boundaries.
LEMMA PagesOf ==
    ASSUME NEW a, NEW n, Aligned(a), Aligned(n), n # 0
    PROVE  LET p == a \div PageBytes
               q == (a + n - 1) \div PageBytes
           IN  /\ p \in Nat /\ q \in Nat /\ p <= q /\ p * PageBytes = a
               /\ (q + 1) * PageBytes = a + n /\ (q - p + 1) * PageBytes = n
<1> DEFINE B == PageBytes
<1>1. PICK i \in Nat : a = i * B
  BY DEF Aligned
<1>2. PICK j \in Nat : n = j * B
  BY DEF Aligned
<1>3. B \in Nat \ {0}
  BY EncoderAssumption
<1> HIDE DEF B
<1>4. j # 0
  BY <1>2, <1>3
<1> DEFINE q == i + j - 1
<1>5. q \in Nat /\ i <= q /\ q + 1 = i + j
  BY <1>4
<1>6. a \div B = i
  BY <1>1, <1>3
<1>7. a + n - 1 = q * B + (B - 1)
  <2>1. a + n = (i + j) * B
    BY <1>1, <1>2, <1>3
  <2>2. (i + j) * B = q * B + B
    <3> HIDE DEF q
    <3>1. (q + 1) * B = q * B + B
      BY <1>3, <1>5
    <3> QED BY <1>5, <3>1
  <2>3. a \in Nat /\ n \in Nat /\ q * B \in Nat
    BY <1>1, <1>2, <1>3, <1>5
  <2> HIDE DEF q
  <2> QED BY <1>3, <2>1, <2>2, <2>3
<1> HIDE DEF q
<1>8. (q * B + (B - 1)) \div B = q
  BY <1>3, <1>5
<1>9. (a + n - 1) \div B = q
  BY <1>7, <1>8
<1>10. (q + 1) * B = a + n
  <2>1. (q + 1) * B = (i + j) * B
    BY <1>5
  <2>2. (i + j) * B = i * B + j * B
    BY <1>3
  <2> QED BY <1>1, <1>2, <2>1, <2>2
<1>11. (q - i + 1) * B = n
  <2>1. q - i + 1 = j
    BY <1>5
  <2> QED BY <1>2, <2>1
<1> QED BY <1>1, <1>5, <1>6, <1>9, <1>10, <1>11 DEF B

\* The properties' Holds, of any store; and what an open file has there.
HoldsIn(st, p, file, wall) ==
    LET at == p[1] * PageBytes
        n == (p[2] - p[1] + 1) * PageBytes
    IN  /\ n = Least(Len(file), wall - at)
        /\ \A k \in 0..n - 1 : st[at + k] = file[k + 1]
StoredIn(st, G, base, n) == \A i \in 0..n - 1 : st[base + i] = Byte(G, i + 1)
Below(p, c) == p[1] \in Nat /\ p[2] \in Nat /\ p[1] <= p[2] /\ (p[2] + 1) * PageBytes <= c

LEMMA HoldsStays ==
    ASSUME NEW st, NEW tt, NEW p, NEW file, NEW wall, HoldsIn(st, p, file, wall),
           NEW c \in Nat, Below(p, c), NEW low \in Nat, low <= p[1] * PageBytes,
           \A a \in low..c - 1 : tt[a] = st[a]
    PROVE  HoldsIn(tt, p, file, wall)
<1> DEFINE at == p[1] * PageBytes
           n == (p[2] - p[1] + 1) * PageBytes
           e == (p[2] + 1) * PageBytes
<1>1. p[1] \in Nat /\ p[2] \in Nat /\ p[1] <= p[2] /\ e <= c /\ PageBytes \in Nat \ {0}
  BY EncoderAssumption DEF Below
<1>2. at \in Nat /\ n \in Nat /\ at + n = e /\ e \in Nat
  <2> DEFINE d == p[2] - p[1] + 1
  <2>1. d \in Nat /\ p[1] + d = p[2] + 1
    BY <1>1
  <2> HIDE DEF d
  <2>2. (p[1] + d) * PageBytes = p[1] * PageBytes + d * PageBytes
        /\ d * PageBytes \in Nat /\ p[1] * PageBytes \in Nat
    BY <1>1, <2>1
  <2> QED BY <2>1, <2>2 DEF d
<1>3. n = Least(Len(file), wall - at) /\ \A k \in 0..n - 1 : st[at + k] = file[k + 1]
  BY DEF HoldsIn
<1>4. low <= at
  OBVIOUS
<1> HIDE DEF at, n, e
<1>5. ASSUME NEW k \in 0..n - 1 PROVE tt[at + k] = file[k + 1]
  <2>1. at + k \in low..c - 1
    BY <1>1, <1>2, <1>4
  <2> QED BY <1>3, <2>1
<1> QED BY <1>3, <1>5 DEF HoldsIn, at, n

LEMMA HoldsNew ==
    ASSUME NEW pcm \in Seq(Int), NEW rate \in Nat \ {0}, NEW st,
           NEW a, NEW n, Aligned(a), Aligned(n), n # 0, NEW wall,
           StoredIn(st, FileTargets(pcm, rate), a, n), n = Least(Len(Packed(pcm, rate)), wall - a)
    PROVE  LET p == <<a \div PageBytes, (a + n - 1) \div PageBytes>>
           IN  HoldsIn(st, p, Packed(pcm, rate), wall)
<1> DEFINE x == a \div PageBytes
           y == (a + n - 1) \div PageBytes
           p == <<x, y>>
           P == Packed(pcm, rate)
           G == FileTargets(pcm, rate)
<1>1. x * PageBytes = a /\ (y - x + 1) * PageBytes = n
  BY PagesOf
<1>2. a \in Nat /\ n \in Nat
  BY AlignedPages
<1>3. Len(P) \in Nat /\ \A i \in 1..Len(P) : P[i] = Byte(G, i)
  BY PackIs
<1> HIDE DEF x, y, P, G
<1>4. p[1] * PageBytes = a /\ (p[2] - p[1] + 1) * PageBytes = n
  BY <1>1
<1> HIDE DEF p
<1>5. n = Least(Len(P), wall - a)
  BY DEF P
<1>6. ASSUME NEW k \in 0..n - 1, n <= Len(P) PROVE st[a + k] = P[k + 1]
  <2>1. st[a + k] = Byte(G, k + 1)
    BY DEF StoredIn, G
  <2>2. k + 1 \in 1..Len(P)
    BY <1>2, <1>3, <1>6
  <2> QED BY <1>3, <2>1, <2>2
<1>7. n <= Len(P)
  <2>1. n = IF Len(P) < wall - a THEN Len(P) ELSE wall - a
    BY <1>5, Zenon DEF Least
  <2>2. CASE Len(P) < wall - a
    BY <1>3, <2>1, <2>2
  <2>3. CASE ~(Len(P) < wall - a)
    BY <1>2, <1>3, <2>1, <2>3
  <2> QED BY <2>2, <2>3
<1>8. HoldsIn(st, p, P, wall)
  BY <1>4, <1>5, <1>6, <1>7 DEF HoldsIn
<1> QED BY <1>8 DEF p, x, y, P

\* The sequence a store becomes when bytes are put at an address.
PutIn(st, addr, bytes) ==
    [a \in DOMAIN st |-> IF a - addr \in 0..Len(bytes) - 1 THEN bytes[a - addr + 1] ELSE st[a]]

LEMMA FittingIs ==
    ASSUME NEW bytes \in Seq(Int), NEW room \in Nat
    PROVE  LET f == Fitting(bytes, room)
           IN  /\ f \in Seq(Int) /\ Len(f) = Least(Len(bytes), room)
               /\ \A i \in 1..Len(f) : f[i] = bytes[i]
<1> DEFINE n == Least(Len(bytes), room)
           f == Fitting(bytes, room)
<1>1. n \in Nat /\ n <= room /\ n <= Len(bytes)
  BY DEF Least
<1> HIDE DEF n
<1>2. SubSeq(bytes, 1, n) \in Seq(Int) /\ Len(SubSeq(bytes, 1, n)) = n
      /\ \A i \in 1..n : SubSeq(bytes, 1, n)[i] = bytes[i]
  BY <1>1
<1>3. f = SubSeq(bytes, 1, n)
  BY DEF Fitting, n
<1> QED BY <1>2, <1>3 DEF n

LEMMA LeastIs ==
    ASSUME NEW a \in Int, NEW b \in Int
    PROVE  /\ Least(a, b) \in Int /\ Least(a, b) <= a /\ Least(a, b) <= b
           /\ Least(a, b) = a \/ Least(a, b) = b
  BY DEF Least

\* A pass of a loader: what fits goes behind what there is of the file, and
\* below the wall there is as much of it as the encoder has made.
LEMMA PassStores ==
    ASSUME NEW e \in Enc, NEW h \in Enc, h.bytes = e.bytes + Len(h.out),
           NEW base \in Nat, NEW wall \in Nat, base <= wall, wall <= 2 * Half,
           NEW n, n = Least(e.bytes, wall - base),
           NEW st, DOMAIN st = 0..2 * Half - 1
    PROVE  LET bytes == Fitting(h.out, wall - (base + n))
               tt == PutIn(st, base + n, bytes)
           IN  /\ n + Len(bytes) = Least(h.bytes, wall - base) /\ Len(bytes) \in Nat
               /\ DOMAIN tt = 0..2 * Half - 1
               /\ \A a \in 0..2 * Half - 1 : (a < base \/ a >= wall) => tt[a] = st[a]
               /\ \A G : StoredIn(st, G, base, n) /\ HandsOver(e, h, G)
                            => StoredIn(tt, G, base, n + Len(bytes))
<1> DEFINE at == base + n
           room == wall - at
           bytes == Fitting(h.out, room)
           m == Len(bytes)
           tt == PutIn(st, at, bytes)
           k == Len(h.out)
<1>1. e.bytes \in Nat /\ h.out \in Seq(Int) /\ k \in Nat /\ h.bytes = e.bytes + k /\ Half \in Nat
  BY HalfType DEF Enc
<1>2. n \in Nat /\ n <= wall - base /\ n <= e.bytes /\ (n = e.bytes \/ n = wall - base)
  BY <1>1 DEF Least
<1>3. at \in Nat /\ room \in Nat /\ at = base + n /\ room = wall - at
  BY <1>2
<1> HIDE DEF room, at
<1>4. bytes \in Seq(Int) /\ m = Least(k, room) /\ \A i \in 1..m : bytes[i] = h.out[i]
  BY <1>1, <1>3, FittingIs
<1> HIDE DEF bytes, k
<1>5. m \in Nat /\ m <= room /\ m <= k /\ (m = k \/ m = room)
  <2> HIDE DEF m
  <2>1. Least(k, room) \in Int /\ Least(k, room) <= room /\ Least(k, room) <= k
        /\ (Least(k, room) = k \/ Least(k, room) = room)
    <3>1. k \in Int /\ room \in Int
      BY <1>1, <1>3
    <3> QED BY <3>1, LeastIs
  <2> QED BY <1>1, <1>3, <1>4, <2>1
<1> HIDE DEF m
<1>6. n + m = Least(h.bytes, wall - base)
  <2> DEFINE b == e.bytes
             g == h.bytes
             w == wall - base
             l == Least(g, w)
  <2>1. b \in Nat /\ g = b + k /\ w \in Nat /\ k \in Nat /\ m \in Nat /\ n \in Nat
    BY <1>1, <1>2, <1>5
  <2>2. (n = b \/ n = w) /\ n <= b /\ n <= w /\ room = w - n
    BY <1>2, <1>3
  <2> HIDE DEF b, g, w
  <2>3. l \in Int /\ l <= g /\ l <= w /\ (l = g \/ l = w)
    <3>1. g \in Int /\ w \in Int
      BY <2>1
    <3> QED BY <3>1, LeastIs
  <2> HIDE DEF l
  <2>4. n + m = l
    BY <1>5, <2>1, <2>2, <2>3
  <2> QED BY <2>4 DEF l, g, w
<1>7. DOMAIN tt = 0..2 * Half - 1
  BY DEF PutIn
<1>8. \A a \in 0..2 * Half - 1 : tt[a] = IF a - at \in 0..m - 1 THEN bytes[a - at + 1] ELSE st[a]
  BY DEF PutIn, m
<1> HIDE DEF tt
<1>9. ASSUME NEW a \in 0..2 * Half - 1, a < at \/ a >= at + m PROVE tt[a] = st[a]
  <2>1. ~(a - at \in 0..m - 1)
    BY <1>1, <1>3, <1>5, <1>9
  <2> QED BY <1>8, <2>1
<1>10. ASSUME NEW a \in 0..2 * Half - 1, a < base \/ a >= wall PROVE tt[a] = st[a]
  <2>1. a < at \/ a >= at + m
    <3>1. at + m <= wall /\ at + m \in Nat
      BY <1>3, <1>5
    <3>2. base <= at
      BY <1>2, <1>3
    <3>3. a \in Nat
      BY <1>1
    <3> QED BY <1>3, <1>10, <3>1, <3>2, <3>3
  <2> QED BY <1>9, <2>1
<1>11. ASSUME NEW G, StoredIn(st, G, base, n), NEW i \in 0..n - 1 PROVE tt[base + i] = Byte(G, i + 1)
  <2>1. base + i \in 0..2 * Half - 1 /\ base + i < at
    <3>1. base + i \in Nat /\ base + i < base + n /\ base + n <= wall
      BY <1>2
    <3> QED BY <1>1, <1>3, <3>1
  <2>2. tt[base + i] = st[base + i]
    BY <1>9, <2>1
  <2> QED BY <1>11, <2>2 DEF StoredIn
<1>12. ASSUME NEW G, StoredIn(st, G, base, n), HandsOver(e, h, G)
       PROVE  StoredIn(tt, G, base, n + m)
  <2> SUFFICES ASSUME NEW i \in 0..(n + m) - 1 PROVE tt[base + i] = Byte(G, i + 1)
    BY <1>2, <1>5 DEF StoredIn
  <2>1. CASE i < n
    <3>1. i \in 0..n - 1
      BY <1>2, <1>5, <2>1
    <3> QED BY <1>11, <1>12, <3>1
  <2>2. CASE ~(i < n)
    <3> DEFINE j == i - n
               a == base + i
    <3>1. j \in 0..m - 1 /\ a - at = j /\ j + 1 \in 1..m /\ a \in 0..2 * Half - 1
      <4>1. i \in Nat /\ i < n + m /\ i >= n
        BY <1>2, <1>5, <2>2
      <4>2. base + i < wall
        BY <1>2, <1>3, <1>5, <4>1
      <4>3. a \in 0..2 * Half - 1
        BY <1>1, <4>1, <4>2
      <4>4. a - at = j
        BY <1>2, <1>3, <4>1
      <4>5. j \in 0..m - 1 /\ j + 1 \in 1..m
        BY <1>2, <1>5, <4>1
      <4> QED BY <4>3, <4>4, <4>5
    <3>2. n = e.bytes /\ e.bytes + (j + 1) = i + 1
      <4>1. i \in Nat /\ i < n + m /\ i >= n
        BY <1>2, <1>5, <2>2
      <4>2. n = e.bytes
        BY <1>2, <1>3, <1>5, <4>1
      <4> QED BY <1>2, <4>1, <4>2
    <3> HIDE DEF a, j
    <3>3. tt[a] = bytes[j + 1]
      BY <1>8, <3>1
    <3>4. bytes[j + 1] = h.out[j + 1]
      BY <1>4, <3>1 DEF m
    <3>5. j + 1 \in 1..Len(h.out)
      BY <1>1, <1>5, <3>1 DEF k
    <3>6. h.out[j + 1] = Byte(G, e.bytes + (j + 1))
      BY <1>12, <3>5 DEF HandsOver
    <3> QED BY <3>2, <3>3, <3>4, <3>6 DEF a
  <2> QED BY <2>1, <2>2
<1> QED BY <1>5, <1>6, <1>7, <1>10, <1>12, Zenon DEF tt, m, bytes, room, at

\* At the wall nothing is put any more.
LEMMA PassAtWall ==
    ASSUME NEW out \in Seq(Int), NEW base \in Nat, NEW n \in Nat, NEW wall, wall = base + n,
           wall <= 2 * Half, NEW st, DOMAIN st = 0..2 * Half - 1
    PROVE  LET bytes == Fitting(out, wall - (base + n))
               tt == PutIn(st, base + n, bytes)
           IN  Len(bytes) = 0 /\ \A G : StoredIn(st, G, base, n) => StoredIn(tt, G, base, n + Len(bytes))
<1> DEFINE room == wall - (base + n)
           at == base + n
           bytes == Fitting(out, room)
           tt == PutIn(st, at, bytes)
<1>1. room = 0 /\ room \in Nat /\ at \in Nat
  OBVIOUS
<1> HIDE DEF room, at
<1>2. Len(bytes) = Least(Len(out), room)
  BY <1>1, FittingIs
<1> HIDE DEF bytes
<1>3. Len(bytes) = 0
  BY <1>1, <1>2 DEF Least
<1>4. \A a \in DOMAIN st : tt[a] = st[a]
  <2> SUFFICES ASSUME NEW a \in DOMAIN st PROVE tt[a] = st[a]
    OBVIOUS
  <2>1. ~(a - at \in 0..Len(bytes) - 1)
    BY <1>3
  <2> QED BY <2>1 DEF PutIn
<1> HIDE DEF tt
<1>5. ASSUME NEW G, StoredIn(st, G, base, n) PROVE StoredIn(tt, G, base, n + Len(bytes))
  <2> SUFFICES ASSUME NEW i \in 0..(n + Len(bytes)) - 1 PROVE tt[base + i] = Byte(G, i + 1)
    BY DEF StoredIn
  <2>1. i \in 0..n - 1 /\ base + i \in DOMAIN st
    BY <1>3, HalfType
  <2>2. st[base + i] = Byte(G, i + 1)
    BY <1>5, <2>1 DEF StoredIn
  <2> QED BY <1>4, <2>1, <2>2
<1> QED BY <1>3, <1>5 DEF tt, bytes, room, at

\* A chunk that is all there is to come.
Whole(chunk, left) == chunk = SubSeq(left, 1, Len(left))

\* As many bytes as the packer's file has, or the room takes.
AllOf(m, pcm, rate, room) == m = Least(Len(Packed(pcm, rate)), room)

\* The pass that ends a file, and one that meets the wall: what is below the
\* wall is there, whole.
LEMMA FileEnds ==
    ASSUME NEW e \in Enc, NEW pcm \in Seq(Int), NEW rate \in Nat \ {0}, NEW left,
           Loading(e, pcm, rate, left), InRange(pcm, rate),
           NEW chunk \in Seq(Int), ~Hangs(e, chunk, TRUE),
           NEW base \in Nat, NEW wall \in Nat, base <= wall, wall <= 2 * Half,
           NEW n, n = Least(e.bytes, wall - base),
           NEW st, DOMAIN st = 0..2 * Half - 1, StoredIn(st, FileTargets(pcm, rate), base, n),
           Whole(chunk, left) \/ n = wall - base
    PROVE  LET h == Feed(e, chunk, TRUE)
               bytes == Fitting(h.out, wall - (base + n))
           IN  /\ StoredIn(PutIn(st, base + n, bytes), FileTargets(pcm, rate), base, n + Len(bytes))
               /\ AllOf(n + Len(bytes), pcm, rate, wall - base)
<1> DEFINE h == Feed(e, chunk, TRUE)
           bytes == Fitting(h.out, wall - (base + n))
           tt == PutIn(st, base + n, bytes)
           G == FileTargets(pcm, rate)
           P == Packed(pcm, rate)
<1>1. h \in Enc /\ h.bytes = e.bytes + Len(h.out)
  BY FeedType, FeedCount
<1>2. Len(P) \in Nat /\ Len(G) = 2 * Len(P)
  BY PackIs
<1> HIDE DEF G, P
<1>3. StoredIn(st, G, base, n)
  BY DEF G
<1>4. CASE Whole(chunk, left)
  <2>1. 2 * h.bytes = Len(G) /\ HandsOver(e, h, G)
    <3> DEFINE whole == SubSeq(left, 1, Len(left))
               f == Feed(e, whole, TRUE)
    <3>1. 2 * f.bytes = Len(G) /\ HandsOver(e, f, G)
      BY LoadingEnds, Zenon DEF G
    <3>2. chunk = whole
      BY <1>4, Zenon DEF Whole
    <3> QED BY <3>1, <3>2, Zenon
  <2> HIDE DEF h
  <2>2. h.bytes = Len(P)
    <3>1. h.bytes \in Nat
      BY <1>1 DEF Enc
    <3> QED BY <1>2, <2>1, <3>1
  <2>3. n + Len(bytes) = Least(h.bytes, wall - base) /\ StoredIn(tt, G, base, n + Len(bytes))
    BY <1>1, <1>3, <2>1, PassStores
  <2>4. n + Len(bytes) = Least(Len(P), wall - base)
    BY <2>2, <2>3
  <2> QED BY <2>3, <2>4 DEF h, G, P, AllOf
<1>5. CASE n = wall - base
  <2> HIDE DEF h
  <2>1. n + Len(bytes) = n /\ StoredIn(tt, G, base, n + Len(bytes))
    <3>3. h.out \in Seq(Int)
      BY <1>1 DEF Enc
    <3>1. n \in Nat /\ wall = base + n
      <4>1. wall - base \in Nat /\ wall = base + (wall - base)
        OBVIOUS
      <4> QED BY <1>5, <4>1
    <3>2. Len(bytes) = 0 /\ \A S : StoredIn(st, S, base, n) => StoredIn(tt, S, base, n + Len(bytes))
      BY <3>1, <3>3, PassAtWall
    <3> HIDE DEF bytes, tt
    <3> QED BY <1>3, <3>1, <3>2
  <2>2. Count(e) <= Len(G)
    <3> DEFINE m == Len(pcm) - Len(left)
    <3>1. e.ratio = Ratio(rate) /\ Stream(e, File(pcm), m, e.bytes)
      BY DEF Loading
    <3>2. Count(e) <= Len(Targets(File(pcm), e.ratio))
      BY <3>1, StreamBytes
    <3> QED BY <3>1, <3>2 DEF G, FileTargets
  <2>3. e.bytes \in Nat /\ 2 * e.bytes <= Count(e)
    <3>1. e.bytes \in Nat
      BY DEF Enc
    <3>2. Count(e) = 2 * e.bytes + 0 \/ Count(e) = 2 * e.bytes + 1
      BY CountIs
    <3> QED BY <3>1, <3>2
  <2>4. e.bytes <= Len(P)
    <3>1. Count(e) \in Nat
      BY CountNat
    <3> QED BY <1>2, <2>2, <2>3, <3>1
  <2>5. n <= e.bytes /\ n \in Int
    <3>1. wall - base \in Int /\ e.bytes \in Int
      BY <2>3
    <3> QED BY <3>1, LeastIs
  <2>6. Least(Len(P), wall - base) = wall - base
    <3>1. wall - base <= Len(P) /\ wall - base \in Nat
      BY <1>2, <1>5, <2>3, <2>4, <2>5
    <3> QED BY <1>2, <3>1 DEF Least
  <2>7. n + Len(bytes) = Least(Len(P), wall - base)
    BY <1>5, <2>1, <2>6
  <2> QED BY <2>1, <2>7 DEF h, G, P, AllOf
<1> QED BY <1>4, <1>5

\* The bytes of a file that has ended, up to the wall, are whole pages.
LEMMA EndsAligned ==
    ASSUME NEW b, Aligned(b), NEW base, Aligned(base), NEW wall, Aligned(wall), base <= wall
    PROVE  Aligned(Least(b, wall - base))
<1>1. Aligned(wall - base)
  BY AlignedSums
<1> QED BY <1>1, AlignedSums

-----------------------------------------------------------------------------
(* The invariant of the store.                                              *)

\* A drum's pages hold its file; so do a segment's, in the upper half.
VoiceKept(st, p, v, c) ==
    /\ v \in Ch /\ Below(p, c)
    /\ InRange(WavData[v], WavRate[v]) => HoldsIn(st, p, Packed(WavData[v], WavRate[v]), Half)
SegKept(st, p, s, c) ==
    /\ p[1] >= HalfPages /\ Below(p, c)
    /\ InRange(KitData[s], KitRate) => HoldsIn(st, p, Packed(KitData[s], KitRate), 2 * Half)

\* The file that is being loaded.
VoiceOpen(st, w) ==
    LET v == w.voice
    IN  /\ v \in Ch /\ w.written = Least(w.enc.bytes, Half - w.cursor)
        /\ InRange(WavData[v], WavRate[v]) =>
              /\ Loading(w.enc, WavData[v], WavRate[v], w.left)
              /\ StoredIn(st, FileTargets(WavData[v], WavRate[v]), w.cursor, w.written)
SegOpen(st, d) ==
    LET s == d.seg
    IN  /\ s \in 1..Len(Seg) /\ d.cursor = d.base + Least(d.enc.bytes, 2 * Half - d.base)
        /\ InRange(KitData[s], KitRate) =>
              /\ Loading(d.enc, KitData[s], KitRate, d.left)
              /\ StoredIn(st, FileTargets(KitData[s], KitRate), d.base, d.cursor - d.base)

BinIn(st) == \A k \in 0..Least(Len(BinData), Half) - 1 : st[k] = BinData[k + 1]

ModeKept ==
    /\ mode \in {0, 1, 2} /\ (rhythm_done => mode # 0)
    /\ mode # 2 => wav.open = FALSE /\ wav.packed = {}
VoicesKept ==
    /\ Aligned(wav.cursor)
    /\ \A v \in wav.packed : VoiceKept(store, rhythm[v], v, wav.cursor)
VoiceUnderWay == pc # "hung" /\ wav.open => VoiceOpen(store, wav)
BinKept == rhythm_done /\ mode = 1 => BinIn(store)

DlType == [hdr : BOOLEAN, seg : Nat \ {0}, cursor : Nat, base : Nat, open : BOOLEAN,
           left : Seq(Int), enc : Enc \cup {NoEnc}]
DriveBase(d) == IF d.open THEN d.base ELSE d.cursor
DriveLoader ==
    /\ dl \in DlType /\ dl.cursor <= 2 * Half /\ (dl.open => dl.enc \in Enc)
    /\ IF dl.hdr THEN Aligned(DriveBase(dl)) /\ Half <= DriveBase(dl) /\ DriveBase(dl) <= 2 * Half
       ELSE dl.open = FALSE
IsKit(f) == f = [s \in 1..Len(Seg) |-> f[s]]
SegsKept ==
    /\ IsKit(drv)
    /\ \A s \in 1..Len(Seg) : drv[s] # <<0, 0>> => dl.hdr /\ SegKept(store, drv[s], s, DriveBase(dl))
SegUnderWay == pc # "hung" /\ dl.open => SegOpen(store, dl)

Drumming == ModeKept /\ VoicesKept /\ VoiceUnderWay /\ BinKept
Driving == DriveLoader /\ SegsKept /\ SegUnderWay
StoreInv == SoundInv /\ DOMAIN store = 0..2 * Half - 1 /\ Drumming /\ Driving

LEMMA StoreIsRight == StoreInv => StoreRight
<1> SUFFICES ASSUME StoreInv PROVE StoreRight
  OBVIOUS
<1>1. ASSUME NEW v \in wav.packed, InRange(WavData[v], WavRate[v])
      PROVE  Holds(rhythm[v], VoicePack[v], Half)
  <2>1. v \in Ch /\ HoldsIn(store, rhythm[v], Packed(WavData[v], WavRate[v]), Half)
    BY <1>1 DEF StoreInv, Drumming, VoicesKept, VoiceKept
  <2>2. VoicePack[v] = Packed(WavData[v], WavRate[v])
    BY <2>1 DEF VoicePack
  <2> QED BY <2>1, <2>2 DEF Holds, HoldsIn
<1>2. ASSUME NEW s \in 1..Len(Seg), drv[s] # <<0, 0>>
      PROVE  /\ drv[s][1] >= HalfPages
             /\ InRange(KitData[s], KitRate) => Holds(drv[s], SegPack[s], 2 * Half)
  <2>1. drv[s][1] >= HalfPages
    BY <1>2 DEF StoreInv, Driving, SegsKept, SegKept
  <2>2. ASSUME InRange(KitData[s], KitRate) PROVE Holds(drv[s], SegPack[s], 2 * Half)
    <3>1. HoldsIn(store, drv[s], Packed(KitData[s], KitRate), 2 * Half)
      BY <1>2, <2>2 DEF StoreInv, Driving, SegsKept, SegKept
    <3>2. SegPack[s] = Packed(KitData[s], KitRate)
      BY DEF SegPack
    <3> QED BY <3>1, <3>2 DEF Holds, HoldsIn
  <2> QED BY <2>1, <2>2
<1>3. rhythm_done /\ mode = 1 => \A k \in 0..Least(Len(BinData), Half) - 1 : store[k] = BinData[k + 1]
  BY DEF StoreInv, Drumming, BinKept, BinIn
<1> QED BY <1>1, <1>2, <1>3 DEF StoreRight

-----------------------------------------------------------------------------
(* The steps of the loaders.                                                *)

\* As many bytes as the encoder has made, or the room takes.
UpTo(m, e, room) == m = Least(e.bytes, room)

\* The pages p from base on hold the file.
Landed(st, p, base, m, pcm, rate, wall) ==
    /\ Below(p, base + m) /\ p[1] * PageBytes = base
    /\ InRange(pcm, rate) => HoldsIn(st, p, Packed(pcm, rate), wall)

\* A pass in the middle of a file.
LEMMA PassGoesOn ==
    ASSUME NEW e \in Enc, NEW pcm \in Seq(Int), NEW rate \in Nat \ {0},
           NEW left \in Seq(Int), NEW n \in Nat, n <= Len(left),
           NEW base \in Nat, NEW wall \in Nat, base <= wall, wall <= 2 * Half,
           NEW k, k = Least(e.bytes, wall - base), NEW st, DOMAIN st = 0..2 * Half - 1,
           InRange(pcm, rate) => /\ Loading(e, pcm, rate, left)
                                 /\ StoredIn(st, FileTargets(pcm, rate), base, k)
    PROVE  LET h == Feed(e, SubSeq(left, 1, n), FALSE)
               f == [h EXCEPT !.out = <<>>]
               bytes == Fitting(h.out, wall - (base + k))
               tt == PutIn(st, base + k, bytes)
           IN  /\ UpTo(k + Len(bytes), f, wall - base)
               /\ InRange(pcm, rate) => /\ Loading(f, pcm, rate, Drop(left, n))
                                        /\ StoredIn(tt, FileTargets(pcm, rate), base, k + Len(bytes))
<1> DEFINE chunk == SubSeq(left, 1, n)
           h == Feed(e, chunk, FALSE)
           f == [h EXCEPT !.out = <<>>]
           bytes == Fitting(h.out, wall - (base + k))
           tt == PutIn(st, base + k, bytes)
           G == FileTargets(pcm, rate)
<1>1. chunk \in Seq(Int) /\ ~Hangs(e, chunk, FALSE)
  BY DEF Hangs
<1>2. h \in Enc /\ h.bytes = e.bytes + Len(h.out)
  <2> HIDE DEF chunk
  <2> QED BY <1>1, FeedType, FeedCount
<1>3. f.bytes = h.bytes
  BY <1>2 DEF Enc
<1>4. ASSUME InRange(pcm, rate)
      PROVE  Loading(f, pcm, rate, Drop(left, n)) /\ HandsOver(e, h, G) /\ StoredIn(st, G, base, k)
  BY <1>4, LoadingGoesOn
<1> HIDE DEF h, G
<1>5. k + Len(bytes) = Least(h.bytes, wall - base)
  BY <1>2, PassStores
<1>6. ASSUME InRange(pcm, rate) PROVE StoredIn(tt, G, base, k + Len(bytes))
  <2>1. HandsOver(e, h, G) /\ StoredIn(st, G, base, k)
    BY <1>4, <1>6
  <2> QED BY <1>2, <2>1, PassStores
<1> HIDE DEF tt, bytes
<1>7. UpTo(k + Len(bytes), f, wall - base)
  BY <1>3, <1>5 DEF UpTo
<1> HIDE DEF f
<1> QED BY <1>4, <1>6, <1>7, Zenon DEF f, tt, bytes, h, chunk, G

\* A pass that ends a file leaves whole pages of it,
LEMMA PassAligns ==
    ASSUME NEW e \in Enc, NEW chunk \in Seq(Int), ~Hangs(e, chunk, TRUE),
           NEW base, NEW wall, Aligned(base), Aligned(wall), base <= wall, wall <= 2 * Half,
           NEW k, k = Least(e.bytes, wall - base), NEW st, DOMAIN st = 0..2 * Half - 1
    PROVE  Aligned(k + Len(Fitting(Feed(e, chunk, TRUE).out, wall - (base + k))))
<1> DEFINE h == Feed(e, chunk, TRUE)
           bytes == Fitting(h.out, wall - (base + k))
<1>1. h \in Enc /\ h.bytes = e.bytes + Len(h.out) /\ Aligned(h.bytes)
  BY FeedType, FeedCount
<1>2. base \in Nat /\ wall \in Nat
  BY AlignedPages
<1> HIDE DEF h
<1>3. k + Len(bytes) = Least(h.bytes, wall - base)
  BY <1>1, <1>2, PassStores
<1>4. Aligned(Least(h.bytes, wall - base))
  BY <1>1, EndsAligned
<1> QED BY <1>3, <1>4 DEF h

\* and, when nothing of it was lost, the packer's file.
LEMMA PassEnds ==
    ASSUME NEW e \in Enc, NEW pcm \in Seq(Int), NEW rate \in Nat \ {0}, NEW left,
           NEW chunk \in Seq(Int), ~Hangs(e, chunk, TRUE),
           NEW base, NEW wall, Aligned(base), Aligned(wall), base <= wall, wall <= 2 * Half,
           NEW k, k = Least(e.bytes, wall - base), NEW st, DOMAIN st = 0..2 * Half - 1,
           InRange(pcm, rate) => /\ Loading(e, pcm, rate, left)
                                 /\ StoredIn(st, FileTargets(pcm, rate), base, k),
           Whole(chunk, left) \/ k = wall - base
    PROVE  LET bytes == Fitting(Feed(e, chunk, TRUE).out, wall - (base + k))
               tt == PutIn(st, base + k, bytes)
               m == k + Len(bytes)
               p == <<base \div PageBytes, (base + m - 1) \div PageBytes>>
           IN  m # 0 => Landed(tt, p, base, m, pcm, rate, wall)
<1> DEFINE bytes == Fitting(Feed(e, chunk, TRUE).out, wall - (base + k))
           tt == PutIn(st, base + k, bytes)
           m == k + Len(bytes)
           x == base \div PageBytes
           y == (base + m - 1) \div PageBytes
           p == <<x, y>>
<1> SUFFICES ASSUME m # 0 PROVE Landed(tt, p, base, m, pcm, rate, wall)
  BY Zenon
<1>1. Aligned(m)
  BY PassAligns
<1>2. base \in Nat /\ wall \in Nat
  BY AlignedPages
<1>3. ASSUME InRange(pcm, rate)
      PROVE  /\ StoredIn(tt, FileTargets(pcm, rate), base, m)
             /\ m = Least(Len(Packed(pcm, rate)), wall - base)
  <2>1. Loading(e, pcm, rate, left) /\ StoredIn(st, FileTargets(pcm, rate), base, k)
    BY <1>3
  <2>2. StoredIn(tt, FileTargets(pcm, rate), base, m)
    BY <1>2, <1>3, <2>1, FileEnds
  <2>3. AllOf(m, pcm, rate, wall - base)
    BY <1>2, <1>3, <2>1, FileEnds
  <2> QED BY <2>2, <2>3 DEF AllOf
<1> HIDE DEF tt, m
<1>4. ASSUME InRange(pcm, rate) PROVE HoldsIn(tt, p, Packed(pcm, rate), wall)
  BY <1>1, <1>3, <1>4, HoldsNew
<1>5. x \in Nat /\ y \in Nat /\ x <= y /\ x * PageBytes = base /\ (y + 1) * PageBytes = base + m
  BY <1>1, PagesOf
<1>6. base + m \in Nat /\ base + m <= base + m
  <2>1. m \in Nat
    BY <1>1, AlignedPages
  <2> QED BY <1>2, <2>1
<1> HIDE DEF x, y
<1>7. p[1] = x /\ p[2] = y
  OBVIOUS
<1> HIDE DEF p
<1>8. Below(p, base + m)
  BY <1>5, <1>6, <1>7 DEF Below
<1> QED BY <1>4, <1>5, <1>7, <1>8 DEF Landed

\* What lies elsewhere is not disturbed.
LEMMA VoiceStays ==
    ASSUME NEW st, NEW tt, NEW p, NEW v, NEW c \in Nat, NEW d \in Nat, c <= d,
           VoiceKept(st, p, v, c), \A a \in 0..c - 1 : tt[a] = st[a]
    PROVE  VoiceKept(tt, p, v, d)
<1> DEFINE P == Packed(WavData[v], WavRate[v])
<1>1. v \in Ch /\ Below(p, c) /\ (InRange(WavData[v], WavRate[v]) => HoldsIn(st, p, P, Half))
  BY DEF VoiceKept
<1>2. p[1] \in Nat /\ p[2] \in Nat /\ p[1] <= p[2] /\ (p[2] + 1) * PageBytes <= c
  BY <1>1 DEF Below
<1>3. Below(p, d)
  <2>1. (p[2] + 1) * PageBytes \in Nat
    BY <1>2, HalfType
  <2>2. (p[2] + 1) * PageBytes <= d
    BY <1>2, <2>1
  <2> QED BY <1>2, <2>2 DEF Below
<1>4. 0 <= p[1] * PageBytes /\ 0 \in Nat
  BY <1>2, HalfType
<1> HIDE DEF P
<1>5. ASSUME InRange(WavData[v], WavRate[v]) PROVE HoldsIn(tt, p, P, Half)
  BY <1>1, <1>4, <1>5, HoldsStays
<1> QED BY <1>1, <1>3, <1>5 DEF VoiceKept, P

LEMMA SegStays ==
    ASSUME NEW st, NEW tt, NEW p, NEW s, NEW c \in Nat, NEW d \in Nat, c <= d,
           SegKept(st, p, s, c), \A a \in Half..c - 1 : tt[a] = st[a]
    PROVE  SegKept(tt, p, s, d)
<1> DEFINE P == Packed(KitData[s], KitRate)
<1>1. p[1] >= HalfPages /\ Below(p, c) /\ (InRange(KitData[s], KitRate) => HoldsIn(st, p, P, 2 * Half))
  BY DEF SegKept
<1>2. p[1] \in Nat /\ p[2] \in Nat /\ p[1] <= p[2] /\ (p[2] + 1) * PageBytes <= c
  BY <1>1 DEF Below
<1>3. Below(p, d)
  <2>1. (p[2] + 1) * PageBytes \in Nat
    BY <1>2, HalfType
  <2>2. (p[2] + 1) * PageBytes <= d
    BY <1>2, <2>1
  <2> QED BY <1>2, <2>2 DEF Below
<1>4. Half <= p[1] * PageBytes /\ Half \in Nat
  <2>1. CASE HalfPages = p[1]
    <3>1. Half = p[1] * PageBytes
      BY <2>1 DEF Half
    <3>2. Half \in Nat
      BY HalfType
    <3> QED BY <3>1, <3>2
  <2>2. CASE HalfPages < p[1]
    <3>1. HalfPages * PageBytes + PageBytes <= p[1] * PageBytes
      BY <1>2, <2>2, HalfType, TimesOrder
    <3>2. HalfPages * PageBytes \in Nat /\ p[1] * PageBytes \in Nat /\ PageBytes \in Nat
      BY <1>2, HalfType
    <3> QED BY <3>1, <3>2 DEF Half
  <2> QED BY <1>1, <1>2, <2>1, <2>2, HalfType
<1> HIDE DEF P
<1>5. ASSUME InRange(KitData[s], KitRate) PROVE HoldsIn(tt, p, P, 2 * Half)
  BY <1>1, <1>4, <1>5, HoldsStays
<1> QED BY <1>1, <1>3, <1>5 DEF SegKept, P

LEMMA StoredStays ==
    ASSUME NEW st, NEW tt, NEW G, NEW base \in Nat, NEW n \in Nat, StoredIn(st, G, base, n),
           \A a \in base..(base + n) - 1 : tt[a] = st[a]
    PROVE  StoredIn(tt, G, base, n)
<1> SUFFICES ASSUME NEW i \in 0..n - 1 PROVE tt[base + i] = Byte(G, i + 1)
  BY DEF StoredIn
<1>1. base + i \in base..(base + n) - 1
  OBVIOUS
<1>2. st[base + i] = Byte(G, i + 1)
  BY DEF StoredIn
<1> QED BY <1>1, <1>2

LEMMA StoreInit == Init => StoreInv
<1> SUFFICES ASSUME Init PROVE StoreInv
  OBVIOUS
<1>1. SoundInv
  BY SoundInit
<1>2. DOMAIN store = 0..2 * Half - 1
  BY DEF Init
<1>3. Aligned(0)
  <2>1. 0 = 0 * PageBytes /\ 0 \in Nat
    BY HalfType
  <2> QED BY <2>1 DEF Aligned
<1>4. wav.open = FALSE /\ wav.packed = {} /\ wav.cursor = 0 /\ mode = 0 /\ rhythm_done = FALSE
  BY DEF Init
<1>5. Drumming
  BY <1>3, <1>4 DEF Drumming, ModeKept, VoicesKept, VoiceUnderWay, BinKept
<1>6. dl.hdr = FALSE /\ dl.open = FALSE /\ dl.cursor = 0
  BY DEF Init
<1>7. DriveLoader
  <2>1. 0 <= 2 * Half /\ <<>> \in Seq(Int) /\ 1 \in Nat \ {0}
    BY HalfType
  <2>2. dl \in DlType
    BY <2>1 DEF Init, DlType
  <2> QED BY <1>6, <2>1, <2>2 DEF DriveLoader
<1>8. SegsKept /\ SegUnderWay
  BY <1>6 DEF Init, SegsKept, SegUnderWay, IsKit
<1> QED BY <1>1, <1>2, <1>5, <1>7, <1>8 DEF StoreInv, Driving

\* The open file of a loader, when its half of the store is left alone.
LEMMA VoiceOpenStays ==
    ASSUME NEW st, NEW tt, NEW w, w.cursor \in Nat, w.written \in Nat, w.cursor + w.written <= Half,
           VoiceOpen(st, w), \A a \in 0..Half - 1 : tt[a] = st[a]
    PROVE  VoiceOpen(tt, w)
<1> DEFINE v == w.voice
           G == FileTargets(WavData[v], WavRate[v])
<1>1. \A a \in w.cursor..(w.cursor + w.written) - 1 : tt[a] = st[a]
  BY HalfType
<1>2. ASSUME InRange(WavData[v], WavRate[v]) PROVE StoredIn(tt, G, w.cursor, w.written)
  <2>1. StoredIn(st, G, w.cursor, w.written)
    BY <1>2 DEF VoiceOpen
  <2> HIDE DEF G
  <2> QED BY <1>1, <2>1, StoredStays
<1> QED BY <1>2 DEF VoiceOpen

LEMMA SegOpenStays ==
    ASSUME NEW st, NEW tt, NEW d, d.base \in Nat, d.cursor \in Nat, Half <= d.base,
           d.base <= d.cursor, d.cursor <= 2 * Half,
           SegOpen(st, d), \A a \in Half..2 * Half - 1 : tt[a] = st[a]
    PROVE  SegOpen(tt, d)
<1> DEFINE s == d.seg
           G == FileTargets(KitData[s], KitRate)
           n == d.cursor - d.base
<1>1. n \in Nat /\ \A a \in d.base..(d.base + n) - 1 : tt[a] = st[a]
  BY HalfType
<1>2. ASSUME InRange(KitData[s], KitRate) PROVE StoredIn(tt, G, d.base, n)
  <2>1. StoredIn(st, G, d.base, n)
    BY <1>2 DEF SegOpen
  <2> HIDE DEF G, n
  <2> QED BY <1>1, <2>1, StoredStays
<1> QED BY <1>2 DEF SegOpen

\* What is known of the drive's loader in any state.
LEMMA DriveFacts ==
    ASSUME StoreInv
    PROVE  /\ dl \in DlType /\ dl.cursor \in Nat /\ dl.cursor <= 2 * Half /\ DriveBase(dl) \in Nat
           /\ dl.hdr => Half <= DriveBase(dl) /\ DriveBase(dl) <= 2 * Half /\ Aligned(DriveBase(dl))
           /\ dl.open => dl.hdr /\ dl.enc \in Enc /\ DriveBase(dl) = dl.base
           /\ ~dl.open => DriveBase(dl) = dl.cursor
<1>1. DriveLoader
  BY DEF StoreInv, Driving
<1>2. dl \in DlType /\ dl.cursor <= 2 * Half /\ (dl.open => dl.enc \in Enc)
  BY <1>1 DEF DriveLoader
<1>3. dl.hdr => Half <= DriveBase(dl) /\ DriveBase(dl) <= 2 * Half /\ Aligned(DriveBase(dl))
  BY <1>1 DEF DriveLoader
<1>4. dl.open => dl.hdr
  BY <1>1, <1>2 DEF DriveLoader, DlType
<1>5. dl.cursor \in Nat /\ dl.base \in Nat
  BY <1>2 DEF DlType
<1>6. (dl.open => DriveBase(dl) = dl.base) /\ (~dl.open => DriveBase(dl) = dl.cursor)
  BY DEF DriveBase
<1> QED BY <1>2, <1>3, <1>4, <1>5, <1>6

LEMMA UpperUntouched ==
    ASSUME StoreInv, UNCHANGED <<dl, drv>>, pc' # "hung" => pc # "hung",
           \A a \in Half..2 * Half - 1 : store'[a] = store[a]
    PROVE  Driving'
<1> DEFINE b == DriveBase(dl)
<1>1. DriveLoader'
  BY DEF StoreInv, Driving, DriveLoader, DriveBase
<1>2. SegsKept'
  <2>1. IsKit(drv)'
    BY DEF StoreInv, Driving, SegsKept, IsKit
  <2>2. ASSUME NEW s \in 1..Len(Seg), drv[s] # <<0, 0>>
        PROVE  dl.hdr /\ SegKept(store', drv[s], s, b)
    <3>1. dl.hdr /\ SegKept(store, drv[s], s, b)
      BY <2>2 DEF StoreInv, Driving, SegsKept
    <3>2. b \in Nat /\ b <= 2 * Half /\ b <= b
      BY <3>1, DriveFacts
    <3> HIDE DEF b
    <3>3. \A a \in Half..b - 1 : store'[a] = store[a]
      BY <3>2, HalfType
    <3> QED BY <3>1, <3>2, <3>3, SegStays
  <2>3. b' = b
    BY DEF DriveBase
  <2> QED BY <2>1, <2>2, <2>3 DEF SegsKept
<1>3. SegUnderWay'
  <2> SUFFICES ASSUME pc' # "hung", dl.open PROVE SegOpen(store', dl)
    BY DEF SegUnderWay, SegOpen
  <2>1. SegOpen(store, dl)
    BY DEF StoreInv, Driving, SegUnderWay
  <2>2. dl.base \in Nat /\ dl.cursor \in Nat /\ Half <= dl.base /\ dl.cursor <= 2 * Half
        /\ dl.base <= 2 * Half /\ dl.enc \in Enc
    BY DriveFacts DEF DlType
  <2>3. dl.base <= dl.cursor
    <3>1. dl.cursor = dl.base + Least(dl.enc.bytes, 2 * Half - dl.base)
      BY <2>1 DEF SegOpen
    <3>2. dl.enc.bytes \in Nat /\ 2 * Half - dl.base \in Nat
      BY <2>2, HalfType DEF Enc
    <3>3. Least(dl.enc.bytes, 2 * Half - dl.base) \in Nat
      BY <3>2 DEF Least
    <3> QED BY <2>2, <3>1, <3>3
  <2> QED BY <2>1, <2>2, <2>3, SegOpenStays
<1> QED BY <1>1, <1>2, <1>3 DEF Driving

\* What is known of the drums' loader.
LEMMA DrumFacts ==
    ASSUME StoreInv
    PROVE  /\ wav \in WavType /\ wav.cursor \in Nat /\ wav.written \in Nat /\ Half \in Nat
           /\ wav.cursor <= Half /\ wav.cursor + wav.written <= Half /\ Aligned(wav.cursor)
<1>1. wav \in WavType /\ wav.cursor + wav.written <= Half /\ Aligned(wav.cursor) /\ Half \in Nat
  BY HalfType DEF StoreInv, SoundInv, Loader, Drumming, VoicesKept
<1>2. wav.cursor \in Nat /\ wav.written \in Nat
  BY <1>1 DEF WavType
<1>3. wav.cursor <= Half
  BY <1>1, <1>2
<1> QED BY <1>1, <1>2, <1>3

LEMMA LowerUntouched ==
    ASSUME StoreInv, rhythm' = rhythm, wav'.cursor = wav.cursor, wav'.packed = wav.packed,
           \A a \in 0..Half - 1 : store'[a] = store[a]
    PROVE  /\ VoicesKept'
           /\ wav' = wav /\ (pc' # "hung" => pc # "hung") => VoiceUnderWay'
           /\ BinIn(store) => BinIn(store')
<1> DEFINE c == wav.cursor
<1>1. c \in Nat /\ c <= Half /\ Half \in Nat /\ c <= c /\ Aligned(c)
  BY DrumFacts
<1>2. ASSUME NEW v \in wav.packed PROVE VoiceKept(store', rhythm[v], v, c)
  <2>1. VoiceKept(store, rhythm[v], v, c)
    BY DEF StoreInv, Drumming, VoicesKept
  <2> HIDE DEF c
  <2>2. \A a \in 0..c - 1 : store'[a] = store[a]
    BY <1>1
  <2> QED BY <1>1, <2>1, <2>2, VoiceStays
<1>3. VoicesKept'
  BY <1>1, <1>2 DEF VoicesKept
<1>4. ASSUME wav' = wav, pc' # "hung" => pc # "hung" PROVE VoiceUnderWay'
  <2> SUFFICES ASSUME pc' # "hung", wav.open PROVE VoiceOpen(store', wav)
    BY <1>4 DEF VoiceUnderWay, VoiceOpen
  <2>1. VoiceOpen(store, wav)
    BY <1>4 DEF StoreInv, Drumming, VoiceUnderWay
  <2> QED BY <2>1, DrumFacts, VoiceOpenStays
<1>5. ASSUME BinIn(store) PROVE BinIn(store')
  <2> SUFFICES ASSUME NEW k \in 0..Least(Len(BinData), Half) - 1 PROVE store'[k] = BinData[k + 1]
    BY DEF BinIn
  <2>1. k \in 0..Half - 1
    <3>1. Len(BinData) \in Int /\ Half \in Int
      BY SoundAssumption, HalfType
    <3>2. Least(Len(BinData), Half) \in Int /\ Least(Len(BinData), Half) <= Half
      BY <3>1, LeastIs
    <3> QED BY <3>1, <3>2
  <2> QED BY <1>5, <2>1 DEF BinIn
<1> QED BY <1>3, <1>4, <1>5

\* A step that leaves both loaders and the store alone.
LEMMA StoreIdle ==
    ASSUME StoreInv, UNCHANGED <<store, wav, rhythm, rhythm_done, mode, dl, drv>>,
           pc' # "hung" => pc # "hung"
    PROVE  Drumming' /\ Driving'
<1>1. ModeKept'
  BY DEF StoreInv, Drumming, ModeKept
<1>2. VoicesKept' /\ VoiceUnderWay' /\ (BinIn(store) => BinIn(store'))
  BY LowerUntouched
<1>3. BinKept'
  BY DEF StoreInv, Drumming, BinKept, BinIn
<1>4. Driving'
  BY UpperUntouched
<1> QED BY <1>1, <1>2, <1>3, <1>4 DEF Drumming

\* The passes that only look: the mode may be settled by them.
LEMMA LookingStep ==
    ASSUME StoreInv, RhythmIdle \/ BinRefused \/ WavEnd \/ WavSkip
    PROVE  Drumming' /\ Driving' /\ store' = store
<1>1. UNCHANGED <<store, rhythm, dl, drv>> /\ pc # "hung"
  BY DEF RhythmIdle, BinRefused, WavEnd, WavSkip, WavTurn, AtWav, RhythmTurn, AtRhythm,
         storeVars, driveVars
<1>2. Driving'
  BY <1>1, UpperUntouched
<1>3. ModeKept /\ BinKept /\ VoiceUnderWay
  BY DEF StoreInv, Drumming
<1>4. CASE RhythmIdle
  <2>1. UNCHANGED <<wav, rhythm_done>> /\ mode' = Mode /\ (rhythm_done \/ Mode = 0)
    BY <1>4 DEF RhythmIdle, RhythmTurn, AtRhythm
  <2>2. mode' = mode
    BY <1>3, <2>1 DEF Mode, ModeKept
  <2> QED BY <1>1, <2>1, <2>2, StoreIdle
<1>5. CASE BinRefused
  <2>1. UNCHANGED <<wav, rhythm_done>> /\ mode' = Mode /\ ~rhythm_done /\ Mode = 1
    BY <1>5 DEF BinRefused, RhythmTurn, AtRhythm
  <2>2. mode # 2
    BY <2>1 DEF Mode
  <2>3. ModeKept' /\ BinKept'
    BY <1>3, <2>1, <2>2 DEF ModeKept, BinKept
  <2>4. VoicesKept' /\ VoiceUnderWay'
    BY <1>1, <2>1, LowerUntouched
  <2> QED BY <1>1, <1>2, <2>3, <2>4 DEF Drumming
<1>6. CASE WavEnd
  <2>1. UNCHANGED wav /\ mode' = Mode /\ Mode = 2 /\ rhythm_done' = TRUE
    BY <1>6 DEF WavEnd, WavTurn, AtWav, AtRhythm
  <2>2. ModeKept' /\ BinKept'
    BY <2>1 DEF ModeKept, BinKept
  <2>3. VoicesKept' /\ VoiceUnderWay'
    BY <1>1, <2>1, LowerUntouched
  <2> QED BY <1>1, <1>2, <2>2, <2>3 DEF Drumming
<1>7. CASE WavSkip
  <2>1. /\ wav' = [wav EXCEPT !.voice = wav.voice + 1] /\ ~wav.open
        /\ mode' = Mode /\ Mode = 2 /\ ~rhythm_done /\ UNCHANGED rhythm_done
    BY <1>7 DEF WavSkip, WavTurn, AtWav, AtRhythm
  <2>2. wav'.cursor = wav.cursor /\ wav'.packed = wav.packed /\ wav'.open = wav.open
    BY <2>1, DrumFacts DEF WavType
  <2>3. ModeKept' /\ BinKept' /\ VoiceUnderWay'
    BY <2>1, <2>2 DEF ModeKept, BinKept, VoiceUnderWay
  <2>4. VoicesKept'
    BY <1>1, <2>2, LowerUntouched
  <2> QED BY <1>1, <1>2, <2>3, <2>4 DEF Drumming
<1> QED BY <1>4, <1>5, <1>6, <1>7

LEMMA Quotient ==
    ASSUME NEW a \in Nat, NEW b \in Nat \ {0} PROVE a \div b \in Nat /\ a < b * (a \div b) + b
  OBVIOUS

\* rhythm.bin, in one call.
LEMMA BinLoadStep ==
    ASSUME StoreInv, NEW n \in Nat, bin_load(n)
    PROVE  Drumming' /\ Driving' /\ DOMAIN store' = 0..2 * Half - 1
<1> DEFINE payload == Fitting(BinData, Half)
           all == (Len(payload) + Chunk - 1) \div Chunk
           landed == Fitting(payload, n * Chunk)
<1>1. /\ mode' = Mode /\ ~rhythm_done /\ Mode = 1 /\ rhythm_done' = (n = all)
      /\ store' = PutIn(store, 0, landed)
      /\ UNCHANGED <<wav, dl, drv>> /\ pc # "hung"
  BY DEF bin_load, RhythmTurn, AtRhythm, Put, PutIn, driveVars
<1>2. mode # 2 /\ mode' = 1 /\ wav.open = FALSE /\ wav.packed = {}
  <2>1. mode # 2
    BY <1>1 DEF Mode
  <2> QED BY <1>1, <2>1 DEF StoreInv, Drumming, ModeKept
<1>3. ModeKept' /\ VoicesKept' /\ VoiceUnderWay'
  <2>1. Aligned(wav.cursor)
    BY DrumFacts
  <2> QED BY <1>1, <1>2, <2>1 DEF ModeKept, VoicesKept, VoiceUnderWay
<1>4. Half \in Nat /\ BinData \in Seq(Int) /\ Chunk \in Nat \ {0} /\ DOMAIN store = 0..2 * Half - 1
  BY HalfType, SoundAssumption DEF StoreInv
<1>5. payload \in Seq(Int) /\ Len(payload) = Least(Len(BinData), Half)
      /\ \A i \in 1..Len(payload) : payload[i] = BinData[i]
  BY <1>4, FittingIs
<1> HIDE DEF payload
<1>6. Len(payload) \in Nat /\ Len(payload) <= Half
  <2>1. Len(BinData) \in Int /\ Half \in Int
    BY <1>4
  <2> QED BY <1>5, <2>1, LeastIs
<1>7. n * Chunk \in Nat
  BY <1>4
<1>8. landed \in Seq(Int) /\ Len(landed) = Least(Len(payload), n * Chunk)
      /\ \A i \in 1..Len(landed) : landed[i] = payload[i]
  BY <1>5, <1>7, FittingIs
<1> HIDE DEF landed
<1>9. Len(landed) \in Nat /\ Len(landed) <= Len(payload)
  <2>1. Len(payload) \in Int /\ n * Chunk \in Int
    BY <1>6, <1>7
  <2> QED BY <1>8, <2>1, LeastIs
<1>10. DOMAIN store' = 0..2 * Half - 1
       /\ \A a \in 0..2 * Half - 1 :
             store'[a] = IF a - 0 \in 0..Len(landed) - 1 THEN landed[a - 0 + 1] ELSE store[a]
  BY <1>1, <1>4 DEF PutIn
<1>11. \A a \in Half..2 * Half - 1 : store'[a] = store[a]
  <2> SUFFICES ASSUME NEW a \in Half..2 * Half - 1 PROVE store'[a] = store[a]
    OBVIOUS
  <2>1. a \in 0..2 * Half - 1 /\ ~(a - 0 \in 0..Len(landed) - 1)
    BY <1>4, <1>6, <1>9
  <2> QED BY <1>10, <2>1
<1>12. Driving'
  BY <1>1, <1>11, UpperUntouched
<1>13. ASSUME n = all PROVE BinIn(store')
  <2>1. Len(landed) = Len(payload)
    <3>1. Len(payload) <= n * Chunk
      <4> DEFINE p == Len(payload)
                 x == p + Chunk - 1
      <4>1. x \in Nat /\ p <= x /\ x = p + Chunk - 1
        BY <1>4, <1>6
      <4> HIDE DEF x, p
      <4> DEFINE q == x \div Chunk
      <4>2. q \in Nat /\ x < Chunk * q + Chunk
        BY <1>4, <4>1, Quotient
      <4>3. n = q
        BY <1>13 DEF x, p
      <4> HIDE DEF q
      <4>4. p \in Int /\ Chunk * q = n * Chunk
        BY <1>4, <1>6, <4>2, <4>3 DEF p
      <4>5. p <= n * Chunk
        BY <1>4, <1>7, <4>1, <4>2, <4>4
      <4> QED BY <4>5 DEF p
    <3> QED BY <1>6, <1>7, <1>8, <3>1 DEF Least
  <2> SUFFICES ASSUME NEW k \in 0..Least(Len(BinData), Half) - 1 PROVE store'[k] = BinData[k + 1]
    BY DEF BinIn
  <2>2. k \in 0..Len(landed) - 1 /\ k \in 0..2 * Half - 1 /\ k - 0 = k /\ k + 1 \in 1..Len(payload)
    BY <1>4, <1>5, <1>6, <2>1
  <2>3. store'[k] = landed[k + 1]
    BY <1>10, <2>2
  <2> QED BY <1>5, <1>8, <2>1, <2>2, <2>3
<1>14. BinKept'
  BY <1>1, <1>13 DEF BinKept, BinIn
<1> QED BY <1>3, <1>10, <1>12, <1>14 DEF Drumming

\* The header of the kit, and the end of the kit.
LEMMA HeaderStep ==
    ASSUME StoreInv, NEW good \in BOOLEAN, DriveHeader(good)
    PROVE  Drumming' /\ Driving' /\ store' = store
<1>1. /\ dl' = IF good THEN [dl EXCEPT !.hdr = TRUE, !.cursor = Half, !.seg = 1] ELSE dl
      /\ UNCHANGED <<store, drv, wav, rhythm, rhythm_done, mode>> /\ ~dl.hdr
      /\ pc # "hung"
  BY DEF DriveHeader, DriveTurn, AtDrive, storeVars, rhythmVars
<1>2. CASE ~good
  BY <1>1, <1>2, StoreIdle
<1>3. CASE good
  <2> DEFINE d1 == [dl EXCEPT !.hdr = TRUE]
             d2 == [d1 EXCEPT !.cursor = Half]
             d3 == [d2 EXCEPT !.seg = 1]
  <2>1. dl' = d3
    BY <1>1, <1>3
  <2>2. dl \in DlType /\ dl.open = FALSE
    <3>1. dl \in DlType /\ DriveLoader
      BY DEF StoreInv, Driving, DriveLoader
    <3> QED BY <1>1, <3>1 DEF DriveLoader
  <2>3. d1 \in DlType /\ d1.open = FALSE /\ d1.hdr = TRUE
    BY <2>2 DEF DlType
  <2> HIDE DEF d1
  <2>4. d2 \in DlType /\ d2.open = FALSE /\ d2.hdr = TRUE /\ d2.cursor = Half
    BY <2>3, HalfType DEF DlType
  <2> HIDE DEF d2
  <2>5. d3 \in DlType /\ d3.open = FALSE /\ d3.hdr = TRUE /\ d3.cursor = Half
    BY <2>4 DEF DlType
  <2> HIDE DEF d3
  <2>6. DriveBase(d3) = Half
    BY <2>5 DEF DriveBase
  <2>7. DriveLoader'
    <3>1. Half <= Half /\ Half <= 2 * Half /\ Aligned(Half)
      BY HalfType, AlignedHalf
    <3> QED BY <2>1, <2>5, <2>6, <3>1 DEF DriveLoader
  <2>8. \A s \in 1..Len(Seg) : drv[s] = <<0, 0>>
    BY <1>1 DEF StoreInv, Driving, SegsKept
  <2>9. SegsKept' /\ SegUnderWay'
    <3>1. IsKit(drv)
      BY DEF StoreInv, Driving, SegsKept
    <3>2. IsKit(drv)'
      BY <1>1, <3>1 DEF IsKit
    <3> QED BY <1>1, <2>1, <2>5, <2>8, <3>2 DEF SegsKept, SegUnderWay
  <2>10. Driving'
    BY <2>7, <2>9 DEF Driving
  <2>11. ModeKept' /\ BinKept'
    BY <1>1 DEF StoreInv, Drumming, ModeKept, BinKept, BinIn
  <2>12. VoicesKept' /\ VoiceUnderWay'
    BY <1>1, LowerUntouched
  <2> QED BY <1>1, <2>10, <2>11, <2>12 DEF Drumming
<1> QED BY <1>2, <1>3

\* What is put below a wall leaves the rest of the store as it is.
LEMMA PutOutside ==
    ASSUME NEW st, DOMAIN st = 0..2 * Half - 1, NEW out \in Seq(Int),
           NEW at \in Nat, NEW wall \in Nat, at <= wall, wall <= 2 * Half
    PROVE  LET tt == PutIn(st, at, Fitting(out, wall - at))
           IN  /\ DOMAIN tt = 0..2 * Half - 1
               /\ \A a \in 0..2 * Half - 1 : (a < at \/ a >= wall) => tt[a] = st[a]
<1> DEFINE bytes == Fitting(out, wall - at)
           tt == PutIn(st, at, bytes)
<1>1. wall - at \in Nat
  OBVIOUS
<1>2. Len(bytes) \in Nat /\ Len(bytes) <= wall - at
  BY <1>1, Fits
<1> HIDE DEF bytes
<1>3. DOMAIN tt = 0..2 * Half - 1
  BY DEF PutIn
<1>4. ASSUME NEW a \in 0..2 * Half - 1, a < at \/ a >= wall PROVE tt[a] = st[a]
  <2>1. ~(a - at \in 0..Len(bytes) - 1)
    BY <1>2, <1>4, HalfType
  <2> QED BY <2>1 DEF PutIn
<1> QED BY <1>3, <1>4 DEF bytes

\* The voice wav_step works on, opened if it was not.
LEMMA WavOpened ==
    ASSUME StoreInv, wav.voice \in Ch, pc # "hung"
    PROVE  LET v == wav.voice
               w == IF wav.open THEN wav
                    ELSE [wav EXCEPT !.open = TRUE, !.left = WavData[v], !.written = 0,
                                     !.enc = adpcm_enc_init(WavRate[v])]
           IN  /\ w \in WavType /\ w.enc \in Enc /\ w.cursor = wav.cursor /\ w.packed = wav.packed
               /\ w.voice = v /\ w.cursor + w.written <= Half /\ VoiceOpen(store, w)
<1> DEFINE v == wav.voice
           w1 == [wav EXCEPT !.open = TRUE]
           w2 == [w1 EXCEPT !.left = WavData[v]]
           w3 == [w2 EXCEPT !.written = 0]
           w4 == [w3 EXCEPT !.enc = adpcm_enc_init(WavRate[v])]
           w == IF wav.open THEN wav ELSE w4
           c == wav.cursor
           p == wav.packed
<1>1. wav \in WavType /\ c \in Nat /\ c <= Half /\ c + wav.written <= Half /\ Half \in Nat
  BY DrumFacts
<1>2. CASE wav.open
  <2>1. wav.enc \in Enc /\ VoiceOpen(store, wav)
    BY <1>2 DEF StoreInv, SoundInv, Loader, Drumming, VoiceUnderWay
  <2> QED BY <1>1, <1>2, <2>1
<1>3. CASE ~wav.open
  <2> DEFINE e == adpcm_enc_init(WavRate[v])
  <2>1. WavData[v] \in Seq(Int) /\ WavRate[v] \in Nat \ {0}
    BY SoundAssumption
  <2>2. e \in Enc /\ e.bytes = 0
    <3>1. e \in Enc
      BY <2>1, NewEncoder
    <3> QED BY <3>1 DEF adpcm_enc_init
  <2>3. Loading(e, WavData[v], WavRate[v], WavData[v])
    BY <2>1, LoadingStarts
  <2>4. w1 \in WavType /\ w1.cursor = c /\ w1.packed = p /\ w1.voice = v
    BY <1>1 DEF WavType
  <2> HIDE DEF w1
  <2>5. w2 \in WavType /\ w2.cursor = c /\ w2.packed = p /\ w2.voice = v /\ w2.left = WavData[v]
    BY <2>1, <2>4 DEF WavType
  <2> HIDE DEF w2
  <2>6. w3 \in WavType /\ w3.cursor = c /\ w3.packed = p /\ w3.voice = v /\ w3.left = WavData[v]
        /\ w3.written = 0
    BY <2>5 DEF WavType
  <2> HIDE DEF w3, e
  <2>7. w4 = [w3 EXCEPT !.enc = e]
    BY DEF e
  <2>8. w4 \in WavType /\ w4.cursor = c /\ w4.packed = p /\ w4.voice = v /\ w4.left = WavData[v]
        /\ w4.written = 0 /\ w4.enc = e
    BY <2>2, <2>6, <2>7 DEF WavType
  <2> HIDE DEF w4
  <2>9. VoiceOpen(store, w4)
    <3>1. 0 = Least(e.bytes, Half - c)
      BY <1>1, <2>2 DEF Least
    <3>2. StoredIn(store, FileTargets(WavData[v], WavRate[v]), c, 0)
      BY DEF StoredIn
    <3> QED BY <2>3, <2>8, <3>1, <3>2 DEF VoiceOpen
  <2>10. c + 0 <= Half
    BY <1>1
  <2>11. w = w4
    BY <1>3
  <2> HIDE DEF w
  <2>12. /\ w \in WavType /\ w.enc \in Enc /\ w.cursor = c /\ w.packed = p
         /\ w.voice = v /\ w.cursor + w.written <= Half /\ VoiceOpen(store, w)
    BY <2>2, <2>8, <2>9, <2>10, <2>11
  <2> QED BY <2>12 DEF w, w4, w3, w2, w1
<1> QED BY <1>2, <1>3

\* A pass of wav_step: the file under way stays right, one that ends is
\* programmed where it is, and those before it are not disturbed.
LEMMA WavLoadStep ==
    ASSUME StoreInv, NEW ok \in BOOLEAN, wav_step(ok)
    PROVE  Drumming' /\ Driving' /\ DOMAIN store' = 0..2 * Half - 1
<1> DEFINE v == wav.voice
           w == IF wav.open THEN wav
                ELSE [wav EXCEPT !.open = TRUE, !.left = WavData[v], !.written = 0,
                                 !.enc = adpcm_enc_init(WavRate[v])]
           at == w.cursor + w.written
           left == IF at >= Half THEN <<>> ELSE w.left
           n == Least(Len(left), Chunk)
           rest == IF ok THEN Drop(left, n) ELSE left
           ends == ~ok \/ rest = <<>>
           chunk == IF ok THEN SubSeq(left, 1, n) ELSE <<>>
           hangs == Hangs(w.enc, chunk, ends)
           e == Feed(w.enc, chunk, ends)
           bytes == Fitting(e.out, Half - at)
           written == w.written + Len(bytes)
           keep == ok /\ written > 0
           pages == <<w.cursor \div PageBytes, (w.cursor + written - 1) \div PageBytes>>
<1>1. /\ v < Channels /\ pc = "rhythm" /\ mode' = Mode /\ Mode = 2 /\ ~rhythm_done
      /\ pc' = IF hangs THEN "hung" ELSE "drive"
      /\ Put(Arm(at, ~wav.open), bytes)
      /\ IF ~ends \/ hangs
         THEN /\ wav' = [w EXCEPT !.left = rest, !.written = written,
                                  !.enc = [e EXCEPT !.out = <<>>]]
              /\ UNCHANGED <<rhythm, pair>>
         ELSE /\ wav' = [voice |-> v + 1, open |-> FALSE, left |-> <<>>, enc |-> NoEnc,
                         written |-> 0,
                         cursor |-> IF keep THEN w.cursor + written ELSE w.cursor,
                         packed |-> IF keep THEN w.packed \cup {v} ELSE w.packed]
              /\ IF keep THEN rhythm' = [rhythm EXCEPT ![v] = pages]
                              /\ pair' = [pair EXCEPT ![v] = pages]
                 ELSE UNCHANGED <<rhythm, pair>>
      /\ UNCHANGED <<rhythm_done, dl, drv>>
  BY Zenon DEF wav_step, AtWav, AtRhythm, driveVars
<1>2. store' = PutIn(store, at, bytes) /\ pc # "hung"
  BY <1>1 DEF Put, PutIn, Arm
<1>3. v \in Ch
  <2>1. v \in Nat
    BY DrumFacts DEF WavType
  <2>2. v < Channels
    BY <1>1, Zenon
  <2> QED BY <2>1, <2>2, SoundAssumption DEF Ch
<1>4. /\ w \in WavType /\ w.enc \in Enc /\ w.cursor = wav.cursor /\ w.packed = wav.packed
      /\ w.voice = v /\ w.cursor + w.written <= Half /\ VoiceOpen(store, w)
  BY <1>2, <1>3, WavOpened
<1>5. WavData[v] \in Seq(Int) /\ WavRate[v] \in Nat \ {0} /\ Chunk \in Nat \ {0}
  BY <1>3, SoundAssumption
<1> HIDE DEF w
<1>6. w.cursor \in Nat /\ w.written \in Nat /\ w.left \in Seq(Int)
  BY <1>4 DEF WavType
<1>7. Half \in Nat /\ Half <= 2 * Half /\ w.cursor <= Half /\ Aligned(w.cursor) /\ Aligned(Half)
      /\ DOMAIN store = 0..2 * Half - 1
  BY <1>4, DrumFacts, AlignedHalf DEF StoreInv
<1>8. at \in Nat /\ at <= Half /\ at = w.cursor + w.written
  BY <1>4, <1>6
<1> DEFINE G == FileTargets(WavData[v], WavRate[v])
           good == InRange(WavData[v], WavRate[v])
<1>9. /\ w.written = Least(w.enc.bytes, Half - w.cursor)
      /\ good => Loading(w.enc, WavData[v], WavRate[v], w.left) /\ StoredIn(store, G, w.cursor, w.written)
  BY <1>4 DEF VoiceOpen
<1> HIDE DEF G, good
<1>10. left \in Seq(Int) /\ (at < Half => left = w.left) /\ (~(at < Half) => w.written = Half - w.cursor)
  BY <1>6, <1>7, <1>8
<1> HIDE DEF at, left
<1>11. n \in Nat /\ n <= Len(left)
  BY <1>5, <1>10 DEF Least
<1>12. chunk \in Seq(Int)
  BY <1>10, <1>11
<1> HIDE DEF n
<1>13. e \in Enc /\ e.out \in Seq(Int)
  <2> HIDE DEF chunk, ends
  <2>1. e \in Enc
    BY <1>4, <1>12, FeedType
  <2> QED BY <2>1 DEF Enc
<1>14. DOMAIN store' = 0..2 * Half - 1
       /\ \A a \in 0..2 * Half - 1 : (a < at \/ a >= Half) => store'[a] = store[a]
  <2> HIDE DEF e
  <2> QED BY <1>2, <1>7, <1>8, <1>13, PutOutside
<1>15. Driving'
  <2>1. \A a \in Half..2 * Half - 1 : store'[a] = store[a]
    BY <1>7, <1>14
  <2> QED BY <1>1, <1>2, <2>1, UpperUntouched
<1>16. \A a \in 0..w.cursor - 1 : store'[a] = store[a]
  <2> SUFFICES ASSUME NEW a \in 0..w.cursor - 1 PROVE store'[a] = store[a]
    OBVIOUS
  <2>1. a \in 0..2 * Half - 1 /\ a < at
    BY <1>6, <1>7, <1>8
  <2> QED BY <1>14, <2>1
<1>17. mode' = 2 /\ ~rhythm_done' /\ ModeKept' /\ BinKept'
  BY <1>1 DEF ModeKept, BinKept
<1>18. ASSUME NEW u \in wav.packed, NEW d \in Nat, w.cursor <= d
       PROVE  VoiceKept(store', rhythm[u], u, d)
  <2>1. VoiceKept(store, rhythm[u], u, w.cursor)
    BY <1>4 DEF StoreInv, Drumming, VoicesKept
  <2> QED BY <1>6, <1>16, <1>18, <2>1, VoiceStays
<1>19. CASE ~ends \/ hangs
  <2> DEFINE f == [e EXCEPT !.out = <<>>]
             a == [w EXCEPT !.left = rest]
             b == [a EXCEPT !.written = written]
             c == [b EXCEPT !.enc = f]
  <2>1. wav' = c /\ UNCHANGED rhythm
    BY <1>1, <1>19
  <2> HIDE DEF f, rest, written
  <2>2. a.cursor = w.cursor /\ a.packed = w.packed /\ a.voice = v /\ a.left = rest
        /\ a = [voice |-> a.voice, cursor |-> a.cursor, open |-> a.open, left |-> a.left,
                written |-> a.written, enc |-> a.enc, packed |-> a.packed]
    BY <1>4 DEF WavType
  <2> HIDE DEF a
  <2>3. b.cursor = w.cursor /\ b.packed = w.packed /\ b.voice = v /\ b.left = rest
        /\ b.written = written
        /\ b = [voice |-> b.voice, cursor |-> b.cursor, open |-> b.open, left |-> b.left,
                written |-> b.written, enc |-> b.enc, packed |-> b.packed]
    BY <2>2
  <2> HIDE DEF b
  <2>4. c.cursor = w.cursor /\ c.packed = w.packed /\ c.voice = v /\ c.left = rest
        /\ c.written = written /\ c.enc = f
    BY <2>3
  <2> HIDE DEF c
  <2>5. VoicesKept'
    <3>1. \A u \in wav.packed : VoiceKept(store', rhythm[u], u, w.cursor)
      BY <1>6, <1>18
    <3> QED BY <1>4, <1>7, <2>1, <2>4, <3>1 DEF VoicesKept
  <2>6. VoiceUnderWay'
    <3>1. CASE hangs
      <4>1. pc' = "hung"
        BY <1>1, <3>1
      <4> QED BY <4>1 DEF VoiceUnderWay
    <3>2. CASE ~hangs
      <4>1. ok /\ ends = FALSE /\ ~ends
        BY <1>19, <3>2
      <4>2. chunk = SubSeq(left, 1, n) /\ rest = Drop(left, n) /\ rest # <<>>
        BY <4>1 DEF rest
      <4>3. left = w.left
        <5>1. ASSUME ~(at < Half) PROVE FALSE
          <6>1. left = <<>>
            BY <1>7, <1>8, <5>1 DEF left
          <6>2. n = 0
            BY <1>11, <6>1
          <6>3. Drop(left, n) = <<>>
            BY <6>1, <6>2 DEF Drop
          <6> QED BY <4>2, <6>3
        <5> QED BY <1>10, <5>1
      <4>4. e = Feed(w.enc, SubSeq(w.left, 1, n), FALSE)
        BY <4>1, <4>2, <4>3
      <4> DEFINE E == w.enc
                 base == w.cursor
                 k == w.written
                 pcm == WavData[v]
                 rate == WavRate[v]
                 lf == w.left
                 h == Feed(E, SubSeq(lf, 1, n), FALSE)
                 g == [h EXCEPT !.out = <<>>]
                 put == Fitting(h.out, Half - (base + k))
                 tt == PutIn(store, base + k, put)
      <4>5. e = h /\ f = g /\ at = base + k /\ bytes = put /\ written = k + Len(put) /\ store' = tt
        BY <1>2, <4>4 DEF f, at, written
      <4>6. /\ E \in Enc /\ pcm \in Seq(Int) /\ rate \in Nat \ {0} /\ lf \in Seq(Int)
            /\ n <= Len(lf) /\ n \in Nat /\ base \in Nat /\ base <= Half /\ k = Least(E.bytes, Half - base)
        BY <1>4, <1>5, <1>6, <1>7, <1>9, <1>11, <4>3
      <4>7. InRange(pcm, rate) => /\ Loading(E, pcm, rate, lf)
                                  /\ StoredIn(store, FileTargets(pcm, rate), base, k)
        BY <1>9 DEF good, G
      <4> HIDE DEF E, base, k, pcm, rate, lf
      <4>8. UpTo(k + Len(put), g, Half - base)
        BY <1>7, <4>6, <4>7, PassGoesOn
      <4>9. ASSUME InRange(pcm, rate)
            PROVE  /\ Loading(g, pcm, rate, Drop(lf, n))
                   /\ StoredIn(tt, FileTargets(pcm, rate), base, k + Len(put))
        BY <1>7, <4>6, <4>7, <4>9, PassGoesOn
      <4> HIDE DEF g, tt, put
      <4>10. VoiceOpen(store', c)
        <5>1. written = Least(f.bytes, Half - w.cursor)
          BY <4>5, <4>8 DEF base, UpTo
        <5>2. ASSUME good
              PROVE  /\ Loading(f, WavData[v], WavRate[v], rest)
                     /\ StoredIn(store', G, w.cursor, written)
          BY <4>2, <4>3, <4>5, <4>9, <5>2 DEF good, G, pcm, rate, base, lf
        <5> QED BY <1>3, <2>4, <5>1, <5>2 DEF VoiceOpen, good, G
      <4> QED BY <2>1, <4>10 DEF VoiceUnderWay, VoiceOpen
    <3> QED BY <3>1, <3>2
  <2> QED BY <1>14, <1>15, <1>17, <2>5, <2>6 DEF Drumming
<1>20. CASE ~(~ends \/ hangs)
  <2> DEFINE cursor == IF keep THEN w.cursor + written ELSE w.cursor
             packed == IF keep THEN w.packed \cup {v} ELSE w.packed
  <2>1. wav' = [voice |-> v + 1, open |-> FALSE, left |-> <<>>, enc |-> NoEnc,
                written |-> 0, cursor |-> cursor, packed |-> packed]
    BY <1>1, <1>20
  <2>2. ends = TRUE /\ ~Hangs(w.enc, chunk, TRUE) /\ e = Feed(w.enc, chunk, TRUE)
    BY <1>20
  <2> HIDE DEF cursor, packed
  <2>3. wav'.cursor = cursor /\ wav'.packed = packed /\ wav'.open = FALSE
    BY <2>1
  <2>4. VoiceUnderWay'
    BY <2>3 DEF VoiceUnderWay
  <2>5. CASE ~keep
    <3>1. UNCHANGED rhythm /\ cursor = w.cursor /\ packed = w.packed
      BY <1>1, <1>20, <2>5 DEF cursor, packed
    <3>2. \A u \in wav.packed : VoiceKept(store', rhythm[u], u, w.cursor)
      BY <1>6, <1>18
    <3>3. VoicesKept'
      BY <1>4, <1>7, <2>3, <3>1, <3>2 DEF VoicesKept
    <3> QED BY <1>14, <1>15, <1>17, <2>4, <3>3 DEF Drumming
  <2>6. CASE keep
    <3>1. rhythm' = [rhythm EXCEPT ![v] = pages] /\ cursor = w.cursor + written
          /\ packed = w.packed \cup {v}
      BY <1>1, <1>20, <2>6 DEF cursor, packed
    <3>2. ok /\ written # 0
      BY <2>6
    <3>3. Whole(chunk, w.left) \/ w.written = Half - w.cursor
      <4> SUFFICES ASSUME at < Half PROVE Whole(chunk, w.left)
        BY <1>10
      <4>1. left = w.left /\ chunk = SubSeq(left, 1, n) /\ Drop(left, n) = <<>>
        BY <1>10, <1>20, <3>2
      <4>2. n = Len(left)
        <5>1. Len(SubSeq(left, n + 1, Len(left))) = Len(left) - n
          BY <1>10, <1>11
        <5>2. Len(<<>>) = 0
          OBVIOUS
        <5>3. SubSeq(left, n + 1, Len(left)) = <<>>
          BY <4>1, Zenon DEF Drop
        <5>4. Len(left) - n = 0
          BY <5>1, <5>2, <5>3, Zenon
        <5>5. Len(left) \in Nat
          BY <1>10
        <5> QED BY <1>11, <5>4, <5>5
      <4> QED BY <4>1, <4>2 DEF Whole
    <3> HIDE DEF chunk
    <3>4. Aligned(written)
      BY <1>4, <1>7, <1>9, <1>12, <2>2, PassAligns DEF at
    <3>5. /\ Below(pages, w.cursor + written)
          /\ good => HoldsIn(store', pages, Packed(WavData[v], WavRate[v]), Half)
      <4> DEFINE E == w.enc
                 base == w.cursor
                 k == w.written
                 pcm == WavData[v]
                 rate == WavRate[v]
                 lf == w.left
                 put == Fitting(Feed(E, chunk, TRUE).out, Half - (base + k))
                 tt == PutIn(store, base + k, put)
                 m == k + Len(put)
                 p == <<base \div PageBytes, (base + m - 1) \div PageBytes>>
      <4>1. at = base + k /\ bytes = put /\ written = m /\ store' = tt /\ pages = p /\ m # 0
        BY <1>2, <2>2, <3>2 DEF at
      <4>2. /\ E \in Enc /\ pcm \in Seq(Int) /\ rate \in Nat \ {0}
            /\ ~Hangs(E, chunk, TRUE) /\ Aligned(base) /\ base <= Half /\ k = Least(E.bytes, Half - base)
            /\ (Whole(chunk, lf) \/ k = Half - base)
        BY <1>4, <1>5, <1>7, <1>9, <2>2, <3>3
      <4>3. InRange(pcm, rate) => /\ Loading(E, pcm, rate, lf)
                                  /\ StoredIn(store, FileTargets(pcm, rate), base, k)
        BY <1>9 DEF good, G
      <4> HIDE DEF E, base, k, pcm, rate, lf
      <4>4. m # 0 => Landed(tt, p, base, m, pcm, rate, Half)
        BY <1>7, <1>12, <4>2, <4>3, PassEnds
      <4> HIDE DEF m, p, tt
      <4> QED BY <4>1, <4>4 DEF Landed, good, base, pcm, rate
    <3> HIDE DEF written, pages
    <3>6. Aligned(cursor) /\ cursor \in Nat /\ w.cursor <= cursor
      <4>1. Aligned(cursor)
        BY <1>7, <3>1, <3>4, AlignedSums
      <4>2. written \in Nat
        BY <3>4, AlignedPages
      <4> QED BY <1>6, <3>1, <4>1, <4>2
    <3>7. VoiceKept(store', pages, v, cursor)
      BY <1>3, <3>1, <3>5 DEF VoiceKept, good
    <3>8. IsTable(rhythm)
      BY DEF StoreInv, SoundInv, Lending
    <3>9. ASSUME NEW u \in packed PROVE VoiceKept(store', rhythm'[u], u, cursor)
      <4>1. CASE u = v
        <5>1. rhythm'[u] = pages
          BY <1>3, <3>1, <3>8, <4>1 DEF IsTable
        <5> QED BY <3>7, <4>1, <5>1
      <4>2. CASE u # v
        <5>1. u \in wav.packed
          BY <1>4, <3>1, <4>2
        <5>2. rhythm'[u] = rhythm[u]
          BY <3>1, <4>2, <3>8 DEF IsTable
        <5> QED BY <1>18, <3>6, <5>1, <5>2
      <4> QED BY <4>1, <4>2
    <3>10. VoicesKept'
      BY <2>3, <3>6, <3>9 DEF VoicesKept
    <3> QED BY <1>14, <1>15, <1>17, <2>4, <3>10 DEF Drumming
  <2> QED BY <2>5, <2>6
<1> QED BY <1>19, <1>20

\* The segment drive_sound_load works on, opened if it was not.
LEMMA DriveOpened ==
    ASSUME StoreInv, dl.hdr, dl.seg \in 1..Len(Seg), pc # "hung"
    PROVE  LET s == dl.seg
               d == IF dl.open THEN dl
                    ELSE [dl EXCEPT !.open = TRUE, !.left = KitData[s], !.base = dl.cursor,
                                    !.enc = adpcm_enc_init(KitRate)]
           IN  /\ d \in DlType /\ d.enc \in Enc /\ d.seg = s /\ d.open = TRUE /\ d.hdr = TRUE
               /\ d.base = DriveBase(dl) /\ d.cursor = dl.cursor /\ SegOpen(store, d)
<1> DEFINE s == dl.seg
           d1 == [dl EXCEPT !.open = TRUE]
           d2 == [d1 EXCEPT !.left = KitData[s]]
           d3 == [d2 EXCEPT !.base = dl.cursor]
           d4 == [d3 EXCEPT !.enc = adpcm_enc_init(KitRate)]
           d == IF dl.open THEN dl ELSE d4
           c == dl.cursor
<1>1. dl \in DlType /\ c \in Nat /\ c <= 2 * Half /\ dl.hdr \in BOOLEAN /\ dl.open \in BOOLEAN
  BY DriveFacts DEF DlType
<1>2. CASE dl.open
  <2>1. SegOpen(store, dl) /\ dl.enc \in Enc /\ DriveBase(dl) = dl.base
    BY <1>2, DriveFacts DEF StoreInv, Driving, SegUnderWay
  <2> QED BY <1>1, <1>2, <2>1
<1>3. CASE ~dl.open
  <2> DEFINE e == adpcm_enc_init(KitRate)
  <2>1. KitData[s] \in Seq(Int) /\ KitRate \in Nat \ {0}
    BY SoundAssumption
  <2>2. e \in Enc /\ e.bytes = 0
    <3>1. e \in Enc
      BY <2>1, NewEncoder
    <3> QED BY <3>1 DEF adpcm_enc_init
  <2>3. Loading(e, KitData[s], KitRate, KitData[s])
    BY <2>1, LoadingStarts
  <2>4. d1 \in DlType /\ d1.cursor = c /\ d1.seg = s /\ d1.open = TRUE /\ d1.hdr = TRUE
    BY <1>1 DEF DlType
  <2> HIDE DEF d1
  <2>5. d2 \in DlType /\ d2.cursor = c /\ d2.seg = s /\ d2.open = TRUE /\ d2.hdr = TRUE
        /\ d2.left = KitData[s]
    BY <2>1, <2>4 DEF DlType
  <2> HIDE DEF d2
  <2>6. d3 \in DlType /\ d3.cursor = c /\ d3.seg = s /\ d3.open = TRUE /\ d3.hdr = TRUE
        /\ d3.left = KitData[s] /\ d3.base = c
    BY <1>1, <2>5 DEF DlType
  <2> HIDE DEF d3, e
  <2>7. d4 = [d3 EXCEPT !.enc = e]
    BY DEF e
  <2>8. d4 \in DlType /\ d4.cursor = c /\ d4.seg = s /\ d4.open = TRUE /\ d4.hdr = TRUE
        /\ d4.left = KitData[s] /\ d4.base = c /\ d4.enc = e
    BY <2>2, <2>6, <2>7 DEF DlType
  <2> HIDE DEF d4
  <2>9. SegOpen(store, d4)
    <3>1. c = c + Least(e.bytes, 2 * Half - c) /\ c - c = 0
      <4>1. 2 * Half - c \in Nat
        BY <1>1, HalfType
      <4>2. Least(e.bytes, 2 * Half - c) = 0
        BY <2>2, <4>1 DEF Least
      <4> QED BY <1>1, <4>2
    <3>2. StoredIn(store, FileTargets(KitData[s], KitRate), c, 0)
      BY DEF StoredIn
    <3> QED BY <2>3, <2>8, <3>1, <3>2 DEF SegOpen
  <2>10. d = d4 /\ DriveBase(dl) = c
    BY <1>3 DEF DriveBase
  <2> HIDE DEF d
  <2>11. /\ d \in DlType /\ d.enc \in Enc /\ d.seg = s /\ d.open = TRUE /\ d.hdr = TRUE
         /\ d.base = DriveBase(dl) /\ d.cursor = dl.cursor /\ SegOpen(store, d)
    BY <2>2, <2>8, <2>9, <2>10
  <2> QED BY <2>11 DEF d, d4, d3, d2, d1
<1> QED BY <1>2, <1>3

\* Rounding up to a page moves no page boundary.
LEMMA RoundsTo ==
    ASSUME NEW c, Aligned(c) PROVE ((c + PageBytes - 1) \div PageBytes) * PageBytes = c
<1>1. PICK q \in Nat : c = q * PageBytes
  BY DEF Aligned
<1>2. PageBytes \in Nat \ {0}
  BY HalfType
<1>3. c + PageBytes - 1 = q * PageBytes + (PageBytes - 1)
  BY <1>1, <1>2
<1>4. (q * PageBytes + (PageBytes - 1)) \div PageBytes = q
  BY <1>2
<1> QED BY <1>1, <1>3, <1>4

LEMMA UpperPage ==
    ASSUME NEW p \in Nat, Half <= p * PageBytes PROVE p >= HalfPages
<1>1. ASSUME p < HalfPages PROVE FALSE
  <2>1. p * PageBytes + PageBytes <= HalfPages * PageBytes
    BY <1>1, HalfType, TimesOrder
  <2>2. p * PageBytes \in Nat /\ HalfPages * PageBytes \in Nat /\ PageBytes \in Nat \ {0}
    BY HalfType
  <2> QED BY <2>1, <2>2 DEF Half
<1> QED BY <1>1, HalfType

\* A pass of drive_sound_load, in the upper half.
LEMMA DriveLoadStep ==
    ASSUME StoreInv, NEW ok \in BOOLEAN, drive_sound_load(ok)
    PROVE  Drumming' /\ Driving' /\ DOMAIN store' = 0..2 * Half - 1
<1> DEFINE s == dl.seg
           d == IF dl.open THEN dl
                ELSE [dl EXCEPT !.open = TRUE, !.left = KitData[s], !.base = dl.cursor,
                                !.enc = adpcm_enc_init(KitRate)]
           n == Least(Len(d.left), Chunk)
           rest == IF ok THEN Drop(d.left, n) ELSE d.left
           ends == ~ok \/ rest = <<>>
           chunk == IF ok THEN SubSeq(d.left, 1, n) ELSE <<>>
           hangs == Hangs(d.enc, chunk, ends)
           e == Feed(d.enc, chunk, ends)
           bytes == Fitting(e.out, 2 * Half - d.cursor)
           cursor == d.cursor + Len(bytes)
           pages == <<d.base \div PageBytes, (cursor - 1) \div PageBytes>>
           wall == 2 * Half
<1>1. /\ pc = "drive" /\ dl.hdr /\ s <= Len(Seg)
      /\ pc' = IF hangs THEN "hung" ELSE "poll"
      /\ Put(Arm(d.cursor, ~dl.open), bytes)
      /\ IF ~ends \/ hangs
         THEN /\ dl' = [d EXCEPT !.left = rest, !.cursor = cursor,
                                 !.enc = [e EXCEPT !.out = <<>>]]
              /\ drv' = drv
         ELSE /\ dl' = [d EXCEPT !.open = FALSE, !.seg = s + 1, !.left = <<>>, !.enc = NoEnc,
                                 !.base = 0,
                                 !.cursor = ((cursor + PageBytes - 1) \div PageBytes) * PageBytes]
              /\ drv' = [drv EXCEPT ![s] = IF ok /\ cursor > d.base THEN pages ELSE <<0, 0>>]
      /\ UNCHANGED <<wav, rhythm, rhythm_done, mode>>
  BY Zenon DEF drive_sound_load, AtDrive, rhythmVars
<1>2. store' = PutIn(store, d.cursor, bytes) /\ pc # "hung"
  BY <1>1 DEF Put, PutIn, Arm
<1>3. s \in 1..Len(Seg)
  <2>1. s \in Nat \ {0}
    BY DriveFacts DEF DlType
  <2>2. Len(Seg) = 5
    BY DEF Seg
  <2> QED BY <1>1, <2>1, <2>2
<1>4. /\ d \in DlType /\ d.enc \in Enc /\ d.seg = s /\ d.open = TRUE /\ d.hdr = TRUE
      /\ d.base = DriveBase(dl) /\ d.cursor = dl.cursor /\ SegOpen(store, d)
  BY <1>1, <1>2, <1>3, DriveOpened
<1>5. KitData[s] \in Seq(Int) /\ KitRate \in Nat \ {0} /\ Chunk \in Nat \ {0}
  BY <1>3, SoundAssumption
<1> HIDE DEF d
<1> DEFINE base == d.base
           k == d.cursor - base
           G == FileTargets(KitData[s], KitRate)
           good == InRange(KitData[s], KitRate)
<1>6. /\ base \in Nat /\ Half <= base /\ base <= wall /\ Aligned(base)
      /\ d.cursor \in Nat /\ d.cursor <= wall /\ d.left \in Seq(Int)
  BY <1>1, <1>4, DriveFacts DEF DlType
<1>7. Half \in Nat /\ wall \in Nat /\ wall <= 2 * Half /\ Aligned(wall) /\ DOMAIN store = 0..2 * Half - 1
  BY AlignedHalf, HalfType DEF StoreInv
<1>8. /\ k = Least(d.enc.bytes, wall - base) /\ k \in Nat /\ d.cursor = base + k
      /\ good => Loading(d.enc, KitData[s], KitRate, d.left) /\ StoredIn(store, G, base, k)
  <2>1. d.cursor = base + Least(d.enc.bytes, wall - base)
    BY <1>4 DEF SegOpen
  <2>2. Least(d.enc.bytes, wall - base) \in Nat
    <3>1. d.enc.bytes \in Nat /\ wall - base \in Nat
      <4>1. d.enc.bytes \in Nat
        BY <1>4 DEF Enc
      <4> QED BY <1>6, <1>7, <4>1
    <3> QED BY <3>1 DEF Least
  <2>3. k = Least(d.enc.bytes, wall - base) /\ k \in Nat /\ d.cursor = base + k
    BY <1>6, <2>1, <2>2
  <2>4. good => Loading(d.enc, KitData[s], KitRate, d.left) /\ StoredIn(store, G, base, k)
    BY <1>4 DEF SegOpen
  <2> QED BY <2>3, <2>4
<1> HIDE DEF G, good, k, base
<1>9. n \in Nat /\ n <= Len(d.left)
  BY <1>5, <1>6 DEF Least
<1>10. chunk \in Seq(Int) /\ rest \in Seq(Int)
  <2>1. SubSeq(d.left, n + 1, Len(d.left)) \in Seq(Int)
    BY <1>6, <1>9
  <2> QED BY <1>6, <1>9, <2>1 DEF Drop
<1> HIDE DEF n
<1>11. e \in Enc /\ e.out \in Seq(Int)
  <2> HIDE DEF chunk, ends
  <2>1. e \in Enc
    BY <1>4, <1>10, FeedType
  <2> QED BY <2>1 DEF Enc
<1>12. DOMAIN store' = 0..2 * Half - 1
       /\ \A a \in 0..2 * Half - 1 : (a < d.cursor \/ a >= wall) => store'[a] = store[a]
  <2> DEFINE out == e.out
             at == d.cursor
             tt == PutIn(store, at, Fitting(out, wall - at))
  <2>1. out \in Seq(Int) /\ at \in Nat /\ at <= wall /\ store' = tt
    BY <1>2, <1>6, <1>11
  <2> HIDE DEF out, at, wall
  <2>2. DOMAIN tt = 0..2 * Half - 1
        /\ \A a \in 0..2 * Half - 1 : (a < at \/ a >= wall) => tt[a] = store[a]
    BY <1>7, <2>1, PutOutside
  <2> HIDE DEF tt
  <2> QED BY <2>1, <2>2 DEF at
<1>13. Drumming'
  <2>1. \A a \in 0..Half - 1 : store'[a] = store[a]
    BY <1>6, <1>7, <1>8, <1>12
  <2>2. VoicesKept' /\ VoiceUnderWay' /\ (BinIn(store) => BinIn(store'))
    BY <1>1, <1>2, <2>1, LowerUntouched
  <2>3. ModeKept'
    BY <1>1 DEF StoreInv, Drumming, ModeKept
  <2>4. BinKept'
    BY <1>1, <2>2 DEF StoreInv, Drumming, BinKept, BinIn
  <2> QED BY <2>2, <2>3, <2>4 DEF Drumming
<1>14. \A a \in Half..base - 1 : store'[a] = store[a]
  <2> SUFFICES ASSUME NEW a \in Half..base - 1 PROVE store'[a] = store[a]
    OBVIOUS
  <2>1. a \in 0..2 * Half - 1 /\ a < d.cursor
    BY <1>6, <1>7, <1>8
  <2> QED BY <1>12, <2>1
<1>15. IsKit(drv)
  BY DEF StoreInv, Driving, SegsKept
<1>16. ASSUME NEW t \in 1..Len(Seg), drv[t] # <<0, 0>>, NEW c \in Nat, base <= c
       PROVE  SegKept(store', drv[t], t, c)
  <2>1. SegKept(store, drv[t], t, base)
    BY <1>4, <1>16 DEF StoreInv, Driving, SegsKept, base
  <2> QED BY <1>6, <1>14, <1>16, <2>1, SegStays
<1>17. cursor \in Nat /\ cursor <= wall /\ base <= cursor
  <2>1. Len(bytes) \in Nat /\ Len(bytes) <= wall - d.cursor
    <3>1. wall - d.cursor \in Nat
      BY <1>6, <1>7
    <3> HIDE DEF e
    <3> QED BY <1>11, <3>1, Fits
  <2> HIDE DEF bytes
  <2> QED BY <1>6, <1>7, <1>8, <2>1
<1>18. CASE ~ends \/ hangs
  <2> DEFINE f == [e EXCEPT !.out = <<>>]
             a == [d EXCEPT !.left = rest]
             b == [a EXCEPT !.cursor = cursor]
             c == [b EXCEPT !.enc = f]
  <2>1. dl' = c /\ drv' = drv
    BY <1>1, <1>18
  <2>2. f \in Enc
    <3>1. <<>> \in Seq(Int)
      OBVIOUS
    <3> QED BY <1>11, <3>1, SetEnc
  <2> HIDE DEF f, rest, cursor
  <2>3. a \in DlType /\ a.open = TRUE /\ a.hdr = TRUE /\ a.base = base /\ a.left = rest /\ a.seg = s
    BY <1>4, <1>10 DEF DlType, base
  <2> HIDE DEF a
  <2>4. b \in DlType /\ b.open = TRUE /\ b.hdr = TRUE /\ b.base = base /\ b.left = rest /\ b.seg = s
        /\ b.cursor = cursor
    BY <1>17, <2>3 DEF DlType
  <2> HIDE DEF b
  <2>5. c \in DlType /\ c.open = TRUE /\ c.hdr = TRUE /\ c.base = base /\ c.left = rest /\ c.seg = s
        /\ c.cursor = cursor /\ c.enc = f
    BY <2>2, <2>4 DEF DlType
  <2> HIDE DEF c
  <2>6. DriveBase(c) = base
    BY <2>5 DEF DriveBase
  <2>7. DriveLoader'
    BY <1>6, <1>17, <2>1, <2>2, <2>5, <2>6 DEF DriveLoader
  <2>8. SegsKept'
    <3>1. \A t \in 1..Len(Seg) : drv[t] # <<0, 0>> => SegKept(store', drv[t], t, base)
      BY <1>6, <1>16
    <3> QED BY <1>15, <2>1, <2>5, <2>6, <3>1 DEF SegsKept, IsKit
  <2>9. SegUnderWay'
    <3>1. CASE hangs
      <4>1. pc' = "hung"
        BY <1>1, <3>1
      <4> QED BY <4>1 DEF SegUnderWay
    <3>2. CASE ~hangs
      <4>1. ok /\ ends = FALSE /\ ~ends
        BY <1>18, <3>2
      <4>2. chunk = SubSeq(d.left, 1, n) /\ rest = Drop(d.left, n)
        BY <4>1 DEF rest
      <4> DEFINE E == d.enc
                 pcm == KitData[s]
                 lf == d.left
                 h == Feed(E, SubSeq(lf, 1, n), FALSE)
                 g == [h EXCEPT !.out = <<>>]
                 put == Fitting(h.out, wall - (base + k))
                 tt == PutIn(store, base + k, put)
      <4>3. e = h /\ f = g /\ bytes = put /\ cursor = d.cursor + Len(put) /\ store' = tt
        BY <1>2, <1>8, <4>1, <4>2 DEF f, cursor
      <4>4. /\ E \in Enc /\ pcm \in Seq(Int) /\ lf \in Seq(Int)
            /\ n <= Len(lf) /\ n \in Nat /\ k = Least(E.bytes, wall - base)
        BY <1>4, <1>5, <1>6, <1>8, <1>9
      <4>5. InRange(pcm, KitRate) => /\ Loading(E, pcm, KitRate, lf)
                                     /\ StoredIn(store, FileTargets(pcm, KitRate), base, k)
        BY <1>8 DEF good, G
      <4> HIDE DEF E, pcm, lf, wall
      <4>6. UpTo(k + Len(put), g, wall - base)
        BY <1>5, <1>6, <1>7, <4>4, <4>5, PassGoesOn
      <4>7. ASSUME InRange(pcm, KitRate)
            PROVE  /\ Loading(g, pcm, KitRate, Drop(lf, n))
                   /\ StoredIn(tt, FileTargets(pcm, KitRate), base, k + Len(put))
        BY <1>5, <1>6, <1>7, <4>4, <4>5, <4>7, PassGoesOn
      <4>8. cursor = base + (k + Len(put)) /\ cursor - base = k + Len(put)
        <5>1. Len(put) \in Nat
          <6>1. h.out \in Seq(Int) /\ wall - (base + k) \in Nat
            <7>1. h.out \in Seq(Int)
              BY <1>11, <4>3
            <7>2. wall - d.cursor \in Nat
              BY <1>6, <1>7
            <7> QED BY <1>8, <7>1, <7>2
          <6> HIDE DEF h
          <6> QED BY <6>1, Fits
        <5> HIDE DEF put
        <5> QED BY <1>6, <1>8, <4>3, <5>1
      <4> HIDE DEF g, tt, put
      <4>9. SegOpen(store', c)
        <5>1. cursor = base + Least(f.bytes, 2 * Half - base)
          BY <4>3, <4>6, <4>8 DEF UpTo, wall
        <5>2. ASSUME good
              PROVE  Loading(f, KitData[s], KitRate, rest) /\ StoredIn(store', G, base, cursor - base)
          BY <4>2, <4>3, <4>7, <4>8, <5>2 DEF good, G, pcm, lf
        <5> QED BY <1>3, <2>5, <5>1, <5>2 DEF SegOpen, good, G
      <4> QED BY <2>1, <4>9 DEF SegUnderWay, SegOpen
    <3> QED BY <3>1, <3>2
  <2> QED BY <1>12, <1>13, <2>7, <2>8, <2>9 DEF Driving
<1>19. CASE ~(~ends \/ hangs)
  <2> DEFINE end == ((cursor + PageBytes - 1) \div PageBytes) * PageBytes
             entry == IF ok /\ cursor > d.base THEN pages ELSE <<0, 0>>
             d1 == [d EXCEPT !.open = FALSE]
             d2 == [d1 EXCEPT !.seg = s + 1]
             d3 == [d2 EXCEPT !.left = <<>>]
             d4 == [d3 EXCEPT !.enc = NoEnc]
             d5 == [d4 EXCEPT !.base = 0]
             d6 == [d5 EXCEPT !.cursor = end]
  <2>1. dl' = d6 /\ drv' = [drv EXCEPT ![s] = entry]
    BY <1>1, <1>19
  <2>2. ends = TRUE /\ ~Hangs(d.enc, chunk, TRUE) /\ e = Feed(d.enc, chunk, TRUE)
    BY <1>19
  <2> DEFINE E == d.enc
             pcm == KitData[s]
             lf == d.left
             put == Fitting(Feed(E, chunk, TRUE).out, wall - (base + k))
             tt == PutIn(store, base + k, put)
             m == k + Len(put)
             p == <<base \div PageBytes, (base + m - 1) \div PageBytes>>
  <2>3. bytes = put /\ cursor = d.cursor + Len(put) /\ store' = tt
    BY <1>2, <1>8, <2>2
  <2>4. E \in Enc /\ pcm \in Seq(Int) /\ ~Hangs(E, chunk, TRUE) /\ k = Least(E.bytes, wall - base)
    BY <1>4, <1>5, <1>8, <2>2
  <2>5. InRange(pcm, KitRate) => /\ Loading(E, pcm, KitRate, lf)
                                 /\ StoredIn(store, FileTargets(pcm, KitRate), base, k)
    BY <1>8 DEF good, G
  <2>6. ok => Whole(chunk, lf)
    <3> SUFFICES ASSUME ok PROVE Whole(chunk, lf)
      OBVIOUS
    <3>1. chunk = SubSeq(d.left, 1, n) /\ Drop(d.left, n) = <<>>
      BY <1>19
    <3>2. Len(SubSeq(d.left, n + 1, Len(d.left))) = Len(d.left) - n
      BY <1>6, <1>9
    <3>3. Len(<<>>) = 0
      OBVIOUS
    <3>4. SubSeq(d.left, n + 1, Len(d.left)) = <<>>
      BY <3>1, Zenon DEF Drop
    <3>5. Len(d.left) - n = 0
      BY <3>2, <3>3, <3>4, Zenon
    <3>6. n = Len(d.left)
      BY <1>6, <1>9, <3>5
    <3> QED BY <3>1, <3>6 DEF Whole
  <2> HIDE DEF E, pcm, lf, wall, chunk
  <2>7. Aligned(m)
    BY <1>6, <1>7, <1>10, <2>4, PassAligns
  <2>8. ok => (m # 0 => Landed(tt, p, base, m, pcm, KitRate, wall))
    <3> SUFFICES ASSUME ok PROVE m # 0 => Landed(tt, p, base, m, pcm, KitRate, wall)
      OBVIOUS
    <3> QED BY <1>5, <1>6, <1>7, <1>10, <2>4, <2>5, <2>6, PassEnds
  <2>9. m \in Nat /\ cursor = base + m /\ Len(put) \in Nat
    <3>1. m \in Nat
      BY <2>7, AlignedPages
    <3>2. Len(put) \in Nat
      <4>1. e.out \in Seq(Int) /\ wall - d.cursor \in Nat
        BY <1>6, <1>7, <1>11
      <4>2. Len(Fitting(e.out, wall - d.cursor)) \in Nat
        <5> HIDE DEF e
        <5> QED BY <4>1, Fits
      <4> QED BY <2>3, <4>2 DEF wall
    <3> HIDE DEF put
    <3> QED BY <1>6, <1>8, <2>3, <3>1, <3>2
  <2> HIDE DEF cursor, tt, put
  <2>10. Aligned(cursor) /\ end = cursor
    <3>1. Aligned(cursor)
      BY <1>6, <2>7, <2>9, AlignedSums
    <3> QED BY <3>1, RoundsTo
  <2> HIDE DEF m
  <2>11. pages = p
    <3>1. cursor - 1 = base + m - 1
      BY <1>6, <2>9
    <3> QED BY <3>1, Zenon DEF base
  <2> HIDE DEF p, pages, end
  <2>12. SegKept(store', entry, s, cursor) \/ entry = <<0, 0>>
    <3> SUFFICES ASSUME ok, cursor > d.base PROVE SegKept(store', pages, s, cursor)
      OBVIOUS
    <3>1. Landed(store', pages, base, m, pcm, KitRate, wall)
      <4>1. m # 0
        BY <1>6, <2>9 DEF base
      <4> QED BY <2>3, <2>8, <2>11, <4>1
    <3>2. Below(pages, cursor) /\ pages[1] * PageBytes = base
          /\ (InRange(pcm, KitRate) => HoldsIn(store', pages, Packed(pcm, KitRate), wall))
      BY <2>9, <3>1 DEF Landed
    <3>3. pages[1] >= HalfPages
      <4>1. pages[1] \in Nat
        BY <3>2 DEF Below
      <4> QED BY <1>6, <3>2, <4>1, UpperPage
    <3> QED BY <3>2, <3>3 DEF SegKept, pcm, wall
  <2> HIDE DEF entry
  <2>13. d1 \in DlType /\ d1.open = FALSE /\ d1.hdr = TRUE
    BY <1>4 DEF DlType
  <2> HIDE DEF d1
  <2>14. d2 \in DlType /\ d2.open = FALSE /\ d2.hdr = TRUE
    <3>1. s + 1 \in Nat \ {0}
      BY DriveFacts DEF DlType
    <3> QED BY <2>13, <3>1 DEF DlType
  <2> HIDE DEF d2
  <2>15. d3 \in DlType /\ d3.open = FALSE /\ d3.hdr = TRUE
    <3>1. <<>> \in Seq(Int)
      OBVIOUS
    <3> QED BY <2>14, <3>1 DEF DlType
  <2> HIDE DEF d3
  <2>16. d4 \in DlType /\ d4.open = FALSE /\ d4.hdr = TRUE
    BY <2>15 DEF DlType
  <2> HIDE DEF d4
  <2>17. d5 \in DlType /\ d5.open = FALSE /\ d5.hdr = TRUE
    BY <2>16 DEF DlType
  <2> HIDE DEF d5
  <2>18. d6 \in DlType /\ d6.open = FALSE /\ d6.hdr = TRUE /\ d6.cursor = cursor
    BY <1>17, <2>10, <2>17 DEF DlType
  <2> HIDE DEF d6
  <2>19. DriveBase(d6) = cursor
    BY <2>18 DEF DriveBase
  <2>20. DriveLoader'
    <3>1. Half <= cursor
      BY <1>6, <1>7, <1>17
    <3> QED BY <1>17, <2>1, <2>10, <2>18, <2>19, <3>1 DEF DriveLoader, wall
  <2>21. SegsKept'
    <3>1. IsKit(drv')
      BY <1>15, <2>1 DEF IsKit
    <3>2. ASSUME NEW t \in 1..Len(Seg), drv'[t] # <<0, 0>>
          PROVE  SegKept(store', drv'[t], t, cursor)
      <4>1. CASE t = s
        <5>1. drv'[t] = entry
          BY <1>3, <1>15, <2>1, <4>1 DEF IsKit
        <5> QED BY <2>12, <3>2, <4>1, <5>1
      <4>2. CASE t # s
        <5>1. drv'[t] = drv[t]
          BY <1>15, <2>1, <4>2 DEF IsKit
        <5> QED BY <1>16, <1>17, <3>2, <5>1
      <4> QED BY <4>1, <4>2
    <3> QED BY <2>1, <2>18, <2>19, <3>1, <3>2 DEF SegsKept
  <2>22. SegUnderWay'
    BY <2>1, <2>18 DEF SegUnderWay
  <2> QED BY <1>12, <1>13, <2>20, <2>21, <2>22 DEF Driving
<1> QED BY <1>18, <1>19

LEMMA StoreStep == StoreInv /\ [Next]_vars => StoreInv'
<1> SUFFICES ASSUME StoreInv, [Next]_vars PROVE StoreInv'
  OBVIOUS
<1> DEFINE Safe == Drumming' /\ Driving' /\ DOMAIN store' = 0..2 * Half - 1
<1>1. SoundInv'
  BY SoundStep DEF StoreInv
<1> SUFFICES Safe
  BY <1>1 DEF StoreInv
<1>2. DOMAIN store = 0..2 * Half - 1
  BY DEF StoreInv
<1>3. ASSUME UNCHANGED <<store, wav, rhythm, rhythm_done, mode, dl, drv>>,
             pc' # "hung" => pc # "hung"
      PROVE  Safe
  BY <1>2, <1>3, StoreIdle
<1>4. CASE RhythmIdle \/ BinRefused \/ WavEnd \/ WavSkip
  <2>1. Drumming' /\ Driving' /\ store' = store
    BY <1>4, LookingStep
  <2> QED BY <1>2, <2>1
<1>5. ASSUME NEW n \in 0..(Len(BinData) + Chunk - 1) \div Chunk, bin_load(n) PROVE Safe
  <2>1. n \in Nat
    OBVIOUS
  <2> QED BY <1>5, <2>1, BinLoadStep
<1>6. ASSUME NEW ok \in BOOLEAN, wav_step(ok) PROVE Safe
  BY <1>6, WavLoadStep
<1>7. CASE DriveIdle
  BY <1>3, <1>7 DEF DriveIdle, DriveTurn, AtDrive, storeVars, rhythmVars, driveVars
<1>8. CASE DriveEnd
  BY <1>3, <1>8 DEF DriveEnd, DriveTurn, AtDrive, storeVars, rhythmVars
<1>9. ASSUME NEW ok \in BOOLEAN, DriveHeader(ok) PROVE Safe
  <2>1. Drumming' /\ Driving' /\ store' = store
    BY <1>9, HeaderStep
  <2> QED BY <1>2, <2>1
<1>10. ASSUME NEW ok \in BOOLEAN, drive_sound_load(ok) PROVE Safe
  BY <1>10, DriveLoadStep
<1>11. CASE PollIdle
  BY <1>3, <1>11 DEF PollIdle, PollTurn, storeVars, rhythmVars, driveVars
<1>12. ASSUME NEW step, NEW head, NEW xfer, NEW motor, NEW ended,
              drive_sound_poll(step, head, xfer, motor, ended)
       PROVE  Safe
  <2>1. UNCHANGED <<store, wav, rhythm, rhythm_done, mode, dl, drv>> /\ pc = "poll"
    BY <1>12, Zenon DEF drive_sound_poll, PollTurn, storeVars, rhythmVars, driveVars
  <2> QED BY <1>3, <2>1
<1>13. ASSUME NEW s, Bind(s) PROVE Safe
  BY <1>3, <1>13 DEF Bind, storeVars, rhythmVars, driveVars
<1>14. CASE Toggle
  BY <1>3, <1>14 DEF Toggle, storeVars, rhythmVars, driveVars
<1>15. ASSUME NEW c, GuestLevel(c) PROVE Safe
  BY <1>3, <1>15 DEF GuestLevel, storeVars, rhythmVars, driveVars
<1>16. CASE UNCHANGED vars
  BY <1>3, <1>16 DEF vars, storeVars, rhythmVars, driveVars
<1> HIDE DEF Safe
<1>17. CASE MainLoop
  BY <1>4, <1>5, <1>6, <1>7, <1>8, <1>9, <1>10, <1>11, <1>12, <1>17, Zenon DEF MainLoop
<1>18. CASE Environment
  BY <1>13, <1>14, <1>15, <1>18, Zenon DEF Environment
<1> QED BY <1>16, <1>17, <1>18 DEF Next

\* For any files, any sizes of the store and its halves and any chunk: what
\* the start and end registers of a drum (wav_step, bin_load) or of a
\* mechanism sample (drive_sound_load) name is that file as the packer makes
\* it, whole or up to the wall of its half, however the two loaders take
\* turns on the one address register (Arm) and whichever of their reads fail.
THEOREM StoreAlwaysRight == Spec => []StoreRight
<1>1. Init => StoreInv
  BY StoreInit
<1>2. StoreInv /\ [Next]_vars => StoreInv'
  BY StoreStep
<1>3. StoreInv => StoreRight
  BY StoreIsRight
<1> QED BY <1>1, <1>2, <1>3, PTL DEF Spec

\* Wherever a file is cut short, its tail ends: the file that stops at the
\* newest sample has no position that wraps either.
LEMMA StreamReturns ==
    ASSUME NEW e \in Enc, NEW F \in Seq(Int), Len(F) >= 1, Len(F) * One + e.ratio <= PosSize,
           NEW m, NEW a, Stream(e, F, m, a)
    PROVE  Ends(e)
<1>1. m \in 0..Len(F) /\ IF m = 0 THEN Fresh(e) ELSE Reached(e, F, m)
  BY DEF Stream, Served
<1>2. e.ratio \in Nat /\ Len(F) \in Nat /\ PosSize \in Nat
  BY EncoderAssumption DEF Enc
<1>3. ASSUME NEW j \in Nat, j >= 1, j <= Len(F) PROVE j * One + e.ratio <= PosSize
  BY <1>2, <1>3 DEF One
<1>4. CASE m = 0
  <2> DEFINE P == <<0>>
  <2>1. P \in Seq(Int) /\ Len(P) = 1 /\ P[1] = 0
    OBVIOUS
  <2> HIDE DEF P
  <2>2. Fresh(e)
    BY <1>1, <1>4
  <2>3. e.pos = 0 /\ Count(e) = 0 /\ 0 = 0 * e.ratio /\ (1 - 1) * One <= 0 /\ e.idx = 1 - 1
    BY <1>2, <2>2 DEF Fresh, One
  <2>4. Reached(e, P, 1)
    BY <2>1, <2>2, <2>3 DEF Reached, Fresh
  <2>5. 1 * One + e.ratio <= PosSize
    BY <1>2, <1>3
  <2>6. Reached(e, P, Len(P)) /\ Len(P) >= 1 /\ Len(P) * One + e.ratio <= PosSize
    BY <2>1, <2>4, <2>5
  <2> QED BY <2>1, <2>6, TailIs
<1>5. CASE m # 0
  <2> DEFINE P == SubSeq(F, 1, m)
  <2>1. m \in Nat /\ m >= 1 /\ m <= Len(F)
    BY <1>1, <1>5
  <2>2. P \in Seq(Int) /\ Len(P) = m /\ P[m] = F[m]
    BY <2>1
  <2> HIDE DEF P
  <2>3. Reached(e, P, m)
    BY <1>1, <1>5, <2>2 DEF Reached
  <2>4. m * One + e.ratio <= PosSize
    BY <1>3, <2>1
  <2> QED BY <2>1, <2>2, <2>3, <2>4, TailIs
<1> QED BY <1>4, <1>5

LEMMA LoadingReturns ==
    ASSUME NEW e \in Enc, NEW pcm \in Seq(Int), NEW rate \in Nat \ {0}, NEW left,
           Loading(e, pcm, rate, left), InRange(pcm, rate), NEW n \in Nat, n <= Len(left), NEW last
    PROVE  ~Hangs(e, SubSeq(left, 1, n), last)
<1> DEFINE f == Push(e, SubSeq(left, 1, n))
           F == File(pcm)
           m == (Len(pcm) - Len(left)) + n
           a == e.bytes
<1>1. f \in Enc /\ Stream(f, F, m, a) /\ f.ratio = Ratio(rate)
  BY LoadingPush
<1>2. F \in Seq(Int) /\ Len(F) >= 1 /\ Len(F) * One + f.ratio <= PosSize
  BY <1>1, FileIs, InFile
<1> HIDE DEF f, F, m, a
<1>3. Ends(f)
  BY <1>1, <1>2, StreamReturns
<1> QED BY <1>3 DEF Hangs, f

\* What a pass pushes is where the file goes on, or nothing.
LEMMA PassReturns ==
    ASSUME NEW e \in Enc, NEW pcm \in Seq(Int), NEW rate \in Nat \ {0}, NEW left,
           Loading(e, pcm, rate, left), InRange(pcm, rate), NEW n \in Nat, n <= Len(left), NEW last,
           NEW chunk, chunk = SubSeq(left, 1, n) \/ chunk = <<>>
    PROVE  ~Hangs(e, chunk, last)
<1>1. CASE chunk = SubSeq(left, 1, n)
  <2>1. ~Hangs(e, SubSeq(left, 1, n), last)
    BY LoadingReturns
  <2> QED BY <1>1, <2>1, Zenon
<1>2. CASE chunk = <<>>
  <2>1. left \in Seq(Int)
    BY DEF Loading
  <2>2. SubSeq(left, 1, 0) = <<>> /\ 0 \in Nat /\ 0 <= Len(left)
    BY <2>1
  <2>3. ~Hangs(e, SubSeq(left, 1, 0), last)
    BY <2>2, LoadingReturns
  <2> QED BY <1>2, <2>2, <2>3, Zenon
<1> QED BY <1>1, <1>2

LEMMA WavReturns ==
    ASSUME StoreInv, NEW ok \in BOOLEAN, wav_step(ok)
    PROVE  KeepsLatency'
<1> DEFINE v == wav.voice
           w == IF wav.open THEN wav
                ELSE [wav EXCEPT !.open = TRUE, !.left = WavData[v], !.written = 0,
                                 !.enc = adpcm_enc_init(WavRate[v])]
           at == w.cursor + w.written
           left == IF at >= Half THEN <<>> ELSE w.left
           n == Least(Len(left), Chunk)
           rest == IF ok THEN Drop(left, n) ELSE left
           ends == ~ok \/ rest = <<>>
           chunk == IF ok THEN SubSeq(left, 1, n) ELSE <<>>
           hangs == Hangs(w.enc, chunk, ends)
           e == Feed(w.enc, chunk, ends)
           written == w.written + Len(Fitting(e.out, Half - at))
<1>1. /\ v < Channels /\ pc = "rhythm" /\ pc' = IF hangs THEN "hung" ELSE "drive"
      /\ hangs => wav' = [w EXCEPT !.left = rest, !.written = written,
                                   !.enc = [e EXCEPT !.out = <<>>]]
  BY Zenon DEF wav_step, AtWav, AtRhythm
<1>2. v \in Ch /\ pc # "hung"
  <2>1. v \in Nat
    BY DrumFacts DEF WavType
  <2>2. v < Channels /\ pc # "hung"
    BY <1>1
  <2> QED BY <2>1, <2>2, SoundAssumption DEF Ch
<1>3. w \in WavType /\ w.enc \in Enc /\ w.voice = v /\ VoiceOpen(store, w)
  BY <1>2, WavOpened
<1>4. w.open = TRUE
  <2>1. wav \in WavType
    BY DrumFacts
  <2> QED BY <2>1 DEF WavType
<1>5. WavData[v] \in Seq(Int) /\ WavRate[v] \in Nat \ {0} /\ Chunk \in Nat \ {0}
  BY <1>2, SoundAssumption
<1> HIDE DEF w
<1>6. w.left \in Seq(Int)
  BY <1>3 DEF WavType
<1>7. ASSUME hangs PROVE ~InRange(WavData[v], WavRate[v])
  <2> SUFFICES ASSUME InRange(WavData[v], WavRate[v]) PROVE FALSE
    OBVIOUS
  <2>1. Loading(w.enc, WavData[v], WavRate[v], w.left)
    BY <1>3 DEF VoiceOpen
  <2>2. left \in Seq(Int) /\ (left = w.left \/ left = <<>>)
    BY <1>6
  <2> HIDE DEF left
  <2>3. n \in Nat /\ n <= Len(left) /\ (left = <<>> => n = 0)
    BY <1>5, <2>2 DEF Least
  <2> HIDE DEF n
  <2>4. n <= Len(w.left) /\ (chunk = SubSeq(w.left, 1, n) \/ chunk = <<>>)
    <3>1. CASE left = w.left
      BY <2>3, <3>1
    <3>2. CASE left = <<>>
      <4>1. n = 0 /\ SubSeq(left, 1, n) = <<>>
        BY <2>3, <3>2
      <4> QED BY <1>6, <4>1
    <3> QED BY <2>2, <3>1, <3>2
  <2> HIDE DEF chunk, ends
  <2>5. ~Hangs(w.enc, chunk, ends)
    BY <1>3, <1>5, <2>1, <2>3, <2>4, PassReturns
  <2> QED BY <1>7, <2>5
<1>8. ASSUME hangs PROVE wav'.open = TRUE /\ wav'.voice = v
  <2> HIDE DEF rest, written, e
  <2>1. wav' = [w EXCEPT !.left = rest, !.written = written, !.enc = [e EXCEPT !.out = <<>>]]
    BY <1>1, <1>8
  <2> QED BY <1>3, <1>4, <2>1 DEF WavType
<1>9. CASE hangs
  BY <1>7, <1>8, <1>9 DEF KeepsLatency
<1>10. CASE ~hangs
  BY <1>1, <1>10 DEF KeepsLatency
<1> QED BY <1>9, <1>10

LEMMA DriveReturns ==
    ASSUME StoreInv, NEW ok \in BOOLEAN, drive_sound_load(ok)
    PROVE  KeepsLatency'
<1> DEFINE s == dl.seg
           d == IF dl.open THEN dl
                ELSE [dl EXCEPT !.open = TRUE, !.left = KitData[s], !.base = dl.cursor,
                                !.enc = adpcm_enc_init(KitRate)]
           n == Least(Len(d.left), Chunk)
           rest == IF ok THEN Drop(d.left, n) ELSE d.left
           ends == ~ok \/ rest = <<>>
           chunk == IF ok THEN SubSeq(d.left, 1, n) ELSE <<>>
           hangs == Hangs(d.enc, chunk, ends)
           e == Feed(d.enc, chunk, ends)
           cursor == d.cursor + Len(Fitting(e.out, 2 * Half - d.cursor))
<1>1. /\ pc = "drive" /\ dl.hdr /\ s <= Len(Seg) /\ pc' = IF hangs THEN "hung" ELSE "poll"
      /\ hangs => dl' = [d EXCEPT !.left = rest, !.cursor = cursor,
                                  !.enc = [e EXCEPT !.out = <<>>]]
  BY Zenon DEF drive_sound_load, AtDrive
<1>2. s \in 1..Len(Seg) /\ pc # "hung"
  <2>1. s \in Nat \ {0}
    BY DriveFacts DEF DlType
  <2>2. Len(Seg) = 5
    BY DEF Seg
  <2> QED BY <1>1, <2>1, <2>2
<1>3. d \in DlType /\ d.enc \in Enc /\ d.seg = s /\ d.open = TRUE /\ SegOpen(store, d)
  BY <1>1, <1>2, DriveOpened
<1>4. KitData[s] \in Seq(Int) /\ KitRate \in Nat \ {0} /\ Chunk \in Nat \ {0}
  BY <1>2, SoundAssumption
<1> HIDE DEF d
<1>5. d.left \in Seq(Int)
  BY <1>3 DEF DlType
<1>6. ASSUME hangs PROVE ~InRange(KitData[s], KitRate)
  <2> SUFFICES ASSUME InRange(KitData[s], KitRate) PROVE FALSE
    OBVIOUS
  <2>1. Loading(d.enc, KitData[s], KitRate, d.left)
    BY <1>3 DEF SegOpen
  <2>2. n \in Nat /\ n <= Len(d.left)
    BY <1>4, <1>5 DEF Least
  <2> HIDE DEF n
  <2>3. chunk = SubSeq(d.left, 1, n) \/ chunk = <<>>
    OBVIOUS
  <2> HIDE DEF chunk, ends
  <2>4. ~Hangs(d.enc, chunk, ends)
    BY <1>3, <1>4, <2>1, <2>2, <2>3, PassReturns
  <2> QED BY <1>6, <2>4
<1>7. ASSUME hangs PROVE dl'.open = TRUE /\ dl'.seg = s
  <2> HIDE DEF rest, cursor, e
  <2>1. dl' = [d EXCEPT !.left = rest, !.cursor = cursor, !.enc = [e EXCEPT !.out = <<>>]]
    BY <1>1, <1>7
  <2> QED BY <1>3, <2>1 DEF DlType
<1>8. CASE hangs
  BY <1>6, <1>7, <1>8 DEF KeepsLatency
<1>9. CASE ~hangs
  BY <1>1, <1>9 DEF KeepsLatency
<1> QED BY <1>8, <1>9

LEMMA LatencyStep == StoreInv /\ KeepsLatency /\ [Next]_vars => KeepsLatency'
<1> SUFFICES ASSUME StoreInv, KeepsLatency, [Next]_vars PROVE KeepsLatency'
  OBVIOUS
<1>1. ASSUME pc' # "hung" PROVE KeepsLatency'
  BY <1>1 DEF KeepsLatency
<1>2. ASSUME UNCHANGED <<pc, wav, dl>> PROVE KeepsLatency'
  BY <1>2 DEF KeepsLatency
<1>3. CASE RhythmIdle \/ BinRefused \/ WavEnd \/ WavSkip
  <2>1. pc' = "drive"
    BY <1>3, Zenon DEF RhythmIdle, BinRefused, WavEnd, WavSkip, WavTurn, RhythmTurn
  <2> QED BY <1>1, <2>1
<1>4. ASSUME NEW n, bin_load(n) PROVE KeepsLatency'
  <2>1. pc' = "drive"
    BY <1>4, Zenon DEF bin_load, RhythmTurn
  <2> QED BY <1>1, <2>1
<1>5. ASSUME NEW ok \in BOOLEAN, wav_step(ok) PROVE KeepsLatency'
  BY <1>5, WavReturns
<1>6. CASE DriveIdle \/ DriveEnd
  <2>1. pc' = "poll"
    BY <1>6, Zenon DEF DriveIdle, DriveEnd, DriveTurn
  <2> QED BY <1>1, <2>1
<1>7. ASSUME NEW ok \in BOOLEAN, DriveHeader(ok) PROVE KeepsLatency'
  <2>1. pc' = "poll"
    BY <1>7, Zenon DEF DriveHeader, DriveTurn
  <2> QED BY <1>1, <2>1
<1>8. ASSUME NEW ok \in BOOLEAN, drive_sound_load(ok) PROVE KeepsLatency'
  BY <1>8, DriveReturns
<1>9. CASE PollIdle
  BY <1>1, <1>9 DEF PollIdle, PollTurn
<1>10. ASSUME NEW step, NEW head, NEW xfer, NEW motor, NEW ended,
              drive_sound_poll(step, head, xfer, motor, ended)
       PROVE  KeepsLatency'
  <2>1. pc' = "rhythm"
    BY <1>10, Zenon DEF drive_sound_poll, PollTurn
  <2> QED BY <1>1, <2>1
<1>11. ASSUME NEW s, Bind(s) PROVE KeepsLatency'
  BY <1>2, <1>11 DEF Bind, rhythmVars, driveVars
<1>12. CASE Toggle
  BY <1>2, <1>12 DEF Toggle, rhythmVars, driveVars
<1>13. ASSUME NEW c, GuestLevel(c) PROVE KeepsLatency'
  BY <1>2, <1>13 DEF GuestLevel, rhythmVars, driveVars
<1>14. CASE UNCHANGED vars
  BY <1>2, <1>14 DEF vars, rhythmVars, driveVars
<1>15. CASE MainLoop
  BY <1>3, <1>4, <1>5, <1>6, <1>7, <1>8, <1>9, <1>10, <1>15, Zenon DEF MainLoop
<1>16. CASE Environment
  BY <1>11, <1>12, <1>13, <1>16, Zenon DEF Environment
<1> QED BY <1>14, <1>15, <1>16 DEF Next

\* For any files: no call of wav_step or drive_sound_load stays in the flush
\* (adpcm_enc_flush) of a file whose positions stay within pos, however the
\* file was cut: by its end, by the wall of its half or by a read that failed.
THEOREM AlwaysComesBack == Spec => []KeepsLatency
<1>1. Init => StoreInv /\ KeepsLatency
  <2>1. Init => pc = "rhythm"
    BY DEF Init
  <2>2. pc = "rhythm" => KeepsLatency
    BY DEF KeepsLatency
  <2> QED BY <2>1, <2>2, StoreInit
<1>2. StoreInv /\ KeepsLatency /\ [Next]_vars => (StoreInv /\ KeepsLatency)'
  BY StoreStep, LatencyStep
<1> QED BY <1>1, <1>2, PTL DEF Spec
=============================================================================
