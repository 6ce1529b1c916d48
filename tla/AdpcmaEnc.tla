----------------------------- MODULE AdpcmaEnc ------------------------------
(***************************************************************************)
(* The streaming ADPCM-A encoder of firmware/adpcma_enc.c: samples go in   *)
(* one at a time, are resampled by linear interpolation at 16.16 positions *)
(* and come out as nibbles, two to a byte, padded to a whole page.         *)
(*                                                                         *)
(* An encoder is a record; out is what the last call produced.  The buffer *)
(* of eight bytes behind out only cuts a flush into several calls, which   *)
(* are taken together here: at the rates the loaders accept a push makes   *)
(* at most five samples, and no step of a position spans the whole range.  *)
(***************************************************************************)
EXTENDS Integers, Sequences

CONSTANTS PageBytes,  \* 256
          MaxStep,    \* 48
          Inc,        \* ADPCMA_INC: step -> magnitude -> increment
          PosSize     \* 2^32: where the position, 16.16 in 32 bits, wraps

ASSUME EncoderAssumption ==
    /\ PageBytes \in Nat \ {0} /\ MaxStep \in Nat
    /\ Inc \in [0..MaxStep -> [0..7 -> Nat]] /\ PosSize \in Nat \ {0}

One == 65536

\* src_rate * 432 * 2^16 / 8e6, split so that no intermediate leaves 32 bits.
Ratio(rate) ==
    LET t == rate * 432
    IN  (t \div 62500) * 512 + ((t % 62500) * 512) \div 62500

adpcm_enc_init(rate) ==
    [ratio |-> Ratio(rate), pos |-> 0, idx |-> 0, prev |-> 0, cur |-> 0,
     primed |-> FALSE, x |-> 0, step |-> 0, bytes |-> 0, half |-> -1, out |-> <<>>]

STEP_ADAPT == <<-1, -1, -1, -1, 2, 5, 7, 9>>

Clip(v, low, high) == IF v < low THEN low ELSE IF v > high THEN high ELSE v

\* The value a nibble (sign bit 3, magnitude below) leads to, and the first
\* nibble, magnitude by magnitude, that comes closest to the target.
Next4(x, step, nib) == IF nib >= 8 THEN x - Inc[step][nib - 8] ELSE x + Inc[step][nib]
Pick(x, step, target) ==
    LET err(nib) == LET d == Next4(x, step, nib) - target IN IF d < 0 THEN -d ELSE d
        rank(nib) == 2 * (nib % 8) + nib \div 8
    IN  CHOOSE nib \in 0..15 : \A o \in 0..15 :
            err(nib) < err(o) \/ (err(nib) = err(o) /\ rank(nib) <= rank(o))

\* The nibble goes into the accumulator and into the byte under way.
Emitted(e, best) ==
    LET f == [e EXCEPT !.x = Next4(e.x, e.step, best),
                       !.step = Clip(e.step + STEP_ADAPT[(best % 8) + 1], 0, MaxStep)]
    IN  IF e.half < 0 THEN [f EXCEPT !.half = best]
        ELSE [f EXCEPT !.half = -1, !.bytes = e.bytes + 1,
                       !.out = Append(e.out, 16 * e.half + best)]
emit_nibble(e, target) == Emitted(e, Pick(e.x, e.step, target))

\* One output sample: between the two newest ones, or the newest held.
emit_sample(e, flat) ==
    LET v == IF flat THEN e.cur
             ELSE e.prev + ((e.cur - e.prev) * (e.pos % One)) \div One
        f == emit_nibble(e, Clip(v \div 16, -2048, 2047))
    IN  [f EXCEPT !.pos = (e.pos + e.ratio) % PosSize]

\* How many positions from pos on lie below the limit.
Positions(pos, ratio, limit) ==
    IF pos >= limit THEN 0 ELSE (limit - pos + ratio - 1) \div ratio

Samples(e, n, flat) ==
    LET run[k \in 0..n] ==
            IF k = 0 THEN e ELSE LET f == run[k - 1] IN emit_sample(f, flat)
    IN  run[n]

\* Everything the window [idx - 1, idx] can serve is emitted.
adpcm_enc_push(e, s) ==
    LET f == [e EXCEPT !.out = <<>>, !.prev = e.cur, !.cur = s, !.primed = TRUE,
                       !.idx = IF e.primed THEN e.idx + 1 ELSE e.idx]
    IN  IF e.primed /\ f.pos \div One = f.idx - 1
        THEN Samples(f, Positions(f.pos, f.ratio, f.idx * One), FALSE) ELSE f

\* Silence to the end of the page.
Padded(e) ==
    LET n == (-(2 * e.bytes + (IF e.half < 0 THEN 0 ELSE 1))) % (2 * PageBytes)
        run[k \in 0..n] ==
            IF k = 0 THEN e ELSE LET h == run[k - 1] IN emit_nibble(h, 0)
    IN  run[n]

\* (mutant) The tail looks at the position it started from.
Past_still(e, n) == e.pos \div One > e.idx

\* The tail runs until its position is past the last sample.  Positions come
\* round within PosSize steps: if none of these is past it, none ever is.
Past(e, n) == ((e.pos + n * e.ratio) % PosSize) \div One > e.idx
Ends(e) == \E n \in 0..PosSize : Past(e, n)
TailCount(e) == CHOOSE n \in 0..PosSize : Past(e, n) /\ \A m \in 0..n - 1 : ~Past(e, m)

\* All calls of adpcm_enc_flush up to the empty one, if there is one: the tail
\* past the last sample, then the padding.
Flush(e) == Padded(Samples([e EXCEPT !.out = <<>>], TailCount(e), TRUE))

\* A run of pushes: the encoder after it, out everything it produced.
Push(e, samples) ==
    LET run[k \in 0..Len(samples)] ==
            IF k = 0 THEN [e EXCEPT !.out = <<>>]
            ELSE LET f == run[k - 1]
                     h == adpcm_enc_push(f, samples[k])
                 IN  [h EXCEPT !.out = f.out \o h.out]
    IN  run[Len(samples)]

-----------------------------------------------------------------------------
(* The reference: the packer's whole-file definition (rhythm_pack.py), for   *)
(* files of at least two samples; its positions do not wrap.                 *)

Resample(pcm, ratio) ==
    LET n == Len(pcm)
        at(p) == LET j == p \div One IN
                 IF j >= n - 1 THEN pcm[n]
                 ELSE pcm[j + 1] + ((pcm[j + 2] - pcm[j + 1]) * (p % One)) \div One
    IN  [k \in 1..Positions(0, ratio, n * One) |-> Clip(at((k - 1) * ratio) \div 16, -2048, 2047)]

Encode(targets) ==
    LET run[k \in 0..Len(targets)] ==
            IF k = 0 THEN [x |-> 0, step |-> 0, nib |-> <<>>]
            ELSE LET r == run[k - 1]
                     b == Pick(r.x, r.step, targets[k])
                 IN  [x |-> Next4(r.x, r.step, b),
                      step |-> Clip(r.step + STEP_ADAPT[(b % 8) + 1], 0, MaxStep),
                      nib |-> Append(r.nib, b)]
    IN  run[Len(targets)].nib

PackVoice(pcm, rate) ==
    LET body == Resample(pcm, Ratio(rate))
        nib == Encode(body \o [k \in 1..(-Len(body)) % (2 * PageBytes) |-> 0])
    IN  [k \in 1..Len(nib) \div 2 |-> 16 * nib[2 * k - 1] + nib[2 * k]]
=============================================================================
