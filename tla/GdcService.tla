----------------------------- MODULE GdcService -----------------------------
(***************************************************************************)
(* The drawing service of the two GDCs: the guest's EXECUTE and WDAT       *)
(* commands, the request latch, snapshot and watchdog of pc98_gdc.sv, and  *)
(* gdc_poll of firmware/gdc_service.c, which copies the snapshot word by   *)
(* word, draws, and retires the request by a level it raises and drops.    *)
(*                                                                         *)
(* The guest writes parameters and commands when the status shows an empty *)
(* FIFO; a command that comes earlier is dropped by the latch.             *)
(***************************************************************************)
EXTENDS GdcDraw

CONSTANTS Figures,   \* parameter sets the guest may program
          Accels,    \* charger settings: subsets of {"grcg", "rmw", "egc"}
          Slow       \* figures the firmware may take longer for than the watchdog

ASSUME SlowAssumption == Slow \subseteq Figures

Ch == {"slave", "master"}
SnapWords == 6

\* The snapshot word that holds (the low byte of) each field.
SnapWord == [ope |-> 1, dir |-> 1, sl |-> 1, dc |-> 1, d |-> 1, d2 |-> 2,
             d1 |-> 2, dm |-> 3, word |-> 3, dot |-> 4, textw |-> 4,
             zoom |-> 5, mode |-> 5, width |-> 5, mask |-> 5, code |-> 6]
Field == DOMAIN SnapWord

\* What the bytes of each field can hold.
Word16 == 0..2^16 - 1
Word14 == 0..2^14 - 1
FieldType == [ope |-> SUBSET {"line", "text", "circle", "rect"}, dir |-> 0..7,
              sl |-> BOOLEAN, dc |-> 0..Counts - 1, d |-> Word16, d2 |-> Word16,
              d1 |-> Word16, dm |-> Word16, word |-> Word14, dot |-> 0..15,
              textw |-> SUBSET (0..PatBits - 1), zoom |-> 0..15, mode |-> 0..3,
              width |-> {"word", "low", "high", "none"},
              mask |-> SUBSET (0..15), code |-> SUBSET (0..15)]
IsFigure(f) == f = [x \in Field |-> f[x]] /\ \A x \in Field : f[x] \in FieldType[x]

ASSUME FigureAssumption == \A f \in Figures : IsFigure(f)

NoFigure == [f \in Field |-> IF f \in {"ope", "textw", "mask", "code"} THEN {}
                             ELSE IF f = "width" THEN "word"
                             ELSE IF f = "sl" THEN FALSE ELSE 0]
NoPic == [op |-> "none", g |-> NoFigure, accel |-> {}, back |-> {}]

VARIABLES
    para,       \* the slave's parameter file
    pending, busy,  \* draw_pending and draw_busy_r of each channel
    op,         \* the slave's draw_op_r
    snap,       \* the slave's snapshot
    done,       \* the firmware's done levels
    pc, ch,     \* where gdc_poll is, and for which channel
    i, g, st,   \* the words copied, the copy, the command seen
    pic,        \* the figure just drawn, the charger's setting, a word under it
    drawn,      \* (history) the pending request has been drawn from its snapshot
    mine,       \* (history) the service in progress began with this request
    overtaken   \* (history) the watchdog fired on the service in progress

rtlVars == <<para, pending, busy, op, snap, done>>
fwVars == <<pc, ch, i, g, st, pic>>
vars == <<rtlVars, fwVars, drawn, mine, overtaken>>

Init ==
    /\ para = NoFigure /\ snap = NoFigure
    /\ pending = [c \in Ch |-> FALSE] /\ busy = [c \in Ch |-> FALSE]
    /\ op = "VECTE" /\ done = [c \in Ch |-> FALSE]
    /\ pc = "look" /\ ch = "slave" /\ i = 0 /\ g = NoFigure /\ st = "VECTE"
    /\ pic = NoPic
    /\ drawn = FALSE /\ mine = FALSE /\ overtaken = FALSE

-----------------------------------------------------------------------------
(* The guest.                                                               *)

FifoEmpty(c) == ~pending[c] /\ ~busy[c]

Program(f) ==
    /\ FifoEmpty("slave") /\ para' = f
    /\ UNCHANGED <<pending, busy, op, snap, done, fwVars, drawn, mine, overtaken>>

\* The request and the snapshot land together, and only with nothing pending.
Latch(c, o) ==
    /\ FifoEmpty(c)
    /\ pending' = [pending EXCEPT ![c] = TRUE]
    /\ IF c = "slave" THEN op' = o /\ snap' = para /\ drawn' = FALSE /\ mine' = FALSE
       ELSE UNCHANGED <<op, snap, drawn, mine>>
    /\ UNCHANGED <<para, busy, done, fwVars, overtaken>>

Execute(c) == \E o \in {"VECTE", "TEXTE"} : Latch(c, o)

\* The last parameter of a WDAT run, which only the slave draws.
LastParameter == Latch("slave", "WDAT")

-----------------------------------------------------------------------------
(* pc98_gdc: completion by the server's strobe or by the watchdog.  A       *)
(* figure command resets the vector parameters, WDAT keeps them.            *)

VectorReset(p) == [p EXCEPT !.dc = 0, !.d = 8, !.d2 = 8, !.d1 = 65535, !.dm = 65535]

Retire(c) ==
    /\ pending' = [pending EXCEPT ![c] = FALSE]
    /\ busy' = [busy EXCEPT ![c] = TRUE]
    /\ para' = IF c = "slave" /\ op \in {"VECTE", "TEXTE"} THEN VectorReset(para)
               ELSE para

BusyEnds(c) ==
    /\ busy[c] /\ busy' = [busy EXCEPT ![c] = FALSE]
    /\ UNCHANGED <<para, pending, op, snap, done, fwVars, drawn, mine, overtaken>>

Serving == pc \in {"read", "draw", "done"} /\ ch = "slave"

TimeOut(c) ==
    /\ pending[c] /\ ~busy[c] /\ (c = "slave" => snap \in Slow)
    /\ Retire(c)
    /\ overtaken' = (overtaken \/ (c = "slave" /\ Serving))
    /\ UNCHANGED <<op, snap, done, fwVars, drawn, mine>>

-----------------------------------------------------------------------------
(* gdc_poll: the slave first, then the master, whose requests are retired   *)
(* undrawn.                                                                 *)

Other(c) == IF c = "slave" THEN "master" ELSE "slave"

\* (mutant) The request is retired before it is drawn.
LookLate ==
    /\ pc = "look"
    /\ IF ~pending[ch] THEN ch' = Other(ch) /\ UNCHANGED <<pc, st, i, mine>>
       ELSE /\ st' = op /\ i' = 1 /\ ch' = ch
            /\ pc' = "done"
            /\ mine' = (mine \/ ch = "slave")
    /\ UNCHANGED <<rtlVars, g, pic, drawn, overtaken>>

Look ==
    /\ pc = "look"
    /\ IF ~pending[ch] THEN ch' = Other(ch) /\ UNCHANGED <<pc, st, i, mine>>
       ELSE /\ st' = op /\ i' = 1 /\ ch' = ch
            /\ pc' = IF ch = "slave" THEN "read" ELSE "done"
            /\ mine' = (mine \/ ch = "slave")
    /\ UNCHANGED <<rtlVars, g, pic, drawn, overtaken>>

ReadWord ==
    /\ pc = "read"
    /\ g' = [f \in Field |-> IF SnapWord[f] = i THEN snap[f] ELSE g[f]]
    /\ i' = IF i < SnapWords THEN i + 1 ELSE 0
    /\ pc' = IF i < SnapWords THEN "read" ELSE "draw"
    /\ UNCHANGED <<rtlVars, ch, st, pic, drawn, mine, overtaken>>

Draw(accel, back) ==
    /\ pc = "draw"
    /\ pic' = [op |-> st, g |-> g, accel |-> accel, back |-> back]
    /\ drawn' = (drawn \/ (mine /\ g = snap /\ st = op))
    /\ pc' = "done"
    /\ UNCHANGED <<rtlVars, ch, i, g, st, mine, overtaken>>

\* retire(): the rise of the level retires whatever is pending.
DoneHigh ==
    /\ pc = "done" /\ pc' = "low"
    /\ done' = [done EXCEPT ![ch] = TRUE]
    /\ IF done[ch] THEN UNCHANGED <<para, pending, busy>> ELSE Retire(ch)
    /\ overtaken' = IF ch = "slave" THEN FALSE ELSE overtaken
    /\ pic' = NoPic /\ g' = NoFigure
    /\ UNCHANGED <<op, snap, ch, i, st, drawn, mine>>

\* (mutant) The level stays up.
DoneLowStays ==
    /\ pc = "low" /\ pc' = "look" /\ ch' = Other(ch)
    /\ UNCHANGED <<rtlVars, i, g, st, pic, drawn, mine, overtaken>>

DoneLow ==
    /\ pc = "low" /\ pc' = "look" /\ ch' = Other(ch)
    /\ done' = [done EXCEPT ![ch] = FALSE]
    /\ UNCHANGED <<para, pending, busy, op, snap, i, g, st, pic, drawn, mine, overtaken>>

Firmware == Look \/ ReadWord \/ (\E a \in Accels, b \in {{}, 0..15} : Draw(a, b))
               \/ DoneHigh \/ DoneLow
Guest == (\E f \in Figures : Program(f)) \/ (\E c \in Ch : Execute(c)) \/ LastParameter
Hardware == \E c \in Ch : BusyEnds(c) \/ TimeOut(c)

Next == Firmware \/ Guest \/ Hardware

Spec == Init /\ [][Next]_vars
FairSpec == Spec /\ WF_vars(Firmware)

-----------------------------------------------------------------------------
(* Properties.                                                              *)

\* What the figure in pic touches: the dots of a path, the words of a run.
path == IF pic.op \in {"VECTE", "TEXTE"} THEN Path(pic.g, pic.op) ELSE <<>>
run == IF pic.op = "WDAT" THEN gdc_wdat(pic.g, pic.back) ELSE <<>>

\* The firmware's strobe retires a request only when that request has been
\* drawn, from the snapshot latched with it; only a service the watchdog
\* has overtaken may retire the wrong one.
DoneMeansDrawn ==
    [][DoneHigh /\ ch = "slave" /\ pending["slave"] => drawn \/ overtaken]_vars

\* The guest is not throttled for ever: a request is retired.
Retired == \A c \in Ch : pending[c] ~> ~pending[c]

\* No figure writes outside the 32 KB of its plane, wherever it starts and
\* whichever charger is armed.
InPlane ==
    /\ LET dots == path
       IN  \A k \in 1..Len(dots) :
              pset_at(dots[k], On(pic.g, k), pic.accel) \subseteq 0..PlaneBytes - 1
    /\ \A k \in 1..Len(run) : run[k].adrs \in 0..PlaneBytes - 2

AbsDiff(a, b) == IF a < b THEN b - a ELSE a - b

\* Every dot of a line is the nearest to the ideal line: its distance along
\* the minor axis, in units of 1 / 2dc, is at most a half.
LineNearest ==
    LET f == pic.g
        p == pset_prepare(f)
        dc == Low14(f.dc)
        dots == path
        ideal(k) == f.d1 * (k - 1)
        below(k) == ideal(k) \div (2 * dc)
    IN  f.ope = {"line"} /\ pic.op = "VECTE" /\ dc > 0 =>
        /\ Len(dots) = dc + 1
        /\ \A k \in 1..Len(dots) :
              \E minor \in {below(k), below(k) + 1} :
                 /\ dots[k] = Plus(p, Octant(f.dir, k - 1, minor))
                 /\ AbsDiff(2 * dc * minor, ideal(k)) <= dc

\* A rectangle visits every dot of its outline once: drawn in complement
\* mode on dark ground it has no holes.
Outline(f) ==
    LET p == pset_prepare(f)
        d == Low14(f.d)  d2 == Low14(f.d2)
        at(a, b) == Plus(Plus(p, Along(f.dir, a)), Across(f.dir, b))
    IN  {at(a, b) : a \in 0..d, b \in {0, d2}} \cup {at(a, b) : a \in {0, d}, b \in 0..d2}
RectSolid ==
    /\ pic.g.ope = {"rect"} /\ pic.op = "VECTE" /\ Low14(pic.g.d) > 0 /\ Low14(pic.g.d2) > 0
    /\ pic.g.mode = 1 /\ pic.g.textw = 0..PatBits - 1
    => Picture(pic.g, path) = {p \in {Cut(q) : q \in Outline(pic.g)} : ~Clipped(p)}

\* A WDAT run writes its count of consecutive words, a count of all ones the
\* whole range, and replace, complement and set leave what is outside mask
\* and lane alone.
RunWhole ==
    pic.op = "WDAT" /\ pic.g.width # "none" =>
        /\ Len(run) = pic.g.dc + 1
        /\ \A k \in 2..Len(run) :
              run[k].adrs = (run[k - 1].adrs + 2) % PlaneBytes
        /\ pic.g.mode # 2 => \A k \in 1..Len(run) :
              \A b \in (0..15) \ (pic.g.mask \cap Lane(pic.g.width)) :
                 b \in run[k].word <=> b \in pic.back

\* What a figure touches is what its parameters say.
FigureRight == LineNearest /\ RectSolid /\ RunWhole
=============================================================================
