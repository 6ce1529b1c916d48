--------------------------- MODULE SettingsMigrate --------------------------
(***************************************************************************)
(* settings_load on a version-9 save, settings_ui.c: table_migrate         *)
(* moves the table of per-disk profiles, in place, to version 10's longer  *)
(* entries, then global_write brings the blob to version 10.  The core may *)
(* be reset between any two stores.                                        *)
(*                                                                         *)
(* Addresses are relative to SETTINGS_WORD.  Both layouts start with the   *)
(* blob's header (one word here) and its block; version 10's block, and so *)
(* each of its entries, is one word longer, the word Appended places after *)
(* the start of the block.                                                 *)
(***************************************************************************)
EXTENDS Naturals, Sequences

CONSTANTS BlockWords,    \* words of a version-9 block
          Appended,      \* where in a block the new word goes
          V9_ENTRY_COUNT, ENTRY_COUNT

ASSUME MigrateAssumption ==
    /\ BlockWords \in Nat \ {0} /\ Appended \in 1..BlockWords
    /\ V9_ENTRY_COUNT \in Nat /\ ENTRY_COUNT \in 1..V9_ENTRY_COUNT

V9_ENTRY_WORDS == BlockWords + 2
ENTRY_WORDS    == BlockWords + 3
V9_TABLE_WORD  == BlockWords + 1
TABLE_WORD     == BlockWords + 2
OldAt(e) == V9_TABLE_WORD + 1 + e * V9_ENTRY_WORDS
NewAt(e) == TABLE_WORD + 1 + e * ENTRY_WORDS
LastWord == NewAt(ENTRY_COUNT) + OldAt(V9_ENTRY_COUNT)

OldSlot == 0..(V9_ENTRY_COUNT - 1)
Slot    == 0..(ENTRY_COUNT - 1)

\* Words: the k-th of old entry e, of the blob's block, and the rest.
Of(e, k) == <<"entry", e, k>>
Blob(k)  == <<"blob", 0, k>>
Mark(m)  == <<m, 0, 0>>
Zero == Mark("zero")
Magic == Mark("magic")
Default == Mark("default")

VARIABLES
    mem,      \* the save window
    pc,       \* where settings_load is
    slot, k,  \* the new entry being written, and the word of it
    b,        \* the old entry being copied
    stash,    \* the old entries beyond ENTRY_COUNT
    filled,   \* new slots holding a migrated profile
    kind,     \* (history) what each old entry was: valid, free or corrupt
    resets    \* (history) the core was reset on the way

vars == <<mem, pc, slot, k, b, stash, filled, kind, resets>>

\* An entry validates when its second word is the complement of its first.
Good(w) == w[1][1] = "entry" /\ w[1][3] = 0 /\ w[2] = Of(w[1][2], 1)
OldEntry(e) == [i \in 1..V9_ENTRY_WORDS |-> mem[OldAt(e) + i - 1]]
NewEntry(e) == [i \in 1..ENTRY_WORDS |-> mem[NewAt(e) + i - 1]]

\* entry_write: the words before the appended one, a default, the rest.
Converted(w) ==
    [i \in 1..ENTRY_WORDS |->
        IF i <= Appended + 2 THEN w[i]
        ELSE IF i = Appended + 3 THEN Default ELSE w[i - 1]]
Cleared == [i \in 1..ENTRY_WORDS |-> Zero]

Saved(e, f) ==
    IF kind[e] = "valid" \/ (kind[e] = "corrupt" /\ f # 1) THEN Of(e, f) ELSE Zero

Init ==
    /\ kind \in [OldSlot -> {"valid", "free", "corrupt"}]
    /\ mem = [a \in 0..LastWord |->
                IF a = 0 THEN Mark("v9")
                ELSE IF a <= BlockWords THEN Blob(a)
                ELSE IF a = V9_TABLE_WORD THEN Magic
                ELSE IF a < OldAt(V9_ENTRY_COUNT)
                     THEN Saved((a - OldAt(0)) \div V9_ENTRY_WORDS,
                                (a - OldAt(0)) % V9_ENTRY_WORDS)
                ELSE Zero]
    /\ pc = "boot" /\ slot = 0 /\ k = 1 /\ b = Cleared
    /\ stash = <<>> /\ filled = {} /\ resets = FALSE

-----------------------------------------------------------------------------
\* (mutant) No version's table is carried across.
BootMovesNone ==
    /\ pc = "boot"
    /\ pc' = IF mem[0] # Mark("v9") THEN "done" ELSE "blob"
    /\ k' = 0
    /\ UNCHANGED <<mem, slot, b, stash, filled, kind, resets>>

Boot ==
    /\ pc = "boot"
    /\ pc' = IF mem[0] # Mark("v9") THEN "done"
             ELSE IF mem[V9_TABLE_WORD] = Magic THEN "drop" ELSE "blob"
    /\ k' = 0
    /\ UNCHANGED <<mem, slot, b, stash, filled, kind, resets>>

\* (mutant) The old magic stays until the end.
DropLate ==
    /\ pc = "drop"
    /\ pc' = "stash" /\ slot' = V9_ENTRY_COUNT - 1 /\ stash' = <<>>
    /\ UNCHANGED <<mem, k, b, filled, kind, resets>>

\* The old magic goes first, so that a reset finds no table to move again.
Drop ==
    /\ pc = "drop"
    /\ mem' = [mem EXCEPT ![V9_TABLE_WORD] = Zero]
    /\ pc' = "stash" /\ slot' = V9_ENTRY_COUNT - 1 /\ stash' = <<>>
    /\ UNCHANGED <<k, b, filled, kind, resets>>

\* The old entries that have no slot of their own in the new table, the last
\* one first: those that validate are put by.

\* (mutant) The tail is not put by.
StashNone ==
    /\ pc = "stash"
    /\ pc' = "copy" /\ slot' = ENTRY_COUNT - 1 /\ k' = 1 /\ filled' = {}
    /\ UNCHANGED <<mem, b, stash, kind, resets>>

Stash ==
    /\ pc = "stash"
    /\ IF slot >= ENTRY_COUNT
       THEN /\ stash' = IF Good(OldEntry(slot)) THEN Append(stash, OldEntry(slot)) ELSE stash
            /\ slot' = slot - 1 /\ UNCHANGED <<pc, k, filled>>
       ELSE pc' = "copy" /\ k' = 1 /\ filled' = {} /\ UNCHANGED <<slot, stash>>
    /\ UNCHANGED <<mem, b, kind, resets>>

\* The shared range, top down: the old entry is read whole, then the new one
\* is written over it a word at a time.

\* (mutant) A slot that does not validate is left as it is.
ImageLeft(w) ==
    IF Good(w) THEN Converted(w) ELSE NewEntry(slot)

Image(w) == IF Good(w) THEN Converted(w) ELSE Cleared

Copy ==
    LET w == IF k = 1 THEN OldEntry(slot) ELSE b IN
    /\ pc = "copy"
    /\ b' = w
    /\ mem' = [mem EXCEPT ![NewAt(slot) + k - 1] = Image(w)[k]]
    /\ filled' = IF Good(w) THEN filled \cup {slot} ELSE filled
    /\ k' = IF k < ENTRY_WORDS THEN k + 1 ELSE 1
    /\ slot' = IF k < ENTRY_WORDS \/ slot = 0 THEN slot ELSE slot - 1
    /\ pc' = IF k = ENTRY_WORDS /\ slot = 0 THEN "tail" ELSE pc
    /\ UNCHANGED <<stash, kind, resets>>

\* What was put by fills the slots that stayed free, until there are none.
FreeFrom(e) == { f \in Slot : f >= e /\ f \notin filled }

TailSlot ==
    /\ pc = "tail"
    /\ IF stash # <<>> /\ FreeFrom(slot) # {}
       THEN /\ pc' = "fill"
            /\ slot' = CHOOSE f \in FreeFrom(slot) :
                          \A g \in FreeFrom(slot) : f <= g
       ELSE pc' = "magic" /\ UNCHANGED slot
    /\ UNCHANGED <<mem, k, b, stash, filled, kind, resets>>

Fill ==
    /\ pc = "fill"
    /\ mem' = [mem EXCEPT ![NewAt(slot) + k - 1] = Converted(Head(stash))[k]]
    /\ IF k < ENTRY_WORDS
       THEN k' = k + 1 /\ UNCHANGED <<pc, slot, stash>>
       ELSE /\ k' = 1 /\ stash' = Tail(stash)
            /\ slot' = slot + 1 /\ pc' = "tail"
    /\ UNCHANGED <<b, filled, kind, resets>>

WriteMagic ==
    /\ pc = "magic"
    /\ mem' = [mem EXCEPT ![TABLE_WORD] = Magic]
    /\ pc' = "blob" /\ k' = 0
    /\ UNCHANGED <<slot, b, stash, filled, kind, resets>>

\* global_write: the header, then the live block, which grew by one word over
\* where the old table's magic was.
GlobalWrite ==
    /\ pc = "blob"
    /\ mem' = [mem EXCEPT ![k] =
                 IF k = 0 THEN Mark("v10")
                 ELSE IF k <= Appended THEN Blob(k)
                 ELSE IF k = Appended + 1 THEN Default ELSE Blob(k - 1)]
    /\ IF k <= BlockWords THEN k' = k + 1 /\ UNCHANGED pc
       ELSE pc' = "done" /\ UNCHANGED k
    /\ UNCHANGED <<slot, b, stash, filled, kind, resets>>

Reset ==
    /\ pc' = "boot" /\ resets' = TRUE
    /\ slot' = 0 /\ k' = 1 /\ b' = Cleared /\ stash' = <<>> /\ filled' = {}
    /\ UNCHANGED <<mem, kind>>

Load == Boot \/ Drop \/ Stash \/ Copy \/ TailSlot \/ Fill \/ WriteMagic \/ GlobalWrite

Next == Load \/ Reset

Spec == Init /\ [][Next]_vars

-----------------------------------------------------------------------------
(* Properties.                                                             *)

\* The profile an old entry holds, in the new layout.
Profile(e) == Converted([i \in 1..V9_ENTRY_WORDS |-> Of(e, i - 1)])

\* Whatever resets came, a window with the new magic holds every profile of
\* the old table, at its own slot or, from the tail, wherever one was free:
\* no source word was overwritten before it was read.
Carried ==
    mem[TABLE_WORD] = Magic =>
        /\ \A e \in Slot : kind[e] = "valid" => NewEntry(e) = Profile(e)
        /\ \A e \in OldSlot \ Slot : kind[e] = "valid" =>
              \/ \E s \in Slot : NewEntry(s) = Profile(e)
              \/ \A s \in Slot : Good(NewEntry(s))

\* "Never a fragment of the old layout posing as a profile": what validates in
\* the new table is a whole profile of the old one, and none is there twice.
NoPhantom ==
    mem[TABLE_WORD] = Magic =>
        \A s \in Slot : Good(NewEntry(s)) =>
            /\ \E e \in OldSlot : kind[e] = "valid" /\ NewEntry(s) = Profile(e)
            /\ \A t \in Slot \ {s} : NewEntry(t) # NewEntry(s)

\* "A reset mid-move then finds no table at all, rather than re-running over
\* half-rewritten entries": a move only ever starts on the table as it was.
MovesWhole ==
    pc = "drop" =>
        \A e \in OldSlot : \A f \in 0..(V9_ENTRY_WORDS - 1) :
            mem[OldAt(e) + f] = Saved(e, f)

\* A boot that no reset cuts short carries the table across.
Arrives == (pc = "done" /\ ~resets) => mem[TABLE_WORD] = Magic
=============================================================================
