---------------------------- MODULE SettingsStore ---------------------------
(***************************************************************************)
(* Persistence of the settings, firmware/settings_ui.c: the save window of *)
(* the bridge RAM (a global blob, then a table of per-disk profiles), the  *)
(* main loop that writes it a word at a time, the OSD edits of the timer   *)
(* interrupt, and the power cycles in between.                             *)
(*                                                                         *)
(* The window is cut into areas of BlockWords + 2 words.  Area 0 is the    *)
(* global blob: its header, the block, and the magic of the table.  Area e *)
(* is entry e of the table: hash, ~hash, block.  (The blob's two header    *)
(* words are one here, and a word of the block is one field.)              *)
(***************************************************************************)
EXTENDS Naturals

CONSTANTS Disk, NoDisk,   \* content hashes of the images; disk_hash = 0
          EntryCount,     \* ENTRY_COUNT
          BlockWords,     \* BLOCK_WORDS
          Value, Zero,    \* what a word of the block may hold
          Defaults,       \* the compiled defaults
          Residues,       \* what a window no save has claimed may hold
          OsdInserts,     \* a re-insert may fall inside settings_service
          TornSaves       \* the power may go in the middle of a write

Area  == 0..EntryCount
Entry == 1..EntryCount
Field == 1..BlockWords
Top   == BlockWords + 1

\* Words of the window.
Head      == <<"mark", "head">>
Table     == <<"mark", "table">>
Hash(d)   == <<"hash", d>>
NotHash(d) == <<"not", d>>
Val(v)    == <<"val", v>>
Word == {Head, Table} \cup {Hash(d) : d \in Disk}
          \cup {NotHash(d) : d \in Disk} \cup {Val(v) : v \in Value}
Window == [Area -> [0..Top -> Word]]
Blank == [a \in Area |-> [k \in 0..Top |-> Val(Zero)]]

ASSUME StoreAssumption ==
    /\ EntryCount \in Nat \ {0} /\ BlockWords \in Nat \ {0}
    /\ NoDisk \notin Disk /\ Zero \in Value
    /\ Defaults \in [Field -> Value]
    /\ Residues \subseteq Window
    /\ \A r \in Residues : r[0][0] # Head /\ r[0][Top] # Table
    /\ OsdInserts \in BOOLEAN /\ TornSaves \in BOOLEAN

VARIABLES
    ram,           \* the save window
    live,          \* settings[].value and the key bindings
    dirty, have_table, disk_hash, disk_slot, evict_i,
    bram_addr,     \* FDD_BRAM_ADDR, as <<area, word>>
    pc, at,        \* the main loop, and the word of the window it is at
    next,          \* the disk a mount brings in, or NoDisk
    src,           \* where block_apply reads: an area, or "defaults"
    whole,         \* (history) the entry was last written to its end
    raced          \* (history) an edit came since the mount began

ctxVars  == <<have_table, disk_hash, disk_slot, evict_i>>
mainVars == <<pc, at, next, src>>
vars == <<ram, live, dirty, ctxVars, bram_addr, mainVars, whole, raced>>

-----------------------------------------------------------------------------
(* Reading the window.                                                     *)

First(S) == IF S = {} THEN 0 ELSE CHOOSE e \in S : \A f \in S : e <= f

Owned(d) == {e \in Entry : ram[e][0] = Hash(d) /\ ram[e][1] = NotHash(d)}
Valid(e) == \E d \in Disk : e \in Owned(d)

table_find(d) == IF have_table THEN First(Owned(d)) ELSE 0

\* The first slot whose hash pair does not validate, else the victim.
Free == {e \in Entry : ~Valid(e)}
table_alloc == IF Free # {} THEN First(Free) ELSE evict_i
\* (mutant) The eviction cursor does not wrap.
NextVictimRuns == evict_i + 1

NextVictim == IF evict_i = EntryCount THEN 1 ELSE evict_i + 1

\* Where block_apply finds the profile of d: its entry, else the global blob,
\* else the compiled defaults.  NoSource stands for the last.
NoSource == EntryCount + 1
SourceOf(d) ==
    IF d # NoDisk /\ table_find(d) # 0 THEN table_find(d)
    ELSE IF ram[0][0] = Head THEN 0 ELSE NoSource

BlockAt(a) == IF a = 0 THEN 1 ELSE 2
AsField(w, old) == IF w \in {Val(v) : v \in Value} THEN w[2] ELSE old
Block(a) == IF a = NoSource THEN Defaults
            ELSE [f \in Field |-> AsField(ram[a][BlockAt(a) + f - 1], live[f])]

\* What the machine would run with if d were mounted now.
Resolve(d) == Block(SourceOf(d))

-----------------------------------------------------------------------------
(* Boot: settings_load on a window of this version.                        *)

Boot(r) ==
    /\ ram' = r
    /\ live' = IF r[0][0] = Head
               THEN [f \in Field |-> AsField(r[0][f], Defaults[f])]
               ELSE Defaults
    /\ have_table' = (r[0][Top] = Table)
    /\ dirty' = FALSE /\ disk_hash' = NoDisk /\ disk_slot' = 0 /\ evict_i' = 1
    /\ bram_addr' = <<0, Top>> /\ pc' = "loop" /\ at' = <<0, 0>>
    /\ next' = NoDisk /\ src' = NoSource /\ raced' = FALSE

Init ==
    /\ ram \in {Blank} \cup Residues
    /\ live = Defaults
    /\ have_table = FALSE
    /\ dirty = FALSE /\ disk_hash = NoDisk /\ disk_slot = 0 /\ evict_i = 1
    /\ bram_addr = <<0, Top>> /\ pc = "loop" /\ at = <<0, 0>>
    /\ next = NoDisk /\ src = NoSource /\ raced = FALSE
    /\ whole = [e \in Entry |-> FALSE]

\* APF flushes the window when the core is shut down and loads it at boot.
PowerCycle ==
    /\ TornSaves \/ (pc = "loop" /\ ~dirty)
    /\ Boot(ram)
    /\ UNCHANGED whole

-----------------------------------------------------------------------------
(* The timer interrupt, which runs between any two steps of the main loop. *)

\* (mutant) An edit that does not flag the save.
EditUnflagged(f, v) ==
    /\ live' = [live EXCEPT ![f] = v]
    /\ raced' = TRUE
    /\ UNCHANGED <<ram, dirty, ctxVars, bram_addr, mainVars, whole>>

Edit(f, v) ==
    /\ live' = [live EXCEPT ![f] = v]
    /\ dirty' = TRUE /\ raced' = TRUE
    /\ UNCHANGED <<ram, ctxVars, bram_addr, mainVars, whole>>

ResetDefaults ==
    /\ live' = Defaults
    /\ dirty' = TRUE /\ raced' = TRUE
    /\ UNCHANGED <<ram, ctxVars, bram_addr, mainVars, whole>>

\* fdd_insert puts the same image back: its hash is the one in context, and
\* reading the sectors for it has left the address at word 128, the window's
\* first.
OsdInsert ==
    /\ (pc = "loop" \/ OsdInserts) /\ disk_hash # NoDisk
    /\ bram_addr' = <<0, 0>>
    /\ UNCHANGED <<ram, live, dirty, ctxVars, mainVars, whole, raced>>

-----------------------------------------------------------------------------
(* settings_service, from the main loop (d = NoDisk) or from               *)
(* settings_disk_mounted(d), which flushes what the outgoing disk is owed. *)

\* (mutant) A mount does not flush.
EnterNoFlush(d) ==
    /\ pc = "loop"
    /\ IF d = NoDisk THEN dirty ELSE d # disk_hash
    /\ next' = d /\ raced' = FALSE
    /\ dirty' = (dirty /\ d # NoDisk)
    /\ have_table' = (have_table \/ (dirty /\ d = NoDisk))
    /\ pc' = IF d # NoDisk THEN "switch"
             ELSE IF have_table THEN "choose" ELSE "claim"
    /\ at' = <<0, Top>>
    /\ UNCHANGED <<ram, live, disk_hash, disk_slot, evict_i, bram_addr, src,
                   whole>>

Enter(d) ==
    /\ pc = "loop"
    /\ IF d = NoDisk THEN dirty ELSE d # disk_hash
    /\ next' = d /\ raced' = FALSE
    /\ dirty' = FALSE
    /\ have_table' = (have_table \/ dirty)
    /\ pc' = IF ~dirty THEN "switch"
             ELSE IF have_table THEN "choose" ELSE "claim"
    /\ at' = <<0, Top>>
    /\ UNCHANGED <<ram, live, disk_hash, disk_slot, evict_i, bram_addr, src,
                   whole>>

Choose ==
    LET found == IF disk_slot # 0 THEN disk_slot ELSE table_find(disk_hash)
        slot  == IF found # 0 THEN found ELSE table_alloc
    IN  /\ pc = "choose"
        /\ pc' = "write"
        /\ IF disk_hash = NoDisk
           THEN at' = <<0, 0>> /\ UNCHANGED <<disk_slot, evict_i>>
           ELSE /\ at' = <<slot, 0>> /\ disk_slot' = slot
                /\ evict_i' = IF found = 0 /\ Free = {} THEN NextVictim
                              ELSE evict_i
        /\ UNCHANGED <<ram, live, dirty, have_table, disk_hash, bram_addr, next,
                       src, whole, raced>>

After(a) == IF a[2] = Top THEN <<a[1] + 1, 0>> ELSE <<a[1], a[2] + 1>>

\* (mutant) Claiming the table does not clear its entries.
StoredUncleared ==
    IF pc = "claim"
    THEN (IF at = <<0, Top>> THEN Table ELSE ram[at[1]][at[2]])
    ELSE IF at = <<0, 0>> THEN Head
    ELSE IF at[1] = 0 THEN Val(live[at[2]])
    ELSE IF at[2] = 0 THEN Hash(disk_hash)
    ELSE IF at[2] = 1 THEN NotHash(disk_hash)
    ELSE Val(live[at[2] - 1])

\* (mutant) The compiled defaults are saved instead of the live values.
StoredDefaults ==
    IF pc = "claim" THEN (IF at = <<0, Top>> THEN Table ELSE Val(Zero))
    ELSE IF at = <<0, 0>> THEN Head
    ELSE IF at[1] = 0 THEN Val(Defaults[at[2]])
    ELSE IF at[2] = 0 THEN Hash(disk_hash)
    ELSE IF at[2] = 1 THEN NotHash(disk_hash)
    ELSE Val(Defaults[at[2] - 1])

\* The word the code stores at this place of its program.
Stored ==
    IF pc = "claim" THEN (IF at = <<0, Top>> THEN Table ELSE Val(Zero))
    ELSE IF at = <<0, 0>> THEN Head
    ELSE IF at[1] = 0 THEN Val(live[at[2]])
    ELSE IF at[2] = 0 THEN Hash(disk_hash)
    ELSE IF at[2] = 1 THEN NotHash(disk_hash)
    ELSE Val(live[at[2] - 1])

\* The address register is loaded before the table's magic, before a header
\* or a hash, and again by block_write; the other stores rely on its
\* increments.
Loads == IF pc = "claim" THEN at = <<0, Top>>
         ELSE at[2] \in {0, BlockAt(at[1])}
Target == IF Loads THEN at ELSE bram_addr

Store ==
    /\ pc \in {"claim", "write"}
    /\ ram' = IF Target[1] \in Area
              THEN [ram EXCEPT ![Target[1]][Target[2]] = Stored] ELSE ram
    /\ bram_addr' = After(Target)
    /\ LET last == IF pc = "claim" THEN <<EntryCount, Top>>
                   ELSE IF at[1] = 0 THEN <<0, BlockWords>> ELSE <<at[1], Top>>
       IN  pc' = IF at # last THEN pc
                 ELSE IF pc = "claim" THEN "choose"
                 ELSE IF next = NoDisk THEN "loop" ELSE "switch"
    /\ at' = After(at)
    /\ whole' = IF pc = "write" /\ at[1] # 0
                THEN [whole EXCEPT ![at[1]] = (at[2] = Top)] ELSE whole
    /\ UNCHANGED <<live, dirty, ctxVars, next, src, raced>>

-----------------------------------------------------------------------------
(* The rest of settings_disk_mounted: the incoming disk's profile.         *)

\* apply_defaults reads nothing: the address stays where the blob's header was
\* read.
BlockAddr(a) == IF a = NoSource THEN <<0, 1>> ELSE <<a, BlockAt(a)>>

\* (mutant) The cached slot of the outgoing disk is kept.
SwitchKeepsSlot ==
    /\ pc = "switch"
    /\ disk_hash' = next
    /\ src' = SourceOf(next)
    /\ at' = <<src', 1>> /\ bram_addr' = BlockAddr(src')
    /\ pc' = "apply"
    /\ UNCHANGED <<ram, live, dirty, have_table, disk_slot, evict_i, next,
                   whole, raced>>

Switch ==
    /\ pc = "switch"
    /\ disk_hash' = next /\ disk_slot' = table_find(next)
    /\ src' = SourceOf(next)
    /\ at' = <<src', 1>> /\ bram_addr' = BlockAddr(src')
    /\ pc' = "apply"
    /\ UNCHANGED <<ram, live, dirty, have_table, evict_i, next, whole, raced>>

\* block_apply, a field at a time: at[2] is the field, bram_addr the word.
Apply ==
    /\ pc = "apply"
    /\ live' = [live EXCEPT ![at[2]] =
                  IF src = NoSource THEN Defaults[at[2]]
                  ELSE IF bram_addr[1] \in Area
                       THEN AsField(ram[bram_addr[1]][bram_addr[2]], @) ELSE @]
    /\ bram_addr' = IF src = NoSource THEN bram_addr ELSE After(bram_addr)
    /\ at' = <<at[1], at[2] + 1>>
    /\ pc' = IF at[2] = BlockWords THEN "loop" ELSE pc
    /\ next' = IF at[2] = BlockWords THEN NoDisk ELSE next
    /\ UNCHANGED <<ram, dirty, ctxVars, src, whole, raced>>

-----------------------------------------------------------------------------
Pass == Enter(NoDisk) \/ Choose \/ Store \/ Switch \/ Apply
Mount == \E d \in Disk : Enter(d)

Irq == \/ \E f \in Field, v \in Value : Edit(f, v)
       \/ ResetDefaults \/ OsdInsert

Next == Pass \/ Mount \/ Irq \/ PowerCycle

Spec == Init /\ [][Next]_vars

\* The main loop goes round.
FairSpec == Spec /\ WF_vars(Pass)

-----------------------------------------------------------------------------
(* Properties.                                                             *)

Place == (0..(EntryCount + 1)) \X (0..Top)

TypeOK ==
    /\ ram \in Window /\ live \in [Field -> Value]
    /\ dirty \in BOOLEAN /\ have_table \in BOOLEAN
    /\ disk_hash \in Disk \cup {NoDisk} /\ next \in Disk \cup {NoDisk}
    /\ disk_slot \in 0..EntryCount /\ evict_i \in Entry
    /\ bram_addr \in Place /\ at \in Place /\ src \in 0..NoSource
    /\ pc \in {"loop", "claim", "choose", "write", "switch", "apply"}
    /\ whole \in [Entry -> BOOLEAN] /\ raced \in BOOLEAN

\* "The softcore only keeps it current": with nothing pending, mounting the
\* disk in context again, or switching off and on, brings the same settings
\* back, however edits fell between the stores of a write.
Current == (pc = "loop" /\ ~dirty) => live = Resolve(disk_hash)

\* A disk has one profile: settings_service never gives a disk a second entry
\* that table_find would not return.
OneProfile ==
    (have_table /\ pc # "claim") =>
        \A d \in Disk : \A e, f \in Owned(d) : e = f

\* "~hash is the entry's validity tag, so a half-written or stale slot never
\* matches": between two writes every slot that validates is one that
\* settings_service wrote to the end, and neither residue nor half an entry.
ProfileWhole ==
    (have_table /\ pc \in {"loop", "switch"}) =>
        \A e \in Entry : Valid(e) => whole[e]

\* "Pending edits belong to the outgoing disk": when the context changes, what
\* was live is what the outgoing disk gets back, unless an edit came during
\* the mount.
OutgoingSaved ==
    [][ (pc = "switch" /\ pc' = "apply" /\ ~raced) =>
            live = Resolve(disk_hash) ]_vars

\* Writing the profile of one disk leaves those of the others alone; one is
\* given up only for a disk that has no entry, in a table that is full.
OthersKept ==
    [][ (have_table /\ pc # "claim") =>
          \A d \in Disk \ {disk_hash} : \A e \in Owned(d) :
              ram'[e] # ram[e] => (Free = {} /\ Owned(disk_hash) = {}) ]_vars

\* Once the user leaves the machine alone, the save window catches up with what
\* is live and stays so, whatever was under way: the flag is not lost between
\* an edit and the write that clears it.
EditSaved ==
    <>[][Pass]_vars => <>[](live = Resolve(disk_hash))
=============================================================================
