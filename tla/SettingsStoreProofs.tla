------------------------- MODULE SettingsStoreProofs ------------------------
(* SettingsStore, for any number of disks, entries and fields, when nothing *)
(* moves the address register under a write (~OsdInserts) and no power cut  *)
(* falls into one (~TornSaves): the hypotheses Undisturbed of the theorems. *)
(* Without the second ProfileWhole fails: an entry validates from its second *)
(* store on, before the block behind it is there.                            *)
EXTENDS SettingsStore, WellFoundedInduction, TLAPS

Undisturbed == ~OsdInserts /\ ~TornSaves

-----------------------------------------------------------------------------
(* The inductive invariant.                                                 *)

\* Where the main loop may be, and that the address register is there too.
PlaceInv ==
    /\ pc \in {"claim", "choose", "write"} => have_table
    /\ pc = "claim" => /\ at[1] \in Entry \/ at = <<0, Top>>
                       /\ disk_slot = 0
                       /\ Loads \/ bram_addr = at
    /\ pc = "write" => /\ IF disk_hash = NoDisk
                          THEN at[1] = 0 /\ at[2] # Top
                          ELSE at[1] = disk_slot /\ disk_slot # 0
                       /\ Loads \/ bram_addr = at
    /\ pc = "switch" => next \in Disk
    /\ pc = "apply" => /\ at[1] = src /\ at[2] \in Field
                       /\ disk_hash \in Disk /\ src = SourceOf(disk_hash)
                       /\ IF src = NoSource THEN bram_addr = <<0, 1>>
                          ELSE bram_addr = <<src, BlockAt(src) + at[2] - 1>>

\* have_table mirrors the magic in the window.
MagicInv ==
    /\ ~have_table => ram[0][Top] # Table /\ disk_slot = 0
    /\ have_table /\ ~(pc = "claim" /\ at = <<0, Top>>) => ram[0][Top] = Table

\* Claiming the table leaves no hash behind it.
ClaimInv ==
    pc = "claim" =>
        \A e \in Entry : (e < at[1] \/ (e = at[1] /\ at[2] > 0)) =>
                             ram[e][0] = Val(Zero)

\* disk_slot is the one entry of the disk in context, or about to be.
SlotInv ==
    disk_slot # 0 =>
        /\ disk_hash \in Disk
        /\ Owned(disk_hash) \subseteq {disk_slot}
        /\ (pc = "write" /\ at[2] = 0) =>
               \/ disk_slot \in Owned(disk_hash) \cup Free
               \/ Free = {} /\ Owned(disk_hash) = {}
        /\ (pc = "write" /\ at[2] = 1) => ram[disk_slot][0] = Hash(disk_hash)
        /\ ~(pc = "write" /\ at[2] \in {0, 1}) =>
               disk_slot \in Owned(disk_hash)

\* An entry that validates was written through, or is being written.
WholeInv ==
    (have_table /\ pc # "claim") =>
        \A e \in Entry : Valid(e) => whole[e] \/ (pc = "write" /\ at[1] = e)

\* What has been written of the live settings, or applied of a profile, still
\* agrees unless an edit has raised dirty since.
FieldInv ==
    /\ (pc \in {"claim", "choose", "write", "switch"} /\ dirty) => raced
    /\ (pc = "write" /\ at[1] = 0 /\ at[2] > 0) => ram[0][0] = Head
    /\ (pc = "write" /\ ~dirty) =>
           \A f \in Field : BlockAt(at[1]) + f - 1 < at[2] =>
               ram[at[1]][BlockAt(at[1]) + f - 1] = Val(live[f])
    /\ (pc = "apply" /\ ~dirty) =>
           \A f \in Field : f < at[2] => live[f] = Block(src)[f]
    /\ (pc = "loop" /\ ~dirty) => live = Resolve(disk_hash)
    /\ (pc = "switch" /\ ~dirty) => live = Resolve(disk_hash)

StoreInv ==
    /\ TypeOK /\ PlaceInv /\ MagicInv /\ ClaimInv /\ SlotInv /\ OneProfile
    /\ WholeInv /\ FieldInv

-----------------------------------------------------------------------------
(* Words and fields.                                                        *)

LEMMA WordsApart ==
    /\ \A d, e : Hash(d) = Hash(e) => d = e
    /\ \A d, e : NotHash(d) = NotHash(e) => d = e
    /\ \A d, e : Hash(d) # NotHash(e)
    /\ \A d, v : Hash(d) # Val(v) /\ NotHash(d) # Val(v)
    /\ \A d : Hash(d) # Head /\ Hash(d) # Table /\ NotHash(d) # Head
    /\ \A v : Val(v) # Head /\ Val(v) # Table
    /\ \A u, v : Val(u) = Val(v) => u = v
    /\ Head # Table
  BY DEF Hash, NotHash, Val, Head, Table

LEMMA FieldRead ==
    /\ \A v \in Value : \A x : AsField(Val(v), x) = v
    /\ \A w : \A x \in Value : AsField(w, x) \in Value
    /\ \A w, x : AsField(w, AsField(w, x)) = AsField(w, x)
<1>1. ASSUME NEW v \in Value, NEW x PROVE AsField(Val(v), x) = v
  BY DEF AsField, Val
<1>2. ASSUME NEW w, NEW x \in Value PROVE AsField(w, x) \in Value
  BY DEF AsField, Val
<1>3. ASSUME NEW w, NEW x PROVE AsField(w, AsField(w, x)) = AsField(w, x)
  BY DEF AsField
<1> QED BY <1>1, <1>2, <1>3

\* A set of entries that is not empty has a first one.
LEMMA FirstIn == ASSUME NEW S, S \subseteq Entry, S # {}
                 PROVE  First(S) \in S
<1>1. S \subseteq Nat
  BY StoreAssumption DEF Entry
<1> DEFINE less == {ss \in Nat \X Nat : ss[1] < ss[2]}
<1>2. IsWellFoundedOn(less, Nat)
  BY NatLessThanWellFounded DEF OpToRel
<1>3. PICK x \in S : \A y \in S : ~(<<y, x>> \in less)
  <2> HIDE DEF less
  <2> QED BY <1>1, <1>2, WFMin
<1>4. ASSUME NEW y \in S PROVE x <= y
  <2>1. x \in Nat /\ y \in Nat
    BY <1>1
  <2>2. y < x => <<y, x>> \in less
    BY <2>1
  <2> QED BY <1>3, <2>1, <2>2
<1> QED BY <1>4 DEF First

LEMMA FirstOnly == ASSUME NEW e \in Entry PROVE First({e}) = e
<1>1. \A x : (x \in {e} /\ \A f \in {e} : x <= f) <=> x = e
  BY StoreAssumption DEF Entry
<1> QED BY <1>1 DEF First

\* What reading depends on.
LEMMA ReadsKept ==
    ASSUME ram' = ram, have_table' = have_table, NEW d
    PROVE  /\ Owned(d)' = Owned(d) /\ Free' = Free
           /\ table_find(d)' = table_find(d) /\ SourceOf(d)' = SourceOf(d)
  BY DEF Owned, Free, Valid, table_find, SourceOf

LEMMA FindRange ==
    ASSUME NEW d PROVE /\ table_find(d) \in 0..EntryCount
                       /\ table_find(d) # 0 => table_find(d) \in Owned(d)
                       /\ (table_find(d) = 0 /\ have_table) => Owned(d) = {}
<1>1. Owned(d) \subseteq Entry
  BY DEF Owned
<1>2. CASE have_table /\ Owned(d) # {}
  <2>1. table_find(d) \in Owned(d)
    BY <1>1, <1>2, FirstIn DEF table_find
  <2> QED BY <1>1, <2>1, StoreAssumption DEF Entry
<1>3. CASE ~(have_table /\ Owned(d) # {})
  BY <1>3, StoreAssumption DEF table_find, First
<1> QED BY <1>2, <1>3

LEMMA SourceRange ==
    ASSUME NEW d PROVE SourceOf(d) \in Area \cup {NoSource}
  BY FindRange, StoreAssumption DEF SourceOf, Area, NoSource

-----------------------------------------------------------------------------
(* The initial states.                                                      *)

LEMMA StoreInit == Init => StoreInv
<1> SUFFICES ASSUME Init PROVE StoreInv
  OBVIOUS
<1> USE StoreAssumption
<1>1. ram \in Window /\ ram[0][0] # Head /\ ram[0][Top] # Table
  <2>1. Blank \in Window
    BY DEF Blank, Window, Word, Val
  <2>2. Blank[0][0] # Head /\ Blank[0][Top] # Table
    BY WordsApart DEF Blank, Area, Top
  <2> QED BY <2>1, <2>2 DEF Init
<1>2. /\ <<0, Top>> \in Place /\ <<0, 0>> \in Place
      /\ 0 \in 0..EntryCount /\ 1 \in Entry /\ NoSource \in 0..NoSource
  BY DEF Place, Top, Entry, NoSource
<1>3. TypeOK
  BY <1>1, <1>2 DEF Init, TypeOK
<1>4. live = Resolve(disk_hash)
  BY <1>1 DEF Init, Resolve, SourceOf, Block, NoSource
<1>5. PlaceInv /\ MagicInv /\ ClaimInv /\ SlotInv /\ OneProfile /\ WholeInv
  BY <1>1
  DEF Init, PlaceInv, MagicInv, ClaimInv, SlotInv, OneProfile, WholeInv
<1>6. FieldInv
  BY <1>4 DEF Init, FieldInv
<1> QED BY <1>3, <1>5, <1>6 DEF StoreInv

-----------------------------------------------------------------------------
(* The interrupt only moves live and dirty; the history variables follow.   *)

LEMMA EditStep ==
    ASSUME StoreInv, live' \in [Field -> Value], dirty' = TRUE, raced' = TRUE,
           UNCHANGED <<ram, ctxVars, bram_addr, mainVars, whole>>
    PROVE  StoreInv'
<1> USE DEF ctxVars, mainVars
<1>1. /\ \A d : Owned(d)' = Owned(d) /\ SourceOf(d)' = SourceOf(d)
      /\ Free' = Free
  BY ReadsKept
<1>2. TypeOK'
  BY DEF StoreInv, TypeOK
<1>3. Loads' = Loads
  BY DEF Loads, BlockAt
<1>4. PlaceInv'
  BY <1>1, <1>3 DEF StoreInv, PlaceInv, BlockAt
<1>5. MagicInv' /\ ClaimInv'
  BY DEF StoreInv, MagicInv, ClaimInv
<1>6. SlotInv' /\ OneProfile' /\ WholeInv'
  BY <1>1 DEF StoreInv, SlotInv, OneProfile, WholeInv, Valid
<1>7. FieldInv'
  BY DEF StoreInv, FieldInv
<1> QED BY <1>2, <1>4, <1>5, <1>6, <1>7 DEF StoreInv

LEMMA EnterStep ==
    ASSUME StoreInv, NEW d \in Disk \cup {NoDisk}, Enter(d)
    PROVE  StoreInv'
<1> USE StoreAssumption DEF Enter
<1>1. \A x : Owned(x)' = Owned(x)
  BY DEF Owned
<1>2. Free' = Free
  BY <1>1 DEF Free, Valid
<1>3. /\ pc = "loop" /\ ~dirty' /\ have_table' = (have_table \/ dirty)
      /\ dirty \in BOOLEAN /\ have_table \in BOOLEAN
  BY DEF StoreInv, TypeOK
<1>4. TypeOK'
  <2>1. <<0, Top>> \in Place
    BY DEF Place, Top
  <2> QED BY <1>3, <2>1 DEF StoreInv, TypeOK
<1>5. PlaceInv'
  BY <1>3 DEF StoreInv, PlaceInv, MagicInv, Loads
<1>6. MagicInv' /\ ClaimInv'
  BY <1>3 DEF StoreInv, MagicInv, ClaimInv, Entry
<1>7. SlotInv' /\ OneProfile' /\ WholeInv'
  BY <1>1, <1>2, <1>3 DEF StoreInv, SlotInv, OneProfile, WholeInv, Valid
<1>8. FieldInv'
  <2>1. CASE pc' = "switch"
    <3>1. ~dirty /\ have_table' = have_table
      BY <1>3, <2>1
    <3>2. SourceOf(disk_hash)' = SourceOf(disk_hash)
      BY <3>1, ReadsKept DEF SourceOf, table_find, Owned
    <3>3. Resolve(disk_hash)' = Resolve(disk_hash)
      BY <3>2 DEF Resolve, Block
    <3> QED BY <1>3, <2>1, <3>1, <3>3 DEF StoreInv, FieldInv
  <2>2. CASE pc' # "switch"
    BY <1>3, <2>2 DEF FieldInv
  <2> QED BY <2>1, <2>2
<1> QED BY <1>4, <1>5, <1>6, <1>7, <1>8 DEF StoreInv

LEMMA ChooseStep ==
    ASSUME StoreInv, Choose
    PROVE  StoreInv'
<1> USE StoreAssumption
<1> DEFINE found == IF disk_slot # 0 THEN disk_slot ELSE table_find(disk_hash)
           slot  == IF found # 0 THEN found ELSE table_alloc
<1>0. /\ pc = "choose" /\ pc' = "write" /\ have_table
      /\ UNCHANGED <<ram, live, dirty, have_table, disk_hash, bram_addr, next,
                     src, whole, raced>>
  BY DEF Choose, StoreInv, PlaceInv
<1>1. /\ \A x : Owned(x)' = Owned(x) /\ SourceOf(x)' = SourceOf(x)
      /\ Free' = Free
  BY <1>0, ReadsKept
<1>2. CASE disk_hash = NoDisk
  <2>1. at' = <<0, 0>> /\ UNCHANGED <<disk_slot, evict_i>>
    BY <1>2 DEF Choose
  <2>2. TypeOK'
    BY <1>0, <2>1 DEF StoreInv, TypeOK, Place, Top
  <2>3. PlaceInv' /\ MagicInv' /\ ClaimInv'
    BY <1>0, <1>2, <2>1
    DEF StoreInv, PlaceInv, MagicInv, ClaimInv, Loads, Top
  <2>4. disk_slot = 0
    BY <1>2 DEF StoreInv, SlotInv
  <2>5. SlotInv' /\ OneProfile' /\ WholeInv'
    BY <1>0, <1>1, <2>1, <2>4
    DEF StoreInv, SlotInv, OneProfile, WholeInv, Valid
  <2>6. FieldInv'
    BY <1>0, <2>1 DEF StoreInv, FieldInv, BlockAt, Field
  <2> QED BY <2>2, <2>3, <2>5, <2>6 DEF StoreInv
<1>3. CASE disk_hash # NoDisk
  <2>0. disk_hash \in Disk
    BY <1>3 DEF StoreInv, TypeOK
  <2>1. /\ at' = <<slot, 0>> /\ disk_slot' = slot
        /\ evict_i' = IF found = 0 /\ Free = {} THEN NextVictim ELSE evict_i
    BY <1>3 DEF Choose
  <2>2. /\ found \in 0..EntryCount
        /\ found # 0 => Owned(disk_hash) \subseteq {found}
                        /\ found \in Owned(disk_hash)
        /\ found = 0 => Owned(disk_hash) = {}
    <3>1. CASE disk_slot # 0
      BY <1>0, <3>1 DEF StoreInv, SlotInv, TypeOK
    <3>2. CASE disk_slot = 0
      BY <1>0, <2>0, <3>2, FindRange DEF StoreInv, OneProfile
    <3> QED BY <3>1, <3>2
  <2>3. /\ table_alloc \in Entry
        /\ table_alloc \in Free \/ Free = {}
    <3>1. Free \subseteq Entry
      BY DEF Free
    <3> QED BY <3>1, FirstIn DEF table_alloc, StoreInv, TypeOK
  <2>4. /\ slot \in Entry /\ Owned(disk_hash) \subseteq {slot}
        /\ slot \in Owned(disk_hash) \cup Free
           \/ (Free = {} /\ Owned(disk_hash) = {})
    <3>1. CASE found = 0
      BY <2>2, <2>3, <3>1
    <3>2. CASE found # 0
      BY <2>2, <3>2 DEF Entry
    <3> QED BY <3>1, <3>2
  <2> HIDE DEF slot, found
  <2>5. NextVictim \in Entry
    BY DEF NextVictim, StoreInv, TypeOK, Entry
  <2>6. TypeOK'
    <3>1. <<slot, 0>> \in Place /\ slot \in 0..EntryCount
      BY <2>4 DEF Place, Top, Entry
    <3> QED BY <1>0, <2>1, <2>5, <3>1 DEF StoreInv, TypeOK
  <2>7. PlaceInv' /\ MagicInv' /\ ClaimInv'
    BY <1>0, <1>3, <2>1, <2>4
    DEF StoreInv, PlaceInv, MagicInv, ClaimInv, Loads, Entry
  <2>8. SlotInv'
    BY <1>0, <1>1, <2>0, <2>1, <2>4 DEF SlotInv
  <2>9. OneProfile' /\ WholeInv'
    BY <1>0, <1>1 DEF StoreInv, OneProfile, WholeInv, Valid
  <2>10. FieldInv'
    <3>1. BlockAt(slot) = 2 /\ slot # 0
      BY <2>4 DEF BlockAt, Entry
    <3>2. \A f \in Field : ~(BlockAt(slot) + f - 1 < 0)
      BY <3>1 DEF Field
    <3> QED BY <1>0, <2>1, <3>1, <3>2 DEF StoreInv, FieldInv
  <2> QED BY <2>6, <2>7, <2>8, <2>9, <2>10 DEF StoreInv
<1> QED BY <1>2, <1>3

-----------------------------------------------------------------------------
(* The stores.  Each lands on the word the program is at.                   *)

LEMMA StoreLands ==
    ASSUME StoreInv, Store
    PROVE  /\ at[1] \in Area /\ at[2] \in 0..Top /\ at = <<at[1], at[2]>>
           /\ Stored \in Word
           /\ ram' \in Window
           /\ \A a \in Area, k \in 0..Top :
                 ram'[a][k] = IF a = at[1] /\ k = at[2] THEN Stored
                              ELSE ram[a][k]
           /\ bram_addr' = After(at) /\ at' = After(at)
           /\ After(at) \in Place
<1> USE StoreAssumption
<1>1. /\ at \in Place /\ ram \in Window /\ live \in [Field -> Value]
      /\ pc \in {"claim", "write"}
  BY DEF StoreInv, TypeOK, Store
<1>2. Target = at
  BY <1>1 DEF Target, StoreInv, PlaceInv
<1>3. /\ at[1] \in 0..(EntryCount + 1) /\ at[2] \in 0..Top
      /\ at = <<at[1], at[2]>>
  BY <1>1 DEF Place
<1>4. at[1] \in Area
  <2>1. CASE pc = "claim"
    BY <2>1 DEF StoreInv, PlaceInv, Area, Entry
  <2>2. CASE pc = "write"
    BY <2>2 DEF StoreInv, PlaceInv, TypeOK, Area
  <2> QED BY <1>1, <2>1, <2>2
<1>5. Stored \in Word
  <2>1. CASE pc = "claim"
    BY <2>1 DEF Stored, Word
  <2>2. CASE pc = "write" /\ at[1] = 0
    <3>1. at[2] # 0 => at[2] \in Field
      BY <1>3, <2>2, StoreInv DEF StoreInv, PlaceInv, TypeOK, SlotInv, Field, Top
    <3>2. at[2] # 0 => live[at[2]] \in Value
      BY <1>1, <3>1
    <3> QED BY <1>3, <2>2, <3>2 DEF Stored, Word
  <2>3. CASE pc = "write" /\ at[1] # 0
    <3>1. disk_hash \in Disk
      BY <2>3 DEF StoreInv, PlaceInv, TypeOK
    <3>2. at[2] \notin {0, 1} => at[2] - 1 \in Field
      BY <1>3 DEF Field, Top
    <3>3. at[2] \notin {0, 1} => live[at[2] - 1] \in Value
      BY <1>1, <3>2
    <3> QED BY <1>3, <2>3, <3>1, <3>3 DEF Stored, Word
  <2> QED BY <1>1, <2>1, <2>2, <2>3
<1>6. ram' = [ram EXCEPT ![at[1]][at[2]] = Stored]
  BY <1>2, <1>4 DEF Store
<1>7. ram' \in Window
  BY <1>1, <1>3, <1>4, <1>5, <1>6 DEF Window
<1>8. \A a \in Area, k \in 0..Top :
        ram'[a][k] = IF a = at[1] /\ k = at[2] THEN Stored ELSE ram[a][k]
  BY <1>1, <1>3, <1>4, <1>6 DEF Window
<1>9. After(at) \in Place
  BY <1>3, <1>4 DEF After, Place, Area, Top
<1> QED BY <1>2, <1>3, <1>4, <1>5, <1>7, <1>8, <1>9 DEF Store

LEMMA ClaimStep ==
    ASSUME StoreInv, Store, pc = "claim"
    PROVE  StoreInv'
<1> USE StoreAssumption
<1> DEFINE last == at = <<EntryCount, Top>>
<1>1. /\ at[1] \in Area /\ at[2] \in 0..Top /\ at = <<at[1], at[2]>>
      /\ ram' \in Window
      /\ \A a \in Area, k \in 0..Top :
            ram'[a][k] = IF a = at[1] /\ k = at[2] THEN Stored ELSE ram[a][k]
      /\ bram_addr' = After(at) /\ at' = After(at) /\ After(at) \in Place
  BY StoreLands
<1>2. /\ pc' = IF last THEN "choose" ELSE "claim"
      /\ whole' = whole
      /\ UNCHANGED <<live, dirty, ctxVars, next, src, raced>>
  BY DEF Store
<1>3. /\ at[1] \in Entry \/ at = <<0, Top>>
      /\ disk_slot = 0 /\ have_table
  BY DEF StoreInv, PlaceInv
<1>4. TypeOK'
  BY <1>1, <1>2 DEF StoreInv, TypeOK, ctxVars
<1>5. ~last => at'[1] \in Entry
  BY <1>1, <1>3 DEF After, Entry, Top
<1>6. PlaceInv'
  BY <1>1, <1>2, <1>3, <1>5 DEF PlaceInv, ctxVars
<1>7. MagicInv'
  <2>1. ram'[0][Top] = Table
    <3>1. 0 \in Area /\ Top \in 0..Top
      BY DEF Area, Top
    <3>2. CASE at = <<0, Top>>
      BY <1>1, <3>1, <3>2 DEF Stored
    <3>3. CASE at # <<0, Top>>
      BY <1>1, <1>3, <3>1, <3>3 DEF StoreInv, MagicInv, Entry
    <3> QED BY <3>2, <3>3
  <2> QED BY <1>2, <1>3, <2>1 DEF MagicInv, ctxVars
<1>8. \A e \in Entry : (e < at'[1] \/ (e = at'[1] /\ at'[2] > 0)) =>
                           ram'[e][0] = Val(Zero)
  <2> SUFFICES ASSUME NEW e \in Entry, e < at'[1] \/ (e = at'[1] /\ at'[2] > 0)
               PROVE  ram'[e][0] = Val(Zero)
    OBVIOUS
  <2>1. e \in Area /\ 0 \in 0..Top /\ e # 0
    BY DEF Entry, Area, Top
  <2>2. CASE e = at[1] /\ at[2] = 0
    BY <1>1, <2>1, <2>2 DEF Stored
  <2>3. CASE ~(e = at[1] /\ at[2] = 0)
    <3>1. e < at[1] \/ (e = at[1] /\ at[2] > 0)
      BY <1>1, <2>3 DEF After, Area, Entry, Top
    <3>2. ram[e][0] = Val(Zero)
      BY <3>1 DEF StoreInv, ClaimInv
    <3> QED BY <1>1, <2>1, <2>3, <3>2
  <2> QED BY <2>2, <2>3
<1>9. ClaimInv'
  BY <1>8 DEF ClaimInv
<1>10. last => \A d : Owned(d)' = {}
  <2> SUFFICES ASSUME last, NEW d, NEW e \in Entry PROVE ram'[e][0] # Hash(d)
    BY DEF Owned
  <2>1. e < at'[1]
    BY <1>1 DEF After, Entry
  <2> QED BY <1>8, <2>1, WordsApart
<1>11. SlotInv' /\ OneProfile' /\ WholeInv'
  BY <1>2, <1>3, <1>10 DEF SlotInv, OneProfile, WholeInv, Valid, ctxVars
<1>12. FieldInv'
  BY <1>2 DEF StoreInv, FieldInv
<1> QED BY <1>4, <1>6, <1>7, <1>9, <1>11, <1>12 DEF StoreInv

\* Writing the global blob touches no entry, and not the table's magic.
LEMMA BlobStep ==
    ASSUME StoreInv, Store, pc = "write", disk_hash = NoDisk
    PROVE  StoreInv'
<1> USE StoreAssumption
<1> DEFINE last == at = <<0, BlockWords>>
<1>1. /\ at[1] \in Area /\ at[2] \in 0..Top /\ at = <<at[1], at[2]>>
      /\ ram' \in Window
      /\ \A a \in Area, k \in 0..Top :
            ram'[a][k] = IF a = at[1] /\ k = at[2] THEN Stored ELSE ram[a][k]
      /\ bram_addr' = After(at) /\ at' = After(at) /\ After(at) \in Place
  BY StoreLands
<1>2. at[1] = 0 /\ at[2] # Top /\ have_table
  BY DEF StoreInv, PlaceInv
<1>3. /\ pc' = IF ~last THEN "write"
               ELSE IF next = NoDisk THEN "loop" ELSE "switch"
      /\ whole' = whole
      /\ UNCHANGED <<live, dirty, ctxVars, next, src, raced>>
  BY <1>2 DEF Store
<1>4. at' = <<0, at[2] + 1>> /\ at[2] \in 0..BlockWords
  BY <1>1, <1>2 DEF After, Top
<1>5. TypeOK'
  BY <1>1, <1>3 DEF StoreInv, TypeOK, ctxVars
<1>6. PlaceInv'
  BY <1>1, <1>2, <1>3, <1>4 DEF StoreInv, TypeOK, PlaceInv, ctxVars, Top
<1>7. MagicInv' /\ ClaimInv'
  <2>1. ram'[0][Top] = ram[0][Top]
    BY <1>1, <1>2 DEF Area, Top
  <2> QED BY <1>2, <1>3, <2>1 DEF StoreInv, MagicInv, ClaimInv, ctxVars
<1>8. /\ \A d : Owned(d)' = Owned(d)
      /\ disk_slot = 0
  <2>1. \A e \in Entry : ram'[e][0] = ram[e][0] /\ ram'[e][1] = ram[e][1]
    BY <1>1, <1>2 DEF Area, Entry, Top
  <2> QED BY <2>1 DEF Owned, StoreInv, SlotInv
<1>9. SlotInv' /\ OneProfile' /\ WholeInv'
  BY <1>2, <1>3, <1>4, <1>8
  DEF StoreInv, SlotInv, OneProfile, WholeInv, Valid, ctxVars, Entry
<1>10. ram'[0][0] = Head
  BY <1>1, <1>2, WordsApart DEF StoreInv, FieldInv, Stored, Area, Top
<1>11. ~dirty => \A f \in Field : f < at'[2] => ram'[0][f] = Val(live[f])
  <2> SUFFICES ASSUME ~dirty, NEW f \in Field, f <= at[2]
               PROVE  ram'[0][f] = Val(live[f])
    BY <1>4 DEF Field
  <2>1. 0 \in Area /\ f \in 0..Top /\ f # 0
    BY DEF Area, Field, Top
  <2>2. CASE f = at[2]
    BY <1>1, <1>2, <2>1, <2>2 DEF Stored
  <2>3. CASE f # at[2]
    <3>1. BlockAt(at[1]) + f - 1 = f /\ f < at[2]
      BY <1>2, <1>4, <2>3 DEF BlockAt, Field
    <3>2. ram[0][f] = Val(live[f])
      BY <1>2, <3>1 DEF StoreInv, FieldInv
    <3> QED BY <1>1, <2>1, <2>3, <3>2
  <2> QED BY <2>2, <2>3
<1>12. last /\ ~dirty => live' = Resolve(disk_hash)'
  <2> SUFFICES ASSUME last, ~dirty PROVE live' = Resolve(disk_hash)'
    OBVIOUS
  <2>1. Resolve(disk_hash)' =
          [f \in Field |-> AsField(ram'[0][f], live[f])]
    <3>1. disk_hash' = NoDisk /\ live' = live
      BY <1>3 DEF ctxVars
    <3>2. SourceOf(disk_hash)' = 0
      BY <3>1, <1>10 DEF SourceOf
    <3>3. \A f \in Field : BlockAt(0) + f - 1 = f
      BY DEF BlockAt, Field
    <3> QED BY <3>1, <3>2, <3>3 DEF Resolve, Block, NoSource
  <2>2. \A f \in Field : AsField(ram'[0][f], live[f]) = live[f]
    <3> SUFFICES ASSUME NEW f \in Field PROVE AsField(ram'[0][f], live[f]) = live[f]
      OBVIOUS
    <3>1. f < at'[2] /\ live[f] \in Value
      BY <1>4 DEF Field, StoreInv, TypeOK
    <3> QED BY <1>11, <3>1, FieldRead
  <2> QED BY <1>3, <2>1, <2>2 DEF StoreInv, TypeOK
<1>13. FieldInv'
  <2>1. \A f \in Field : BlockAt(0) + f - 1 = f
    BY DEF BlockAt, Field
  <2> QED
    BY <1>3, <1>4, <1>10, <1>11, <1>12, <2>1 DEF StoreInv, FieldInv, BlockAt
<1> QED BY <1>5, <1>6, <1>7, <1>9, <1>13 DEF StoreInv

\* Writing an entry changes who owns that entry, and nothing about the others.
LEMMA EntryOwned ==
    ASSUME StoreInv, Store, pc = "write", disk_hash # NoDisk
    PROVE  /\ at[1] = disk_slot /\ disk_slot \in Entry /\ disk_hash \in Disk
           /\ \A e \in Entry \ {disk_slot} : ram'[e] = ram[e]
           /\ \A d : Owned(d)' \ {disk_slot} = Owned(d) \ {disk_slot}
           /\ \A d : disk_slot \in Owned(d)' => d = disk_hash
           /\ at[2] = 0 => ram'[disk_slot][0] = Hash(disk_hash)
           /\ at[2] # 0 => disk_slot \in Owned(disk_hash)'
<1> USE StoreAssumption
<1>1. /\ at[1] \in Area /\ at[2] \in 0..Top /\ at = <<at[1], at[2]>>
      /\ ram' \in Window
      /\ \A a \in Area, k \in 0..Top :
            ram'[a][k] = IF a = at[1] /\ k = at[2] THEN Stored ELSE ram[a][k]
  BY StoreLands
<1>2. at[1] = disk_slot /\ disk_slot \in Entry /\ disk_hash \in Disk
  BY DEF StoreInv, PlaceInv, TypeOK, Entry
<1>3. /\ Entry \subseteq Area /\ 0 \in 0..Top /\ 1 \in 0..Top /\ 0 \notin Entry
  BY DEF Entry, Area, Top
<1>4. \A e \in Entry \ {disk_slot} : ram'[e] = ram[e]
  <2> SUFFICES ASSUME NEW e \in Entry, e # disk_slot PROVE ram'[e] = ram[e]
    OBVIOUS
  <2>1. ram'[e] \in [0..Top -> Word] /\ ram[e] \in [0..Top -> Word]
    BY <1>1, <1>3 DEF StoreInv, TypeOK, Window
  <2>2. \A k \in 0..Top : ram'[e][k] = ram[e][k]
    BY <1>1, <1>2, <1>3
  <2>3. /\ ram'[e] = [k \in 0..Top |-> ram'[e][k]]
        /\ ram[e] = [k \in 0..Top |-> ram[e][k]]
    BY <2>1
  <2> QED BY <2>2, <2>3, Zenon
<1>5. \A d : Owned(d)' \ {disk_slot} = Owned(d) \ {disk_slot}
  BY <1>4 DEF Owned
<1>6. /\ ram'[disk_slot][0] = IF at[2] = 0 THEN Stored ELSE ram[disk_slot][0]
      /\ ram'[disk_slot][1] = IF at[2] = 1 THEN Stored ELSE ram[disk_slot][1]
  BY <1>1, <1>2, <1>3
<1>7. /\ at[2] = 0 => Stored = Hash(disk_hash)
      /\ at[2] = 1 => Stored = NotHash(disk_hash)
  BY <1>1, <1>2, <1>3 DEF Stored
<1>8. /\ at[2] = 1 => ram[disk_slot][0] = Hash(disk_hash)
      /\ at[2] \notin {0, 1} => /\ ram[disk_slot][0] = Hash(disk_hash)
                                /\ ram[disk_slot][1] = NotHash(disk_hash)
  BY <1>2, <1>3 DEF StoreInv, SlotInv, Owned
<1>9. ram'[disk_slot][0] = Hash(disk_hash)
  BY <1>6, <1>7, <1>8
<1>10. at[2] # 0 => ram'[disk_slot][1] = NotHash(disk_hash)
  BY <1>6, <1>7, <1>8
<1>11. \A d : disk_slot \in Owned(d)' => d = disk_hash
  BY <1>9, WordsApart DEF Owned
<1>12. at[2] # 0 => disk_slot \in Owned(disk_hash)'
  <2> SUFFICES ASSUME at[2] # 0 PROVE disk_slot \in Owned(disk_hash)'
    OBVIOUS
  <2>1. disk_hash' = disk_hash
    BY DEF Store, ctxVars
  <2> QED BY <1>2, <1>9, <1>10, <2>1 DEF Owned
<1> QED BY <1>2, <1>4, <1>5, <1>9, <1>11, <1>12

LEMMA EntryStep ==
    ASSUME StoreInv, Store, pc = "write", disk_hash # NoDisk
    PROVE  StoreInv'
<1> USE StoreAssumption
<1> DEFINE last == at[2] = Top
<1>1. /\ at[1] \in Area /\ at[2] \in 0..Top /\ at = <<at[1], at[2]>>
      /\ ram' \in Window
      /\ \A a \in Area, k \in 0..Top :
            ram'[a][k] = IF a = at[1] /\ k = at[2] THEN Stored ELSE ram[a][k]
      /\ bram_addr' = After(at) /\ at' = After(at) /\ After(at) \in Place
  BY StoreLands
<1>2. /\ at[1] = disk_slot /\ disk_slot \in Entry /\ disk_hash \in Disk
      /\ \A d : Owned(d)' \ {disk_slot} = Owned(d) \ {disk_slot}
      /\ \A d : disk_slot \in Owned(d)' => d = disk_hash
      /\ at[2] = 0 => ram'[disk_slot][0] = Hash(disk_hash)
      /\ at[2] # 0 => disk_slot \in Owned(disk_hash)'
  BY EntryOwned
<1>3. have_table /\ disk_slot # 0 /\ 2 <= Top
  BY <1>2 DEF StoreInv, PlaceInv, Entry, Top
<1>4. /\ pc' = IF ~last THEN "write"
               ELSE IF next = NoDisk THEN "loop" ELSE "switch"
      /\ whole' = [whole EXCEPT ![disk_slot] = last]
      /\ UNCHANGED <<live, dirty, have_table, disk_hash, disk_slot, evict_i,
                     next, src, raced>>
  BY <1>1, <1>2, <1>3 DEF Store, ctxVars
<1>5. at' = IF last THEN <<disk_slot + 1, 0>> ELSE <<disk_slot, at[2] + 1>>
  BY <1>1, <1>2 DEF After
<1>6. TypeOK'
  BY <1>1, <1>4 DEF StoreInv, TypeOK
<1>7. PlaceInv'
  BY <1>1, <1>2, <1>3, <1>4, <1>5 DEF StoreInv, TypeOK, PlaceInv
<1>8. MagicInv' /\ ClaimInv'
  <2>1. ram'[0][Top] = ram[0][Top]
    BY <1>1, <1>2, <1>3 DEF Area, Top
  <2> QED BY <1>3, <1>4, <2>1 DEF StoreInv, MagicInv, ClaimInv
<1>9. \A d : /\ Owned(d)' \subseteq Owned(d) \cup {disk_slot}
             /\ d # disk_hash => Owned(d)' \subseteq Owned(d)
  BY <1>2
<1>10. Owned(disk_hash)' \subseteq {disk_slot}
  <2>1. Owned(disk_hash) \subseteq {disk_slot} /\ disk_hash' = disk_hash
    BY <1>3, <1>4 DEF StoreInv, SlotInv
  <2> QED BY <1>9, <2>1
<1>11. SlotInv'
  <2>1. (at[2] = 0) => (pc' = "write" /\ at'[2] = 1)
    BY <1>1, <1>3, <1>4, <1>5
  <2>2. ~(pc' = "write" /\ at'[2] = 0)
    BY <1>1, <1>4, <1>5
  <2>3. (pc' = "write" /\ at'[2] = 1) => at[2] = 0
    BY <1>1, <1>4, <1>5
  <2> QED BY <1>2, <1>4, <1>10, <2>1, <2>2, <2>3 DEF SlotInv
<1>12. OneProfile'
  <2> SUFFICES ASSUME NEW d \in Disk PROVE \A e, f \in Owned(d)' : e = f
    BY DEF OneProfile
  <2>1. CASE d = disk_hash
    BY <1>4, <1>10, <2>1
  <2>2. CASE d # disk_hash
    BY <1>3, <1>9, <2>2 DEF StoreInv, OneProfile
  <2> QED BY <2>1, <2>2
<1>13. WholeInv'
  <2> SUFFICES ASSUME NEW e \in Entry, Valid(e)'
               PROVE  whole'[e] \/ (pc' = "write" /\ at'[1] = e)
    BY DEF WholeInv
  <2>1. CASE e = disk_slot
    BY <1>2, <1>4, <1>5, <2>1 DEF StoreInv, TypeOK
  <2>2. CASE e # disk_slot
    <3>1. Valid(e)
      BY <1>2, <2>2 DEF Valid
    <3>2. whole[e]
      BY <1>2, <1>3, <2>2, <3>1 DEF StoreInv, WholeInv
    <3> QED BY <1>4, <2>2, <3>2 DEF StoreInv, TypeOK
  <2> QED BY <2>1, <2>2
<1>14. ~dirty => \A f \in Field : f < at[2] =>
                     ram'[disk_slot][f + 1] = Val(live[f])
  <2> SUFFICES ASSUME ~dirty, NEW f \in Field, f < at[2]
               PROVE  ram'[disk_slot][f + 1] = Val(live[f])
    OBVIOUS
  <2>1. f + 1 \in 0..Top /\ f + 1 # 0 /\ f + 1 # 1
    BY DEF Field, Top
  <2>2. CASE f + 1 = at[2]
    <3>1. at[2] \notin {0, 1} /\ at[2] - 1 = f
      BY <2>1, <2>2 DEF Field
    <3>2. Stored = Val(live[f])
      BY <1>1, <1>2, <1>3, <3>1 DEF Stored
    <3> QED BY <1>1, <1>2, <2>1, <2>2, <3>2
  <2>3. CASE f + 1 # at[2]
    <3>1. BlockAt(at[1]) + f - 1 = f + 1 /\ f + 1 < at[2]
      BY <1>1, <1>2, <1>3, <2>3 DEF BlockAt, Field
    <3>2. ram[disk_slot][f + 1] = Val(live[f])
      BY <1>2, <3>1 DEF StoreInv, FieldInv
    <3> QED BY <1>1, <1>2, <2>1, <2>3, <3>2
  <2> QED BY <2>2, <2>3
<1>15. last /\ ~dirty => live' = Resolve(disk_hash)'
  <2> SUFFICES ASSUME last, ~dirty PROVE live' = Resolve(disk_hash)'
    OBVIOUS
  <2>1. Owned(disk_hash)' = {disk_slot}
    BY <1>2, <1>3, <1>4, <1>10
  <2>2. table_find(disk_hash)' = disk_slot
    BY <1>2, <1>3, <1>4, <2>1, FirstOnly DEF table_find
  <2>3. SourceOf(disk_hash)' = disk_slot
    BY <1>2, <1>3, <1>4, <2>2 DEF SourceOf
  <2>4. Resolve(disk_hash)' =
          [f \in Field |-> AsField(ram'[disk_slot][f + 1], live[f])]
    <3>1. disk_slot # NoSource /\ \A f \in Field : BlockAt(disk_slot) + f - 1 = f + 1
      BY <1>2, <1>3 DEF NoSource, Entry, BlockAt, Field
    <3> QED BY <1>4, <2>3, <3>1 DEF Resolve, Block
  <2>5. \A f \in Field : AsField(ram'[disk_slot][f + 1], live[f]) = live[f]
    <3> SUFFICES ASSUME NEW f \in Field
                 PROVE  AsField(ram'[disk_slot][f + 1], live[f]) = live[f]
      OBVIOUS
    <3>1. f < at[2] /\ live[f] \in Value
      BY DEF Field, StoreInv, TypeOK, Top
    <3> QED BY <1>14, <3>1, FieldRead
  <2>6. live = [f \in Field |-> live[f]] /\ live' = live
    BY <1>4 DEF StoreInv, TypeOK
  <2> QED BY <2>4, <2>5, <2>6
<1>16. FieldInv'
  <2>1. (pc' = "write" /\ ~dirty') =>
          \A f \in Field : BlockAt(at'[1]) + f - 1 < at'[2] =>
              ram'[at'[1]][BlockAt(at'[1]) + f - 1] = Val(live'[f])
    <3> SUFFICES ASSUME ~last, ~dirty, NEW f \in Field,
                        BlockAt(disk_slot) + f - 1 < at[2] + 1
                 PROVE  ram'[disk_slot][BlockAt(disk_slot) + f - 1] = Val(live[f])
      BY <1>4, <1>5
    <3>1. BlockAt(disk_slot) + f - 1 = f + 1
      BY <1>3 DEF BlockAt, Field
    <3>2. f < at[2]
      BY <1>1, <3>1 DEF Field
    <3> QED BY <1>14, <3>1, <3>2
  <2>2. (pc' = "write") => at'[1] # 0
    BY <1>3, <1>4, <1>5
  <2> QED BY <1>4, <1>15, <2>1, <2>2 DEF StoreInv, FieldInv
<1> QED BY <1>6, <1>7, <1>8, <1>11, <1>12, <1>13, <1>16 DEF StoreInv

-----------------------------------------------------------------------------
(* The context changes, and the incoming profile is applied.                *)

LEMMA SwitchStep ==
    ASSUME StoreInv, Switch
    PROVE  StoreInv'
<1> USE StoreAssumption
<1>1. /\ pc = "switch" /\ pc' = "apply" /\ next \in Disk
      /\ disk_hash' = next /\ disk_slot' = table_find(next)
      /\ src' = SourceOf(next)
      /\ at' = <<src', 1>> /\ bram_addr' = BlockAddr(src')
      /\ UNCHANGED <<ram, live, dirty, have_table, evict_i, next, whole, raced>>
  BY DEF Switch, StoreInv, PlaceInv
<1>2. /\ \A x : Owned(x)' = Owned(x) /\ SourceOf(x)' = SourceOf(x)
      /\ Free' = Free
  BY <1>1, ReadsKept
<1>3. src' \in Area \cup {NoSource}
  BY <1>1, SourceRange
<1>4. TypeOK'
  <2>1. at' \in Place /\ bram_addr' \in Place /\ src' \in 0..NoSource
    BY <1>1, <1>3 DEF Place, Area, NoSource, Top, BlockAddr, BlockAt
  <2>2. disk_slot' \in 0..EntryCount
    BY <1>1, FindRange
  <2> QED BY <1>1, <2>1, <2>2 DEF StoreInv, TypeOK
<1>5. PlaceInv'
  <2>1. src' = SourceOf(disk_hash)'
    BY <1>1, <1>2
  <2>2. at'[2] = 1 /\ at'[1] = src' /\ 1 \in Field
    BY <1>1 DEF Field
  <2>3. BlockAt(src')  + 1 - 1 = BlockAt(src')
    BY DEF BlockAt
  <2> QED BY <1>1, <2>1, <2>2, <2>3 DEF PlaceInv, BlockAddr, BlockAt
<1>6. MagicInv' /\ ClaimInv'
  BY <1>1 DEF StoreInv, MagicInv, ClaimInv, table_find
<1>7. SlotInv'
  <2>1. disk_slot' # 0 => /\ have_table /\ disk_slot' \in Owned(next)
                          /\ Owned(next) \subseteq {disk_slot'}
    BY <1>1, FindRange DEF StoreInv, OneProfile, table_find
  <2> QED BY <1>1, <1>2, <2>1 DEF SlotInv
<1>8. OneProfile' /\ WholeInv'
  BY <1>1, <1>2 DEF StoreInv, OneProfile, WholeInv, Valid
<1>9. FieldInv'
  BY <1>1 DEF FieldInv, Field
<1> QED BY <1>4, <1>5, <1>6, <1>7, <1>8, <1>9 DEF StoreInv

LEMMA ApplyStep ==
    ASSUME StoreInv, Apply
    PROVE  StoreInv'
<1> USE StoreAssumption
<1> DEFINE f0 == at[2]
<1>1. /\ pc = "apply" /\ f0 \in Field /\ at[1] = src
      /\ disk_hash \in Disk /\ src = SourceOf(disk_hash)
      /\ bram_addr = IF src = NoSource THEN <<0, 1>>
                     ELSE <<src, BlockAt(src) + f0 - 1>>
  BY DEF Apply, StoreInv, PlaceInv
<1>2. /\ bram_addr' = IF src = NoSource THEN bram_addr ELSE After(bram_addr)
      /\ at' = <<at[1], f0 + 1>>
      /\ pc' = IF f0 = BlockWords THEN "loop" ELSE "apply"
      /\ next' = IF f0 = BlockWords THEN NoDisk ELSE next
      /\ UNCHANGED <<ram, dirty, have_table, disk_hash, disk_slot, evict_i, src,
                     whole, raced>>
  BY <1>1 DEF Apply, ctxVars
<1>3. src \in Area \cup {NoSource}
  BY <1>1, SourceRange
<1>4. live' = [live EXCEPT ![f0] = Block(src)[f0]]
  <2>1. CASE src = NoSource
    BY <1>1, <2>1 DEF Apply, Block
  <2>2. CASE src # NoSource
    <3>1. /\ src \in Area /\ bram_addr[1] = src
          /\ bram_addr[2] = BlockAt(src) + f0 - 1
      BY <1>1, <1>3, <2>2
    <3>2. Block(src)[f0] = AsField(ram[src][BlockAt(src) + f0 - 1], live[f0])
      BY <1>1, <2>2 DEF Block
    <3>3. live \in [Field -> Value]
      BY DEF StoreInv, TypeOK
    <3> QED BY <1>1, <2>2, <3>1, <3>2, <3>3 DEF Apply
  <2> QED BY <2>1, <2>2
<1>5. \A f \in Field : Block(src)[f] \in Value
  <2>1. live \in [Field -> Value]
    BY DEF StoreInv, TypeOK
  <2> QED BY <2>1, FieldRead DEF Block
<1>6. live' \in [Field -> Value]
  BY <1>1, <1>4, <1>5 DEF StoreInv, TypeOK
<1>7. /\ \A x : Owned(x)' = Owned(x) /\ SourceOf(x)' = SourceOf(x)
      /\ Free' = Free
  BY <1>2, ReadsKept
<1>8. /\ bram_addr' \in Place /\ at' \in Place
      /\ (f0 # BlockWords /\ src # NoSource) =>
             bram_addr' = <<src, BlockAt(src) + (f0 + 1) - 1>>
  <2>1. src \in 0..(EntryCount + 1) /\ f0 \in 1..BlockWords /\ f0 + 1 \in 0..Top
    BY <1>1, <1>3 DEF Area, NoSource, Field, Top
  <2>2. at' \in Place
    BY <1>1, <1>2, <2>1 DEF Place
  <2>3. CASE src = NoSource
    BY <1>1, <1>2, <2>2, <2>3 DEF Place, Top
  <2>4. CASE src = 0 /\ src # NoSource
    <3>1. bram_addr = <<0, f0>> /\ f0 # Top
      BY <1>1, <2>1, <2>4 DEF BlockAt, Top
    <3>2. bram_addr' = <<0, f0 + 1>>
      BY <1>2, <2>4, <3>1 DEF After
    <3> QED BY <2>1, <2>2, <2>4, <3>2 DEF Place, BlockAt
  <2>5. CASE src # 0 /\ src # NoSource
    <3>1. bram_addr = <<src, f0 + 1>>
      BY <1>1, <2>1, <2>5 DEF BlockAt
    <3>2. bram_addr' = IF f0 = BlockWords THEN <<src + 1, 0>>
                       ELSE <<src, f0 + 2>>
      BY <1>2, <2>1, <2>5, <3>1 DEF After, Top
    <3>3. src + 1 \in 0..(EntryCount + 1)
      BY <1>3, <2>5 DEF Area
    <3>4. f0 # BlockWords => f0 + 2 \in 0..Top
      BY <2>1 DEF Top
    <3>5. bram_addr' \in Place
      <4>1. 0 \in 0..Top
        BY DEF Top
      <4> QED BY <2>1, <3>2, <3>3, <3>4, <4>1 DEF Place
    <3> QED BY <2>1, <2>2, <2>5, <3>2, <3>5 DEF BlockAt
  <2> QED BY <2>3, <2>4, <2>5
<1>9. TypeOK'
  BY <1>2, <1>6, <1>8 DEF StoreInv, TypeOK
<1>10. PlaceInv'
  <2>1. f0 # BlockWords => f0 + 1 \in Field
    BY <1>1 DEF Field
  <2>2. at'[1] = src /\ at'[2] = f0 + 1
    BY <1>1, <1>2
  <2> QED BY <1>1, <1>2, <1>7, <1>8, <2>1, <2>2 DEF PlaceInv, BlockAt
<1>11. MagicInv' /\ ClaimInv'
  BY <1>1, <1>2 DEF StoreInv, MagicInv, ClaimInv
<1>12. SlotInv' /\ OneProfile' /\ WholeInv'
  BY <1>1, <1>2, <1>7 DEF StoreInv, SlotInv, OneProfile, WholeInv, Valid
<1>13. Block(src)' = Block(src)
  <2>1. CASE src = NoSource
    BY <1>2, <2>1 DEF Block
  <2>2. CASE src # NoSource
    <3> SUFFICES ASSUME NEW f \in Field
                 PROVE  AsField(ram[src][BlockAt(src) + f - 1], live'[f]) =
                        AsField(ram[src][BlockAt(src) + f - 1], live[f])
      BY <1>2, <2>2 DEF Block, BlockAt
    <3>1. CASE f = f0
      <4>1. live'[f] = AsField(ram[src][BlockAt(src) + f - 1], live[f])
        BY <1>1, <1>4, <2>2, <3>1 DEF Block, StoreInv, TypeOK
      <4> QED BY <4>1, FieldRead
    <3>2. CASE f # f0
      BY <1>4, <3>2 DEF StoreInv, TypeOK
    <3> QED BY <3>1, <3>2
  <2> QED BY <2>1, <2>2
<1>14. ~dirty => \A f \in Field : f < f0 + 1 => live'[f] = Block(src)[f]
  <2> SUFFICES ASSUME ~dirty, NEW f \in Field, f <= f0
               PROVE  live'[f] = Block(src)[f]
    BY <1>1 DEF Field
  <2>1. CASE f = f0
    BY <1>1, <1>4, <2>1 DEF StoreInv, TypeOK
  <2>2. CASE f # f0
    <3>1. f < f0
      BY <1>1, <2>2 DEF Field
    <3>2. live[f] = Block(src)[f]
      BY <1>1, <3>1 DEF StoreInv, FieldInv
    <3> QED BY <1>4, <2>2, <3>2 DEF StoreInv, TypeOK
  <2> QED BY <2>1, <2>2
<1>15. f0 = BlockWords /\ ~dirty => live' = Resolve(disk_hash)'
  <2> SUFFICES ASSUME f0 = BlockWords, ~dirty PROVE live' = Resolve(disk_hash)'
    OBVIOUS
  <2>1. Resolve(disk_hash)' = Block(src)
    BY <1>1, <1>2, <1>7, <1>13 DEF Resolve
  <2>2. \A f \in Field : live'[f] = Block(src)[f]
    BY <1>14 DEF Field
  <2>3. /\ Block(src) = [f \in Field |-> Block(src)[f]]
        /\ live' = [f \in Field |-> live'[f]]
    BY <1>6 DEF Block
  <2> QED BY <2>1, <2>2, <2>3, Zenon
<1>16. FieldInv'
  BY <1>1, <1>2, <1>13, <1>14, <1>15 DEF FieldInv
<1> QED BY <1>9, <1>10, <1>11, <1>12, <1>16 DEF StoreInv

\* A power cycle between writes: the window is read back as it was left.
LEMMA PowerStep ==
    ASSUME Undisturbed, StoreInv, PowerCycle
    PROVE  StoreInv'
<1> USE StoreAssumption
<1>1. /\ pc = "loop" /\ ~dirty /\ ram' = ram /\ whole' = whole
      /\ live' = IF ram[0][0] = Head
                 THEN [f \in Field |-> AsField(ram[0][f], Defaults[f])]
                 ELSE Defaults
      /\ have_table' = (ram[0][Top] = Table)
      /\ dirty' = FALSE /\ disk_hash' = NoDisk /\ disk_slot' = 0 /\ evict_i' = 1
      /\ bram_addr' = <<0, Top>> /\ pc' = "loop" /\ at' = <<0, 0>>
      /\ next' = NoDisk /\ src' = NoSource /\ raced' = FALSE
  BY DEF PowerCycle, Boot, Undisturbed
<1>2. have_table' = have_table
  BY <1>1 DEF StoreInv, TypeOK, MagicInv
<1>3. /\ \A x : Owned(x)' = Owned(x) /\ SourceOf(x)' = SourceOf(x)
      /\ Free' = Free
  BY <1>1, <1>2, ReadsKept
<1>4. live' \in [Field -> Value]
  BY <1>1, FieldRead
<1>5. TypeOK'
  <2>1. /\ <<0, Top>> \in Place /\ <<0, 0>> \in Place
        /\ 0 \in 0..EntryCount /\ 1 \in Entry /\ NoSource \in 0..NoSource
    BY DEF Place, Top, Entry, NoSource
  <2> QED BY <1>1, <1>2, <1>4, <2>1 DEF StoreInv, TypeOK
<1>6. PlaceInv' /\ MagicInv' /\ ClaimInv'
  BY <1>1, <1>2 DEF StoreInv, PlaceInv, MagicInv, ClaimInv
<1>7. SlotInv' /\ OneProfile' /\ WholeInv'
  BY <1>1, <1>2, <1>3 DEF StoreInv, SlotInv, OneProfile, WholeInv, Valid
<1>8. live' = Resolve(disk_hash)'
  <2>1. SourceOf(disk_hash)' = IF ram[0][0] = Head THEN 0 ELSE NoSource
    BY <1>1 DEF SourceOf
  <2>2. CASE ram[0][0] = Head
    <3>1. Resolve(disk_hash)' = [f \in Field |-> AsField(ram[0][f], live'[f])]
      <4>1. \A f \in Field : BlockAt(0) + f - 1 = f
        BY DEF BlockAt, Field
      <4> QED BY <1>1, <2>1, <2>2, <4>1 DEF Resolve, Block, NoSource
    <3>2. \A f \in Field : AsField(ram[0][f], live'[f]) = live'[f]
      BY <1>1, <2>2, FieldRead
    <3>3. live' = [f \in Field |-> live'[f]]
      BY <1>4
    <3> QED BY <3>1, <3>2, <3>3, Zenon
  <2>3. CASE ram[0][0] # Head
    BY <1>1, <2>1, <2>3 DEF Resolve, Block
  <2> QED BY <2>2, <2>3
<1>9. FieldInv'
  BY <1>1, <1>8 DEF FieldInv
<1> QED BY <1>5, <1>6, <1>7, <1>9 DEF StoreInv

LEMMA StoreStep ==
    ASSUME Undisturbed, StoreInv, [Next]_vars
    PROVE  StoreInv'
<1>1. ASSUME NEW d \in Disk \cup {NoDisk}, Enter(d) PROVE StoreInv'
  BY <1>1, EnterStep
<1>2. CASE Choose
  BY <1>2, ChooseStep
<1>3. CASE Store
  <2>1. pc = "claim" \/ pc = "write"
    BY <1>3 DEF Store
  <2> QED BY <1>3, <2>1, ClaimStep, BlobStep, EntryStep
<1>4. CASE Switch
  BY <1>4, SwitchStep
<1>5. CASE Apply
  BY <1>5, ApplyStep
<1>6. ASSUME NEW f \in Field, NEW v \in Value, Edit(f, v) PROVE StoreInv'
  BY <1>6, EditStep DEF Edit, StoreInv, TypeOK
<1>7. CASE ResetDefaults
  BY <1>7, EditStep, StoreAssumption DEF ResetDefaults
<1>8. CASE PowerCycle
  BY <1>8, PowerStep
<1>9. CASE UNCHANGED vars
  <2> USE <1>9 DEF vars, ctxVars, mainVars
  <2>1. /\ \A x : Owned(x)' = Owned(x) /\ SourceOf(x)' = SourceOf(x)
        /\ Free' = Free
    BY ReadsKept
  <2>2. TypeOK' /\ MagicInv' /\ ClaimInv'
    BY DEF StoreInv, TypeOK, MagicInv, ClaimInv
  <2>3. PlaceInv'
    BY <2>1 DEF StoreInv, PlaceInv, Loads, BlockAt
  <2>4. SlotInv' /\ OneProfile' /\ WholeInv'
    BY <2>1 DEF StoreInv, SlotInv, OneProfile, WholeInv, Valid
  <2>5. FieldInv'
    BY <2>1 DEF StoreInv, FieldInv, Resolve, Block, BlockAt
  <2> QED BY <2>2, <2>3, <2>4, <2>5 DEF StoreInv
<1>10. CASE OsdInsert
  <2> USE <1>10 DEF ctxVars, mainVars
  <2>0. /\ pc = "loop" /\ bram_addr' = <<0, 0>>
        /\ UNCHANGED <<ram, live, dirty, have_table, disk_hash, disk_slot,
                       evict_i, pc, at, next, src, whole, raced>>
    BY DEF OsdInsert, Undisturbed
  <2>1. /\ \A x : Owned(x)' = Owned(x) /\ SourceOf(x)' = SourceOf(x)
        /\ Free' = Free
    BY <2>0, ReadsKept
  <2>2. TypeOK'
    <3>1. <<0, 0>> \in Place
      BY StoreAssumption DEF Place, Top
    <3> QED BY <2>0, <3>1 DEF StoreInv, TypeOK
  <2>3. PlaceInv' /\ MagicInv' /\ ClaimInv'
    BY <2>0 DEF StoreInv, PlaceInv, MagicInv, ClaimInv
  <2>4. SlotInv' /\ OneProfile' /\ WholeInv'
    BY <2>0, <2>1 DEF StoreInv, SlotInv, OneProfile, WholeInv, Valid
  <2>5. FieldInv'
    BY <2>0, <2>1 DEF StoreInv, FieldInv, Resolve, Block, BlockAt
  <2> QED BY <2>2, <2>3, <2>4, <2>5 DEF StoreInv
<1> QED
  BY <1>1, <1>2, <1>3, <1>4, <1>5, <1>6, <1>7, <1>8, <1>9, <1>10
  DEF Next, Pass, Mount, Irq

-----------------------------------------------------------------------------
(* The theorems.                                                            *)

\* The settings store keeps its types, and its address register stays inside
\* the save window.
THEOREM TypeCorrect == ASSUME Undisturbed PROVE Spec => []TypeOK
<1>1. StoreInv => TypeOK
  BY DEF StoreInv
<1> QED BY <1>1, StoreInit, StoreStep, PTL DEF Spec

\* With nothing pending, the window holds what is live: a re-mount or a power
\* cycle brings the same settings back.
THEOREM AlwaysCurrent == ASSUME Undisturbed PROVE Spec => []Current
<1>1. StoreInv => Current
  BY DEF StoreInv, FieldInv, Current
<1> QED BY <1>1, StoreInit, StoreStep, PTL DEF Spec

\* No disk ever owns two entries of the table.
THEOREM NeverTwoProfiles == ASSUME Undisturbed PROVE Spec => []OneProfile
<1>1. StoreInv => OneProfile
  BY DEF StoreInv
<1> QED BY <1>1, StoreInit, StoreStep, PTL DEF Spec

\* A slot that validates between two writes was written to its end.
THEOREM NeverHalf == ASSUME Undisturbed PROVE Spec => []ProfileWhole
<1>1. StoreInv => ProfileWhole
  BY DEF StoreInv, WholeInv, ProfileWhole
<1> QED BY <1>1, StoreInit, StoreStep, PTL DEF Spec

\* Saving one disk's profile leaves the others' alone, short of an eviction.
THEOREM OthersSafe == ASSUME Undisturbed PROVE Spec => OthersKept
<1>1. StoreInv /\ [Next]_vars =>
        [(have_table /\ pc # "claim") =>
            \A d \in Disk \ {disk_hash} : \A e \in Owned(d) :
                ram'[e] # ram[e] => (Free = {} /\ Owned(disk_hash) = {})]_vars
  <2> SUFFICES ASSUME StoreInv, Next, have_table, pc # "claim",
                      NEW d \in Disk \ {disk_hash}, NEW e \in Owned(d),
                      ram'[e] # ram[e]
               PROVE  Free = {} /\ Owned(disk_hash) = {}
    OBVIOUS
  <2>1. Store /\ pc = "write"
    BY DEF Next, Pass, Mount, Irq, Enter, Choose, Switch, Apply, Edit,
           ResetDefaults, OsdInsert, PowerCycle, Boot, Store
  <2>2. e \in Entry
    BY DEF Owned
  <2>3. disk_hash # NoDisk
    <3> SUFFICES ASSUME disk_hash = NoDisk PROVE FALSE
      OBVIOUS
    <3>1. at[1] = 0
      BY <2>1 DEF StoreInv, PlaceInv
    <3>2. Target[1] = 0
      BY <2>1, <3>1 DEF Target, StoreInv, PlaceInv
    <3>3. ram' = [ram EXCEPT ![0][Target[2]] = Stored] \/ ram' = ram
      BY <2>1, <3>2 DEF Store
    <3>4. e # 0 /\ e \in Area /\ ram \in Window
      BY <2>2, StoreAssumption DEF Entry, Area, StoreInv, TypeOK
    <3> QED BY <3>3, <3>4 DEF Window
  <2>4. e = disk_slot /\ disk_slot # 0
    BY <2>1, <2>2, <2>3, EntryOwned, StoreAssumption DEF Entry
  <2>5. ram[e][0] = Hash(d) /\ ram[e][0] # Hash(disk_hash)
    BY WordsApart DEF Owned
  <2>6. at[2] = 0
    BY <2>1, <2>4, <2>5 DEF StoreInv, SlotInv, Owned
  <2>7. e \notin Owned(disk_hash) \cup Free
    BY <2>5 DEF Owned, Free, Valid
  <2> QED BY <2>1, <2>4, <2>6, <2>7 DEF StoreInv, SlotInv
<1> QED BY <1>1, StoreInit, StoreStep, PTL DEF Spec, OthersKept

\* A mount that no edit races leaves the outgoing disk's settings in the
\* window.
THEOREM OutgoingSafe == ASSUME Undisturbed PROVE Spec => OutgoingSaved
<1>1. StoreInv /\ [Next]_vars =>
        [(pc = "switch" /\ pc' = "apply" /\ ~raced) =>
            live = Resolve(disk_hash)]_vars
  BY DEF StoreInv, FieldInv
<1> QED BY <1>1, StoreInit, StoreStep, PTL DEF Spec, OutgoingSaved
=============================================================================
