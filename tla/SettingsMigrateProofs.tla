------------------------ MODULE SettingsMigrateProofs -----------------------
(***************************************************************************)
(* Proofs about SettingsMigrate, for every block length, every place of    *)
(* the new word and every two table sizes.                                 *)
(*                                                                         *)
(* The invariant follows the phases of table_migrate.  Until the old magic *)
(* goes the window is the save; the tails are put by from it; while the    *)
(* shared range is copied the entries below the slot are still the save's  *)
(* and those above it are already images; while the tail is placed every   *)
(* valid one is in the stash or in a slot below.  A new magic means the    *)
(* table is complete, and nothing after it writes beyond the blob.         *)
(***************************************************************************)
EXTENDS SettingsMigrate, WellFoundedInduction, TLAPS

Valid(e) == kind[e] = "valid"
SavedEntry(e) == [i \in 1..V9_ENTRY_WORDS |-> Saved(e, i - 1)]
Target(e) == IF Valid(e) THEN Profile(e) ELSE Cleared
Beyond == OldSlot \ Slot

OldKept(e) == \A i \in 1..V9_ENTRY_WORDS : mem[OldAt(e) + i - 1] = Saved(e, i - 1)
NewIs(s, w) == \A i \in 1..ENTRY_WORDS : mem[NewAt(s) + i - 1] = w[i]
NewUpTo(s, w, n) == \A i \in 1..ENTRY_WORDS : i < n => mem[NewAt(s) + i - 1] = w[i]

InStash(e) == \E i \in 1..Len(stash) : stash[i] = SavedEntry(e)

\* What is put by: valid tails, each once.
StashOK(low) ==
    /\ stash \in Seq({ SavedEntry(e) : e \in Beyond })
    /\ \A i \in 1..Len(stash) :
          \E e \in Beyond : e > low /\ Valid(e) /\ stash[i] = SavedEntry(e)
    /\ \A i, j \in 1..Len(stash) : stash[i][1] = stash[j][1] => i = j

\* The table as the move leaves it.
Complete ==
    /\ \A e \in Slot : Valid(e) => NewIs(e, Profile(e))
    /\ \A e \in Beyond : Valid(e) =>
          (\E s \in Slot : NewIs(s, Profile(e))) \/ (\A s \in Slot : Good(NewEntry(s)))
    /\ \A s \in Slot : Good(NewEntry(s)) => \E e \in OldSlot : Valid(e) /\ NewIs(s, Profile(e))
    /\ \A s, t \in Slot : Good(NewEntry(s)) /\ mem[NewAt(s)] = mem[NewAt(t)] => s = t

Shape ==
    /\ kind \in [OldSlot -> {"valid", "free", "corrupt"}]
    /\ mem = [a \in 0..LastWord |-> mem[a]]
    /\ pc \in {"boot", "drop", "stash", "copy", "tail", "fill", "magic", "blob", "done"}
    /\ resets \in BOOLEAN

Whole ==
    mem[V9_TABLE_WORD] = Magic =>
        pc \in {"boot", "drop"} /\ mem[0] = Mark("v9") /\ \A e \in OldSlot : OldKept(e)

Stashing ==
    pc = "stash" =>
        /\ slot \in (ENTRY_COUNT - 1)..(V9_ENTRY_COUNT - 1)
        /\ \A e \in OldSlot : OldKept(e)
        /\ StashOK(slot)
        /\ \A e \in Beyond : e > slot /\ Valid(e) => InStash(e)

Copying ==
    pc = "copy" =>
        /\ slot \in Slot /\ k \in 1..ENTRY_WORDS
        /\ StashOK(0) /\ \A e \in Beyond : Valid(e) => InStash(e)
        /\ \A e \in Slot : e < slot \/ (e = slot /\ k = 1) => OldKept(e)
        /\ k > 1 => b = SavedEntry(slot)
        /\ NewUpTo(slot, Target(slot), k)
        /\ \A e \in Slot : e > slot => NewIs(e, Target(e))
        /\ filled = { e \in Slot : Valid(e) /\ (e > slot \/ (e = slot /\ k > 1)) }

\* The tail's bookkeeping; slots from `from` on are as the copy left them.
Placing(from) ==
    /\ filled = { e \in Slot : Valid(e) }
    /\ StashOK(0)
    /\ \A s \in Slot : Valid(s) => NewIs(s, Profile(s))
    /\ \A s \in Slot : ~Valid(s) /\ s >= from => NewIs(s, Cleared)
    /\ \A s \in Slot : ~Valid(s) /\ s < slot =>
          /\ \E e \in Beyond : Valid(e) /\ NewIs(s, Profile(e))
          /\ \A i \in 1..Len(stash) : stash[i][1] # mem[NewAt(s)]
    /\ \A s, t \in Slot : ~Valid(s) /\ ~Valid(t) /\ s < slot /\ t < slot /\ s # t
          => mem[NewAt(s)] # mem[NewAt(t)]
    /\ \A e \in Beyond : Valid(e) =>
          InStash(e) \/ \E s \in Slot : s < slot /\ NewIs(s, Profile(e))

Filling ==
    /\ pc = "tail" => slot \in 0..ENTRY_COUNT /\ k = 1 /\ Placing(slot)
    /\ pc = "fill" =>
          /\ slot \in Slot /\ ~Valid(slot) /\ k \in 1..ENTRY_WORDS
          /\ stash # <<>> /\ Placing(slot + 1)
          /\ NewUpTo(slot, Converted(stash[1]), k)

Ending ==
    /\ pc = "magic" \/ mem[TABLE_WORD] = Magic => Complete
    /\ mem[TABLE_WORD] = Magic => pc \in {"boot", "blob", "done"}
    /\ pc = "drop" => mem[V9_TABLE_WORD] = Magic
    /\ pc = "blob" => k \in 0..(BlockWords + 1)
    /\ ~resets /\ pc = "boot" => mem[V9_TABLE_WORD] = Magic
    /\ ~resets /\ pc \in {"blob", "done"} => mem[TABLE_WORD] = Magic

Inv == Shape /\ Whole /\ Stashing /\ Copying /\ Filling /\ Ending

-----------------------------------------------------------------------------
(* Addresses.                                                               *)

LEMMA Sizes ==
    /\ V9_ENTRY_WORDS \in Nat /\ V9_ENTRY_WORDS >= 3
    /\ ENTRY_WORDS \in Nat /\ ENTRY_WORDS = V9_ENTRY_WORDS + 1
    /\ V9_TABLE_WORD \in Nat /\ V9_TABLE_WORD > 0 /\ TABLE_WORD = V9_TABLE_WORD + 1
    /\ V9_TABLE_WORD = BlockWords + 1 /\ BlockWords \in Nat /\ Appended \in Nat
    /\ Appended >= 1 /\ Appended + 2 <= V9_ENTRY_WORDS
    /\ V9_ENTRY_COUNT \in Nat /\ ENTRY_COUNT \in Nat
    /\ ENTRY_COUNT >= 1 /\ ENTRY_COUNT <= V9_ENTRY_COUNT
  BY MigrateAssumption DEF V9_ENTRY_WORDS, ENTRY_WORDS, V9_TABLE_WORD, TABLE_WORD

LEMMA TimesType == ASSUME NEW x \in Nat, NEW w \in Nat PROVE x * w \in Nat
  OBVIOUS

\* The multiples of w are at least w apart.
LEMMA TimesApart ==
    ASSUME NEW w \in Nat, NEW x \in Nat, NEW y \in Nat, x < y
    PROVE  x * w + w <= y * w
<1>1. y * w = x * w + w + (y - x - 1) * w
  OBVIOUS
<1>2. (y - x - 1) * w \in Nat
  OBVIOUS
<1>3. x * w \in Nat /\ y * w \in Nat
  OBVIOUS
<1> QED BY <1>1, <1>2, <1>3

LEMMA AtType ==
    ASSUME NEW e \in Nat
    PROVE  /\ OldAt(e) \in Nat /\ OldAt(e) >= TABLE_WORD /\ NewAt(e) = OldAt(e) + 1 + e
           /\ NewAt(e) \in Nat /\ NewAt(e) > TABLE_WORD
<1>1. e * V9_ENTRY_WORDS \in Nat
  BY Sizes, TimesType
<1>2. e * ENTRY_WORDS = e * V9_ENTRY_WORDS + e
  BY Sizes
<1> QED BY <1>1, <1>2, Sizes DEF OldAt, NewAt

LEMMA OldApart ==
    ASSUME NEW e \in Nat, NEW f \in Nat, e < f
    PROVE  OldAt(e) + V9_ENTRY_WORDS <= OldAt(f)
<1>1. e * V9_ENTRY_WORDS + V9_ENTRY_WORDS <= f * V9_ENTRY_WORDS
  BY Sizes, TimesApart
<1>2. e * V9_ENTRY_WORDS \in Nat /\ f * V9_ENTRY_WORDS \in Nat
  BY Sizes, TimesType
<1> QED BY <1>1, <1>2, Sizes DEF OldAt

LEMMA NewApart ==
    ASSUME NEW e \in Nat, NEW f \in Nat, e < f
    PROVE  NewAt(e) + ENTRY_WORDS <= NewAt(f)
  BY OldApart, AtType, Sizes

LEMMA LastType ==
    LastWord \in Nat /\ LastWord > NewAt(ENTRY_COUNT) /\ LastWord > OldAt(V9_ENTRY_COUNT)
  BY AtType, Sizes DEF LastWord

LEMMA InWindow ==
    /\ \A e \in OldSlot : \A i \in 1..V9_ENTRY_WORDS : OldAt(e) + i - 1 \in 0..LastWord
    /\ \A s \in Slot : \A i \in 1..ENTRY_WORDS : NewAt(s) + i - 1 \in 0..LastWord
    /\ 0..TABLE_WORD \subseteq 0..LastWord
<1>1. ASSUME NEW e \in OldSlot, NEW i \in 1..V9_ENTRY_WORDS PROVE OldAt(e) + i - 1 \in 0..LastWord
  <2>1. e \in Nat /\ e < V9_ENTRY_COUNT
    BY Sizes DEF OldSlot
  <2>2. OldAt(e) + V9_ENTRY_WORDS <= OldAt(V9_ENTRY_COUNT) /\ OldAt(e) \in Nat
    BY <2>1, OldApart, AtType, Sizes
  <2> QED BY <2>2, LastType, AtType, Sizes
<1>2. ASSUME NEW s \in Slot, NEW i \in 1..ENTRY_WORDS PROVE NewAt(s) + i - 1 \in 0..LastWord
  <2>1. s \in Nat /\ s < ENTRY_COUNT
    BY Sizes DEF Slot
  <2>2. NewAt(s) + ENTRY_WORDS <= NewAt(ENTRY_COUNT) /\ NewAt(s) \in Nat
    BY <2>1, NewApart, AtType, Sizes
  <2> QED BY <2>2, LastType, AtType, Sizes
<1>3. 0..TABLE_WORD \subseteq 0..LastWord
  BY LastType, AtType, Sizes
<1> QED BY <1>1, <1>2, <1>3

\* A store into new entry s: the header, the other new words and the old
\* entries below s stay.
LEMMA StoreNew ==
    ASSUME Shape, NEW s \in Slot, NEW j \in 1..ENTRY_WORDS, NEW v,
           mem' = [mem EXCEPT ![NewAt(s) + j - 1] = v]
    PROVE  /\ mem' = [a \in 0..LastWord |-> mem'[a]]
           /\ mem'[NewAt(s) + j - 1] = v
           /\ \A a \in 0..TABLE_WORD : mem'[a] = mem[a]
           /\ \A t \in Slot : \A i \in 1..ENTRY_WORDS :
                 t # s \/ i # j => mem'[NewAt(t) + i - 1] = mem[NewAt(t) + i - 1]
           /\ \A e \in OldSlot : e < s => \A i \in 1..V9_ENTRY_WORDS :
                 mem'[OldAt(e) + i - 1] = mem[OldAt(e) + i - 1]
<1> DEFINE p == NewAt(s) + j - 1
<1>1. mem = [a \in 0..LastWord |-> mem[a]] /\ mem' = [mem EXCEPT ![p] = v]
  BY DEF Shape
<1>2. p \in 0..LastWord /\ p > TABLE_WORD
  BY InWindow, AtType, Sizes DEF Slot
<1>3. \A a \in 0..LastWord : mem'[a] = IF a = p THEN v ELSE mem[a]
  <2> HIDE DEF p
  <2> QED BY <1>1
<1>4. mem' = [a \in 0..LastWord |-> mem'[a]]
  <2> HIDE DEF p
  <2> QED BY <1>1
<1>5. ASSUME NEW a \in 0..TABLE_WORD PROVE mem'[a] = mem[a]
  <2>1. a \in 0..LastWord /\ a # p
    BY <1>2, InWindow, Sizes
  <2> QED BY <2>1, <1>3
<1>6. ASSUME NEW t \in Slot, NEW i \in 1..ENTRY_WORDS, t # s \/ i # j
      PROVE  mem'[NewAt(t) + i - 1] = mem[NewAt(t) + i - 1]
  <2>1. NewAt(t) + i - 1 # p
    <3>0. t \in Nat /\ s \in Nat /\ NewAt(t) \in Nat /\ NewAt(s) \in Nat
      BY AtType DEF Slot
    <3>1. CASE t = s
      BY <1>6, <3>0, <3>1, Sizes
    <3>2. CASE t < s
      BY <3>0, <3>2, NewApart, Sizes
    <3>3. CASE s < t
      BY <3>0, <3>3, NewApart, Sizes
    <3> QED BY <3>0, <3>1, <3>2, <3>3
  <2> QED BY <2>1, <1>3, InWindow
<1>7. ASSUME NEW e \in OldSlot, e < s, NEW i \in 1..V9_ENTRY_WORDS
      PROVE  mem'[OldAt(e) + i - 1] = mem[OldAt(e) + i - 1]
  <2>0. e \in Nat /\ s \in Nat
    BY DEF Slot, OldSlot
  <2>1. OldAt(e) + i - 1 # p
    BY <1>7, <2>0, OldApart, AtType, Sizes
  <2> QED BY <2>1, <1>3, InWindow
<1> QED BY <1>3, <1>2, <1>4, <1>5, <1>6, <1>7

\* A store into the blob or one of the magics leaves the new entries alone,
\* and one below the table the old ones too.
LEMMA StoreLow ==
    ASSUME Shape, NEW p \in 0..TABLE_WORD, NEW v, mem' = [mem EXCEPT ![p] = v]
    PROVE  /\ mem' = [a \in 0..LastWord |-> mem'[a]]
           /\ mem'[p] = v /\ \A a \in 0..TABLE_WORD : a # p => mem'[a] = mem[a]
           /\ \A t \in Slot : \A i \in 1..ENTRY_WORDS :
                 mem'[NewAt(t) + i - 1] = mem[NewAt(t) + i - 1]
           /\ p < TABLE_WORD => \A e \in OldSlot : \A i \in 1..V9_ENTRY_WORDS :
                 mem'[OldAt(e) + i - 1] = mem[OldAt(e) + i - 1]
<1>1. mem = [a \in 0..LastWord |-> mem[a]] /\ p \in 0..LastWord
  BY InWindow DEF Shape
<1>2. /\ \A a \in 0..LastWord : mem'[a] = IF a = p THEN v ELSE mem[a]
      /\ mem' = [a \in 0..LastWord |-> mem'[a]]
  BY <1>1
<1>3. ASSUME NEW t \in Slot, NEW i \in 1..ENTRY_WORDS
      PROVE  mem'[NewAt(t) + i - 1] = mem[NewAt(t) + i - 1]
  <2>1. NewAt(t) + i - 1 # p
    BY AtType, Sizes DEF Slot
  <2> QED BY <2>1, <1>2, InWindow
<1>4. ASSUME p < TABLE_WORD, NEW e \in OldSlot, NEW i \in 1..V9_ENTRY_WORDS
      PROVE  mem'[OldAt(e) + i - 1] = mem[OldAt(e) + i - 1]
  <2>1. OldAt(e) + i - 1 # p
    BY <1>4, AtType, Sizes DEF OldSlot
  <2> QED BY <2>1, <1>2, InWindow
<1> QED BY <1>1, <1>2, <1>3, <1>4, InWindow

-----------------------------------------------------------------------------
(* Entries.                                                                 *)

LEMMA Words ==
    /\ \A e, f, x, y : Of(e, f) = Of(x, y) => e = x /\ f = y
    /\ \A e, f : Of(e, f) # Zero /\ Of(e, f) # Magic /\ Of(e, f) # Default
    /\ \A e, f : Of(e, f)[1] = "entry" /\ Of(e, f)[2] = e /\ Of(e, f)[3] = f
    /\ Zero # Magic /\ Default # Magic /\ Zero[1] # "entry"
    /\ \A n : Blob(n) # Magic
    /\ Mark("v10") # Magic /\ Mark("v9") # Magic
  BY DEF Of, Zero, Magic, Default, Mark, Blob

LEMMA SlotTypes ==
    /\ Slot \subseteq OldSlot /\ OldSlot \subseteq Nat
    /\ \A e \in Beyond : e \in OldSlot /\ e \in Nat /\ e >= ENTRY_COUNT /\ e \notin Slot
    /\ \A e \in OldSlot : e < ENTRY_COUNT => e \in Slot
    /\ 0 \in Slot /\ ENTRY_COUNT - 1 \in Slot
    /\ \A e : e \in Slot <=> e \in Nat /\ e < ENTRY_COUNT
    /\ \A e : e \in OldSlot <=> e \in Nat /\ e < V9_ENTRY_COUNT
  BY Sizes DEF Slot, OldSlot, Beyond

LEMMA SavedGood ==
    ASSUME NEW e \in OldSlot
    PROVE  /\ Good(SavedEntry(e)) <=> Valid(e)
           /\ Valid(e) => SavedEntry(e)[1] = Of(e, 0)
<1>1. 1 \in 1..V9_ENTRY_WORDS /\ 2 \in 1..V9_ENTRY_WORDS
  BY Sizes
<1>2. SavedEntry(e)[1] = Saved(e, 0) /\ SavedEntry(e)[2] = Saved(e, 1)
  BY <1>1 DEF SavedEntry
<1>3. CASE Valid(e)
  <2>1. Saved(e, 0) = Of(e, 0) /\ Saved(e, 1) = Of(e, 1)
    BY <1>3 DEF Saved, Valid
  <2> QED BY <1>2, <1>3, <2>1, Words DEF Good
<1>4. CASE ~Valid(e)
  <2>1. Saved(e, 1) = Zero
    BY <1>4 DEF Saved, Valid
  <2>2. ~Good(SavedEntry(e))
    BY <1>2, <2>1, Words DEF Good
  <2> QED BY <1>4, <2>2
<1> QED BY <1>3, <1>4

LEMMA SavedConverted ==
    ASSUME NEW e \in OldSlot, Valid(e)
    PROVE  Converted(SavedEntry(e)) = Profile(e)
<1>1. \A f : Saved(e, f) = Of(e, f)
  BY DEF Saved, Valid
<1>2. SavedEntry(e) = [i \in 1..V9_ENTRY_WORDS |-> Of(e, i - 1)]
  BY <1>1 DEF SavedEntry
<1> QED BY <1>2 DEF Profile

LEMMA ProfileWords ==
    ASSUME NEW e \in Nat
    PROVE  /\ Profile(e) = [i \in 1..ENTRY_WORDS |-> Profile(e)[i]]
           /\ Profile(e)[1] = Of(e, 0) /\ Profile(e)[2] = Of(e, 1)
           /\ Good(Profile(e))
<1> DEFINE w == [i \in 1..V9_ENTRY_WORDS |-> Of(e, i - 1)]
<1>1. Profile(e) = [i \in 1..ENTRY_WORDS |-> Profile(e)[i]]
  BY DEF Profile, Converted
<1>2. w[1] = Of(e, 0) /\ w[2] = Of(e, 1)
  BY Sizes
<1>3. Profile(e) = Converted(w)
  BY DEF Profile
<1> HIDE DEF w
<1>4. Profile(e)[1] = w[1] /\ Profile(e)[2] = w[2]
  BY <1>3, Sizes DEF Converted
<1> QED BY <1>1, <1>2, <1>4, Words DEF Good

LEMMA ClearedWords ==
    /\ Cleared = [i \in 1..ENTRY_WORDS |-> Cleared[i]]
    /\ \A i \in 1..ENTRY_WORDS : Cleared[i] = Zero
    /\ ~Good(Cleared)
<1>1. Cleared[1] = Zero
  BY Sizes DEF Cleared
<1> QED BY <1>1, Words DEF Cleared, Good

LEMMA NewEntryIs ==
    ASSUME NEW s, NEW w, w = [i \in 1..ENTRY_WORDS |-> w[i]]
    PROVE  NewIs(s, w) <=> NewEntry(s) = w
<1>1. NewIs(s, w) => NewEntry(s) = w
  BY DEF NewIs, NewEntry
<1>2. ASSUME NewEntry(s) = w, NEW i \in 1..ENTRY_WORDS PROVE mem[NewAt(s) + i - 1] = w[i]
  <2>1. NewEntry(s)[i] = mem[NewAt(s) + i - 1]
    BY DEF NewEntry
  <2> QED BY <1>2, <2>1
<1> QED BY <1>1, <1>2 DEF NewIs

\* The first word of an entry is where the entry starts.
LEMMA NewFirst ==
    ASSUME NEW s \in Slot
    PROVE  /\ NewEntry(s)[1] = mem[NewAt(s)]
           /\ \A w : NewIs(s, w) => mem[NewAt(s)] = w[1]
<1>1. 1 \in 1..ENTRY_WORDS /\ NewAt(s) + 1 - 1 = NewAt(s)
  BY Sizes, AtType, SlotTypes
<1>2. NewEntry(s)[1] = mem[NewAt(s) + 1 - 1]
  BY <1>1 DEF NewEntry
<1>3. ASSUME NEW w, NewIs(s, w) PROVE mem[NewAt(s) + 1 - 1] = w[1]
  BY <1>1, <1>3 DEF NewIs
<1> QED BY <1>1, <1>2, <1>3

LEMMA OldEntryIs ==
    ASSUME NEW e, OldKept(e)
    PROVE  OldEntry(e) = SavedEntry(e)
  BY DEF OldKept, OldEntry, SavedEntry

\* What the code does with an old entry read whole.
LEMMA ImageIs ==
    ASSUME NEW e \in OldSlot
    PROVE  Image(SavedEntry(e)) = Target(e)
  BY SavedGood, SavedConverted DEF Image, Target

LEMMA FirstFree == ASSUME \A e \in OldSlot : OldKept(e) PROVE mem[TABLE_WORD] # Magic
<1>1. OldKept(0)
  BY SlotTypes
<1>2. OldAt(0) + 1 - 1 = TABLE_WORD
  BY Sizes DEF OldAt
<1>3. mem[TABLE_WORD] = Saved(0, 0)
  BY <1>1, <1>2, Sizes DEF OldKept
<1> QED BY <1>3, Words DEF Saved

LEMMA DivMod ==
    ASSUME NEW w \in Nat, w > 0, NEW e \in Nat, NEW r \in Nat, r < w
    PROVE  (e * w + r) \div w = e /\ (e * w + r) % w = r
<1> DEFINE x == e * w + r
           q == x \div w
           m == x % w
<1>1. x \in Nat /\ e * w \in Nat
  OBVIOUS
<1>2. q \in Nat /\ m \in Nat /\ m < w /\ x = q * w + m
  <2> HIDE DEF x
  <2> QED BY <1>1
<1>3. x = e * w + r
  OBVIOUS
<1> HIDE DEF x, q, m
<1>4. ~(q < e)
  BY <1>1, <1>2, <1>3, TimesApart, TimesType
<1>5. ~(e < q)
  BY <1>1, <1>2, <1>3, TimesApart, TimesType
<1>6. q = e
  BY <1>2, <1>4, <1>5
<1>7. m = r
  BY <1>1, <1>2, <1>3, <1>6
<1> QED BY <1>6, <1>7 DEF x, q, m

-----------------------------------------------------------------------------
(* The initial window.                                                      *)

LEMMA InitKept ==
    ASSUME Init, NEW e \in OldSlot
    PROVE  OldKept(e)
<1> SUFFICES ASSUME NEW i \in 1..V9_ENTRY_WORDS
             PROVE  mem[OldAt(e) + i - 1] = Saved(e, i - 1)
  BY DEF OldKept
<1> DEFINE a == OldAt(e) + i - 1
           W == V9_ENTRY_WORDS
<1>1. e \in Nat /\ e < V9_ENTRY_COUNT /\ W \in Nat /\ W > 0 /\ i - 1 \in Nat /\ i - 1 < W
  BY SlotTypes, Sizes
<1>2. a \in 0..LastWord
  BY InWindow
<1>3. OldAt(e) \in Nat /\ OldAt(e) >= TABLE_WORD /\ OldAt(e) + W <= OldAt(V9_ENTRY_COUNT)
  BY <1>1, AtType, OldApart, Sizes
<1>4. OldAt(V9_ENTRY_COUNT) \in Nat
  BY AtType, Sizes
<1>5. a # 0 /\ ~(a <= BlockWords) /\ a # V9_TABLE_WORD /\ a < OldAt(V9_ENTRY_COUNT)
  BY <1>1, <1>3, <1>4, Sizes
<1>6. a - OldAt(0) = e * W + (i - 1)
  <2>1. e * W \in Nat
    BY <1>1, TimesType
  <2> QED BY <1>1, <2>1, Sizes DEF OldAt
<1>7. (a - OldAt(0)) \div W = e /\ (a - OldAt(0)) % W = i - 1
  <2> HIDE DEF a, W
  <2> QED BY <1>1, <1>6, DivMod
<1>8. mem[a] = Saved((a - OldAt(0)) \div W, (a - OldAt(0)) % W)
  <2> HIDE DEF a
  <2> QED BY <1>2, <1>5 DEF Init
<1> QED BY <1>7, <1>8

LEMMA InitInv == Init => Inv
<1> SUFFICES ASSUME Init PROVE Inv
  OBVIOUS
<1>1. Shape
  BY DEF Init, Shape
<1>2. \A e \in OldSlot : OldKept(e)
  BY InitKept
<1>3. 0 \in 0..LastWord /\ V9_TABLE_WORD \in 0..LastWord /\ V9_TABLE_WORD # 0 /\ ~(V9_TABLE_WORD <= BlockWords)
  BY InWindow, Sizes
<1>4. mem[0] = Mark("v9") /\ mem[V9_TABLE_WORD] = Magic /\ pc = "boot" /\ resets = FALSE
  BY <1>3 DEF Init
<1>5. Whole /\ Stashing /\ Copying /\ Filling
  BY <1>2, <1>4 DEF Whole, Stashing, Copying, Filling
<1>6. Ending
  BY <1>2, <1>4, FirstFree DEF Ending
<1> QED BY <1>1, <1>5, <1>6 DEF Inv

-----------------------------------------------------------------------------
(* What a store leaves as it was.                                           *)

NewSame == \A t \in Slot : \A i \in 1..ENTRY_WORDS :
              mem'[NewAt(t) + i - 1] = mem[NewAt(t) + i - 1]

LEMMA KeptNew ==
    ASSUME NewSame
    PROVE  /\ \A s \in Slot : NewEntry(s)' = NewEntry(s) /\ mem'[NewAt(s)] = mem[NewAt(s)]
           /\ \A s \in Slot : \A w : NewIs(s, w)' <=> NewIs(s, w)
<1>1. ASSUME NEW s \in Slot PROVE mem'[NewAt(s)] = mem[NewAt(s)]
  <2>1. 1 \in 1..ENTRY_WORDS /\ NewAt(s) + 1 - 1 = NewAt(s)
    BY Sizes, AtType, SlotTypes
  <2>2. mem'[NewAt(s) + 1 - 1] = mem[NewAt(s) + 1 - 1]
    BY <2>1 DEF NewSame
  <2> QED BY <2>1, <2>2
<1> QED BY <1>1 DEF NewSame, NewEntry, NewIs

LEMMA KeptComplete ==
    ASSUME Complete, NewSame, kind' = kind
    PROVE  Complete'
<1>1. \A e : Valid(e)' <=> Valid(e)
  BY DEF Valid
<1>2. \A s \in Slot : Good(NewEntry(s)') <=> Good(NewEntry(s))
  BY KeptNew
<1>3. \A s \in Slot : Good(NewEntry(s))' <=> Good(NewEntry(s))
  BY <1>2 DEF Good
<1> QED BY <1>1, <1>3, KeptNew DEF Complete

LEMMA KeptOld ==
    ASSUME kind' = kind, NEW e,
           \A i \in 1..V9_ENTRY_WORDS : mem'[OldAt(e) + i - 1] = mem[OldAt(e) + i - 1],
           OldKept(e)
    PROVE  OldKept(e)'
<1>1. \A f : Saved(e, f)' = Saved(e, f)
  BY DEF Saved
<1> QED BY <1>1 DEF OldKept

LEMMA KeptStash ==
    ASSUME kind' = kind, stash' = stash, NEW low
    PROVE  /\ \A e : SavedEntry(e)' = SavedEntry(e)
           /\ StashOK(low) => StashOK(low)'
           /\ \A e : InStash(e)' <=> InStash(e)
<1>1. \A e, f : Saved(e, f)' = Saved(e, f)
  BY DEF Saved
<1>2. \A e : SavedEntry(e)' = SavedEntry(e)
  BY <1>1 DEF SavedEntry
<1>3. { SavedEntry(e) : e \in Beyond }' = { SavedEntry(e) : e \in Beyond }
  BY <1>2
<1>4. \A e : Valid(e)' <=> Valid(e)
  BY DEF Valid
<1>5. StashOK(low) => StashOK(low)'
  BY <1>2, <1>3, <1>4 DEF StashOK
<1> QED BY <1>2, <1>5 DEF InStash

-----------------------------------------------------------------------------
(* One lemma per action.                                                    *)

LEMMA SameWindow ==
    ASSUME mem' = mem, kind' = kind
    PROVE  /\ NewSame /\ (Complete => Complete')
           /\ \A e : OldKept(e) => OldKept(e)'
           /\ \A e : Valid(e)' <=> Valid(e)
<1>1. NewSame
  BY DEF NewSame
<1> QED BY <1>1, KeptComplete, KeptOld DEF Valid

LEMMA WholeNoMagic == Whole /\ mem[V9_TABLE_WORD] = Magic => mem[TABLE_WORD] # Magic
  BY FirstFree DEF Whole

LEMMA BootInv == ASSUME Inv, Boot PROVE Inv'
<1>1. /\ pc = "boot" /\ k' = 0 /\ UNCHANGED <<mem, slot, b, stash, filled, kind, resets>>
      /\ pc' = IF mem[0] # Mark("v9") THEN "done"
               ELSE IF mem[V9_TABLE_WORD] = Magic THEN "drop" ELSE "blob"
  BY DEF Boot
<1>2. Shape'
  BY <1>1 DEF Inv, Shape
<1>3. Whole'
  BY <1>1, SameWindow DEF Inv, Whole
<1>4. Stashing' /\ Copying' /\ Filling'
  BY <1>1 DEF Stashing, Copying, Filling
<1>5. Ending'
  <2>1. mem[TABLE_WORD] = Magic => pc' \in {"blob", "done"}
    BY <1>1, WholeNoMagic DEF Inv
  <2>2. ~resets => pc' = "drop"
    BY <1>1 DEF Inv, Ending, Whole
  <2>3. 0 \in 0..(BlockWords + 1)
    BY Sizes
  <2>4. pc' # "magic" /\ pc' # "boot"
    BY <1>1
  <2>5. mem[TABLE_WORD] = Magic => Complete'
    BY <1>1, SameWindow DEF Inv, Ending
  <2>6. pc' = "drop" => mem[V9_TABLE_WORD] = Magic
    BY <1>1
  <2> QED BY <1>1, <2>1, <2>2, <2>3, <2>4, <2>5, <2>6 DEF Ending
<1> QED BY <1>2, <1>3, <1>4, <1>5 DEF Inv

LEMMA DropInv == ASSUME Inv, Drop PROVE Inv'
<1>1. /\ pc = "drop" /\ mem' = [mem EXCEPT ![V9_TABLE_WORD] = Zero]
      /\ pc' = "stash" /\ slot' = V9_ENTRY_COUNT - 1 /\ stash' = <<>>
      /\ UNCHANGED <<k, b, filled, kind, resets>>
  BY DEF Drop
<1>2. V9_TABLE_WORD \in 0..TABLE_WORD /\ V9_TABLE_WORD < TABLE_WORD
  BY Sizes
<1>3. /\ mem' = [a \in 0..LastWord |-> mem'[a]] /\ mem'[V9_TABLE_WORD] = Zero
      /\ mem'[TABLE_WORD] = mem[TABLE_WORD]
      /\ \A e \in OldSlot : \A i \in 1..V9_ENTRY_WORDS :
            mem'[OldAt(e) + i - 1] = mem[OldAt(e) + i - 1]
  <2>1. TABLE_WORD \in 0..TABLE_WORD /\ TABLE_WORD # V9_TABLE_WORD
    BY Sizes
  <2> QED BY <1>1, <1>2, <2>1, StoreLow DEF Inv
<1>4. Shape'
  BY <1>1, <1>3 DEF Inv, Shape
<1>5. Whole'
  BY <1>3, Words DEF Whole
<1>6. mem[V9_TABLE_WORD] = Magic
  BY <1>1 DEF Inv, Ending
<1>7. \A e \in OldSlot : OldKept(e) /\ OldKept(e)'
  <2>1. \A e \in OldSlot : OldKept(e)
    BY <1>6 DEF Inv, Whole
  <2> QED BY <1>1, <1>3, <2>1, KeptOld
<1>8. Stashing'
  <2>1. slot' \in (ENTRY_COUNT - 1)..(V9_ENTRY_COUNT - 1)
    BY <1>1, Sizes
  <2>2. \A e \in Beyond : ~(e > slot')
    BY <1>1, SlotTypes, Sizes
  <2>3. Len(stash') = 0 /\ stash' \in Seq({ SavedEntry(e) : e \in Beyond }')
    BY <1>1
  <2>4. StashOK(slot)'
    BY <2>3 DEF StashOK
  <2> QED BY <1>7, <2>1, <2>2, <2>4 DEF Stashing
<1>9. Copying' /\ Filling'
  BY <1>1 DEF Copying, Filling
<1>10. Ending'
  <2>1. mem'[TABLE_WORD] # Magic
    BY <1>3, <1>7, FirstFree
  <2> QED BY <1>1, <2>1 DEF Ending
<1> QED BY <1>4, <1>5, <1>8, <1>9, <1>10 DEF Inv

LEMMA WriteMagicInv == ASSUME Inv, WriteMagic PROVE Inv'
<1>1. /\ pc = "magic" /\ mem' = [mem EXCEPT ![TABLE_WORD] = Magic]
      /\ pc' = "blob" /\ k' = 0
      /\ UNCHANGED <<slot, b, stash, filled, kind, resets>>
  BY DEF WriteMagic
<1>2. /\ mem' = [a \in 0..LastWord |-> mem'[a]] /\ mem'[TABLE_WORD] = Magic
      /\ mem'[V9_TABLE_WORD] = mem[V9_TABLE_WORD] /\ NewSame
  <2>1. TABLE_WORD \in 0..TABLE_WORD /\ V9_TABLE_WORD \in 0..TABLE_WORD /\ TABLE_WORD # V9_TABLE_WORD
    BY Sizes
  <2> QED BY <1>1, <2>1, StoreLow DEF Inv, NewSame
<1>3. Shape'
  BY <1>1, <1>2 DEF Inv, Shape
<1>4. Whole'
  BY <1>1, <1>2 DEF Inv, Whole
<1>5. Stashing' /\ Copying' /\ Filling'
  BY <1>1 DEF Stashing, Copying, Filling
<1>6. Complete'
  BY <1>1, <1>2, KeptComplete DEF Inv, Ending
<1>7. 0 \in 0..(BlockWords + 1)
  BY Sizes
<1>8. Ending'
  BY <1>1, <1>2, <1>6, <1>7 DEF Ending
<1> QED BY <1>3, <1>4, <1>5, <1>8 DEF Inv

LEMMA GlobalWriteInv == ASSUME Inv, GlobalWrite PROVE Inv'
<1> DEFINE v == IF k = 0 THEN Mark("v10")
                ELSE IF k <= Appended THEN Blob(k)
                ELSE IF k = Appended + 1 THEN Default ELSE Blob(k - 1)
<1>1. /\ pc = "blob" /\ mem' = [mem EXCEPT ![k] = v]
      /\ IF k <= BlockWords THEN k' = k + 1 /\ UNCHANGED pc
         ELSE pc' = "done" /\ UNCHANGED k
      /\ UNCHANGED <<slot, b, stash, filled, kind, resets>>
  BY DEF GlobalWrite
<1>2. v # Magic
  BY Words
<1> HIDE DEF v
<1>3. k \in 0..(BlockWords + 1) /\ k \in 0..TABLE_WORD /\ k < TABLE_WORD
  BY <1>1, Sizes DEF Inv, Ending
<1>4. /\ mem' = [a \in 0..LastWord |-> mem'[a]] /\ mem'[TABLE_WORD] = mem[TABLE_WORD]
      /\ mem'[V9_TABLE_WORD] \in {v, mem[V9_TABLE_WORD]} /\ NewSame
  <2>1. TABLE_WORD \in 0..TABLE_WORD /\ V9_TABLE_WORD \in 0..TABLE_WORD /\ TABLE_WORD # k
    BY <1>3, Sizes
  <2> QED BY <1>1, <1>3, <2>1, StoreLow DEF Inv, NewSame
<1>5. mem[V9_TABLE_WORD] # Magic /\ mem'[V9_TABLE_WORD] # Magic
  BY <1>1, <1>2, <1>4 DEF Inv, Whole
<1>6. pc' \in {"blob", "done"} /\ (pc' = "blob" => k' \in 0..(BlockWords + 1))
  BY <1>1, <1>3, Sizes
<1>7. Shape'
  BY <1>1, <1>4, <1>6 DEF Inv, Shape
<1>8. Whole' /\ Stashing' /\ Copying' /\ Filling'
  BY <1>5, <1>6 DEF Whole, Stashing, Copying, Filling
<1>9. mem[TABLE_WORD] = Magic => Complete'
  BY <1>1, <1>4, KeptComplete DEF Inv, Ending
<1>10. ~resets => mem[TABLE_WORD] = Magic
  BY <1>1 DEF Inv, Ending
<1>11. Ending'
  BY <1>1, <1>4, <1>6, <1>9, <1>10 DEF Ending
<1> QED BY <1>7, <1>8, <1>11 DEF Inv

LEMMA ResetInv == ASSUME Inv, Reset PROVE Inv'
<1>1. pc' = "boot" /\ resets' = TRUE /\ UNCHANGED <<mem, kind>>
  BY DEF Reset
<1>2. Shape'
  BY <1>1 DEF Inv, Shape
<1>3. Whole'
  BY <1>1, SameWindow DEF Inv, Whole
<1>4. Stashing' /\ Copying' /\ Filling'
  BY <1>1 DEF Stashing, Copying, Filling
<1>5. Ending'
  BY <1>1, SameWindow DEF Inv, Ending
<1> QED BY <1>2, <1>3, <1>4, <1>5 DEF Inv

LEMMA StashMember ==
    ASSUME NEW low, StashOK(low), NEW i \in 1..Len(stash)
    PROVE  \E e \in Beyond : /\ e > low /\ Valid(e) /\ stash[i] = SavedEntry(e)
                             /\ stash[i][1] = Of(e, 0) /\ Converted(stash[i]) = Profile(e)
<1>1. PICK e \in Beyond : e > low /\ Valid(e) /\ stash[i] = SavedEntry(e)
  BY DEF StashOK
<1>2. e \in OldSlot
  BY SlotTypes
<1> QED BY <1>1, <1>2, SavedGood, SavedConverted

LEMMA StashInv == ASSUME Inv, Stash PROVE Inv'
<1>1. /\ pc = "stash" /\ UNCHANGED <<mem, b, kind, resets>>
      /\ IF slot >= ENTRY_COUNT
         THEN /\ stash' = IF Good(OldEntry(slot)) THEN Append(stash, OldEntry(slot)) ELSE stash
              /\ slot' = slot - 1 /\ UNCHANGED <<pc, k, filled>>
         ELSE pc' = "copy" /\ k' = 1 /\ filled' = {} /\ UNCHANGED <<slot, stash>>
  BY DEF Stash
<1>2. /\ slot \in (ENTRY_COUNT - 1)..(V9_ENTRY_COUNT - 1) /\ \A e \in OldSlot : OldKept(e)
      /\ StashOK(slot) /\ \A e \in Beyond : e > slot /\ Valid(e) => InStash(e)
  BY <1>1 DEF Inv, Stashing
<1>3. pc' \in {"stash", "copy"} /\ mem[V9_TABLE_WORD] # Magic /\ mem[TABLE_WORD] # Magic
  BY <1>1 DEF Inv, Whole, Ending
<1>4. Shape' /\ Whole' /\ Filling' /\ Ending'
  <2>1. pc' # "tail" /\ pc' # "fill" /\ pc' # "magic" /\ pc' # "drop" /\ pc' # "blob"
        /\ pc' # "boot" /\ pc' # "done"
    BY <1>3
  <2>2. Shape'
    BY <1>1, <1>3 DEF Inv, Shape
  <2> QED BY <1>1, <1>3, <2>1, <2>2 DEF Whole, Filling, Ending
<1>5. \A e \in OldSlot : OldKept(e)'
  BY <1>1, <1>2, SameWindow
<1>6. /\ \A e : SavedEntry(e)' = SavedEntry(e) /\ (Valid(e)' <=> Valid(e))
      /\ { SavedEntry(e) : e \in Beyond }' = { SavedEntry(e) : e \in Beyond }
  <2>1. \A e, f : Saved(e, f)' = Saved(e, f)
    BY <1>1 DEF Saved
  <2>2. \A e : SavedEntry(e)' = SavedEntry(e)
    BY <2>1 DEF SavedEntry
  <2> QED BY <1>1, <2>2 DEF Valid
<1>7. CASE slot >= ENTRY_COUNT
  <2>1. slot \in Beyond /\ slot \in OldSlot /\ slot \in Nat /\ slot' = slot - 1 /\ pc' = "stash"
    BY <1>1, <1>2, <1>7, Sizes DEF Beyond, OldSlot, Slot
  <2>2. OldEntry(slot) = SavedEntry(slot) /\ (Good(OldEntry(slot)) <=> Valid(slot))
    BY <1>2, <2>1, OldEntryIs, SavedGood
  <2>3. slot' \in (ENTRY_COUNT - 1)..(V9_ENTRY_COUNT - 1)
    BY <1>2, <1>7, <2>1, Sizes
  <2>4. \A e \in Beyond : e > slot' => e > slot \/ e = slot
    BY <2>1, SlotTypes
  <2>5. \A e \in Beyond : e > slot => e > slot'
    BY <2>1, SlotTypes
  <2>6. ASSUME ~Valid(slot) PROVE Stashing'
    <3>1. stash' = stash
      BY <1>1, <1>7, <2>2, <2>6
    <3>2. StashOK(slot)'
      BY <1>2, <1>6, <2>5, <3>1 DEF StashOK
    <3>3. \A e \in Beyond : e > slot' /\ Valid(e)' => InStash(e)'
      BY <1>2, <1>6, <2>4, <2>6, <3>1 DEF InStash
    <3> QED BY <1>5, <2>1, <2>3, <3>2, <3>3 DEF Stashing
  <2>7. ASSUME Valid(slot) PROVE Stashing'
    <3> DEFINE n == Len(stash)
               w == SavedEntry(slot)
               S == { SavedEntry(e) : e \in Beyond }
    <3>1. stash \in Seq(S) /\ n \in Nat /\ w \in S
      BY <1>2, <2>1 DEF StashOK
    <3>2. stash' = Append(stash, w)
      BY <1>1, <1>7, <2>2, <2>7
    <3> HIDE DEF S
    <3>3. /\ stash' \in Seq(S) /\ Len(stash') = n + 1 /\ stash'[n + 1] = w
          /\ \A i \in 1..n : stash'[i] = stash[i]
      <4> HIDE DEF w
      <4> QED BY <3>1, <3>2
    <3> HIDE DEF n
    <3>4. w[1] = Of(slot, 0)
      BY <2>1, <2>7, SavedGood
    <3>5. \A i \in 1..n : \E e \in Beyond :
             e > slot /\ Valid(e) /\ stash[i] = SavedEntry(e) /\ stash[i][1] = Of(e, 0)
      BY <1>2, StashMember DEF n
    <3>6. ASSUME NEW i \in 1..Len(stash')
          PROVE  \E e \in Beyond : e > slot' /\ Valid(e)' /\ stash'[i] = SavedEntry(e)'
      <4>1. CASE i = n + 1
        BY <1>6, <2>1, <2>7, <3>3, <4>1
      <4>2. CASE i \in 1..n
        BY <1>6, <2>5, <3>3, <3>5, <4>2
      <4> QED BY <3>1, <3>3, <4>1, <4>2
    <3>7. ASSUME NEW i \in 1..Len(stash'), NEW j \in 1..Len(stash'), stash'[i][1] = stash'[j][1]
          PROVE  i = j
      <4>1. \A x \in 1..n : stash'[x][1] # stash'[n + 1][1]
        <5> SUFFICES ASSUME NEW x \in 1..n PROVE stash'[x][1] # stash'[n + 1][1]
          OBVIOUS
        <5>1. PICK e \in Beyond : e > slot /\ stash[x][1] = Of(e, 0)
          BY <3>5
        <5>2. e # slot
          BY <2>1, <5>1, SlotTypes
        <5> QED BY <3>3, <3>4, <5>1, <5>2, Words
      <4>2. \A x, y \in 1..n : stash'[x][1] = stash'[y][1] => x = y
        BY <1>2, <3>3 DEF StashOK, n
      <4> QED BY <3>1, <3>3, <3>7, <4>1, <4>2
    <3>8. StashOK(slot)'
      BY <1>6, <3>3, <3>6, <3>7 DEF StashOK, S
    <3>9. ASSUME NEW e \in Beyond, e > slot', Valid(e)' PROVE InStash(e)'
      <4>1. CASE e = slot
        <5>1. stash'[n + 1] = SavedEntry(e)' /\ n + 1 \in 1..Len(stash')
          BY <1>6, <3>1, <3>3, <4>1
        <5> QED BY <5>1 DEF InStash
      <4>2. CASE e > slot
        <5>1. PICK i \in 1..n : stash[i] = SavedEntry(e)
          BY <1>2, <1>6, <3>9, <4>2 DEF InStash, n
        <5>2. i \in 1..Len(stash') /\ stash'[i] = SavedEntry(e)'
          BY <1>6, <3>1, <3>3, <5>1
        <5> QED BY <5>2 DEF InStash
      <4> QED BY <2>4, <3>9, <4>1, <4>2
    <3> QED BY <1>5, <2>1, <2>3, <3>8, <3>9 DEF Stashing
  <2>8. Copying'
    BY <2>1 DEF Copying
  <2> QED BY <1>4, <2>6, <2>7, <2>8 DEF Inv
<1>8. CASE ~(slot >= ENTRY_COUNT)
  <2>1. /\ slot = ENTRY_COUNT - 1 /\ slot' = slot /\ slot \in Slot /\ stash' = stash
        /\ pc' = "copy" /\ k' = 1 /\ filled' = {}
    BY <1>1, <1>2, <1>8, Sizes, SlotTypes
  <2>2. \A e \in Beyond : e > slot /\ e > 0
    BY <2>1, SlotTypes, Sizes
  <2>3. StashOK(0)' /\ \A e \in Beyond : Valid(e)' => InStash(e)'
    BY <1>2, <1>6, <2>1, <2>2 DEF StashOK, InStash
  <2>4. \A e \in Slot : ~(e > slot)
    BY <2>1, SlotTypes, Sizes
  <2>5. filled' = { e \in Slot : Valid(e)' /\ (e > slot' \/ (e = slot' /\ k' > 1)) }
    <3>1. \A e \in Slot : ~(Valid(e)' /\ (e > slot' \/ (e = slot' /\ k' > 1)))
      BY <2>1, <2>4
    <3> QED BY <2>1, <3>1
  <2>6. NewUpTo(slot, Target(slot), k)'
    BY <2>1 DEF NewUpTo
  <2>7. k' \in 1..ENTRY_WORDS /\ ~(k' > 1)
    BY <2>1, Sizes
  <2>8. Copying'
    BY <1>5, <2>1, <2>3, <2>4, <2>5, <2>6, <2>7, SlotTypes DEF Copying
  <2>9. Stashing'
    BY <2>1 DEF Stashing
  <2> QED BY <1>4, <2>8, <2>9 DEF Inv
<1> QED BY <1>7, <1>8

LEMMA CopyInv == ASSUME Inv, Copy PROVE Inv'
<1> DEFINE w == IF k = 1 THEN OldEntry(slot) ELSE b
<1>1. /\ pc = "copy" /\ b' = w
      /\ mem' = [mem EXCEPT ![NewAt(slot) + k - 1] = Image(w)[k]]
      /\ filled' = IF Good(w) THEN filled \cup {slot} ELSE filled
      /\ k' = IF k < ENTRY_WORDS THEN k + 1 ELSE 1
      /\ slot' = IF k < ENTRY_WORDS \/ slot = 0 THEN slot ELSE slot - 1
      /\ pc' = IF k = ENTRY_WORDS /\ slot = 0 THEN "tail" ELSE pc
      /\ stash' = stash /\ kind' = kind /\ resets' = resets
  BY DEF Copy
<1>2. /\ slot \in Slot /\ k \in 1..ENTRY_WORDS
      /\ StashOK(0) /\ \A e \in Beyond : Valid(e) => InStash(e)
      /\ \A e \in Slot : e < slot \/ (e = slot /\ k = 1) => OldKept(e)
      /\ k > 1 => b = SavedEntry(slot)
      /\ NewUpTo(slot, Target(slot), k)
      /\ \A e \in Slot : e > slot => NewIs(e, Target(e))
      /\ filled = { e \in Slot : Valid(e) /\ (e > slot \/ (e = slot /\ k > 1)) }
  BY <1>1 DEF Inv, Copying
<1>3. slot \in Nat /\ slot \in OldSlot /\ k \in Nat /\ k >= 1 /\ k <= ENTRY_WORDS
  BY <1>2, SlotTypes, Sizes
<1>4. w = SavedEntry(slot)
  BY <1>2, <1>3, OldEntryIs
<1> HIDE DEF w
<1>5. mem' = [mem EXCEPT ![NewAt(slot) + k - 1] = Target(slot)[k]] /\ (Good(w) <=> Valid(slot))
  BY <1>1, <1>3, <1>4, ImageIs, SavedGood
<1>6. /\ mem' = [a \in 0..LastWord |-> mem'[a]]
      /\ mem'[NewAt(slot) + k - 1] = Target(slot)[k]
      /\ \A a \in 0..TABLE_WORD : mem'[a] = mem[a]
      /\ \A t \in Slot : \A i \in 1..ENTRY_WORDS :
            t # slot \/ i # k => mem'[NewAt(t) + i - 1] = mem[NewAt(t) + i - 1]
      /\ \A e \in OldSlot : e < slot => \A i \in 1..V9_ENTRY_WORDS :
            mem'[OldAt(e) + i - 1] = mem[OldAt(e) + i - 1]
  BY <1>2, <1>5, StoreNew DEF Inv
<1>7. mem'[TABLE_WORD] = mem[TABLE_WORD] /\ mem'[V9_TABLE_WORD] = mem[V9_TABLE_WORD]
  BY <1>6, Sizes
<1>8. mem[TABLE_WORD] # Magic /\ mem[V9_TABLE_WORD] # Magic
  BY <1>1 DEF Inv, Ending, Whole
<1>9. \A e : (Valid(e)' <=> Valid(e)) /\ Target(e)' = Target(e)
  BY <1>1 DEF Valid, Target
<1>10. \A e \in Slot : e < slot => OldKept(e)'
  BY <1>1, <1>2, <1>6, KeptOld, SlotTypes
<1>11. \A i \in 1..ENTRY_WORDS : i < k + 1 => mem'[NewAt(slot) + i - 1] = Target(slot)[i]
  <2> SUFFICES ASSUME NEW i \in 1..ENTRY_WORDS, i < k + 1
               PROVE  mem'[NewAt(slot) + i - 1] = Target(slot)[i]
    OBVIOUS
  <2>1. CASE i = k
    BY <1>6, <2>1
  <2>2. CASE i # k
    <3>1. i < k
      BY <1>3, <2>2, Sizes
    <3>2. mem[NewAt(slot) + i - 1] = Target(slot)[i]
      BY <1>2, <3>1 DEF NewUpTo
    <3> QED BY <1>2, <1>6, <2>2, <3>2
  <2> QED BY <2>1, <2>2
<1>12. \A e \in Slot : e > slot => NewIs(e, Target(e))'
  <2> SUFFICES ASSUME NEW e \in Slot, e > slot, NEW i \in 1..ENTRY_WORDS
               PROVE  mem'[NewAt(e) + i - 1] = Target(e)[i]
    BY <1>9 DEF NewIs
  <2>1. e # slot
    BY <1>3
  <2>2. mem[NewAt(e) + i - 1] = Target(e)[i]
    BY <1>2 DEF NewIs
  <2> QED BY <1>6, <2>1, <2>2
<1>13. filled' = { e \in Slot : Valid(e) /\ (e > slot \/ e = slot) }
  <2>1. CASE Valid(slot)
    BY <1>1, <1>2, <1>5, <2>1
  <2>2. CASE ~Valid(slot)
    BY <1>1, <1>2, <1>5, <2>2
  <2> QED BY <2>1, <2>2
<1>14. StashOK(0)' /\ \A e \in Beyond : Valid(e)' => InStash(e)'
  BY <1>1, <1>2, <1>9, KeptStash
<1>15. pc' \in {"copy", "tail"}
  BY <1>1
<1>16. Shape' /\ Whole' /\ Stashing' /\ Ending'
  <2>1. Shape'
    BY <1>1, <1>6, <1>15 DEF Inv, Shape
  <2>2. pc' # "stash" /\ pc' # "magic" /\ pc' # "drop" /\ pc' # "blob" /\ pc' # "boot" /\ pc' # "done"
    BY <1>15
  <2> QED BY <1>7, <1>8, <2>1, <2>2 DEF Whole, Stashing, Ending
<1>17. CASE k < ENTRY_WORDS
  <2>1. k' = k + 1 /\ slot' = slot /\ pc' = "copy" /\ b' = SavedEntry(slot)
    BY <1>1, <1>3, <1>4, <1>17, Sizes
  <2>2. k' \in 1..ENTRY_WORDS /\ k' > 1 /\ k' # 1
    BY <1>3, <1>17, <2>1, Sizes
  <2>3. NewUpTo(slot, Target(slot), k)'
    BY <1>9, <1>11, <2>1 DEF NewUpTo
  <2>4. b' = SavedEntry(slot)'
    BY <1>1, <2>1, KeptStash
  <2>5. filled' = { e \in Slot : Valid(e)' /\ (e > slot' \/ (e = slot' /\ k' > 1)) }
    BY <1>9, <1>13, <2>1, <2>2
  <2>6. Copying'
    BY <1>2, <1>10, <1>12, <1>14, <2>1, <2>2, <2>3, <2>4, <2>5 DEF Copying
  <2>7. Filling'
    BY <2>1 DEF Filling
  <2> QED BY <1>16, <2>6, <2>7 DEF Inv
<1>18. CASE k = ENTRY_WORDS
  <2>1. \A e \in Slot : e = slot => NewIs(e, Target(e))'
    BY <1>9, <1>11, <1>18, Sizes DEF NewIs
  <2>2. k' = 1
    BY <1>1, <1>3, <1>18, Sizes
  <2>3. CASE slot = 0
    <3>1. pc' = "tail" /\ slot' = 0
      BY <1>1, <1>18, <2>3
    <3>2. \A s \in Slot : NewIs(s, Target(s))'
      BY <1>3, <1>12, <2>1, <2>3, SlotTypes
    <3>3. filled' = { e \in Slot : Valid(e)' }
      BY <1>9, <1>13, <2>3, SlotTypes
    <3>4. \A s \in Slot : Valid(s)' => NewIs(s, Profile(s))'
      BY <1>9, <3>2 DEF Target
    <3>5. \A s \in Slot : ~Valid(s)' => NewIs(s, Cleared)'
      BY <1>9, <3>2 DEF Target
    <3>6. \A s \in Slot : ~(s < slot')
      BY <3>1, SlotTypes
    <3>7. Placing(slot)'
      BY <1>14, <3>3, <3>4, <3>5, <3>6 DEF Placing
    <3>8. Filling'
      BY <2>2, <3>1, <3>7, Sizes DEF Filling
    <3>9. Copying'
      BY <3>1 DEF Copying
    <3> QED BY <1>16, <3>8, <3>9 DEF Inv
  <2>4. CASE slot # 0
    <3>1. pc' = "copy" /\ slot' = slot - 1
      BY <1>1, <1>18, <2>4, <1>3, Sizes
    <3>2. slot' \in Slot /\ slot' \in Nat /\ slot' < slot
      BY <1>2, <1>3, <2>4, <3>1, SlotTypes, Sizes
    <3>3. \A e \in Slot : (e < slot' \/ e = slot' => e < slot) /\ (e > slot' <=> e > slot \/ e = slot)
      BY <1>3, <3>1, <3>2, SlotTypes
    <3>4. \A e \in Slot : e > slot' => NewIs(e, Target(e))'
      BY <1>12, <2>1, <3>3
    <3>5. filled' = { e \in Slot : Valid(e)' /\ (e > slot' \/ (e = slot' /\ k' > 1)) }
      <4>1. ~(k' > 1)
        BY <2>2
      <4>2. filled' = { e \in Slot : Valid(e)' /\ e > slot' }
        BY <1>9, <1>13, <3>3
      <4> QED BY <4>1, <4>2
    <3>6. NewUpTo(slot, Target(slot), k)'
      BY <2>2 DEF NewUpTo
    <3>7. k' \in 1..ENTRY_WORDS /\ ~(k' > 1)
      BY <2>2, Sizes
    <3>8. Copying'
      BY <1>10, <1>14, <3>1, <3>2, <3>3, <3>4, <3>5, <3>6, <3>7 DEF Copying
    <3>9. Filling'
      BY <3>1 DEF Filling
    <3> QED BY <1>16, <3>8, <3>9 DEF Inv
  <2> QED BY <2>3, <2>4
<1> QED BY <1>3, <1>17, <1>18, Sizes

\* A non-empty set of naturals has a least element.
LEMMA Least ==
    ASSUME NEW S \in SUBSET Nat, S # {}
    PROVE  \E m \in S : \A n \in S : m <= n
<1>1. PICK m \in S : \A n \in S : ~(<<n, m>> \in OpToRel(<, Nat))
  BY NatLessThanWellFounded, WFMin
<1>2. \A n \in S : ~(n < m)
  BY <1>1 DEF OpToRel
<1> QED BY <1>2

\* With nothing left to place, or no slot left, the table is complete.
LEMMA PlacedComplete ==
    ASSUME Inv, pc = "tail", stash = <<>> \/ FreeFrom(slot) = {}
    PROVE  Complete
<1>1. slot \in 0..ENTRY_COUNT /\ Placing(slot)
  BY DEF Inv, Filling
<1>2. \A s \in Slot : Valid(s) => NewEntry(s) = Profile(s) /\ mem[NewAt(s)] = Of(s, 0)
  <2> SUFFICES ASSUME NEW s \in Slot, Valid(s)
               PROVE  NewEntry(s) = Profile(s) /\ mem[NewAt(s)] = Of(s, 0)
    OBVIOUS
  <2>1. NewIs(s, Profile(s)) /\ s \in Nat
    BY <1>1, SlotTypes DEF Placing
  <2> QED BY <2>1, ProfileWords, NewEntryIs, NewFirst
<1>3. \A s \in Slot : ~Valid(s) /\ s >= slot => ~Good(NewEntry(s))
  <2> SUFFICES ASSUME NEW s \in Slot, ~Valid(s), s >= slot PROVE ~Good(NewEntry(s))
    OBVIOUS
  <2>1. NewIs(s, Cleared)
    BY <1>1 DEF Placing
  <2>2. NewEntry(s) = Cleared
    BY <2>1, ClearedWords, NewEntryIs
  <2> QED BY <2>2, ClearedWords
<1>4. \A s \in Slot : ~Valid(s) /\ s < slot => \E e \in Beyond :
         Valid(e) /\ NewIs(s, Profile(e)) /\ NewEntry(s) = Profile(e) /\ mem[NewAt(s)] = Of(e, 0)
  <2> SUFFICES ASSUME NEW s \in Slot, ~Valid(s), s < slot
               PROVE  \E e \in Beyond : /\ Valid(e) /\ NewIs(s, Profile(e))
                                        /\ NewEntry(s) = Profile(e) /\ mem[NewAt(s)] = Of(e, 0)
    OBVIOUS
  <2>1. PICK e \in Beyond : Valid(e) /\ NewIs(s, Profile(e))
    BY <1>1 DEF Placing
  <2>2. e \in Nat
    BY SlotTypes
  <2> QED BY <2>1, <2>2, ProfileWords, NewEntryIs, NewFirst
<1>5. \A s \in Slot : s >= slot \/ s < slot
  BY <1>1, SlotTypes, Sizes
<1>6. \A s \in Slot : Good(NewEntry(s)) => Valid(s) \/ s < slot
  BY <1>3, <1>5
<1>7. \A s \in Slot : Valid(s) \/ s < slot => Good(NewEntry(s))
  BY <1>2, <1>4, ProfileWords, SlotTypes
<1>8. ASSUME NEW e \in Beyond, Valid(e)
      PROVE  (\E s \in Slot : NewIs(s, Profile(e))) \/ (\A s \in Slot : Good(NewEntry(s)))
  <2>1. CASE stash = <<>>
    <3>1. ~InStash(e)
      BY <2>1 DEF InStash
    <3> QED BY <1>1, <1>8, <3>1 DEF Placing
  <2>2. CASE FreeFrom(slot) = {}
    <3>1. \A s \in Slot : s >= slot => s \in filled
      BY <2>2 DEF FreeFrom
    <3>2. \A s \in Slot : s >= slot => Valid(s)
      BY <1>1, <3>1 DEF Placing
    <3> QED BY <1>5, <1>7, <3>2
  <2> QED BY <2>1, <2>2
<1>9. ASSUME NEW s \in Slot, Good(NewEntry(s))
      PROVE  \E e \in OldSlot : Valid(e) /\ NewIs(s, Profile(e))
  <2>1. CASE Valid(s)
    BY <1>1, <2>1, SlotTypes DEF Placing
  <2>2. CASE ~Valid(s)
    BY <1>4, <1>6, <1>9, <2>2, SlotTypes
  <2> QED BY <2>1, <2>2
<1>10. ASSUME NEW s \in Slot, NEW t \in Slot, Good(NewEntry(s)), mem[NewAt(s)] = mem[NewAt(t)]
       PROVE  s = t
  <2>1. NewEntry(s)[1] = mem[NewAt(s)] /\ NewEntry(t)[1] = mem[NewAt(t)]
    BY NewFirst
  <2>2. Valid(t) \/ t < slot
    <3>1. SUFFICES ASSUME ~Valid(t), t >= slot PROVE FALSE
      BY <1>5
    <3>2. NewIs(t, Cleared)
      BY <1>1, <3>1 DEF Placing
    <3>3. mem[NewAt(t)] = Zero
      <4>1. mem[NewAt(t)] = Cleared[1]
        BY <3>2, NewFirst
      <4>2. 1 \in 1..ENTRY_WORDS
        BY Sizes
      <4> QED BY <4>1, <4>2, ClearedWords
    <3> QED BY <1>10, <2>1, <3>3, Words DEF Good
  <2>3. Valid(s) \/ s < slot
    BY <1>6, <1>10
  <2>4. CASE Valid(s) /\ Valid(t)
    BY <1>2, <1>10, <2>4, Words
  <2>5. CASE Valid(s) /\ ~Valid(t)
    <3>1. PICK e \in Beyond : mem[NewAt(t)] = Of(e, 0)
      BY <1>4, <2>2, <2>5
    <3> QED BY <1>2, <1>10, <2>5, <3>1, Words, SlotTypes
  <2>6. CASE ~Valid(s) /\ Valid(t)
    <3>1. PICK e \in Beyond : mem[NewAt(s)] = Of(e, 0)
      BY <1>4, <2>3, <2>6
    <3>2. mem[NewAt(t)] = Of(t, 0) /\ e # t
      BY <1>2, <2>6, SlotTypes
    <3>3. Of(e, 0) # Of(t, 0)
      BY <3>2, Words
    <3> QED BY <1>10, <3>1, <3>2, <3>3
  <2>7. CASE ~Valid(s) /\ ~Valid(t)
    BY <1>1, <1>10, <2>2, <2>3, <2>7 DEF Placing
  <2> QED BY <2>4, <2>5, <2>6, <2>7
<1>11. \A s \in Slot : Valid(s) => NewIs(s, Profile(s))
  BY <1>1 DEF Placing
<1> QED BY <1>8, <1>9, <1>10, <1>11 DEF Complete

LEMMA TailSlotInv == ASSUME Inv, TailSlot PROVE Inv'
<1>1. /\ pc = "tail" /\ UNCHANGED <<mem, k, b, stash, filled, kind, resets>>
      /\ IF stash # <<>> /\ FreeFrom(slot) # {}
         THEN /\ pc' = "fill"
              /\ slot' = CHOOSE f \in FreeFrom(slot) : \A g \in FreeFrom(slot) : f <= g
         ELSE pc' = "magic" /\ slot' = slot
  BY DEF TailSlot
<1>2. slot \in 0..ENTRY_COUNT /\ k = 1 /\ Placing(slot)
  BY <1>1 DEF Inv, Filling
<1>3. mem[TABLE_WORD] # Magic /\ mem[V9_TABLE_WORD] # Magic
  BY <1>1 DEF Inv, Ending, Whole
<1>4. pc' \in {"fill", "magic"}
  BY <1>1
<1>5. Shape' /\ Whole' /\ Stashing' /\ Copying'
  <2>1. pc' # "stash" /\ pc' # "copy"
    BY <1>4
  <2>2. Shape'
    BY <1>1, <1>4 DEF Inv, Shape
  <2> QED BY <1>1, <1>3, <2>1, <2>2 DEF Whole, Stashing, Copying
<1>6. CASE stash # <<>> /\ FreeFrom(slot) # {}
  <2>1. pc' = "fill" /\ slot' \in FreeFrom(slot) /\ \A g \in FreeFrom(slot) : slot' <= g
    <3>1. FreeFrom(slot) \in SUBSET Nat
      BY SlotTypes DEF FreeFrom
    <3>2. \E f \in FreeFrom(slot) : \A g \in FreeFrom(slot) : f <= g
      BY <1>6, <3>1, Least
    <3> QED BY <1>1, <1>6, <3>2
  <2>2. slot' \in Slot /\ slot' \in Nat /\ slot' >= slot /\ ~Valid(slot')
    BY <1>2, <2>1, SlotTypes DEF FreeFrom, Placing
  <2>3. \A s \in Slot : ~Valid(s) /\ s < slot' => s < slot
    <3> SUFFICES ASSUME NEW s \in Slot, ~Valid(s), s < slot', ~(s < slot) PROVE FALSE
      OBVIOUS
    <3>1. s \notin filled /\ s \in Nat /\ s >= slot
      BY <1>2, SlotTypes, Sizes DEF Placing
    <3>2. s \in FreeFrom(slot)
      BY <3>1 DEF FreeFrom
    <3> QED BY <2>1, <2>2, <3>1, <3>2
  <2>4. \A s \in Slot : (s >= slot' + 1 => s >= slot) /\ (s < slot => s < slot')
    <3>1. slot \in Nat
      BY <1>2, Sizes
    <3>2. ASSUME NEW s \in Slot PROVE (s >= slot' + 1 => s >= slot) /\ (s < slot => s < slot')
      <4>1. s \in Nat
        BY SlotTypes
      <4>2. slot' \in Nat /\ slot' >= slot
        BY <2>2
      <4>3. \A x, y, z \in Nat : y >= x => (z >= y + 1 => z >= x) /\ (z < x => z < y)
        OBVIOUS
      <4> QED BY <3>1, <4>1, <4>2, <4>3
    <3> QED BY <3>2
  <2>5. /\ \A e : (Valid(e)' <=> Valid(e)) /\ (InStash(e)' <=> InStash(e))
        /\ StashOK(0)'
        /\ \A s \in Slot : \A w : NewIs(s, w)' <=> NewIs(s, w)
    BY <1>1, <1>2, SameWindow, KeptStash, KeptNew DEF Placing
  <2>6. Placing(slot + 1)'
    <3>1. filled' = { e \in Slot : Valid(e)' }
      BY <1>1, <1>2, <2>5 DEF Placing
    <3>2. /\ \A s \in Slot : Valid(s)' => NewIs(s, Profile(s))'
          /\ \A s \in Slot : ~Valid(s)' /\ s >= slot' + 1 => NewIs(s, Cleared)'
      BY <1>2, <2>4, <2>5 DEF Placing
    <3>3. \A s \in Slot : ~Valid(s)' /\ s < slot' =>
             /\ \E e \in Beyond : Valid(e)' /\ NewIs(s, Profile(e))'
             /\ \A i \in 1..Len(stash') : stash'[i][1] # mem'[NewAt(s)]
      BY <1>1, <1>2, <2>3, <2>5 DEF Placing
    <3>4. \A s, t \in Slot : ~Valid(s)' /\ ~Valid(t)' /\ s < slot' /\ t < slot' /\ s # t
             => mem'[NewAt(s)] # mem'[NewAt(t)]
      BY <1>1, <1>2, <2>3, <2>5 DEF Placing
    <3>5. \A e \in Beyond : Valid(e)' =>
             InStash(e)' \/ \E s \in Slot : s < slot' /\ NewIs(s, Profile(e))'
      BY <1>2, <2>4, <2>5 DEF Placing
    <3> QED BY <2>5, <3>1, <3>2, <3>3, <3>4, <3>5 DEF Placing
  <2>7. NewUpTo(slot, Converted(stash[1]), k)'
    BY <1>1, <1>2 DEF NewUpTo
  <2>8. Filling'
    <3>1. k' \in 1..ENTRY_WORDS /\ stash' # <<>> /\ ~Valid(slot)'
      BY <1>1, <1>2, <1>6, <2>2, <2>5, Sizes
    <3> QED BY <2>1, <2>2, <2>6, <2>7, <3>1 DEF Filling
  <2>9. Ending'
    BY <1>1, <1>3, <2>1 DEF Ending
  <2> QED BY <1>5, <2>8, <2>9 DEF Inv
<1>7. CASE ~(stash # <<>> /\ FreeFrom(slot) # {})
  <2>1. pc' = "magic"
    BY <1>1, <1>7
  <2>2. Complete'
    BY <1>1, <1>7, PlacedComplete, SameWindow
  <2>3. Filling' /\ Ending'
    BY <1>1, <1>3, <2>1, <2>2 DEF Filling, Ending
  <2> QED BY <1>5, <2>3 DEF Inv
<1> QED BY <1>6, <1>7

LEMMA FillInv == ASSUME Inv, Fill PROVE Inv'
<1>1. /\ pc = "fill"
      /\ mem' = [mem EXCEPT ![NewAt(slot) + k - 1] = Converted(Head(stash))[k]]
      /\ IF k < ENTRY_WORDS
         THEN k' = k + 1 /\ UNCHANGED <<pc, slot, stash>>
         ELSE /\ k' = 1 /\ stash' = Tail(stash) /\ slot' = slot + 1 /\ pc' = "tail"
      /\ UNCHANGED <<b, filled, kind, resets>>
  BY DEF Fill
<1>2. /\ slot \in Slot /\ ~Valid(slot) /\ k \in 1..ENTRY_WORDS /\ stash # <<>>
      /\ Placing(slot + 1) /\ NewUpTo(slot, Converted(stash[1]), k)
  BY <1>1 DEF Inv, Filling
<1>3. slot \in Nat /\ k \in Nat /\ k >= 1 /\ k <= ENTRY_WORDS /\ StashOK(0)
  BY <1>2, SlotTypes, Sizes DEF Placing
<1> DEFINE n == Len(stash)
           S == { SavedEntry(e) : e \in Beyond }
<1>4. stash \in Seq(S) /\ n \in Nat /\ n >= 1
  <2>1. stash \in Seq(S)
    BY <1>3 DEF StashOK
  <2> HIDE DEF S
  <2> QED BY <1>2, <2>1
<1> HIDE DEF S
<1>5. Head(stash) = stash[1]
  BY <1>4
<1>6. /\ Len(Tail(stash)) = n - 1 /\ Tail(stash) \in Seq(S)
      /\ \A i \in 1..(n - 1) : Tail(stash)[i] = stash[i + 1]
  BY <1>2, <1>4
<1> HIDE DEF n
<1>7. 1 \in 1..n
  BY <1>4
<1>8. PICK h \in Beyond : /\ Valid(h) /\ stash[1] = SavedEntry(h) /\ stash[1][1] = Of(h, 0)
                          /\ Converted(stash[1]) = Profile(h)
  BY <1>3, <1>7, StashMember DEF n
<1>9. /\ mem' = [a \in 0..LastWord |-> mem'[a]]
      /\ mem'[NewAt(slot) + k - 1] = Profile(h)[k]
      /\ \A a \in 0..TABLE_WORD : mem'[a] = mem[a]
      /\ \A t \in Slot : \A i \in 1..ENTRY_WORDS :
            t # slot \/ i # k => mem'[NewAt(t) + i - 1] = mem[NewAt(t) + i - 1]
  <2>1. mem' = [mem EXCEPT ![NewAt(slot) + k - 1] = Profile(h)[k]]
    BY <1>1, <1>5, <1>8
  <2> DEFINE v == Profile(h)[k]
  <2>2. Shape /\ mem' = [mem EXCEPT ![NewAt(slot) + k - 1] = v]
    BY <2>1 DEF Inv
  <2> HIDE DEF v
  <2>3. /\ mem' = [a \in 0..LastWord |-> mem'[a]]
        /\ mem'[NewAt(slot) + k - 1] = v
        /\ \A a \in 0..TABLE_WORD : mem'[a] = mem[a]
        /\ \A t \in Slot : \A i \in 1..ENTRY_WORDS :
              t # slot \/ i # k => mem'[NewAt(t) + i - 1] = mem[NewAt(t) + i - 1]
        /\ \A e \in OldSlot : e < slot => \A i \in 1..V9_ENTRY_WORDS :
              mem'[OldAt(e) + i - 1] = mem[OldAt(e) + i - 1]
    BY <1>2, <2>2, StoreNew
  <2> QED BY <2>3 DEF v
<1>10. mem'[TABLE_WORD] = mem[TABLE_WORD] /\ mem'[V9_TABLE_WORD] = mem[V9_TABLE_WORD]
  BY <1>9, Sizes
<1>11. mem[TABLE_WORD] # Magic /\ mem[V9_TABLE_WORD] # Magic
  BY <1>1 DEF Inv, Ending, Whole
<1>12. pc' \in {"fill", "tail"}
  BY <1>1
<1>13. Shape' /\ Whole' /\ Stashing' /\ Copying' /\ Ending'
  <2>1. pc' # "stash" /\ pc' # "copy" /\ pc' # "magic" /\ pc' # "drop" /\ pc' # "blob"
        /\ pc' # "boot" /\ pc' # "done"
    BY <1>12
  <2>2. Shape'
    BY <1>1, <1>9, <1>12 DEF Inv, Shape
  <2> QED BY <1>10, <1>11, <2>1, <2>2 DEF Whole, Stashing, Copying, Ending
<1>14. /\ \A e : (Valid(e)' <=> Valid(e)) /\ SavedEntry(e)' = SavedEntry(e)
       /\ { SavedEntry(e) : e \in Beyond }' = S
  <2>1. \A e, f : Saved(e, f)' = Saved(e, f)
    BY <1>1 DEF Saved
  <2>2. \A e : SavedEntry(e)' = SavedEntry(e)
    BY <2>1 DEF SavedEntry
  <2> QED BY <1>1, <2>2 DEF Valid, S
<1>15. \A i \in 1..ENTRY_WORDS : i < k + 1 => mem'[NewAt(slot) + i - 1] = Profile(h)[i]
  <2> SUFFICES ASSUME NEW i \in 1..ENTRY_WORDS, i < k + 1
               PROVE  mem'[NewAt(slot) + i - 1] = Profile(h)[i]
    OBVIOUS
  <2>1. CASE i = k
    BY <1>9, <2>1
  <2>2. CASE i # k
    <3>1. i < k
      BY <1>3, <2>2, Sizes
    <3>2. mem[NewAt(slot) + i - 1] = Profile(h)[i]
      BY <1>2, <1>8, <3>1 DEF NewUpTo
    <3> QED BY <1>2, <1>9, <2>2, <3>2
  <2> QED BY <2>1, <2>2
<1>16. /\ \A s \in Slot : s # slot => \A w : NewIs(s, w)' <=> NewIs(s, w)
       /\ \A s \in Slot : s # slot => mem'[NewAt(s)] = mem[NewAt(s)]
  <2>1. ASSUME NEW s \in Slot, s # slot PROVE mem'[NewAt(s)] = mem[NewAt(s)]
    <3>1. 1 \in 1..ENTRY_WORDS /\ NewAt(s) + 1 - 1 = NewAt(s)
      BY Sizes, AtType, SlotTypes
    <3>2. mem'[NewAt(s) + 1 - 1] = mem[NewAt(s) + 1 - 1]
      BY <1>9, <2>1, <3>1
    <3> QED BY <3>1, <3>2
  <2> QED BY <1>9, <2>1 DEF NewIs
<1>17. filled' = { e \in Slot : Valid(e)' }
  BY <1>1, <1>2, <1>14 DEF Placing
<1>18. \A s \in Slot : Valid(s)' => NewIs(s, Profile(s))'
  BY <1>2, <1>14, <1>16 DEF Placing
<1>19. \A s \in Slot : ~Valid(s)' /\ s >= slot + 1 => NewIs(s, Cleared)'
  BY <1>2, <1>3, <1>14, <1>16, SlotTypes DEF Placing
<1>20. \A s \in Slot : ~Valid(s)' /\ s < slot =>
          /\ \E e \in Beyond : Valid(e)' /\ NewIs(s, Profile(e))'
          /\ \A i \in 1..n : stash[i][1] # mem'[NewAt(s)]
  <2> SUFFICES ASSUME NEW s \in Slot, ~Valid(s), s < slot
               PROVE  /\ \E e \in Beyond : Valid(e)' /\ NewIs(s, Profile(e))'
                      /\ \A i \in 1..n : stash[i][1] # mem'[NewAt(s)]
    BY <1>14
  <2>1. s # slot
    BY <1>3, SlotTypes
  <2> QED BY <1>2, <1>14, <1>16, <2>1 DEF Placing, n
<1>21. \A s, t \in Slot : ~Valid(s)' /\ ~Valid(t)' /\ s < slot /\ t < slot /\ s # t
          => mem'[NewAt(s)] # mem'[NewAt(t)]
  <2>1. \A s \in Slot : s < slot => s # slot
    BY <1>3, SlotTypes
  <2> QED BY <1>2, <1>14, <1>16, <2>1 DEF Placing
<1>22. \A e \in Beyond : Valid(e) =>
          InStash(e) \/ \E s \in Slot : s < slot /\ NewIs(s, Profile(e))'
  <2>1. \A s \in Slot : s < slot => s # slot
    BY <1>3, SlotTypes
  <2> QED BY <1>2, <1>16, <2>1 DEF Placing
<1>23. CASE k < ENTRY_WORDS
  <2>1. k' = k + 1 /\ pc' = "fill" /\ slot' = slot /\ stash' = stash
    BY <1>1, <1>23
  <2>2. k' \in 1..ENTRY_WORDS
    BY <1>3, <1>23, <2>1, Sizes
  <2>3. StashOK(0)' /\ \A e : InStash(e)' <=> InStash(e)
    BY <1>1, <1>3, <2>1, KeptStash
  <2>4. Placing(slot + 1)'
    BY <1>14, <1>17, <1>18, <1>19, <1>20, <1>21, <1>22, <2>1, <2>3 DEF Placing, n
  <2>5. NewUpTo(slot, Converted(stash[1]), k)'
    <3>1. Converted(stash'[1]) = Profile(h)
      BY <1>8, <2>1
    <3> QED BY <1>15, <2>1, <3>1 DEF NewUpTo
  <2>6. Filling'
    BY <1>2, <1>14, <2>1, <2>2, <2>4, <2>5 DEF Filling
  <2> QED BY <1>13, <2>6 DEF Inv
<1>24. CASE k = ENTRY_WORDS
  <2>1. k' = 1 /\ stash' = Tail(stash) /\ slot' = slot + 1 /\ pc' = "tail"
    BY <1>1, <1>24, <1>3, Sizes
  <2>2. \A s \in Slot : s = slot => NewIs(s, Profile(h))' /\ mem'[NewAt(s)] = Of(h, 0)
    <3> SUFFICES ASSUME NEW s \in Slot, s = slot
                 PROVE  NewIs(s, Profile(h))' /\ mem'[NewAt(s)] = Of(h, 0)
      OBVIOUS
    <3>1. NewIs(s, Profile(h))'
      BY <1>15, <1>24, Sizes DEF NewIs
    <3>2. 1 \in 1..ENTRY_WORDS /\ 1 < k + 1 /\ NewAt(s) + 1 - 1 = NewAt(s) /\ h \in Nat
      BY <1>3, Sizes, AtType, SlotTypes
    <3>3. mem'[NewAt(s) + 1 - 1] = Profile(h)[1]
      BY <1>15, <3>2
    <3> QED BY <3>1, <3>2, <3>3, ProfileWords
  <2>3. /\ Len(stash') = n - 1 /\ stash' \in Seq(S)
        /\ \A i \in 1..(n - 1) : i + 1 \in 1..n /\ stash'[i] = stash[i + 1]
    BY <1>4, <1>6, <2>1
  <2>4. StashOK(0)'
    <3>1. \A i \in 1..n : \E e \in Beyond : e > 0 /\ Valid(e) /\ stash[i] = SavedEntry(e)
      BY <1>3 DEF StashOK, n
    <3>2. \A i, j \in 1..n : stash[i][1] = stash[j][1] => i = j
      BY <1>3 DEF StashOK, n
    <3>3. \A i \in 1..Len(stash') :
             \E e \in Beyond : e > 0 /\ Valid(e)' /\ stash'[i] = SavedEntry(e)'
      BY <1>14, <2>3, <3>1
    <3>4. ASSUME NEW i \in 1..Len(stash'), NEW j \in 1..Len(stash'), stash'[i][1] = stash'[j][1]
          PROVE  i = j
      <4>1. i + 1 = j + 1
        BY <2>3, <3>2, <3>4
      <4> QED BY <1>4, <2>3, <4>1
    <3> QED BY <1>14, <2>3, <3>3, <3>4 DEF StashOK
  <2>5. \A i \in 1..(n - 1) : stash'[i][1] # Of(h, 0)
    <3> SUFFICES ASSUME NEW i \in 1..(n - 1), stash'[i][1] = Of(h, 0) PROVE FALSE
      OBVIOUS
    <3>1. i + 1 \in 1..n /\ stash[i + 1][1] = stash[1][1]
      BY <1>8, <2>3
    <3>2. i + 1 = 1
      BY <1>3, <1>7, <3>1 DEF StashOK, n
    <3> QED BY <1>4, <3>2
  <2>6. \A s \in Slot : s < slot + 1 => s < slot \/ s = slot
    BY <1>3, SlotTypes
  <2>7. \A s \in Slot : ~Valid(s)' /\ s < slot' =>
           /\ \E e \in Beyond : Valid(e)' /\ NewIs(s, Profile(e))'
           /\ \A i \in 1..Len(stash') : stash'[i][1] # mem'[NewAt(s)]
    <3> SUFFICES ASSUME NEW s \in Slot, ~Valid(s)', s < slot'
                 PROVE  /\ \E e \in Beyond : Valid(e)' /\ NewIs(s, Profile(e))'
                        /\ \A i \in 1..Len(stash') : stash'[i][1] # mem'[NewAt(s)]
      OBVIOUS
    <3>1. CASE s = slot
      BY <1>8, <1>14, <2>2, <2>3, <2>5, <3>1
    <3>2. CASE s < slot
      <4>1. \A i \in 1..n : stash[i][1] # mem'[NewAt(s)]
        BY <1>20, <3>2
      <4>2. \A i \in 1..Len(stash') : stash'[i][1] # mem'[NewAt(s)]
        BY <2>3, <4>1
      <4> QED BY <1>20, <3>2, <4>2
    <3> QED BY <2>1, <2>6, <3>1, <3>2
  <2>8. \A s, t \in Slot : ~Valid(s)' /\ ~Valid(t)' /\ s < slot' /\ t < slot' /\ s # t
           => mem'[NewAt(s)] # mem'[NewAt(t)]
    <3>1. \A s \in Slot : ~Valid(s)' /\ s < slot => mem'[NewAt(s)] # Of(h, 0)
      BY <1>7, <1>8, <1>20
    <3> QED BY <1>21, <2>1, <2>2, <2>6, <3>1
  <2>9. ASSUME NEW e \in Beyond, Valid(e)'
        PROVE  InStash(e)' \/ \E s \in Slot : s < slot' /\ NewIs(s, Profile(e))'
    <3>1. CASE InStash(e)
      <4>1. PICK i \in 1..n : stash[i] = SavedEntry(e)
        BY <3>1 DEF InStash, n
      <4>2. CASE i = 1
        <5>1. Profile(e) = Profile(h)
          BY <1>8, <1>14, <2>9, <4>1, <4>2, SavedConverted, SlotTypes
        <5>2. slot < slot'
          BY <1>3, <2>1
        <5> QED BY <1>2, <2>2, <5>1, <5>2
      <4>3. CASE i # 1
        <5>1. i - 1 \in 1..Len(stash') /\ i - 1 \in 1..(n - 1) /\ (i - 1) + 1 = i
          BY <1>4, <2>3, <4>3
        <5>2. stash'[i - 1] = SavedEntry(e)'
          BY <1>14, <2>3, <4>1, <5>1
        <5> QED BY <5>1, <5>2 DEF InStash
      <4> QED BY <4>2, <4>3
    <3>2. CASE \E s \in Slot : s < slot /\ NewIs(s, Profile(e))'
      <4>1. \A s \in Slot : s < slot => s < slot'
        BY <1>3, <2>1, SlotTypes
      <4> QED BY <3>2, <4>1
    <3> QED BY <1>14, <1>22, <2>9, <3>1, <3>2
  <2>10. \A s \in Slot : ~Valid(s)' /\ s >= slot' => NewIs(s, Cleared)'
    BY <1>19, <2>1
  <2>11. Placing(slot)'
    BY <1>17, <1>18, <2>4, <2>7, <2>8, <2>9, <2>10 DEF Placing
  <2>12. slot' \in 0..ENTRY_COUNT
    BY <1>2, <2>1, SlotTypes, Sizes
  <2>13. Filling'
    BY <2>1, <2>11, <2>12 DEF Filling
  <2> QED BY <1>13, <2>13 DEF Inv
<1> QED BY <1>3, <1>23, <1>24, Sizes

LEMMA NextInv == Inv /\ [Next]_vars => Inv'
<1> SUFFICES ASSUME Inv, [Next]_vars PROVE Inv'
  OBVIOUS
<1>1. CASE Boot \/ Drop \/ Stash \/ Copy
  BY <1>1, BootInv, DropInv, StashInv, CopyInv
<1>2. CASE TailSlot \/ Fill
  BY <1>2, TailSlotInv, FillInv
<1>3. CASE WriteMagic \/ GlobalWrite \/ Reset
  BY <1>3, WriteMagicInv, GlobalWriteInv, ResetInv
<1>4. CASE UNCHANGED vars
  <2>1. UNCHANGED <<mem, pc, slot, k, b, stash, filled, kind, resets>>
    BY <1>4 DEF vars
  <2>2. /\ \A e, f : Saved(e, f)' = Saved(e, f)
        /\ \A e : Valid(e)' <=> Valid(e)
    BY <2>1 DEF Saved, Valid
  <2>3. \A e : SavedEntry(e)' = SavedEntry(e) /\ Target(e)' = Target(e)
    BY <2>2 DEF SavedEntry, Target
  <2>4. Shape'
    BY <2>1 DEF Inv, Shape
  <2>5. Whole' /\ Ending'
    BY <2>1, SameWindow DEF Inv, Whole, Ending
  <2>6. /\ StashOK(slot) => StashOK(slot)'
        /\ StashOK(0) => StashOK(0)'
        /\ \A e : InStash(e)' <=> InStash(e)
    BY <2>1, <2>2, <2>3 DEF StashOK, InStash
  <2>7. /\ \A e : OldKept(e)' <=> OldKept(e)
        /\ \A s, w : NewIs(s, w)' <=> NewIs(s, w)
        /\ \A s, w, n : NewUpTo(s, w, n)' <=> NewUpTo(s, w, n)
    BY <2>1, <2>2 DEF OldKept, NewIs, NewUpTo
  <2>8. Stashing'
    BY <2>1, <2>2, <2>6, <2>7 DEF Inv, Stashing
  <2>9. Copying'
    BY <2>1, <2>2, <2>3, <2>6, <2>7 DEF Inv, Copying
  <2>10. /\ Placing(slot) => Placing(slot)'
         /\ Placing(slot + 1) => Placing(slot + 1)'
    BY <2>1, <2>2, <2>6, <2>7 DEF Placing
  <2>11. Filling'
    BY <2>1, <2>2, <2>7, <2>10 DEF Inv, Filling
  <2> QED BY <2>4, <2>5, <2>8, <2>9, <2>11 DEF Inv
<1> QED BY <1>1, <1>2, <1>3, <1>4 DEF Next, Load

LEMMA Invariant == Spec => []Inv
  BY InitInv, NextInv, PTL DEF Spec

-----------------------------------------------------------------------------
(* The theorems.                                                            *)

\* Whatever resets came, a window with the new magic holds every profile of
\* the old table (table_migrate's order of reads and writes).
THEOREM AllCarried == Spec => []Carried
<1>1. Inv => Carried
  <2> SUFFICES ASSUME Inv, mem[TABLE_WORD] = Magic
               PROVE  /\ \A e \in Slot : kind[e] = "valid" => NewEntry(e) = Profile(e)
                      /\ \A e \in OldSlot \ Slot : kind[e] = "valid" =>
                            \/ \E s \in Slot : NewEntry(s) = Profile(e)
                            \/ \A s \in Slot : Good(NewEntry(s))
    BY DEF Carried
  <2>1. Complete
    BY DEF Inv, Ending
  <2>2. \A s : \A e \in OldSlot : NewIs(s, Profile(e)) => NewEntry(s) = Profile(e)
    BY ProfileWords, NewEntryIs, SlotTypes
  <2> QED BY <2>1, <2>2, SlotTypes DEF Complete, Valid, Beyond
<1> QED BY <1>1, Invariant, PTL

\* What validates in the new table is a whole profile of the old one, and
\* none is there twice (the null entries of table_migrate).
THEOREM NoneMadeUp == Spec => []NoPhantom
<1>1. Inv => NoPhantom
  <2> SUFFICES ASSUME Inv, mem[TABLE_WORD] = Magic, NEW s \in Slot, Good(NewEntry(s))
               PROVE  /\ \E e \in OldSlot : kind[e] = "valid" /\ NewEntry(s) = Profile(e)
                      /\ \A t \in Slot \ {s} : NewEntry(t) # NewEntry(s)
    BY DEF NoPhantom
  <2>1. Complete
    BY DEF Inv, Ending
  <2>2. \A e \in OldSlot : NewIs(s, Profile(e)) => NewEntry(s) = Profile(e)
    BY ProfileWords, NewEntryIs, SlotTypes
  <2>3. \E e \in OldSlot : kind[e] = "valid" /\ NewEntry(s) = Profile(e)
    BY <2>1, <2>2 DEF Complete, Valid
  <2>4. ASSUME NEW t \in Slot \ {s} PROVE NewEntry(t) # NewEntry(s)
    <3>1. mem[NewAt(s)] # mem[NewAt(t)]
      BY <2>1, <2>4 DEF Complete
    <3> QED BY <3>1, NewFirst
  <2> QED BY <2>3, <2>4
<1> QED BY <1>1, Invariant, PTL

\* A move only ever starts on the table as it was saved: after a reset no
\* half-rewritten one is moved again (the old magic is dropped first).
THEOREM OnlyWhole == Spec => []MovesWhole
<1>1. Inv => MovesWhole
  <2> SUFFICES ASSUME Inv, pc = "drop", NEW e \in OldSlot, NEW f \in 0..(V9_ENTRY_WORDS - 1)
               PROVE  mem[OldAt(e) + f] = Saved(e, f)
    BY DEF MovesWhole
  <2>1. OldKept(e)
    BY DEF Inv, Ending, Whole
  <2>2. f + 1 \in 1..V9_ENTRY_WORDS /\ OldAt(e) + (f + 1) - 1 = OldAt(e) + f /\ (f + 1) - 1 = f
    BY Sizes, AtType, SlotTypes
  <2>3. mem[OldAt(e) + (f + 1) - 1] = Saved(e, (f + 1) - 1)
    BY <2>1, <2>2 DEF OldKept
  <2> QED BY <2>2, <2>3
<1> QED BY <1>1, Invariant, PTL

\* A boot that no reset cuts short carries the table across.
THEOREM TableArrives == Spec => []Arrives
<1>1. Inv => Arrives
  BY DEF Inv, Ending, Arrives
<1> QED BY <1>1, Invariant, PTL
=============================================================================
