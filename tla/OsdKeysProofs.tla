--------------------------- MODULE OsdKeysProofs ----------------------------
(***************************************************************************)
(* Proofs about OsdKeys.                                                   *)
(*                                                                         *)
(* The invariant has two parts.  Sane is about the firmware's record alone *)
(* and is kept by every operator a tick is composed of: besides the types  *)
(* it says what the overlays own (Clean), that the event the keyboard      *)
(* register replays after a reset is the make of a key still held          *)
(* (EchoHeld), and that a guest in reset holds nothing.  Firm is the       *)
(* strengthening of NothingStuck: a button counts as a holder only while   *)
(* the code it typed is the code its break will name.                      *)
(***************************************************************************)
EXTENDS OsdKeys, WellFoundedInduction, TLAPS

Modes == {"none", "vkb", "settings"}
Ev == [make : BOOLEAN, code : Codes \cup {0}]
Bindings == [Button -> Bindable]

Ui == [mode : Modes, prev : Words \cup {{}}, target : Button \cup {NoTarget},
       cur : Key, vrow : 1..Len(vrows), held : Key \cup {0}, latched : SUBSET Key,
       bind : Bindings, sel : [Button -> Slot], key : [Button -> Codes \cup {0}],
       menu : DOMAIN menus, row : Nat, ret : Nat,
       hold : {0, 2, 3}, phase : {0, 1, 2}, ticks : Nat,
       guest : SUBSET Codes, echo : Ev]

\* The codes the on-screen keyboard holds down.
Own(u) == {Code[k] : k \in u.latched} \cup (IF u.held = 0 THEN {} ELSE {Code[u.held]})

RowOK(m, r) == r \in 1..Len(menus[m]) /\ menus[m][r].type # "spacer"
Pages(u) == RowOK(u.menu, u.row) /\ RowOK("main", u.ret)

Clean(u) ==
    /\ u.latched # {} \/ u.held # 0 => u.mode = "vkb" /\ u.target = NoTarget
    /\ u.target # NoTarget => u.mode = "vkb"
EchoHeld(u) == u.echo.make => u.echo.code \in Own(u)
Walk(u) == u.hold = 3 <=> u.phase = 1
ResetEmpty(u) == InReset(u) => u.guest = {}

Sane(u) ==
    /\ u \in Ui
    /\ u.cur \in RowKeys(u.vrow)
    /\ Pages(u)
    /\ Clean(u)
    /\ EchoHeld(u)
    /\ Walk(u)
    /\ ResetEmpty(u)

\* Every code the guest holds is the keyboard's, the dock's, stranded, or of a
\* button whose break will lift it.
Firm(c) ==
    \/ c \in Own(ui)
    \/ c \in dock
    \/ c \in stranded
    \/ \E b \in Button : typed[b] = c /\ KeyCfg(ui, b) = c

PadOK ==
    /\ down \subseteq Button /\ mask \subseteq down
    /\ typed \in [Button -> Codes \cup {0, Released}]
    /\ tap \in Codes \cup {0, NoTap}
    /\ ext \in BOOLEAN
MountOK ==
    mnt \in [pc : {"idle", "set", "sync"}, at : 1..Len(Bound),
             prof : Profiles \cup {bind_default}]

Inv ==
    /\ Sane(ui)
    /\ PadOK
    /\ MountOK
    /\ \A c \in ui.guest : Firm(c)

-----------------------------------------------------------------------------
(* What an operator on the record may do to the guest's keys: every key that *)
(* is down afterwards is the keyboard's own then, or was down before and not *)
(* the keyboard's own.                                                       *)
Tidy(u, v) == \A c \in v.guest : c \in Own(v) \/ (c \in u.guest /\ c \notin Own(u))

\* Tidiness composes, so a tick is tidy when its parts are.
LEMMA TidyTrans ==
    ASSUME NEW u, NEW v, NEW w, Tidy(u, v), Tidy(v, w)
    PROVE  Tidy(u, w)
  BY DEF Tidy

\* A non-empty set of naturals has a least element.
LEMMA LeastNat ==
    ASSUME NEW S \in SUBSET Nat, S # {}
    PROVE  \E m \in S : \A k \in S : m <= k
<1>1. PICK m \in S : \A k \in S : ~(<<k, m>> \in OpToRel(<, Nat))
  BY NatLessThanWellFounded, WFMin
<1>2. \A k \in S : ~(k < m)
  BY <1>1 DEF OpToRel
<1> QED BY <1>2

\* So has a non-empty set of bounded ones a greatest.
LEMMA Greatest ==
    ASSUME NEW n \in Nat, NEW S \in SUBSET (0..n), S # {}
    PROVE  \E m \in S : \A k \in S : k <= m
<1> DEFINE T == {n - k : k \in S}
<1>1. T \in SUBSET Nat /\ T # {}
  <2>1. \A k \in S : n - k \in Nat
    OBVIOUS
  <2>2. PICK k \in S : TRUE
    OBVIOUS
  <2>3. n - k \in T
    OBVIOUS
  <2> QED BY <2>1, <2>3
<1>2. PICK d \in T : \A k \in T : d <= k
  BY <1>1, LeastNat
<1>3. PICK m \in S : d = n - m
  OBVIOUS
<1>4. \A k \in S : n - m <= n - k
  BY <1>2, <1>3
<1>5. \A k \in S : k <= m
  BY <1>4
<1> QED BY <1>5

LEMMA CodeOf ==
    ASSUME NEW k \in Key
    PROVE  Code[k] \in Codes
  BY KeyAssumption DEF Key, Codes

LEMMA RowInKey ==
    ASSUME NEW r \in 1..Len(vrows), NEW k \in RowKeys(r)
    PROVE  k \in Key
  BY KeyAssumption DEF Key, RowKeys

-----------------------------------------------------------------------------
(* The breaks of the on-screen keyboard.                                    *)

\* What v keeps of u when keys are let go.
Rest(u, v) ==
    /\ v.mode = u.mode /\ v.prev = u.prev /\ v.target = u.target
    /\ v.cur = u.cur /\ v.vrow = u.vrow /\ v.bind = u.bind
    /\ v.sel = u.sel /\ v.key = u.key /\ v.menu = u.menu /\ v.row = u.row
    /\ v.ret = u.ret /\ v.hold = u.hold /\ v.phase = u.phase /\ v.ticks = u.ticks

LEMMA ClearLatches ==
    ASSUME NEW u, Sane(u)
    PROVE  LET v == vkb_clear_latches(u) IN
           /\ Sane(v) /\ Tidy(u, v) /\ Rest(u, v)
           /\ v.latched = {} /\ v.held = u.held /\ v.guest \subseteq u.guest
<1> DEFINE v == vkb_clear_latches(u)
<1>0. u \in Ui /\ u.latched \subseteq Key
  BY DEF Sane, Ui
<1>1. CASE u.latched = {}
  <2>1. v = u
    BY <1>1 DEF vkb_clear_latches
  <2> QED BY <1>0, <1>1, <2>1 DEF Tidy, Rest, Own, Sane
<1>2. CASE u.latched # {}
  <2> DEFINE e == [make |-> FALSE, code |-> Code[LastLatched(u)]]
             odd == (Cardinality(u.latched) % 2 = 1) # (u.echo # NoEvent)
             ee == IF odd THEN e ELSE NoEvent
             g == IF InReset(u) THEN u.guest ELSE u.guest \ {Code[k] : k \in u.latched}
  <2>1. v = [u EXCEPT !.latched = {}, !.echo = ee, !.guest = g]
    BY <1>2 DEF vkb_clear_latches
  <2>2. LastLatched(u) \in u.latched
    <3>1. u.latched \in SUBSET (0..Len(Code)) /\ Len(Code) \in Nat
      BY <1>0, KeyAssumption DEF Key
    <3>2. \E m \in u.latched : \A k \in u.latched : k <= m
      BY <3>1, <1>2, Greatest
    <3> QED BY <3>2 DEF LastLatched
  <2>3. ee \in Ev /\ ee.make = FALSE
    <3>1. Code[LastLatched(u)] \in Codes
      BY <2>2, <1>0, CodeOf
    <3>2. e \in Ev /\ e.make = FALSE /\ NoEvent \in Ev /\ NoEvent.make = FALSE
      BY <3>1 DEF Ev, NoEvent
    <3> QED BY <3>2
  <2>4. g \in SUBSET Codes /\ g \subseteq u.guest
    BY <1>0 DEF Ui
  <2> HIDE DEF ee, g, v
  <2>5. /\ v \in Ui /\ Rest(u, v) /\ v.latched = {} /\ v.held = u.held
        /\ v.guest = g /\ v.echo = ee
    BY <2>1, <2>3, <2>4, <1>0 DEF Ui, Rest
  <2>6. v.cur \in RowKeys(v.vrow) /\ Pages(v) /\ Clean(v) /\ EchoHeld(v) /\ Walk(v)
    BY <2>5, <2>3 DEF Sane, Rest, Pages, Clean, EchoHeld, Walk
  <2>7. ResetEmpty(v) /\ Tidy(u, v)
    <3>1. InReset(v) <=> InReset(u)
      BY <2>5 DEF InReset, Rest
    <3>2. CASE InReset(u)
      BY <3>1, <3>2, <2>4, <2>5 DEF Sane, ResetEmpty, Tidy
    <3>3. CASE ~InReset(u)
      <4>1. g = u.guest \ {Code[k] : k \in u.latched}
        BY <3>3 DEF g
      <4>2. \A c \in g : c \in Own(u) => c \in Own(v)
        BY <4>1, <2>5 DEF Own
      <4> QED BY <3>1, <3>3, <4>2, <2>4, <2>5 DEF ResetEmpty, Tidy
    <3> QED BY <3>2, <3>3
  <2> QED BY <2>4, <2>5, <2>6, <2>7 DEF Sane, v
<1> QED BY <1>1, <1>2

LEMMA UnholdKeeps ==
    ASSUME NEW u, Sane(u)
    PROVE  LET v == Unhold(u) IN
           /\ Sane(v) /\ Tidy(u, v) /\ Rest(u, v)
           /\ v.latched = u.latched /\ v.held = 0 /\ v.guest \subseteq u.guest
<1> DEFINE v == Unhold(u)
<1>0. u \in Ui
  BY DEF Sane
<1>1. CASE u.held = 0
  <2>1. v = u
    BY <1>1 DEF Unhold
  <2> QED BY <1>0, <1>1, <2>1 DEF Tidy, Rest, Own, Sane
<1>2. CASE u.held # 0
  <2> DEFINE c == Code[u.held]
             e == [make |-> FALSE, code |-> c]
             ee == Echo(u, e)
             g == IF InReset(u) THEN u.guest ELSE u.guest \ {c}
  <2>1. c \in Codes
    BY <1>0, <1>2, CodeOf DEF Ui
  <2>2. ee \in Ev /\ ee.make = FALSE
    BY <2>1 DEF Ev, NoEvent, Echo
  <2>3. g \in SUBSET Codes /\ g \subseteq u.guest
    BY <1>0 DEF Ui
  <2>4. v = [[u EXCEPT !.echo = ee, !.guest = g] EXCEPT !.held = 0]
    BY <1>2 DEF Unhold, vkb_emit, Event
  <2> HIDE DEF ee, g, v
  <2>5. /\ v \in Ui /\ Rest(u, v) /\ v.latched = u.latched /\ v.held = 0
        /\ v.guest = g /\ v.echo = ee
    BY <2>4, <2>2, <2>3, <1>0 DEF Ui, Rest
  <2>6. v.cur \in RowKeys(v.vrow) /\ Pages(v) /\ Clean(v) /\ EchoHeld(v) /\ Walk(v)
    BY <2>5, <2>2 DEF Sane, Rest, Pages, Clean, EchoHeld, Walk
  <2>7. ResetEmpty(v) /\ Tidy(u, v)
    <3>1. InReset(v) <=> InReset(u)
      BY <2>5 DEF InReset, Rest
    <3>2. CASE InReset(u)
      BY <3>1, <3>2, <2>3, <2>5 DEF Sane, ResetEmpty, Tidy
    <3>3. CASE ~InReset(u)
      <4>1. g = u.guest \ {c}
        BY <3>3 DEF g
      <4>2. \A d \in g : d \in Own(u) => d \in Own(v)
        BY <4>1, <2>5 DEF Own
      <4> QED BY <3>1, <3>3, <4>2, <2>3, <2>5 DEF ResetEmpty, Tidy
    <3> QED BY <3>2, <3>3
  <2> QED BY <2>3, <2>5, <2>6, <2>7 DEF Sane, v
<1> QED BY <1>1, <1>2

LEMMA ReleaseAll ==
    ASSUME NEW u, Sane(u)
    PROVE  LET v == vkb_release_all(u) IN
           /\ Sane(v) /\ Tidy(u, v) /\ Rest(u, v)
           /\ v.latched = {} /\ v.held = 0 /\ v.guest \subseteq u.guest
<1> DEFINE w == Unhold(u)
           v == vkb_clear_latches(w)
<1>1. /\ Sane(w) /\ Tidy(u, w) /\ Rest(u, w)
      /\ w.held = 0 /\ w.guest \subseteq u.guest
  BY UnholdKeeps
<1> HIDE DEF w
<1>2. /\ Sane(v) /\ Tidy(w, v) /\ Rest(w, v)
      /\ v.latched = {} /\ v.held = w.held /\ v.guest \subseteq w.guest
  BY <1>1, ClearLatches
<1>3. vkb_release_all(u) = v
  BY DEF vkb_release_all, w
<1> HIDE DEF v
<1>4. Tidy(u, v)
  BY <1>1, <1>2, TidyTrans
<1>5. Rest(u, v)
  BY <1>1, <1>2 DEF Rest
<1> QED BY <1>1, <1>2, <1>3, <1>4, <1>5

-----------------------------------------------------------------------------
(* The modes.                                                               *)

\* What touches no key of the guest is tidy, and sane if its pages are.
Keys(u, v) ==
    /\ v.guest = u.guest /\ v.latched = u.latched /\ v.held = u.held
    /\ v.echo = u.echo /\ v.hold = u.hold /\ v.phase = u.phase

LEMMA KeysSane ==
    ASSUME NEW u, Sane(u), NEW v \in Ui, Keys(u, v),
           v.cur \in RowKeys(v.vrow), Pages(v), Clean(v)
    PROVE  Sane(v) /\ Tidy(u, v)
<1>1. EchoHeld(v) /\ Walk(v) /\ ResetEmpty(v)
  BY DEF Sane, Keys, EchoHeld, Own, Walk, ResetEmpty, InReset
<1>2. Tidy(u, v)
  BY DEF Keys, Tidy, Own
<1> QED BY <1>1, <1>2 DEF Sane

\* A tick that starts outside the overlays reaches nothing that binds: the
\* menu it may open stands on its first row, the keyboard is not picking.
NoBind(u) ==
    u.target = NoTarget /\ (u.mode = "settings" => u.menu = "main" /\ u.row = 1)

Moves(u, v) ==
    /\ Sane(v) /\ Tidy(u, v) /\ v.guest \subseteq u.guest
    /\ v.bind = u.bind /\ (NoBind(u) => NoBind(v))

LEMMA MovesTrans ==
    ASSUME NEW u, NEW v, NEW w, Moves(u, v), Moves(v, w)
    PROVE  Moves(u, w)
  BY TidyTrans DEF Moves

LEMMA CloseMoves ==
    ASSUME NEW u, Sane(u), u.latched = {}, u.held = 0, u.target = NoTarget
    PROVE  Moves(u, Close(u)) /\ Close(u).mode = "none"
<1> DEFINE v == Close(u)
<1>1. v = [u EXCEPT !.mode = "none"] /\ u \in Ui
  BY DEF Close, Sane
<1> HIDE DEF v
<1>2. /\ v \in Ui /\ Keys(u, v) /\ v.cur = u.cur /\ v.vrow = u.vrow
      /\ v.menu = u.menu /\ v.row = u.row /\ v.ret = u.ret /\ v.target = u.target
      /\ v.mode = "none" /\ v.bind = u.bind
  BY <1>1, ZenonT(60) DEF Ui, Keys, Modes
<1>3. v.cur \in RowKeys(v.vrow) /\ Pages(v) /\ Clean(v)
  BY <1>2 DEF Sane, Pages, Clean, Keys
<1>4. Sane(v) /\ Tidy(u, v)
  BY <1>2, <1>3, KeysSane
<1> QED BY <1>2, <1>4 DEF Moves, NoBind, v, Keys

LEMMA Untarget ==
    ASSUME NEW u, Sane(u)
    PROVE  LET v == [u EXCEPT !.target = NoTarget] IN
           /\ Moves(u, v) /\ v.target = NoTarget /\ v.mode = u.mode
<1> DEFINE v == [u EXCEPT !.target = NoTarget]
<1>1. v = [u EXCEPT !.target = NoTarget] /\ u \in Ui
  BY DEF Sane
<1> HIDE DEF v
<1>2. /\ v \in Ui /\ Keys(u, v) /\ v.cur = u.cur /\ v.vrow = u.vrow
      /\ v.menu = u.menu /\ v.row = u.row /\ v.ret = u.ret /\ v.target = NoTarget
      /\ v.mode = u.mode /\ v.bind = u.bind
  BY <1>1 DEF Ui, Keys
<1>3. v.cur \in RowKeys(v.vrow) /\ Pages(v) /\ Clean(v)
  BY <1>2 DEF Sane, Pages, Clean, Keys
<1>4. Sane(v) /\ Tidy(u, v)
  BY <1>2, <1>3, KeysSane
<1> QED BY <1>2, <1>4 DEF Moves, NoBind, v, Keys

LEMMA MainRow == RowOK("main", 1)
  BY MenuAssumption DEF RowOK

LEMMA EnterMoves ==
    ASSUME NEW u, Sane(u)
    PROVE  LET v == osd_enter_settings(u) IN
           /\ Moves(u, v) /\ NoBind(v) /\ v.mode = "settings"
<1> DEFINE t == [u EXCEPT !.target = NoTarget]
           w == vkb_release_all(t)
           v == [w EXCEPT !.mode = "settings", !.menu = "main", !.row = 1, !.ret = 1]
<1>1. Moves(u, t) /\ t.target = NoTarget
  BY Untarget
<1> HIDE DEF t
<1>2. /\ Sane(w) /\ Tidy(t, w) /\ Rest(t, w)
      /\ w.latched = {} /\ w.held = 0 /\ w.guest \subseteq t.guest
  BY <1>1, ReleaseAll DEF Moves
<1>3. osd_enter_settings(u) = v
  BY DEF osd_enter_settings, w, t
<1> HIDE DEF w
<1>4. w \in Ui /\ "main" \in DOMAIN menus
  BY <1>2, MenuAssumption DEF Sane
<1>5. v = [w EXCEPT !.mode = "settings", !.menu = "main", !.row = 1, !.ret = 1]
  OBVIOUS
<1> HIDE DEF v
<1>6. /\ v \in Ui /\ Keys(w, v) /\ v.cur = w.cur /\ v.vrow = w.vrow
      /\ v.menu = "main" /\ v.row = 1 /\ v.ret = 1 /\ v.target = w.target
      /\ v.mode = "settings" /\ v.bind = w.bind
  BY <1>4, <1>5 DEF Ui, Keys, Modes
<1>7. v.cur \in RowKeys(v.vrow) /\ Pages(v) /\ Clean(v)
  BY <1>1, <1>2, <1>6, MainRow DEF Sane, Pages, Clean, Keys, Rest
<1>8. Sane(v) /\ Tidy(w, v)
  BY <1>2, <1>6, <1>7, KeysSane
<1>9. NoBind(v)
  BY <1>1, <1>2, <1>6 DEF NoBind, Rest
<1>10. Tidy(u, v)
  BY <1>1, <1>2, <1>8, TidyTrans DEF Moves
<1>11. v.guest \subseteq u.guest /\ v.bind = u.bind
  BY <1>1, <1>2, <1>6 DEF Moves, Keys, Rest
<1> QED BY <1>3, <1>6, <1>8, <1>9, <1>10, <1>11 DEF Moves

LEMMA OpenerMoves ==
    ASSUME NEW u, Sane(u)
    PROVE  Moves(u, Opener(u))
<1>1. CASE u.mode = "settings"
  <2>1. u.latched = {} /\ u.held = 0 /\ u.target = NoTarget
    BY <1>1 DEF Sane, Clean
  <2> QED BY <1>1, <2>1, CloseMoves DEF Opener
<1>2. CASE u.mode # "settings"
  BY <1>2, EnterMoves DEF Opener
<1> QED BY <1>1, <1>2

LEMMA ToggleMoves ==
    ASSUME NEW u, Sane(u)
    PROVE  Moves(u, ToggleVkb(u))
<1>1. CASE u.mode = "none"
  <2> DEFINE v == ToggleVkb(u)
  <2>1. v = [u EXCEPT !.mode = "vkb"] /\ u \in Ui /\ u.target = NoTarget
    BY <1>1 DEF ToggleVkb, Sane, Clean
  <2> HIDE DEF v
  <2>2. /\ v \in Ui /\ Keys(u, v) /\ v.cur = u.cur /\ v.vrow = u.vrow
        /\ v.menu = u.menu /\ v.row = u.row /\ v.ret = u.ret /\ v.target = u.target
        /\ v.mode = "vkb" /\ v.bind = u.bind
    BY <2>1 DEF Ui, Keys, Modes
  <2>3. v.cur \in RowKeys(v.vrow) /\ Pages(v) /\ Clean(v)
    BY <2>1, <2>2 DEF Sane, Pages, Clean, Keys
  <2>4. Sane(v) /\ Tidy(u, v)
    BY <2>2, <2>3, KeysSane
  <2> QED BY <2>2, <2>4 DEF Moves, NoBind, v, Keys
<1>2. CASE u.mode # "none"
  <2> DEFINE t == [u EXCEPT !.target = NoTarget]
             w == vkb_release_all(t)
  <2>1. Moves(u, t) /\ t.target = NoTarget
    BY Untarget
  <2>2. ToggleVkb(u) = Close(w)
    BY <1>2 DEF ToggleVkb
  <2> HIDE DEF t
  <2>3. /\ Sane(w) /\ Tidy(t, w) /\ Rest(t, w)
        /\ w.latched = {} /\ w.held = 0 /\ w.guest \subseteq t.guest
    BY <2>1, ReleaseAll DEF Moves
  <2> HIDE DEF w
  <2>4. Moves(t, w) /\ w.target = NoTarget
    BY <2>1, <2>3 DEF Moves, Rest, NoBind
  <2>5. Moves(w, Close(w))
    BY <2>3, <2>4, CloseMoves
  <2> QED BY <2>1, <2>2, <2>4, <2>5, MovesTrans
<1> QED BY <1>1, <1>2

-----------------------------------------------------------------------------
(* The reset walk.                                                          *)

\* What a step of the walk can be.
LEMMA ResetTickCases ==
    ASSUME NEW u
    PROVE  LET v == settings_reset_tick(u) IN
           \/ v = [u EXCEPT !.ticks = @ + 1]
           \/ /\ u.phase = 1
              /\ v = [u EXCEPT !.hold = 2, !.phase = 2, !.ticks = 0,
                               !.guest = IF ext THEN {} ELSE Event({}, u.echo)]
           \/ u.phase # 1 /\ v = [u EXCEPT !.hold = 0, !.phase = 0, !.ticks = 0]
           \/ v = u
  BY DEF settings_reset_tick

\* The key the register replays when a reset ends is held by the keyboard.
LEMMA ResetTick ==
    ASSUME NEW u, Sane(u)
    PROVE  LET v == settings_reset_tick(u) IN
           /\ Sane(v) /\ Tidy(u, v) /\ v.bind = u.bind /\ v.mode = u.mode
           /\ NoBind(u) => NoBind(v)
           /\ Browsing(u) => v.guest \subseteq u.guest
<1> DEFINE v == settings_reset_tick(u)
           g == IF ext THEN {} ELSE Event({}, u.echo)
<1>0. u \in Ui
  BY DEF Sane
<1>1. CASE v = [u EXCEPT !.ticks = @ + 1]
  <2> HIDE DEF v
  <2>1. /\ v \in Ui /\ Keys(u, v) /\ v.cur = u.cur /\ v.vrow = u.vrow
        /\ v.menu = u.menu /\ v.row = u.row /\ v.ret = u.ret /\ v.target = u.target
        /\ v.mode = u.mode /\ v.bind = u.bind
    BY <1>0, <1>1 DEF Ui, Keys
  <2>2. v.cur \in RowKeys(v.vrow) /\ Pages(v) /\ Clean(v)
    BY <2>1 DEF Sane, Pages, Clean, Keys
  <2>3. Sane(v) /\ Tidy(u, v)
    BY <2>1, <2>2, KeysSane
  <2> QED BY <2>1, <2>3 DEF NoBind, v, Keys
<1>2. CASE u.phase = 1 /\ v = [u EXCEPT !.hold = 2, !.phase = 2, !.ticks = 0, !.guest = g]
  <2>1. g \subseteq Own(u) /\ g \in SUBSET Codes /\ (ext => g = {})
    <3>1. u.echo.make => u.echo.code \in Own(u)
      BY DEF Sane, EchoHeld
    <3>2. u.echo.make => u.echo.code \in Codes
      BY <1>0, <3>1, CodeOf DEF Own, Ui
    <3> QED BY <3>1, <3>2 DEF Event
  <2>2. Browsing(u) => g = {}
    BY <2>1 DEF Browsing, Sane, Clean, Own
  <2> HIDE DEF g, v
  <2>3. /\ v \in Ui /\ v.cur = u.cur /\ v.vrow = u.vrow
        /\ v.menu = u.menu /\ v.row = u.row /\ v.ret = u.ret /\ v.target = u.target
        /\ v.mode = u.mode /\ v.bind = u.bind /\ v.latched = u.latched
        /\ v.held = u.held /\ v.echo = u.echo /\ v.guest = g
        /\ v.hold = 2 /\ v.phase = 2
    BY <1>0, <1>2, <2>1 DEF Ui
  <2>4. Own(v) = Own(u)
    BY <2>3 DEF Own
  <2>5. Sane(v)
    <3>1. v.cur \in RowKeys(v.vrow) /\ Pages(v) /\ Clean(v) /\ EchoHeld(v)
      BY <2>3, <2>4 DEF Sane, Pages, Clean, EchoHeld
    <3>2. Walk(v) /\ ResetEmpty(v)
      BY <2>1, <2>3 DEF Walk, ResetEmpty, InReset
    <3> QED BY <2>3, <3>1, <3>2 DEF Sane
  <2> QED BY <2>1, <2>2, <2>3, <2>4, <2>5 DEF Tidy, NoBind, v
<1>3. CASE u.phase # 1 /\ v = [u EXCEPT !.hold = 0, !.phase = 0, !.ticks = 0]
  <2> HIDE DEF v
  <2>1. /\ v \in Ui /\ v.cur = u.cur /\ v.vrow = u.vrow
        /\ v.menu = u.menu /\ v.row = u.row /\ v.ret = u.ret /\ v.target = u.target
        /\ v.mode = u.mode /\ v.bind = u.bind /\ v.latched = u.latched
        /\ v.held = u.held /\ v.echo = u.echo /\ v.guest = u.guest
        /\ v.hold = 0 /\ v.phase = 0
    BY <1>0, <1>3 DEF Ui
  <2>2. Own(v) = Own(u)
    BY <2>1 DEF Own
  <2>3. Sane(v)
    <3>1. v.cur \in RowKeys(v.vrow) /\ Pages(v) /\ Clean(v) /\ EchoHeld(v)
      BY <2>1, <2>2 DEF Sane, Pages, Clean, EchoHeld
    <3>2. Walk(v) /\ ResetEmpty(v)
      BY <2>1 DEF Sane, Walk, ResetEmpty, InReset
    <3> QED BY <2>1, <3>1, <3>2 DEF Sane
  <2> QED BY <2>1, <2>2, <2>3 DEF Tidy, NoBind, v
<1>4. CASE v = u
  BY <1>4 DEF Tidy
<1> QED BY <1>1, <1>2, <1>3, <1>4, ResetTickCases

-----------------------------------------------------------------------------
(* The cursor of the keyboard.                                              *)

LEMMA NearestInRow ==
    ASSUME NEW k \in Key, NEW r \in 1..Len(vrows), NEW dy
    PROVE  Nearest(k, r, dy) \in RowKeys(r)
<1> DEFINE Dist(j) == Abs(Centre[k], Centre[j])
           D == {Dist(j) : j \in RowKeys(r)}
           near == {j \in RowKeys(r) : \A i \in RowKeys(r) : Dist(j) <= Dist(i)}
<1>1. Centre[k] \in Nat /\ \A j \in RowKeys(r) : j \in Key /\ Centre[j] \in Nat
  BY KeyAssumption, RowInKey
<1>2. \A j \in RowKeys(r) : Dist(j) \in Nat
  BY <1>1 DEF Abs
<1>3. vrows[r].start \in RowKeys(r)
  BY KeyAssumption DEF RowKeys, Key
<1>4. D \in SUBSET Nat /\ D # {}
  <2>1. Dist(vrows[r].start) \in D
    BY <1>3
  <2> QED BY <1>2, <2>1
<1>5. PICK d \in D : \A e \in D : d <= e
  BY <1>4, LeastNat
<1>6. PICK j \in RowKeys(r) : d = Dist(j)
  BY <1>5
<1>7. j \in near
  BY <1>5, <1>6
<1>8. near # {} /\ near \in SUBSET (0..Len(Code)) /\ near \in SUBSET Nat /\ Len(Code) \in Nat
  <2>1. \A i \in near : i \in 0..Len(Code) /\ i \in Nat
    BY <1>1, KeyAssumption DEF Key
  <2> QED BY <1>7, <2>1, KeyAssumption
<1> HIDE DEF near
<1>9. \E m \in near : \A i \in near : IF dy = "down" THEN i <= m ELSE m <= i
  <2>1. PICK hi \in near : \A i \in near : i <= hi
    BY <1>8, Greatest
  <2>2. PICK lo \in near : \A i \in near : lo <= i
    BY <1>8, LeastNat
  <2> QED BY <2>1, <2>2
<1> DEFINE m == CHOOSE x \in near : \A i \in near : IF dy = "down" THEN i <= x ELSE x <= i
<1>10. m \in near
  BY <1>9
<1>11. Nearest(k, r, dy) = m
  BY DEF Nearest, near
<1> HIDE DEF m
<1> QED BY <1>10, <1>11 DEF near

\* Moving the cursor moves nothing else.
NavOnly(u, v) ==
    /\ Sane(v) /\ Keys(u, v)
    /\ v.mode = u.mode /\ v.target = u.target /\ v.bind = u.bind

LEMMA CursorMove ==
    ASSUME NEW u, Sane(u), NEW d
    PROVE  NavOnly(u, cursor_move(u, d))
<1> DEFINE n == Len(vrows)
           s == vrows[u.vrow].start
           t == s + vrows[u.vrow].count - 1
           r == IF d = "up" THEN IF u.vrow = 1 THEN n ELSE u.vrow - 1
                ELSE IF u.vrow = n THEN 1 ELSE u.vrow + 1
           rr == IF d \in {"up", "down"} THEN r ELSE u.vrow
           cc == IF d \in {"up", "down"} THEN Nearest(u.cur, r, d)
                 ELSE IF d = "left" THEN IF u.cur = s THEN t ELSE u.cur - 1
                 ELSE IF u.cur = t THEN s ELSE u.cur + 1
           v == cursor_move(u, d)
<1>0. u \in Ui /\ u.vrow \in 1..n /\ u.cur \in Key /\ u.cur \in RowKeys(u.vrow) /\ n \in Nat
  BY KeyAssumption DEF Sane, Ui
<1>1. r \in 1..n
  BY <1>0
<1>2. rr \in 1..n /\ cc \in RowKeys(rr)
  <2>1. CASE d \in {"up", "down"}
    BY <2>1, <1>0, <1>1, NearestInRow
  <2>2. CASE d \notin {"up", "down"}
    <3>1. u.cur \in s..t /\ s \in Nat /\ t \in Nat
      <4>1. s \in Nat /\ vrows[u.vrow].count \in Nat \ {0} /\ s >= 1
        BY <1>0, KeyAssumption DEF Key
      <4> QED BY <1>0, <4>1 DEF RowKeys
    <3>2. cc \in s..t
      BY <2>2, <3>1
    <3> QED BY <2>2, <3>2, <1>0 DEF RowKeys
  <2> QED BY <2>1, <2>2
<1>3. cc \in Key
  BY <1>2, RowInKey
<1>4. v = [u EXCEPT !.vrow = rr, !.cur = cc]
  <2>1. CASE d \in {"up", "down"}
    BY <2>1 DEF cursor_move
  <2>2. CASE d \notin {"up", "down"}
    <3>1. v = [u EXCEPT !.cur = cc]
      BY <2>2 DEF cursor_move
    <3>2. rr = u.vrow
      BY <2>2
    <3> HIDE DEF cc, rr, v
    <3>3. [u EXCEPT !.cur = cc] = [u EXCEPT !.vrow = u.vrow, !.cur = cc]
      BY <1>0 DEF Ui
    <3> QED BY <3>1, <3>2, <3>3
  <2> QED BY <2>1, <2>2
<1> HIDE DEF rr, cc, v
<1>5. /\ v \in Ui /\ Keys(u, v) /\ v.cur = cc /\ v.vrow = rr
      /\ v.menu = u.menu /\ v.row = u.row /\ v.ret = u.ret /\ v.target = u.target
      /\ v.mode = u.mode /\ v.bind = u.bind
  BY <1>0, <1>2, <1>3, <1>4 DEF Ui, Keys
<1>6. v.cur \in RowKeys(v.vrow) /\ Pages(v) /\ Clean(v)
  BY <1>2, <1>5 DEF Sane, Pages, Clean, Keys
<1> QED BY <1>5, <1>6, KeysSane DEF NavOnly, v

LEMMA Navigate ==
    ASSUME NEW u, Sane(u), NEW press, NEW rpt
    PROVE  NavOnly(u, cursor_navigate(u, press, rpt))
<1> DEFINE ev0 == IF press \cap DPad = {} THEN rpt ELSE press \cap DPad
           ev  == IF ev0 \cap {"up", "down"} # {} THEN ev0 \cap {"up", "down"} ELSE ev0
<1>1. ASSUME NEW v, Sane(v), NEW d
      PROVE  NavOnly(v, NavStep(v, d, ev))
  BY <1>1, CursorMove DEF NavStep, NavOnly, Keys
<1>2. \A a, b, c : NavOnly(a, b) /\ NavOnly(b, c) => NavOnly(a, c)
  BY DEF NavOnly, Keys
<1> DEFINE a == NavStep(u, "up", ev)
           b == NavStep(a, "down", ev)
           c == NavStep(b, "left", ev)
           e == NavStep(c, "right", ev)
<1>3. e = cursor_navigate(u, press, rpt)
  BY DEF cursor_navigate
<1> HIDE DEF ev
<1>4. NavOnly(u, a)
  BY <1>1
<1>5. NavOnly(a, b)
  BY <1>1, <1>4 DEF NavOnly
<1>6. NavOnly(b, c)
  BY <1>1, <1>5 DEF NavOnly
<1>7. NavOnly(c, e)
  BY <1>1, <1>6 DEF NavOnly
<1> HIDE DEF a, b, c, e
<1> QED BY <1>2, <1>3, <1>4, <1>5, <1>6, <1>7

-----------------------------------------------------------------------------
(* Input on the keyboard.                                                   *)

\* What the input of a mode may do: the keys stay tidy, only the menu and a
\* pick bind, and in them nothing is typed.
Input(u, v) ==
    /\ Sane(v) /\ Tidy(u, v)
    /\ NoBind(u) => v.bind = u.bind
    /\ Browsing(v) => v.guest \subseteq u.guest

LEMMA NavInput ==
    ASSUME NEW u, NEW v, NavOnly(u, v)
    PROVE  Input(u, v)
  BY DEF NavOnly, Input, Tidy, Keys, Own

LEMMA BindSane ==
    ASSUME NEW u, Sane(u), NEW b \in Button, NEW c \in Bindable
    PROVE  LET v == key_bind_set(u, b, c) IN
           /\ Sane(v) /\ Tidy(u, v) /\ Keys(u, v)
           /\ v.mode = u.mode /\ v.target = u.target
<1> DEFINE f == [u.bind EXCEPT ![b] = c]
           v == key_bind_set(u, b, c)
<1>1. u \in Ui /\ f \in Bindings
  BY DEF Sane, Ui, Bindings
<1>2. v = [u EXCEPT !.bind = f]
  BY DEF key_bind_set
<1> HIDE DEF f, v
<1>3. /\ v \in Ui /\ Keys(u, v) /\ v.cur = u.cur /\ v.vrow = u.vrow
      /\ v.menu = u.menu /\ v.row = u.row /\ v.ret = u.ret /\ v.target = u.target
      /\ v.mode = u.mode
  BY <1>1, <1>2 DEF Ui, Keys
<1>4. v.cur \in RowKeys(v.vrow) /\ Pages(v) /\ Clean(v)
  BY <1>3 DEF Sane, Pages, Clean, Keys
<1> QED BY <1>3, <1>4, KeysSane DEF v

LEMMA PickerClose ==
    ASSUME NEW u, Sane(u), u.target # NoTarget
    PROVE  LET v == picker_close(u) IN Sane(v) /\ Keys(u, v) /\ v.bind = u.bind
<1> DEFINE v == picker_close(u)
<1>1. v = [u EXCEPT !.target = NoTarget, !.mode = "settings"] /\ u \in Ui
  BY DEF picker_close, Sane
<1>2. u.latched = {} /\ u.held = 0
  BY DEF Sane, Clean
<1> HIDE DEF v
<1>3. /\ v \in Ui /\ Keys(u, v) /\ v.cur = u.cur /\ v.vrow = u.vrow
      /\ v.menu = u.menu /\ v.row = u.row /\ v.ret = u.ret /\ v.target = NoTarget
      /\ v.mode = "settings" /\ v.bind = u.bind
  BY <1>1 DEF Ui, Keys, Modes
<1>4. v.cur \in RowKeys(v.vrow) /\ Pages(v) /\ Clean(v)
  BY <1>2, <1>3 DEF Sane, Pages, Clean, Keys
<1> QED BY <1>3, <1>4, KeysSane DEF v

LEMMA PickInput ==
    ASSUME NEW u, Sane(u), u.target # NoTarget, NEW press, NEW rpt,
           tap \in Codes \cup {0, NoTap}
    PROVE  Input(u, Pick(u, press, rpt))
<1>1. u.target \in Button /\ u.cur \in Key
  BY DEF Sane, Ui
<1>2. ASSUME NEW c \in Bindable
      PROVE  Input(u, picker_close(key_bind_set(u, u.target, c)))
  <2> DEFINE w == key_bind_set(u, u.target, c)
             v == picker_close(w)
  <2>1. Sane(w) /\ Keys(u, w) /\ w.target = u.target
    BY <1>1, BindSane
  <2> HIDE DEF w
  <2>2. Sane(v) /\ Keys(w, v)
    BY <2>1, PickerClose
  <2> HIDE DEF v
  <2>3. Input(u, v)
    BY <2>1, <2>2 DEF Input, Tidy, Keys, Own, NoBind
  <2> QED BY <2>3 DEF v, w
<1>3. CASE tap # NoTap
  <2>1. tap \in Bindable
    BY <1>3 DEF Bindable, Codes, BIND_FN_FIRST, BIND_KEY_SLOT
  <2> QED BY <1>2, <1>3, <2>1 DEF Pick
<1>4. CASE tap = NoTap /\ "A" \in press
  <2>1. Code[u.cur] \in Bindable
    BY <1>1, CodeOf DEF Bindable, Codes, BIND_FN_FIRST, BIND_KEY_SLOT
  <2> QED BY <1>2, <1>4, <2>1 DEF Pick
<1>5. CASE tap = NoTap /\ "A" \notin press /\ "B" \in press
  <2>1. Input(u, picker_close(u))
    BY PickerClose DEF Input, Tidy, Keys, Own
  <2> QED BY <1>5, <2>1 DEF Pick
<1>6. CASE tap = NoTap /\ "A" \notin press /\ "B" \notin press
  <2>1. Input(u, cursor_navigate(u, press, rpt))
    BY Navigate, NavInput
  <2> QED BY <1>6, <2>1 DEF Pick
<1> QED BY <1>3, <1>4, <1>5, <1>6

\* The keyboard is up for typing.
Typing(u) == u.mode = "vkb" /\ u.target = NoTarget

\* One event, and what the keyboard then holds.
Sent(u, make, c, l, h) == [vkb_emit(u, make, c) EXCEPT !.latched = l, !.held = h]

\* The state after one event of the key under the cursor, and what then holds.
EmitResult(u, v, make, c, l, h) ==
    /\ v \in Ui /\ Rest(u, v) /\ v.latched = l /\ v.held = h
    /\ v.guest = (IF InReset(u) THEN {} ELSE IF make THEN u.guest \cup {c} ELSE u.guest \ {c})
    /\ v.echo.make => make /\ v.echo.code = c

LEMMA EmitFields ==
    ASSUME NEW u, Sane(u), NEW make \in BOOLEAN, NEW c \in Codes,
           NEW l \in SUBSET Key, NEW h \in Key \cup {0}
    PROVE  EmitResult(u, Sent(u, make, c, l, h), make, c, l, h)
<1> DEFINE e == [make |-> make, code |-> c]
           ee == Echo(u, e)
           g == IF InReset(u) THEN u.guest ELSE Event(u.guest, e)
           v == Sent(u, make, c, l, h)
<1>0. u \in Ui
  BY DEF Sane
<1>1. ee \in Ev /\ (ee.make => make /\ ee.code = c)
  BY DEF Ev, NoEvent, Echo
<1>2. /\ g \in SUBSET Codes
      /\ g = (IF InReset(u) THEN {} ELSE IF make THEN u.guest \cup {c} ELSE u.guest \ {c})
  BY <1>0 DEF Ui, Sane, ResetEmpty, Event
<1>3. v = [[u EXCEPT !.echo = ee, !.guest = g] EXCEPT !.latched = l, !.held = h]
  BY DEF vkb_emit, Sent
<1> HIDE DEF ee, g, v
<1>4. v \in Ui /\ Rest(u, v) /\ v.latched = l /\ v.held = h /\ v.guest = g /\ v.echo = ee
  BY <1>0, <1>1, <1>2, <1>3, ZenonT(60) DEF Ui, Rest
<1> QED BY <1>1, <1>2, <1>4 DEF v, EmitResult

\* An event whose key is held or let go accordingly keeps the record sane.
LEMMA EmitSane ==
    ASSUME NEW u, Sane(u), Typing(u), NEW make \in BOOLEAN, NEW c \in Codes,
           NEW l \in SUBSET Key, NEW h \in Key \cup {0}
    PROVE  LET v == Sent(u, make, c, l, h) IN
           (make => c \in Own(v)) /\ (\A d \in Own(u) : d = c \/ d \in Own(v))
              => Sane(v) /\ Tidy(u, v) /\ Rest(u, v) /\ Typing(v)
<1> DEFINE v == Sent(u, make, c, l, h)
<1>1. EmitResult(u, v, make, c, l, h)
  BY EmitFields
<1> HIDE DEF v
<1>2. SUFFICES ASSUME make => c \in Own(v), \A d \in Own(u) : d = c \/ d \in Own(v)
               PROVE  Sane(v) /\ Tidy(u, v) /\ Rest(u, v) /\ Typing(v)
  BY DEF v
<1>3. v.cur \in RowKeys(v.vrow) /\ Pages(v) /\ Clean(v) /\ Walk(v)
  BY <1>1 DEF EmitResult, Sane, Rest, Pages, Clean, Walk, Typing
<1>4. EchoHeld(v)
  BY <1>1, <1>2 DEF EmitResult, EchoHeld
<1>5. ResetEmpty(v)
  BY <1>1 DEF EmitResult, Rest, InReset, ResetEmpty
<1>6. Tidy(u, v)
  BY <1>1, <1>2 DEF EmitResult, Tidy
<1> QED BY <1>1, <1>3, <1>4, <1>5, <1>6 DEF EmitResult, Sane, Typing, Rest

LEMMA SentHolds ==
    ASSUME NEW u, Sane(u), NEW make, NEW c, NEW l, NEW h
    PROVE  Sent(u, make, c, l, h).latched = l /\ Sent(u, make, c, l, h).held = h
<1>1. u \in Ui
  BY DEF Sane
<1> DEFINE ee == Echo(u, [make |-> make, code |-> c])
           g == IF InReset(u) THEN u.guest ELSE Event(u.guest, [make |-> make, code |-> c])
<1>2. Sent(u, make, c, l, h) = [[u EXCEPT !.echo = ee, !.guest = g] EXCEPT !.latched = l, !.held = h]
  BY DEF Sent, vkb_emit
<1> HIDE DEF ee, g
<1> QED BY <1>1, <1>2 DEF Ui

LEMMA SentShape ==
    ASSUME NEW u, Sane(u), NEW make \in BOOLEAN, NEW c \in Codes
    PROVE  /\ \A l : [vkb_emit(u, make, c) EXCEPT !.latched = l] = Sent(u, make, c, l, u.held)
           /\ \A h : [vkb_emit(u, make, c) EXCEPT !.held = h] = Sent(u, make, c, u.latched, h)
<1> DEFINE w == vkb_emit(u, make, c)
           ee == Echo(u, [make |-> make, code |-> c])
           g == IF InReset(u) THEN u.guest ELSE Event(u.guest, [make |-> make, code |-> c])
<1>1. w = [u EXCEPT !.echo = ee, !.guest = g] /\ u \in Ui
  BY DEF vkb_emit, Sane
<1> HIDE DEF w, ee, g
<1>2. \A l : [w EXCEPT !.latched = l] = [w EXCEPT !.latched = l, !.held = u.held]
  BY <1>1 DEF Ui
<1>3. \A h : [w EXCEPT !.held = h] = [w EXCEPT !.latched = u.latched, !.held = h]
  BY <1>1 DEF Ui
<1> QED BY <1>2, <1>3 DEF Sent, w

LEMMA PressAKeeps ==
    ASSUME NEW u, Sane(u), Typing(u), u.held = 0
    PROVE  LET v == PressA(u) IN
           Sane(v) /\ Tidy(u, v) /\ Rest(u, v) /\ Typing(v)
<1>1. CASE u.cur \in u.latched
  BY <1>1 DEF PressA, Tidy, Rest
<1>2. CASE u.cur \notin u.latched
  <2>1. u \in Ui /\ u.cur \in Key /\ u.latched \in SUBSET Key /\ Code[u.cur] \in Codes
    BY CodeOf DEF Sane, Ui
  <2> DEFINE c == Code[u.cur]
             v == Sent(u, TRUE, c, u.latched, u.cur)
  <2>2. PressA(u) = v
    <3>1. PressA(u) = [vkb_emit(u, TRUE, c) EXCEPT !.held = u.cur]
      BY <1>2, Zenon DEF PressA
    <3> HIDE DEF c
    <3>2. \A h : [vkb_emit(u, TRUE, c) EXCEPT !.held = h] = Sent(u, TRUE, c, u.latched, h)
      BY <2>1, SentShape, Zenon DEF c
    <3> QED BY <3>1, <3>2
  <2>3. v.latched = u.latched /\ v.held = u.cur
    <3> DEFINE ee == Echo(u, [make |-> TRUE, code |-> c])
               g == IF InReset(u) THEN u.guest ELSE Event(u.guest, [make |-> TRUE, code |-> c])
    <3>1. v = [[u EXCEPT !.echo = ee, !.guest = g] EXCEPT !.latched = u.latched, !.held = u.cur]
      BY DEF Sent, vkb_emit
    <3> HIDE DEF ee, g, v
    <3> QED BY <2>1, <3>1 DEF Ui
  <2>4. Code[u.cur] \in Own(v) /\ \A d \in Own(u) : d \in Own(v)
    <3> HIDE DEF v
    <3> QED BY <2>1, <2>3, KeyAssumption DEF Own, Key
  <2> HIDE DEF v
  <2>5. Sane(v) /\ Tidy(u, v) /\ Rest(u, v) /\ Typing(v)
    <3> HIDE DEF c
    <3>1. u.cur \in Key \cup {0} /\ c \in Codes
      BY <2>1 DEF c
    <3>2. c \in Own(v) /\ \A d \in Own(u) : d = c \/ d \in Own(v)
      BY <2>4 DEF c
    <3>3. v = Sent(u, TRUE, c, u.latched, u.cur)
      BY DEF v
    <3> QED BY <2>1, <3>1, <3>2, <3>3, EmitSane, Zenon
  <2> QED BY <2>2, <2>5
<1> QED BY <1>1, <1>2

LEMMA PressXKeeps ==
    ASSUME NEW u, Sane(u), Typing(u), u.held = 0
    PROVE  LET v == PressX(u) IN
           Sane(v) /\ Tidy(u, v) /\ Rest(u, v) /\ Typing(v) /\ v.held = 0
<1> DEFINE c == Code[u.cur]
           on == u.cur \notin u.latched
<1>1. u \in Ui /\ u.cur \in Key /\ u.latched \in SUBSET Key /\ c \in Codes /\ on \in BOOLEAN
  BY CodeOf DEF Sane, Ui
<1>2. CASE c \in ToggleCodes
  <2> DEFINE w == vkb_emit(u, TRUE, c)
             v == vkb_emit(w, FALSE, c)
             e1 == Echo(u, [make |-> TRUE, code |-> c])
             g1 == IF InReset(u) THEN u.guest ELSE u.guest \cup {c}
             e2 == Echo(w, [make |-> FALSE, code |-> c])
             g2 == IF InReset(w) THEN w.guest ELSE w.guest \ {c}
  <2>1. PressX(u) = v
    BY <1>2 DEF PressX
  <2>2. w = [u EXCEPT !.echo = e1, !.guest = g1]
    BY DEF vkb_emit, Event
  <2>3. v = [w EXCEPT !.echo = e2, !.guest = g2]
    BY DEF vkb_emit, Event
  <2>4. g1 \in SUBSET Codes /\ e1 \in Ev /\ (InReset(u) => g1 = {})
    BY <1>1 DEF Ui, Ev, NoEvent, Echo, Sane, ResetEmpty
  <2>5. e2 \in Ev /\ e2.make = FALSE
    BY <1>1 DEF Ev, NoEvent, Echo
  <2> HIDE DEF e1, e2, g1, w, v
  <2>6. w \in Ui /\ Rest(u, w) /\ w.latched = u.latched /\ w.held = u.held /\ w.guest = g1
    BY <1>1, <2>2, <2>4, ZenonT(60) DEF Ui, Rest
  <2>7. g2 \in SUBSET Codes /\ (InReset(u) => g2 = {}) /\ (~InReset(u) => g2 = u.guest \ {c})
    <3>1. InReset(w) <=> InReset(u)
      BY <2>6 DEF InReset, Rest
    <3> QED BY <1>1, <2>4, <2>6, <3>1 DEF Ui, g1
  <2> HIDE DEF g2
  <2>8. /\ v \in Ui /\ Rest(u, v) /\ v.latched = u.latched /\ v.held = u.held
        /\ v.guest = g2 /\ v.echo = e2
    BY <2>3, <2>5, <2>6, <2>7, ZenonT(60) DEF Ui, Rest
  <2>9. v.cur \in RowKeys(v.vrow) /\ Pages(v) /\ Clean(v) /\ EchoHeld(v) /\ Walk(v)
    BY <2>5, <2>8 DEF Sane, Rest, Pages, Clean, EchoHeld, Walk
  <2>10. ResetEmpty(v) /\ Tidy(u, v)
    BY <2>7, <2>8 DEF ResetEmpty, InReset, Rest, Tidy, Own
  <2> QED BY <2>1, <2>8, <2>9, <2>10 DEF Sane, Typing, Rest
<1>3. CASE c \notin ToggleCodes
  <2> DEFINE l == IF on THEN u.latched \cup {u.cur} ELSE u.latched \ {u.cur}
             v == Sent(u, on, c, l, 0)
  <2>1. PressX(u) = v
    <3>1. PressX(u) = [vkb_emit(u, on, c) EXCEPT !.latched = l]
      <4>1. vkb_emit(u, on, c).latched = u.latched
        BY <1>1 DEF vkb_emit, Ui
      <4> QED BY <1>3, <4>1 DEF PressX
    <3> HIDE DEF l, on, c
    <3> QED BY <1>1, <3>1, SentShape
  <2>2. l \in SUBSET Key
    BY <1>1
  <2>3. v.latched = l /\ v.held = 0
    BY SentHolds
  <2>4. on => c \in Own(v)
    BY <2>3 DEF Own
  <2>5. \A d \in Own(u) : d = c \/ d \in Own(v)
    BY <2>3 DEF Own
  <2> HIDE DEF l, on, c, v
  <2>6. Sane(v) /\ Tidy(u, v) /\ Rest(u, v) /\ Typing(v)
    BY <1>1, <2>2, <2>4, <2>5, EmitSane DEF v
  <2> QED BY <2>1, <2>3, <2>6
<1> QED BY <1>2, <1>3

LEMMA VkbInput ==
    ASSUME NEW u, Sane(u), u.mode = "vkb", u.held = 0, NEW press, NEW rpt,
           tap \in Codes \cup {0, NoTap}
    PROVE  Input(u, vkb_input(u, press, rpt))
<1>1. CASE u.target # NoTarget
  BY <1>1, PickInput DEF vkb_input
<1>2. CASE u.target = NoTarget /\ "B" \in press
  <2> DEFINE w == vkb_release_all(u)
             v == Close(w)
  <2>1. Sane(w) /\ Tidy(u, w) /\ Rest(u, w) /\ w.latched = {} /\ w.held = 0 /\ w.guest \subseteq u.guest
    BY ReleaseAll
  <2>2. vkb_input(u, press, rpt) = v
    BY <1>2 DEF vkb_input
  <2> HIDE DEF w
  <2>3. w.target = NoTarget /\ w.bind = u.bind
    BY <1>2, <2>1 DEF Rest
  <2>4. Moves(w, v)
    BY <2>1, <2>3, CloseMoves
  <2> HIDE DEF v
  <2>5. Tidy(u, v)
    BY <2>1, <2>4, TidyTrans DEF Moves
  <2> QED BY <2>1, <2>2, <2>3, <2>4, <2>5 DEF Input, Moves
<1>3. CASE u.target = NoTarget /\ "B" \notin press
  <2> DEFINE nav == cursor_navigate(u, press, rpt)
             x == IF "X" \in press THEN PressX(nav) ELSE nav
             y == IF "Y" \in press THEN vkb_clear_latches(x) ELSE x
             v == IF "A" \in press THEN PressA(y) ELSE y
             Keeps(a, b) == /\ Sane(b) /\ Tidy(a, b) /\ b.bind = a.bind /\ Typing(b)
  <2>0. vkb_input(u, press, rpt) = v
    BY <1>3 DEF vkb_input
  <2>1. Keeps(u, nav) /\ nav.held = 0
    <3>1. NavOnly(u, nav)
      BY Navigate
    <3> HIDE DEF nav
    <3> QED BY <1>3, <3>1, NavInput DEF NavOnly, Input, Typing, Keys
  <2> HIDE DEF nav
  <2>2. Keeps(nav, x) /\ x.held = 0
    <3>1. CASE "X" \in press
      BY <2>1, <3>1, PressXKeeps DEF Rest
    <3>2. CASE "X" \notin press
      BY <2>1, <3>2 DEF Tidy
    <3> QED BY <3>1, <3>2
  <2> HIDE DEF x
  <2>3. Keeps(x, y) /\ y.held = 0
    <3>1. CASE "Y" \in press
      BY <2>2, <3>1, ClearLatches DEF Rest, Typing
    <3>2. CASE "Y" \notin press
      BY <2>2, <3>2 DEF Tidy
    <3> QED BY <3>1, <3>2
  <2> HIDE DEF y
  <2>4. Keeps(y, v)
    <3>1. CASE "A" \in press
      BY <2>3, <3>1, PressAKeeps DEF Rest
    <3>2. CASE "A" \notin press
      BY <2>3, <3>2 DEF Tidy
    <3> QED BY <3>1, <3>2
  <2> HIDE DEF v
  <2>5. Tidy(u, v)
    <3>1. Tidy(u, x)
      BY <2>1, <2>2, TidyTrans
    <3>2. Tidy(x, v)
      BY <2>3, <2>4, TidyTrans
    <3> QED BY <3>1, <3>2, TidyTrans
  <2>6. v.bind = u.bind /\ ~Browsing(v)
    BY <2>1, <2>2, <2>3, <2>4 DEF Browsing, Typing
  <2> QED BY <2>0, <2>4, <2>5, <2>6 DEF Input
<1> QED BY <1>1, <1>2, <1>3

-----------------------------------------------------------------------------
(* The menu and the roller.                                                 *)

\* Within the menu only rows, rollers and bindings move.
MenuKeeps(u, v) == Keys(u, v) /\ v.mode = u.mode /\ v.target = u.target
                   /\ v.cur = u.cur /\ v.vrow = u.vrow

LEMMA MenuSane ==
    ASSUME NEW u, Sane(u), NEW v \in Ui, MenuKeeps(u, v), Pages(v),
           NoBind(u) => v.bind = u.bind
    PROVE  Input(u, v)
<1>1. v.cur \in RowKeys(v.vrow) /\ Clean(v)
  BY DEF Sane, MenuKeeps, Keys, Clean
<1>2. Sane(v) /\ Tidy(u, v)
  BY <1>1, KeysSane DEF MenuKeeps
<1> QED BY <1>2 DEF Input, MenuKeeps, Keys

LEMMA CfgType ==
    ASSUME NEW u \in Ui, NEW b \in Button
    PROVE  KeyCfg(u, b) \in Codes \cup {0}
<1>1. u.bind[b] \in Bindable
  BY DEF Ui, Bindings
<1> QED BY <1>1 DEF KeyCfg, Bindable, Codes, BIND_FN_FIRST, BIND_KEY_SLOT

LEMMA SlotType ==
    ASSUME NEW u, NEW b
    PROVE  keybind_slot(u, b) \in Slot
<1> DEFINE at == {i \in Slot : keybind_cycle[i] = u.bind[b]}
<1>1. CASE at = {}
  BY <1>1, BindAssumption DEF keybind_slot, Slot, KeySlot
<1>2. CASE at # {}
  <2>1. at \in SUBSET Nat
    BY DEF Slot
  <2>2. \E i \in at : \A j \in at : i <= j
    BY <1>2, <2>1, LeastNat
  <2> DEFINE m == CHOOSE i \in at : \A j \in at : i <= j
  <2>3. keybind_slot(u, b) = m
    BY <1>2 DEF keybind_slot
  <2> HIDE DEF at
  <2>4. m \in at
    BY <2>2
  <2> HIDE DEF m
  <2> QED BY <2>3, <2>4 DEF at
<1> QED BY <1>1, <1>2

LEMMA ModRange ==
    ASSUME NEW x \in Nat, NEW n \in Nat \ {0}
    PROVE  x % n \in 0..n - 1
  OBVIOUS

LEMMA ModWrap ==
    ASSUME NEW x \in Nat, NEW n \in Nat \ {0}, x < n
    PROVE  x % n = x /\ (x + n) % n = x
  OBVIOUS

LEMMA MoveCursor ==
    ASSUME NEW u, Sane(u), NEW d
    PROVE  Input(u, move_cursor(u, d))
<1> DEFINE n == Len(menus[u.menu])
           X(i) == u.row - 1 + (IF d = "down" THEN i ELSE n - i)
           At(i) == (X(i) % n) + 1
           real == {i \in 1..n : menus[u.menu][At(i)].type # "spacer"}
           i0 == CHOOSE i \in real : \A j \in real : i <= j
           v == move_cursor(u, d)
<1>0. /\ u \in Ui /\ u.menu \in DOMAIN menus /\ n \in Nat \ {0}
      /\ u.row \in 1..n /\ menus[u.menu][u.row].type # "spacer"
  BY MenuAssumption DEF Sane, Ui, Pages, RowOK
<1>1. v = [u EXCEPT !.row = At(i0)]
  BY DEF move_cursor
<1> HIDE DEF n, v
<1>2. \A i \in 1..n : X(i) \in Nat
  BY <1>0
<1>3. X(n) = u.row - 1 + n \/ X(n) = u.row - 1
  BY <1>0
<1> HIDE DEF X
<1>4. \A i \in 1..n : At(i) \in 1..n
  <2> SUFFICES ASSUME NEW i \in 1..n PROVE At(i) \in 1..n
    OBVIOUS
  <2>1. X(i) % n \in 0..n - 1
    BY <1>0, <1>2, ModRange
  <2> QED BY <1>0, <2>1
<1>5. At(n) = u.row /\ n \in 1..n
  <2>1. u.row - 1 \in Nat /\ u.row - 1 < n
    BY <1>0
  <2>2. X(n) % n = u.row - 1
    BY <1>0, <1>3, <2>1, ModWrap
  <2> QED BY <1>0, <2>2
<1>6. real # {} /\ real \in SUBSET Nat
  <2>1. n \in real
    BY <1>0, <1>5
  <2> HIDE DEF At
  <2> QED BY <1>0, <2>1
<1>7. i0 \in real
  <2>1. \E i \in real : \A j \in real : i <= j
    BY <1>6, LeastNat
  <2> HIDE DEF real
  <2> QED BY <2>1
<1> DEFINE r == At(i0)
<1>8. r \in 1..n /\ menus[u.menu][r].type # "spacer"
  <2>1. \A i \in real : At(i) \in 1..n /\ menus[u.menu][At(i)].type # "spacer"
    BY <1>4
  <2> HIDE DEF real, At, i0
  <2> QED BY <1>7, <2>1
<1> HIDE DEF r
<1>9. r \in Nat /\ RowOK(u.menu, r)
  BY <1>0, <1>8 DEF RowOK, n
<1>10. v = [u EXCEPT !.row = r]
  BY <1>1 DEF r
<1> HIDE DEF At, i0, real
<1>11. /\ v \in Ui /\ MenuKeeps(u, v) /\ v.bind = u.bind
      /\ v.menu = u.menu /\ v.row = r /\ v.ret = u.ret
  BY <1>0, <1>9, <1>10 DEF Ui, MenuKeeps, Keys
<1>12. Pages(v)
  BY <1>9, <1>11 DEF Sane, Pages
<1> QED BY <1>11, <1>12, MenuSane DEF v

LEMMA RollInput ==
    ASSUME NEW u, Sane(u), NEW b \in Button, NEW d, ~NoBind(u)
    PROVE  Input(u, Roll(u, b, d))
<1> DEFINE left == IF u.sel[b] = KeySlot THEN keybind_remember(u, b) ELSE u
           slot == IF d = "right" THEN IF u.sel[b] = KeySlot THEN 1 ELSE u.sel[b] + 1
                   ELSE IF u.sel[b] = 1 THEN KeySlot ELSE u.sel[b] - 1
           c == IF slot = KeySlot THEN left.key[b] ELSE keybind_cycle[slot]
           mid == [left EXCEPT !.sel[b] = slot]
           v == key_bind_set(mid, b, c)
           f == [u.key EXCEPT ![b] = KeyCfg(u, b)]
<1>0. u \in Ui /\ u.sel[b] \in Slot /\ KeySlot \in Nat \ {0, 1} /\ KeySlot = Len(keybind_cycle)
  BY BindAssumption DEF Sane, Ui, KeySlot
<1>1. slot \in Slot
  BY <1>0 DEF Slot
<1>2. f \in [Button -> Codes \cup {0}]
  BY <1>0, CfgType DEF Ui
<1>3. keybind_remember(u, b) = [u EXCEPT !.key = f]
  BY DEF keybind_remember
<1> HIDE DEF f
<1>4. left \in Ui /\ MenuKeeps(u, left) /\ left.menu = u.menu /\ left.row = u.row /\ left.ret = u.ret
  BY <1>0, <1>2, <1>3 DEF Ui, MenuKeeps, Keys
<1> HIDE DEF left, slot
<1>5. c \in Bindable
  <2>1. left.key[b] \in Codes \cup {0}
    BY <1>4 DEF Ui
  <2>2. Codes \cup {0} \subseteq Bindable
    BY DEF Codes, Bindable, BIND_FN_FIRST, BIND_KEY_SLOT
  <2>3. slot # KeySlot => keybind_cycle[slot] \in Bindable
    BY <1>0, <1>1, BindAssumption DEF Slot
  <2> QED BY <2>1, <2>2, <2>3
<1> DEFINE s == [left.sel EXCEPT ![b] = slot]
<1>6. s \in [Button -> Slot] /\ mid = [left EXCEPT !.sel = s]
  BY <1>1, <1>4 DEF Ui
<1> HIDE DEF s, mid, c
<1>7. mid \in Ui /\ MenuKeeps(u, mid) /\ mid.menu = u.menu /\ mid.row = u.row /\ mid.ret = u.ret
  BY <1>4, <1>6 DEF Ui, MenuKeeps, Keys
<1> DEFINE g == [mid.bind EXCEPT ![b] = c]
<1>8. g \in Bindings /\ v = [mid EXCEPT !.bind = g]
  BY <1>5, <1>7 DEF Ui, Bindings, key_bind_set
<1> HIDE DEF g, v
<1>9. v \in Ui /\ MenuKeeps(u, v) /\ v.menu = u.menu /\ v.row = u.row /\ v.ret = u.ret
  BY <1>7, <1>8 DEF Ui, MenuKeeps, Keys
<1>10. Pages(v)
  BY <1>9 DEF Sane, Pages
<1>11. Roll(u, b, d) = v
  BY DEF Roll, v, mid, c, left, slot
<1> QED BY <1>9, <1>10, <1>11, MenuSane

LEMMA KeybindInput ==
    ASSUME NEW u, Sane(u), u.mode = "settings", NEW b \in Button, NEW press, ~NoBind(u)
    PROVE  Input(u, KeybindRow(u, b, press))
<1>1. Input(u, vkb_ui_open_picker(u, b))
  <2> DEFINE v == vkb_ui_open_picker(u, b)
  <2>1. v = [u EXCEPT !.target = b, !.mode = "vkb"] /\ u \in Ui
    BY DEF vkb_ui_open_picker, Sane
  <2>2. u.latched = {} /\ u.held = 0
    BY DEF Sane, Clean
  <2> HIDE DEF v
  <2>3. /\ v \in Ui /\ Keys(u, v) /\ v.cur = u.cur /\ v.vrow = u.vrow
        /\ v.menu = u.menu /\ v.row = u.row /\ v.ret = u.ret
        /\ v.mode = "vkb" /\ v.bind = u.bind
    BY <2>1 DEF Ui, Keys, Modes
  <2>4. v.cur \in RowKeys(v.vrow) /\ Pages(v) /\ Clean(v)
    BY <2>2, <2>3 DEF Sane, Pages, Clean, Keys
  <2>5. Sane(v) /\ Tidy(u, v)
    BY <2>3, <2>4, KeysSane
  <2> QED BY <2>3, <2>5 DEF Input, Keys, v
<1>2. Input(u, u)
  BY DEF Input, Tidy
<1> QED BY <1>1, <1>2, RollInput DEF KeybindRow

LEMMA SubmenuInput ==
    ASSUME NEW u, Sane(u), u.menu = "main", NEW m \in DOMAIN menus
    PROVE  Input(u, SubmenuRow(u, m))
<1> DEFINE v == [u EXCEPT !.ret = u.row, !.menu = m, !.row = 1]
           s == [b \in Button |-> keybind_slot(v, b)]
           f == [b \in Button |-> KeyCfg(v, b)]
           w == keybind_sync(v)
<1>0. u \in Ui
  BY DEF Sane
<1>1. RowOK(m, 1) /\ RowOK("main", u.row)
  BY MenuAssumption DEF Sane, Pages, RowOK
<1>2. v = [u EXCEPT !.ret = u.row, !.menu = m, !.row = 1]
  OBVIOUS
<1>3. w = [v EXCEPT !.sel = s, !.key = f]
  BY DEF keybind_sync
<1>4. SubmenuRow(u, m) = w \/ SubmenuRow(u, m) = v
  BY DEF SubmenuRow
<1> HIDE DEF v
<1>5. v \in Ui /\ MenuKeeps(u, v) /\ v.bind = u.bind /\ v.menu = m /\ v.row = 1 /\ v.ret = u.row
  BY <1>0, <1>2 DEF Ui, MenuKeeps, Keys
<1>6. Pages(v)
  BY <1>1, <1>5 DEF Pages
<1>7. Input(u, v)
  BY <1>5, <1>6, MenuSane
<1>8. s \in [Button -> Slot] /\ f \in [Button -> Codes \cup {0}]
  BY <1>5, SlotType, CfgType
<1> HIDE DEF s, f, w
<1>9. w \in Ui /\ MenuKeeps(u, w) /\ w.bind = u.bind /\ w.menu = m /\ w.row = 1 /\ w.ret = u.row
  BY <1>3, <1>5, <1>8 DEF Ui, MenuKeeps, Keys
<1>10. Pages(w)
  BY <1>1, <1>9 DEF Pages
<1>11. Input(u, w)
  BY <1>9, <1>10, MenuSane
<1> QED BY <1>4, <1>7, <1>11

LEMMA ResetPCInput ==
    ASSUME NEW u, Sane(u), u.mode = "settings"
    PROVE  Input(u, ResetPC(u))
<1> DEFINE w == Close(u)
           v == [w EXCEPT !.hold = 3, !.phase = 1, !.ticks = 0, !.guest = {}]
<1>1. u.latched = {} /\ u.held = 0 /\ u.target = NoTarget
  BY DEF Sane, Clean
<1>2. Moves(u, w) /\ w.mode = "none"
  BY <1>1, CloseMoves
<1>3. w.latched = {} /\ w.held = 0 /\ w.target = NoTarget
  BY <1>1 DEF Close, Sane, Ui
<1>4. ResetPC(u) = v
  BY DEF ResetPC
<1>5. v = [w EXCEPT !.hold = 3, !.phase = 1, !.ticks = 0, !.guest = {}] /\ w \in Ui
  BY <1>2 DEF Moves, Sane
<1> HIDE DEF w, v
<1>6. /\ v \in Ui /\ v.cur = w.cur /\ v.vrow = w.vrow
      /\ v.menu = w.menu /\ v.row = w.row /\ v.ret = w.ret /\ v.target = w.target
      /\ v.mode = w.mode /\ v.bind = w.bind /\ v.latched = w.latched
      /\ v.held = w.held /\ v.echo = w.echo /\ v.guest = {}
      /\ v.hold = 3 /\ v.phase = 1
  BY <1>5 DEF Ui
<1>7. v.cur \in RowKeys(v.vrow) /\ Pages(v) /\ Clean(v) /\ EchoHeld(v)
  BY <1>2, <1>6 DEF Moves, Sane, Pages, Clean, EchoHeld, Own
<1>8. Walk(v) /\ ResetEmpty(v) /\ Tidy(u, v)
  BY <1>6 DEF Walk, ResetEmpty, Tidy
<1> QED BY <1>2, <1>4, <1>6, <1>7, <1>8 DEF Input, Sane, Moves

LEMMA SettingsInput ==
    ASSUME NEW u, Sane(u), u.mode = "settings", NEW press
    PROVE  Input(u, settings_input(u, press))
<1> DEFINE it == menus[u.menu][u.row]
<1>0. /\ u \in Ui /\ u.menu \in DOMAIN menus /\ RowOK(u.menu, u.row)
      /\ u.latched = {} /\ u.held = 0 /\ u.target = NoTarget
  BY DEF Sane, Ui, Pages, Clean
<1>1. Input(u, Close(u))
  BY <1>0, CloseMoves DEF Moves, Input
<1>2. Input(u, [u EXCEPT !.menu = "main", !.row = u.ret])
  <2> DEFINE v == [u EXCEPT !.menu = "main", !.row = u.ret]
  <2>1. v = [u EXCEPT !.menu = "main", !.row = u.ret] /\ "main" \in DOMAIN menus
    BY MenuAssumption
  <2> HIDE DEF v
  <2>2. v \in Ui /\ MenuKeeps(u, v) /\ v.bind = u.bind /\ v.menu = "main" /\ v.row = u.ret /\ v.ret = u.ret
    BY <1>0, <2>1, ZenonT(60) DEF Ui, MenuKeeps, Keys
  <2>3. Pages(v)
    BY <2>2 DEF Sane, Pages
  <2> QED BY <2>2, <2>3, MenuSane DEF v
<1>3. \A d : Input(u, move_cursor(u, d))
  BY MoveCursor
<1>4. it.type = "keybind" => Input(u, KeybindRow(u, it.arg, press))
  <2>1. it.type = "keybind" => it.arg \in Button
    BY <1>0, MenuAssumption DEF RowOK
  <2>2. it.type = "keybind" => ~NoBind(u)
    BY <1>0, MenuAssumption DEF NoBind
  <2> QED BY <2>1, <2>2, KeybindInput
<1>5. it.type = "submenu" => Input(u, SubmenuRow(u, it.arg))
  <2>1. it.type = "submenu" => u.menu = "main" /\ it.arg \in DOMAIN menus
    BY <1>0, MenuAssumption DEF RowOK
  <2> QED BY <2>1, SubmenuInput
<1>6. it.type = "defaults" => Input(u, key_bind_reset(u))
  <2> SUFFICES ASSUME it.type = "defaults" PROVE Input(u, key_bind_reset(u))
    OBVIOUS
  <2> DEFINE v == key_bind_reset(u)
  <2>1. v = [u EXCEPT !.bind = bind_default] /\ bind_default \in Bindings
    BY BindAssumption DEF key_bind_reset, Bindings
  <2>2. ~NoBind(u)
    BY MenuAssumption DEF NoBind
  <2> HIDE DEF v
  <2>3. v \in Ui /\ MenuKeeps(u, v) /\ v.menu = u.menu /\ v.row = u.row /\ v.ret = u.ret
    BY <1>0, <2>1 DEF Ui, MenuKeeps, Keys
  <2>4. Pages(v)
    BY <2>3 DEF Sane, Pages
  <2> QED BY <2>2, <2>3, <2>4, MenuSane DEF v
<1>7. Input(u, ResetPC(u))
  BY ResetPCInput
<1>8. Input(u, u)
  BY DEF Input, Tidy
<1> QED BY <1>1, <1>2, <1>3, <1>4, <1>5, <1>6, <1>7, <1>8 DEF settings_input

-----------------------------------------------------------------------------
(* The tick.                                                                *)

LEMMA ModeInputKeeps ==
    ASSUME NEW u, Sane(u), NEW press, NEW rel, NEW rpt, tap \in Codes \cup {0, NoTap}
    PROVE  Input(u, ModeInput(u, press, rel, rpt))
<1>1. Input(u, u)
  BY DEF Input, Tidy
<1>2. CASE u.mode = "settings"
  BY <1>2, SettingsInput DEF ModeInput
<1>3. CASE u.mode = "none"
  <2>1. Input(u, osd_enter_settings(u))
    BY EnterMoves DEF Moves, Input
  <2>2. Input(u, dispatch_bindings(u, press))
    BY <1>1, <2>1 DEF dispatch_bindings
  <2> QED BY <1>3, <2>2 DEF ModeInput
<1>4. CASE u.mode = "vkb" /\ u.held = 0
  BY <1>4, VkbInput DEF ModeInput
<1>5. CASE u.mode = "vkb" /\ u.held # 0
  <2>1. Input(u, Unhold(u))
    BY UnholdKeeps DEF Input, Rest
  <2> QED BY <1>1, <1>5, <2>1 DEF ModeInput
<1> QED BY <1>2, <1>3, <1>4, <1>5 DEF Sane, Ui, Modes

\* What a whole tick does to the record.
LEMMA TickKeeps ==
    ASSUME Sane(ui), tap \in Codes \cup {0, NoTap},
           NEW w \in Words, NEW opener, NEW rpt
    PROVE  LET v == vkb_ui_tick(w, opener, rpt) IN
           /\ Sane(v) /\ Tidy(ui, v)
           /\ ui.mode = "none" => v.bind = ui.bind
           /\ Browsing(ui) /\ Browsing(v) => v.guest \subseteq ui.guest
<1> DEFINE press == w \ ui.prev
           rel == ui.prev \ w
           u0 == settings_reset_tick(ui)
           u1 == IF opener THEN Opener(u0) ELSE u0
           u2 == IF "L1" \in press THEN ToggleVkb(u1) ELSE u1
           hit == u2.mode # "none" /\ press \cap SettingsMask(u2) # {}
           u3 == IF ~hit THEN u2
                 ELSE IF u2.mode = "settings" THEN Close(u2) ELSE osd_enter_settings(u2)
           left == IF hit THEN press \ SettingsMask(u2) ELSE press
           u4 == ModeInput(u3, left, rel, rpt)
           v == vkb_ui_tick(w, opener, rpt)
<1>0. v = [u4 EXCEPT !.prev = w]
  BY DEF vkb_ui_tick
<1>1. /\ Sane(u0) /\ Tidy(ui, u0) /\ u0.bind = ui.bind
      /\ NoBind(ui) => NoBind(u0)
      /\ Browsing(ui) => u0.guest \subseteq ui.guest
  BY ResetTick
<1> HIDE DEF u0
<1>2. Moves(u0, u1)
  BY <1>1, OpenerMoves DEF Moves, Tidy
<1> HIDE DEF u1
<1>3. Moves(u1, u2)
  BY <1>2, ToggleMoves DEF Moves, Tidy
<1> HIDE DEF u2
<1>4. Moves(u2, u3)
  <2>1. Sane(u2)
    BY <1>3 DEF Moves
  <2>2. CASE ~hit
    BY <2>1, <2>2 DEF Moves, Tidy
  <2>3. CASE hit /\ u2.mode = "settings"
    <3>1. u2.latched = {} /\ u2.held = 0 /\ u2.target = NoTarget
      BY <2>1, <2>3 DEF Sane, Clean
    <3>2. Moves(u2, Close(u2))
      BY <2>1, <3>1, CloseMoves
    <3> QED BY <2>3, <3>2
  <2>4. CASE hit /\ u2.mode # "settings"
    <3>1. Moves(u2, osd_enter_settings(u2))
      BY <2>1, EnterMoves
    <3> QED BY <2>4, <3>1
  <2> QED BY <2>2, <2>3, <2>4
<1> HIDE DEF u3
<1>5. Moves(u0, u3)
  BY <1>2, <1>3, <1>4, MovesTrans
<1> HIDE DEF left, press, rel
<1>6. Input(u3, u4)
  BY <1>5, ModeInputKeeps DEF Moves
<1> HIDE DEF u4, v
<1>7. u4 \in Ui
  BY <1>6 DEF Input, Sane
<1>8. /\ v \in Ui /\ Keys(u4, v) /\ v.cur = u4.cur /\ v.vrow = u4.vrow
      /\ v.menu = u4.menu /\ v.row = u4.row /\ v.ret = u4.ret /\ v.target = u4.target
      /\ v.mode = u4.mode /\ v.bind = u4.bind
  BY <1>0, <1>7 DEF Ui, Keys
<1>9. v.cur \in RowKeys(v.vrow) /\ Pages(v) /\ Clean(v)
  BY <1>6, <1>8 DEF Input, Sane, Pages, Clean, Keys
<1>10. Sane(v) /\ Tidy(u4, v)
  BY <1>6, <1>8, <1>9, KeysSane DEF Input
<1>11. Tidy(ui, v)
  <2>1. Tidy(ui, u3)
    BY <1>1, <1>5, TidyTrans DEF Moves
  <2>2. Tidy(u3, v)
    BY <1>6, <1>10, TidyTrans DEF Input
  <2> QED BY <2>1, <2>2, TidyTrans
<1>12. ui.mode = "none" => v.bind = ui.bind
  <2>1. ui.mode = "none" => NoBind(ui)
    BY DEF Sane, Clean, NoBind
  <2> QED BY <2>1, <1>1, <1>5, <1>6, <1>8 DEF Moves, Input
<1>13. Browsing(ui) /\ Browsing(v) => v.guest \subseteq ui.guest
  BY <1>1, <1>5, <1>6, <1>8 DEF Moves, Input, Keys, Browsing
<1> QED BY <1>10, <1>11, <1>12, <1>13 DEF v

-----------------------------------------------------------------------------
(* The invariant.                                                           *)

LEMMA InitInv == Init => Inv
<1> SUFFICES ASSUME Init PROVE Inv
  OBVIOUS
<1>1. ui \in Ui
  <2>1. 1 \in Key /\ 1 \in 1..Len(vrows) /\ 1 \in Slot /\ "main" \in DOMAIN menus
    BY KeyAssumption, BindAssumption, MenuAssumption DEF Key, Slot, KeySlot
  <2>2. bind_default \in Bindings /\ NoEvent \in Ev
    BY BindAssumption DEF Bindings, NoEvent, Ev
  <2> QED BY <2>1, <2>2 DEF Init, Ui, Modes
<1>2. ui.cur \in RowKeys(ui.vrow)
  BY KeyAssumption DEF Init, RowKeys
<1>3. Pages(ui) /\ Clean(ui) /\ EchoHeld(ui) /\ Walk(ui) /\ ResetEmpty(ui)
  BY MainRow DEF Init, Pages, Clean, EchoHeld, Walk, ResetEmpty, NoEvent
<1>4. PadOK
  BY DEF Init, PadOK
<1>5. MountOK
  BY BindAssumption DEF Init, MountOK
<1> QED BY <1>1, <1>2, <1>3, <1>4, <1>5 DEF Inv, Sane, Init

LEMMA OwnSame ==
    ASSUME NEW u, NEW v, v.latched = u.latched, v.held = u.held
    PROVE  Own(v) = Own(u)
  BY DEF Own

\* A record that differs from a sane one in the guest's keys and the roller.
LEMMA GuestSane ==
    ASSUME Sane(ui), NEW g \in SUBSET Codes, ~InReset(ui)
    PROVE  LET v == [ui EXCEPT !.guest = g] IN
           /\ Sane(v) /\ v.guest = g /\ Own(v) = Own(ui) /\ v.bind = ui.bind
           /\ v.mode = ui.mode /\ v.target = ui.target /\ v.hold = ui.hold
<1> DEFINE v == [ui EXCEPT !.guest = g]
<1>1. v = [ui EXCEPT !.guest = g] /\ ui \in Ui
  BY DEF Sane
<1> HIDE DEF v
<1>2. /\ v \in Ui /\ v.cur = ui.cur /\ v.vrow = ui.vrow
      /\ v.menu = ui.menu /\ v.row = ui.row /\ v.ret = ui.ret /\ v.target = ui.target
      /\ v.mode = ui.mode /\ v.bind = ui.bind /\ v.latched = ui.latched
      /\ v.held = ui.held /\ v.echo = ui.echo /\ v.guest = g
      /\ v.hold = ui.hold /\ v.phase = ui.phase
  BY <1>1 DEF Ui
<1>3. Own(v) = Own(ui)
  BY <1>2 DEF Own
<1>4. v.cur \in RowKeys(v.vrow) /\ Pages(v) /\ Clean(v) /\ EchoHeld(v) /\ Walk(v)
  BY <1>2, <1>3 DEF Sane, Pages, Clean, EchoHeld, Walk
<1>5. ResetEmpty(v)
  BY <1>2 DEF ResetEmpty, InReset
<1> QED BY <1>2, <1>3, <1>4, <1>5 DEF Sane, v

\* A button that is down for the scanner was free to type: the overlays are
\* closed and the guest runs.
LEMMA TypedOutside ==
    ASSUME Settled, PadOK, NEW b \in Button, typed[b] # Released
    PROVE  ui.mode = "none" /\ ~InReset(ui)
  BY DEF Settled, Effective, Gated, Osd

LEMMA GuestCode ==
    ASSUME Sane(ui), NEW c \in ui.guest
    PROVE  c \in Codes /\ c # Released /\ c # 0
<1>1. c \in Codes
  BY DEF Sane, Ui
<1> QED BY <1>1 DEF Codes, Released, BIND_FN_FIRST

LEMMA TickInv ==
    ASSUME Inv, NEW w \in Words, NEW opener, NEW rpt, Tick(w, opener, rpt)
    PROVE  Inv'
<1>1. Sane(ui) /\ PadOK /\ MountOK /\ tap \in Codes \cup {0, NoTap} /\ \A c \in ui.guest : Firm(c)
  BY DEF Inv, PadOK
<1>2. ui' = vkb_ui_tick(w, opener, rpt) /\ UNCHANGED <<down, ext, mnt>> /\ Settled
  BY DEF Tick
<1>3. /\ Sane(ui') /\ Tidy(ui, ui')
      /\ ui.mode = "none" => ui'.bind = ui.bind
  BY <1>1, <1>2, TickKeeps
<1>4. Sane(ui)'
  BY <1>2, <1>3 DEF Sane, ResetEmpty, InReset
<1>5. CASE InReset(ui')
  <2>1. ui'.guest = {}
    BY <1>3, <1>5 DEF Sane, ResetEmpty
  <2>2. /\ typed' = AllReleased /\ mask' = down
        /\ tap' \in IF ~Picking(ui') THEN {NoTap} ELSE IF InReset(ui) THEN {tap} ELSE {NoTap, 0}
    BY <1>5 DEF Tick, KeyboardReset
  <2>3. PadOK'
    BY <1>1, <1>2, <2>2 DEF PadOK, AllReleased
  <2>4. MountOK'
    BY <1>1, <1>2 DEF MountOK
  <2> QED BY <1>4, <2>1, <2>3, <2>4 DEF Inv
<1>6. CASE ~InReset(ui')
  <2>1. /\ mask' = IF Osd(ui') THEN down ELSE mask \cap down
        /\ tap' = IF Picking(ui) /\ Picking(ui') THEN tap ELSE NoTap
        /\ UNCHANGED <<typed, dock>> /\ stranded' = stranded \cap ui'.guest
    BY <1>6 DEF Tick
  <2>2. PadOK'
    BY <1>1, <1>2, <2>1 DEF PadOK
  <2>3. MountOK'
    BY <1>1, <1>2 DEF MountOK
  <2>4. ASSUME NEW c \in ui'.guest PROVE Firm(c)'
    <3>1. CASE c \in Own(ui')
      BY <3>1 DEF Firm
    <3>2. CASE c \in ui.guest /\ c \notin Own(ui)
      <4>1. CASE c \in dock \/ c \in stranded
        BY <2>1, <2>4, <4>1 DEF Firm
      <4>2. CASE \E b \in Button : typed[b] = c /\ KeyCfg(ui, b) = c
        <5>1. PICK b \in Button : typed[b] = c /\ KeyCfg(ui, b) = c
          BY <4>2
        <5>2. typed[b] # Released
          BY <1>1, <3>2, <5>1, GuestCode
        <5>3. ui'.bind = ui.bind
          BY <1>1, <1>2, <1>3, <5>2, TypedOutside
        <5>4. KeyCfg(ui', b) = c /\ typed'[b] = c
          BY <2>1, <5>1, <5>3 DEF KeyCfg
        <5> QED BY <5>4 DEF Firm
      <4> QED BY <1>1, <3>2, <4>1, <4>2 DEF Firm
    <3> QED BY <1>3, <2>4, <3>1, <3>2 DEF Tidy
  <2> QED BY <1>4, <2>2, <2>3, <2>4 DEF Inv
<1> QED BY <1>5, <1>6

LEMMA PadInv ==
    ASSUME Inv, NEW w \in Words, Pad(w \cap Button)
    PROVE  Inv'
<1>1. PadOK'
  BY DEF Inv, Pad, PadOK
<1>2. Sane(ui)'
  BY DEF Inv, Pad, Sane, ResetEmpty, InReset
<1>3. MountOK'
  BY DEF Inv, Pad, MountOK
<1>4. \A c \in ui'.guest : Firm(c)'
  BY DEF Inv, Pad, Firm
<1> QED BY <1>1, <1>2, <1>3, <1>4 DEF Inv

LEMMA ScanInv ==
    ASSUME Inv, NEW b \in Button, Scan(b)
    PROVE  Inv'
<1> DEFINE make == b \in Effective
           c == KeyCfg(ui, b)
           g == IF c = 0 THEN ui.guest ELSE IF make THEN ui.guest \cup {c} ELSE ui.guest \ {c}
<1>1. Sane(ui) /\ ui \in Ui /\ PadOK /\ MountOK /\ c \in Codes \cup {0}
  BY CfgType DEF Inv, Sane
<1>2. /\ ~InReset(ui) /\ make # (typed[b] # Released)
      /\ typed' = [typed EXCEPT ![b] = IF make THEN c ELSE Released]
      /\ stranded' = stranded \cap ui'.guest
      /\ UNCHANGED <<down, mask, dock, tap, ext, mnt>>
  BY DEF Scan
<1>3. ui' = [ui EXCEPT !.guest = g]
  <2>1. CASE c = 0
    <3>1. ui = [ui EXCEPT !.guest = ui.guest]
      BY <1>1 DEF Ui
    <3> QED BY <2>1, <3>1 DEF Scan
  <2>2. CASE c # 0
    BY <2>2 DEF Scan, Event
  <2> QED BY <2>1, <2>2
<1>4. g \in SUBSET Codes
  BY <1>1 DEF Ui
<1> HIDE DEF g
<1>5. Sane(ui') /\ ui'.guest = g /\ Own(ui') = Own(ui) /\ ui'.bind = ui.bind
  BY <1>1, <1>2, <1>3, <1>4, GuestSane
<1>6. Sane(ui)'
  BY <1>2, <1>5 DEF Sane, ResetEmpty, InReset
<1>7. PadOK'
  BY <1>1, <1>2 DEF PadOK
<1>8. MountOK'
  BY <1>1, <1>2 DEF MountOK
<1>9. ASSUME NEW d \in ui'.guest PROVE Firm(d)'
  <2>0. \A x \in Button : KeyCfg(ui', x) = KeyCfg(ui, x)
    BY <1>5 DEF KeyCfg
  <2>1. CASE make /\ d = c
    <3>1. typed'[b] = c /\ KeyCfg(ui', b) = c
      BY <1>1, <1>2, <2>0, <2>1 DEF PadOK
    <3> QED BY <2>1, <3>1 DEF Firm
  <2>2. CASE ~(make /\ d = c)
    <3>1. d \in ui.guest /\ (c # 0 => d # c)
      BY <1>5, <1>9, <2>2 DEF g
    <3>2. d # 0 /\ d # Released
      BY <1>1, <3>1, GuestCode
    <3>3. Firm(d)
      BY <3>1 DEF Inv
    <3>4. CASE \E x \in Button : typed[x] = d /\ KeyCfg(ui, x) = d
      <4>1. PICK x \in Button : typed[x] = d /\ KeyCfg(ui, x) = d
        BY <3>4
      <4>2. x # b
        BY <3>1, <3>2, <4>1
      <4>3. typed'[x] = d /\ KeyCfg(ui', x) = d
        BY <1>1, <1>2, <2>0, <4>1, <4>2 DEF PadOK
      <4> QED BY <4>3 DEF Firm
    <3>5. CASE d \in Own(ui) \/ d \in dock \/ d \in stranded
      BY <1>2, <1>5, <1>9, <3>5 DEF Firm
    <3> QED BY <3>3, <3>4, <3>5 DEF Firm
  <2> QED BY <2>1, <2>2
<1> QED BY <1>6, <1>7, <1>8, <1>9 DEF Inv

LEMMA DockMakeInv ==
    ASSUME Inv, NEW c \in DockCodes, DockMake(c)
    PROVE  Inv'
<1> DEFINE g == IF Osd(ui) THEN ui.guest ELSE ui.guest \cup {c}
<1>1. Sane(ui) /\ ui \in Ui /\ PadOK /\ MountOK /\ c \in Codes
  BY BindAssumption DEF Inv, Sane, Codes
<1>2. /\ ~InReset(ui) /\ dock' = dock \cup {c}
      /\ tap' = IF Picking(ui) /\ tap = NoTap THEN c ELSE NoTap
      /\ UNCHANGED <<down, mask, typed, ext, mnt, stranded>>
  BY DEF DockMake
<1>3. ui' = [ui EXCEPT !.guest = g]
  <2>1. ui = [ui EXCEPT !.guest = ui.guest]
    BY <1>1 DEF Ui
  <2> QED BY <2>1 DEF DockMake
<1>4. g \in SUBSET Codes
  BY <1>1 DEF Ui
<1> HIDE DEF g
<1>5. Sane(ui') /\ ui'.guest = g /\ Own(ui') = Own(ui) /\ ui'.bind = ui.bind
  BY <1>1, <1>2, <1>3, <1>4, GuestSane
<1>6. Sane(ui)'
  BY <1>2, <1>5 DEF Sane, ResetEmpty, InReset
<1>7. PadOK' /\ MountOK'
  BY <1>1, <1>2 DEF PadOK, MountOK
<1>8. ASSUME NEW d \in ui'.guest PROVE Firm(d)'
  <2>0. \A x \in Button : KeyCfg(ui', x) = KeyCfg(ui, x)
    BY <1>5 DEF KeyCfg
  <2>1. d = c \/ d \in ui.guest
    BY <1>5, <1>8 DEF g
  <2>2. d # c => Firm(d)
    BY <2>1 DEF Inv
  <2> QED BY <1>2, <1>5, <2>0, <2>1, <2>2 DEF Firm
<1> QED BY <1>6, <1>7, <1>8 DEF Inv

LEMMA DockBreakInv ==
    ASSUME Inv, NEW c \in DockCodes, DockBreak(c)
    PROVE  Inv'
<1> DEFINE g == ui.guest \ {c}
<1>1. Sane(ui) /\ ui \in Ui /\ PadOK /\ MountOK
  BY DEF Inv, Sane
<1>2. /\ ~InReset(ui) /\ dock' = dock \ {c} /\ stranded' = stranded \ {c}
      /\ ui' = [ui EXCEPT !.guest = g]
      /\ UNCHANGED <<down, mask, typed, tap, ext, mnt>>
  BY DEF DockBreak
<1>3. g \in SUBSET Codes
  BY <1>1 DEF Ui
<1> HIDE DEF g
<1>4. Sane(ui') /\ ui'.guest = g /\ Own(ui') = Own(ui) /\ ui'.bind = ui.bind
  BY <1>1, <1>2, <1>3, GuestSane
<1>5. Sane(ui)'
  BY <1>2, <1>4 DEF Sane, ResetEmpty, InReset
<1>6. PadOK' /\ MountOK'
  BY <1>1, <1>2 DEF PadOK, MountOK
<1>7. ASSUME NEW d \in ui'.guest PROVE Firm(d)'
  <2>0. \A x \in Button : KeyCfg(ui', x) = KeyCfg(ui, x)
    BY <1>4 DEF KeyCfg
  <2>1. d # c /\ d \in ui.guest
    BY <1>4, <1>7 DEF g
  <2>2. Firm(d)
    BY <2>1 DEF Inv
  <2> QED BY <1>2, <1>4, <2>0, <2>1, <2>2 DEF Firm
<1> QED BY <1>5, <1>6, <1>7 DEF Inv

\* A change of the guest's keys while the reset line changes.
LEMMA ResetSane ==
    ASSUME Sane(ui), NEW g \in SUBSET Codes, ui' = [ui EXCEPT !.guest = g],
           InReset(ui)' => g = {}
    PROVE  /\ Sane(ui)' /\ ui'.guest = g /\ Own(ui') = Own(ui) /\ ui'.bind = ui.bind
           /\ ui'.mode = ui.mode /\ ui'.target = ui.target
<1>1. ui \in Ui
  BY DEF Sane
<1>2. /\ ui' \in Ui /\ ui'.cur = ui.cur /\ ui'.vrow = ui.vrow
      /\ ui'.menu = ui.menu /\ ui'.row = ui.row /\ ui'.ret = ui.ret /\ ui'.target = ui.target
      /\ ui'.mode = ui.mode /\ ui'.bind = ui.bind /\ ui'.latched = ui.latched
      /\ ui'.held = ui.held /\ ui'.echo = ui.echo /\ ui'.guest = g
      /\ ui'.hold = ui.hold /\ ui'.phase = ui.phase
  BY <1>1 DEF Ui
<1>3. Own(ui') = Own(ui)
  BY <1>2 DEF Own
<1>4. ui'.cur \in RowKeys(ui'.vrow) /\ Pages(ui') /\ Clean(ui') /\ EchoHeld(ui') /\ Walk(ui')
  BY <1>2, <1>3 DEF Sane, Pages, Clean, EchoHeld, Walk
<1>5. ResetEmpty(ui)'
  BY <1>2 DEF ResetEmpty
<1> QED BY <1>2, <1>3, <1>4, <1>5 DEF Sane

LEMMA ResetOnInv ==
    ASSUME Inv, ResetOn
    PROVE  Inv'
<1>1. Sane(ui) /\ PadOK /\ MountOK
  BY DEF Inv
<1>2. /\ ext' = TRUE /\ ui' = [ui EXCEPT !.guest = {}] /\ UNCHANGED <<down, mnt>>
      /\ typed' = AllReleased /\ mask' = down
      /\ tap' \in IF ~Picking(ui') THEN {NoTap} ELSE IF InReset(ui) THEN {tap} ELSE {NoTap, 0}
  BY DEF ResetOn, KeyboardReset
<1>3. Sane(ui)' /\ ui'.guest = {}
  <2> DEFINE g == {}
  <2>1. g \in SUBSET Codes /\ ui' = [ui EXCEPT !.guest = g]
    BY <1>2
  <2>2. g = {}
    OBVIOUS
  <2> HIDE DEF g
  <2> QED BY <1>1, <2>1, <2>2, ResetSane
<1>4. PadOK'
  BY <1>1, <1>2 DEF PadOK, AllReleased
<1>5. MountOK'
  BY <1>1, <1>2 DEF MountOK
<1> QED BY <1>3, <1>4, <1>5 DEF Inv

LEMMA ResetOffInv ==
    ASSUME Inv, ResetOff
    PROVE  Inv'
<1> DEFINE g == IF ui.hold = 3 THEN {} ELSE Event({}, ui.echo)
<1>1. Sane(ui) /\ ui \in Ui /\ PadOK /\ MountOK
  BY DEF Inv, Sane
<1>2. /\ ext' = FALSE /\ ui' = [ui EXCEPT !.guest = g]
      /\ UNCHANGED <<down, mask, typed, dock, tap, mnt, stranded>>
  BY DEF ResetOff, padVars
<1>3. g \subseteq Own(ui) /\ g \in SUBSET Codes /\ (ui.hold = 3 => g = {})
  <2>1. ui.echo.make => ui.echo.code \in Own(ui)
    BY <1>1 DEF Sane, EchoHeld
  <2>2. ui.echo.make => ui.echo.code \in Codes
    BY <1>1, <2>1, CodeOf DEF Own, Ui
  <2> QED BY <2>1, <2>2 DEF Event
<1> HIDE DEF g
<1>4. InReset(ui)' => g = {}
  <2>1. ui'.hold = ui.hold
    BY <1>1, <1>2 DEF Ui
  <2> QED BY <1>2, <1>3, <2>1 DEF InReset
<1>5. Sane(ui)' /\ ui'.guest = g /\ Own(ui') = Own(ui)
  BY <1>1, <1>2, <1>3, <1>4, ResetSane
<1>6. PadOK' /\ MountOK'
  BY <1>1, <1>2 DEF PadOK, MountOK
<1>7. \A c \in ui'.guest : Firm(c)'
  BY <1>3, <1>5 DEF Firm
<1> QED BY <1>5, <1>6, <1>7 DEF Inv

LEMMA BoundButton ==
    ASSUME MountOK
    PROVE  Bound[mnt.at] \in Button
  BY DEF MountOK, Button

LEMMA MountInv ==
    ASSUME Inv, NEW p \in Profiles, Mount(p)
    PROVE  Inv'
<1>1. UNCHANGED <<ui, down, mask, typed, dock, tap, ext, stranded>>
  BY DEF Mount, padVars
<1>2. MountOK'
  <2> DEFINE n == Len(Bound)
  <2>1. n \in Nat \ {0}
    BY BindAssumption
  <2>2. mnt \in [pc : {"idle", "set", "sync"}, at : 1..n, prof : Profiles \cup {bind_default}]
    BY DEF Inv, MountOK
  <2> HIDE DEF n
  <2>3. mnt' = [pc |-> "set", at |-> 1, prof |-> p]
    BY <2>2 DEF Mount
  <2>4. mnt' \in [pc : {"idle", "set", "sync"}, at : 1..n, prof : Profiles \cup {bind_default}]
    BY <2>1, <2>3
  <2> QED BY <2>4 DEF MountOK, n
<1>3. Sane(ui)' /\ PadOK'
  BY <1>1 DEF Inv, Sane, ResetEmpty, InReset, PadOK
<1>4. \A c \in ui'.guest : Firm(c)'
  BY <1>1 DEF Inv, Firm
<1> QED BY <1>2, <1>3, <1>4 DEF Inv

LEMMA MountSetInv ==
    ASSUME Inv, MountSet
    PROVE  Inv'
<1> DEFINE b == Bound[mnt.at]
<1>1. Sane(ui) /\ ui \in Ui /\ PadOK /\ MountOK /\ b \in Button
  BY BoundButton DEF Inv, Sane
<1>2. /\ ui' = key_bind_set(ui, b, mnt.prof[b])
      /\ stranded' = (stranded \cup ({typed[b]} \ {KeyCfg(ui', b)})) \cap ui.guest
      /\ UNCHANGED <<down, mask, typed, dock, tap, ext>>
      /\ mnt' = IF mnt.at < Len(Bound) THEN [mnt EXCEPT !.at = @ + 1]
                ELSE [mnt EXCEPT !.pc = "sync", !.at = 1]
  BY DEF MountSet, padVars
<1>3. mnt.prof[b] \in Bindable
  BY <1>1, BindAssumption DEF MountOK
<1>4. Sane(ui') /\ Keys(ui, ui')
  BY <1>1, <1>2, <1>3, BindSane
<1>5. Sane(ui)' /\ PadOK'
  BY <1>1, <1>2, <1>4 DEF Sane, ResetEmpty, InReset, PadOK
<1>6. MountOK'
  <2> DEFINE n == Len(Bound)
  <2>1. n \in Nat \ {0}
    BY BindAssumption
  <2>2. mnt \in [pc : {"idle", "set", "sync"}, at : 1..n, prof : Profiles \cup {bind_default}]
    BY <1>1 DEF MountOK
  <2>3. mnt' = IF mnt.at < n THEN [mnt EXCEPT !.at = @ + 1]
               ELSE [mnt EXCEPT !.pc = "sync", !.at = 1]
    BY <1>2
  <2> HIDE DEF n
  <2>4. mnt' = IF mnt.at < n THEN [pc |-> mnt.pc, at |-> mnt.at + 1, prof |-> mnt.prof]
               ELSE [pc |-> "sync", at |-> 1, prof |-> mnt.prof]
    <3>1. CASE mnt.at < n
      BY <2>2, <2>3, <3>1
    <3>2. CASE ~(mnt.at < n)
      <4>1. mnt' = [mnt EXCEPT !.pc = "sync", !.at = 1]
        BY <2>3, <3>2
      <4>2. mnt = [pc |-> mnt.pc, at |-> mnt.at, prof |-> mnt.prof]
        BY <2>2
      <4>3. mnt' = [pc |-> "sync", at |-> 1, prof |-> mnt.prof]
        BY <4>1, <4>2
      <4> QED BY <3>2, <4>3
    <3> QED BY <3>1, <3>2
  <2>5. mnt' \in [pc : {"idle", "set", "sync"}, at : 1..n, prof : Profiles \cup {bind_default}]
    BY <2>1, <2>2, <2>4
  <2> QED BY <2>5 DEF MountOK, n
<1>7. \A x \in Button \ {b} : KeyCfg(ui', x) = KeyCfg(ui, x)
  <2>1. \A x \in Button \ {b} : ui'.bind[x] = ui.bind[x]
    BY <1>1, <1>2 DEF key_bind_set, Ui, Bindings
  <2> QED BY <2>1 DEF KeyCfg
<1>8. ASSUME NEW d \in ui'.guest PROVE Firm(d)'
  <2>1. d \in ui.guest /\ Own(ui') = Own(ui)
    BY <1>4, <1>8 DEF Keys, Own
  <2>2. Firm(d)
    BY <2>1 DEF Inv
  <2>3. CASE d \in Own(ui) \/ d \in dock \/ d \in stranded
    BY <1>2, <2>1, <2>3 DEF Firm
  <2>4. CASE \E x \in Button : typed[x] = d /\ KeyCfg(ui, x) = d
    <3>1. PICK x \in Button : typed[x] = d /\ KeyCfg(ui, x) = d
      BY <2>4
    <3>2. CASE x # b
      BY <1>2, <1>7, <3>1, <3>2 DEF Firm
    <3>3. CASE x = b /\ KeyCfg(ui', b) = d
      BY <1>1, <1>2, <3>1, <3>3 DEF Firm
    <3>4. CASE x = b /\ KeyCfg(ui', b) # d
      <4>1. d \in stranded'
        BY <1>2, <2>1, <3>1, <3>4
      <4> QED BY <4>1 DEF Firm
    <3> QED BY <3>2, <3>3, <3>4
  <2> QED BY <2>2, <2>3, <2>4 DEF Firm
<1> QED BY <1>5, <1>6, <1>8 DEF Inv

LEMMA MountSyncInv ==
    ASSUME Inv, MountSync
    PROVE  Inv'
<1> DEFINE b == Bound[mnt.at]
           s == [ui.sel EXCEPT ![b] = keybind_slot(ui, b)]
           m == [ui EXCEPT !.sel = s]
           f == [ui.key EXCEPT ![b] = KeyCfg(m, b)]
<1>1. Sane(ui) /\ ui \in Ui /\ PadOK /\ MountOK /\ b \in Button
  BY BoundButton DEF Inv, Sane
<1>2. /\ ui' = keybind_remember([ui EXCEPT !.sel[b] = keybind_slot(ui, b)], b)
      /\ UNCHANGED <<down, mask, typed, dock, tap, ext, stranded>>
      /\ mnt' = IF mnt.at < Len(Bound) THEN [mnt EXCEPT !.at = @ + 1]
                ELSE [pc |-> "idle", at |-> 1, prof |-> bind_default]
  BY DEF MountSync, padVars
<1>3. s \in [Button -> Slot]
  BY <1>1, SlotType DEF Ui
<1>4. m = [ui EXCEPT !.sel[b] = keybind_slot(ui, b)]
  OBVIOUS
<1> HIDE DEF s
<1>5. m \in Ui /\ m.key = ui.key
  BY <1>1, <1>3 DEF Ui
<1>6. f \in [Button -> Codes \cup {0}]
  <2>1. KeyCfg(m, b) \in Codes \cup {0}
    BY <1>1, <1>5, CfgType
  <2> HIDE DEF m
  <2> QED BY <1>1, <2>1 DEF Ui
<1>7. ui' = [m EXCEPT !.key = f]
  <2>1. ui' = keybind_remember(m, b)
    BY <1>2, <1>4
  <2> HIDE DEF m
  <2> QED BY <1>5, <2>1 DEF keybind_remember
<1> HIDE DEF f
<1>8. /\ ui' \in Ui /\ Keys(ui, ui') /\ ui'.cur = ui.cur /\ ui'.vrow = ui.vrow
      /\ ui'.menu = ui.menu /\ ui'.row = ui.row /\ ui'.ret = ui.ret /\ ui'.target = ui.target
      /\ ui'.mode = ui.mode /\ ui'.bind = ui.bind
  BY <1>1, <1>3, <1>6, <1>7 DEF Ui, Keys
<1>9. ui'.cur \in RowKeys(ui'.vrow) /\ Pages(ui') /\ Clean(ui')
  BY <1>1, <1>8 DEF Sane, Pages, Clean, Keys
<1>10. Sane(ui')
  BY <1>1, <1>8, <1>9, KeysSane
<1>11. Sane(ui)' /\ PadOK'
  BY <1>1, <1>2, <1>10 DEF Sane, ResetEmpty, InReset, PadOK
<1>12. MountOK'
  BY <1>1, <1>2, BindAssumption DEF MountOK
<1>13. ASSUME NEW d \in ui'.guest PROVE Firm(d)'
  <2>1. d \in ui.guest /\ Own(ui') = Own(ui)
    BY <1>8, <1>13 DEF Keys, Own
  <2>2. Firm(d)
    BY <2>1 DEF Inv
  <2>3. \A x \in Button : KeyCfg(ui', x) = KeyCfg(ui, x)
    BY <1>8 DEF KeyCfg
  <2> QED BY <1>2, <2>1, <2>2, <2>3 DEF Firm
<1> QED BY <1>11, <1>12, <1>13 DEF Inv

LEMMA NextInv == Inv /\ [Next]_vars => Inv'
<1> SUFFICES ASSUME Inv, [Next]_vars PROVE Inv'
  OBVIOUS
<1>1. CASE Ticks
  BY <1>1, TickInv DEF Ticks
<1>2. CASE Pads
  BY <1>2, PadInv DEF Pads
<1>3. CASE Keyboard
  BY <1>3, ScanInv, DockMakeInv, DockBreakInv DEF Keyboard
<1>4. CASE ResetOn \/ ResetOff
  BY <1>4, ResetOnInv, ResetOffInv
<1>5. CASE Main
  BY <1>5, MountInv, MountSetInv, MountSyncInv DEF Main
<1>6. CASE UNCHANGED vars
  BY <1>6 DEF vars, padVars, Inv, Sane, ResetEmpty, InReset, PadOK, MountOK, Firm
<1> QED BY <1>1, <1>2, <1>3, <1>4, <1>5, <1>6 DEF Next

LEMMA Invariant == Spec => []Inv
  BY InitInv, NextInv, PTL DEF Spec

-----------------------------------------------------------------------------
(* The theorems.                                                            *)

\* Types of the firmware's statics, the scanner and the pick: the keyboard's
\* cursor stays in its row, the menu's on a row that can be used, and the
\* roller never stores its own marker.
THEOREM TypeCorrect == Spec => []TypeOK
<1>1. Inv => TypeOK
  BY DEF Inv, Sane, Ui, Modes, Bindings, Pages, RowOK, PadOK, TypeOK
<1> QED BY <1>1, Invariant, PTL

\* For any keyboard, menu, bindings and profiles: no key stays down in the
\* guest without somebody holding it (vkb_release_all, vkb_clear_latches, the
\* scanner's breaks, the two resets and the replayed event).
THEOREM NeverStuck == Spec => []NothingStuck
<1>1. Inv => NothingStuck
  <2> SUFFICES ASSUME Inv, NEW c \in ui.guest PROVE Held(c)
    BY DEF NothingStuck
  <2>1. Firm(c)
    BY DEF Inv
  <2> QED BY <2>1 DEF Firm, Held, Own
<1> QED BY <1>1, Invariant, PTL

\* Keys are latched or held only while the keyboard types, a pick runs only
\* on the keyboard (picker_close, osd_enter_settings, L1), and the scanner has
\* every button up under a settled overlay.
THEOREM AlwaysClean == Spec => []OverlayClean
<1>1. Inv => OverlayClean
  <2> SUFFICES ASSUME Inv PROVE OverlayClean
    OBVIOUS
  <2>1. Clean(ui)
    BY DEF Inv, Sane
  <2>2. Osd(ui) /\ Settled => typed = AllReleased
    <3> SUFFICES ASSUME Osd(ui), Settled PROVE typed = AllReleased
      OBVIOUS
    <3>1. \A b \in Button : typed[b] = Released
      BY DEF Settled, Effective, Gated
    <3>2. typed = [b \in Button |-> typed[b]]
      BY DEF Inv, PadOK
    <3> QED BY <3>1, <3>2 DEF AllReleased
  <2> QED BY <2>1, <2>2 DEF Clean, OverlayClean
<1> QED BY <1>1, Invariant, PTL

\* While the menu or a pick is up, no step of anybody types into the guest.
THEOREM AlwaysQuiet == Spec => OverlayQuiet
<1> DEFINE Quiet == Browsing(ui) /\ Browsing(ui') => ui'.guest \subseteq ui.guest
<1>1. Inv /\ [Next]_vars => [Quiet]_vars
  <2> SUFFICES ASSUME Inv, [Next]_vars, Browsing(ui) PROVE ui'.guest \subseteq ui.guest \/ ~Browsing(ui')
    OBVIOUS
  <2>0. Sane(ui) /\ ui \in Ui /\ tap \in Codes \cup {0, NoTap} /\ Osd(ui) /\ Own(ui) = {}
    BY DEF Inv, Sane, PadOK, Clean, Browsing, Osd, Own
  <2>1. CASE Ticks
    BY <2>0, <2>1, TickKeeps DEF Ticks, Tick
  <2>2. CASE Pads
    BY <2>2 DEF Pads, Pad
  <2>3. ASSUME NEW b \in Button, Scan(b) PROVE ui'.guest \subseteq ui.guest
    <3>1. b \notin Effective
      BY <2>0 DEF Effective, Gated
    <3> QED BY <2>0, <2>3, <3>1 DEF Scan, Event, Ui
  <2>4. ASSUME NEW c, DockMake(c) PROVE ui'.guest \subseteq ui.guest
    BY <2>0, <2>4 DEF DockMake
  <2>5. ASSUME NEW c, DockBreak(c) PROVE ui'.guest \subseteq ui.guest
    BY <2>0, <2>5 DEF DockBreak, Ui
  <2>6. CASE ResetOn
    BY <2>0, <2>6 DEF ResetOn, Ui
  <2>7. CASE ResetOff
    <3>1. ui.echo.make = FALSE
      BY <2>0 DEF Sane, EchoHeld, Ui, Ev
    <3> QED BY <2>0, <2>7, <3>1 DEF ResetOff, Event, Ui
  <2>8. CASE Main
    <3>1. ASSUME NEW p, Mount(p) PROVE ui' = ui
      BY <3>1 DEF Mount
    <3>2. CASE MountSet
      BY <2>0, <3>2 DEF MountSet, key_bind_set, Ui
    <3>3. CASE MountSync
      BY <2>0, <3>3 DEF MountSync, keybind_remember, Ui
    <3> QED BY <2>8, <3>1, <3>2, <3>3 DEF Main
  <2>9. CASE UNCHANGED vars
    BY <2>9 DEF vars
  <2> QED BY <2>1, <2>2, <2>3, <2>4, <2>5, <2>6, <2>7, <2>8, <2>9 DEF Next, Keyboard
<1> QED BY <1>1, Invariant, PTL DEF Spec, OverlayQuiet
=============================================================================
