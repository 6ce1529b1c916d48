------------------------------ MODULE OsdKeys -------------------------------
(***************************************************************************)
(* The overlays and the keys they type: vkb_ui.c (virtual keyboard, key    *)
(* picker, mode switch), the menu and the binding roller of settings_ui.c, *)
(* key_bind.c, and the two RTL blocks that turn events into keys the guest *)
(* holds down, pocket_keyboard.sv and pc98_kbd_ps2.sv.                     *)
(*                                                                         *)
(* vkb_ui_tick runs in the timer interrupt, so a tick is one step; it maps *)
(* the record ui (the firmware's statics, and what its register writes     *)
(* reach) through the operators below in the order of the code.  The main  *)
(* loop's profile mount rebinds button by button between ticks.  The RTL   *)
(* visits all buttons within microseconds and a tick takes a millisecond:  *)
(* the scanner has settled when a tick runs.                               *)
(*                                                                         *)
(* A code stands for an {ext, code} pair.  Layout, colours, the output     *)
(* queue and option values are left out: option rows are SettingsStore's   *)
(* Edit, floppy rows FddService's eject and insert.                        *)
(***************************************************************************)
EXTENDS Naturals, Sequences, FiniteSets

CONSTANTS
    Code,          \* vkb_keys[].scancode of the keys 1..Len(Code)
    Centre,        \* the horizontal centre of each key
    vrows,         \* visual rows: [start, count]
    ToggleCodes,   \* codes that flip a state of the guest on their make
    Bound,         \* the rebindable buttons, in the order of BIND_*
    bind_default,  \* their default codes
    keybind_cycle, \* the roller's codes; the last is BIND_KEY_SLOT
    menus,         \* menu -> rows [type, arg]; "main" is the first menu
    Words,         \* sets of buttons the pad can settle on
    DockCodes,     \* codes of a docked keyboard
    Profiles,      \* bindings a mounted disk brings
    HoldTicks, BlankTicks

BIND_FN_FIRST == 241
SETTINGS_FN   == 241
BIND_KEY_SLOT == 255
Released      == 256   \* typed[b]: the scanner has button b up

Key == 1..Len(Code)
Button == {Bound[i] : i \in 1..Len(Bound)}
Slot == 1..Len(keybind_cycle)
KeySlot == Len(keybind_cycle)
DPad == {"up", "down", "left", "right"}
Bindable == 0..BIND_KEY_SLOT - 1
NoTarget == "none"
NoTap == 257
NoEvent == [make |-> FALSE, code |-> 0]

ASSUME KeyAssumption ==
    /\ Len(Code) \in Nat \ {0} /\ Code \in [Key -> 1..BIND_FN_FIRST - 1]
    /\ Centre \in [Key -> Nat]
    /\ Len(vrows) \in Nat \ {0} /\ vrows[1].start = 1
    /\ \A r \in 1..Len(vrows) :
          /\ vrows[r].count \in Nat \ {0} /\ vrows[r].start \in Key
          /\ vrows[r].start + vrows[r].count - 1 <= Len(Code)
ASSUME BindAssumption ==
    /\ Len(Bound) \in Nat \ {0} /\ NoTarget \notin Button
    /\ bind_default \in [Button -> Bindable] /\ Profiles \subseteq [Button -> Bindable]
    /\ DockCodes \subseteq 1..BIND_FN_FIRST - 1
    /\ KeySlot \in Nat \ {0, 1} /\ keybind_cycle[KeySlot] = BIND_KEY_SLOT
    /\ \A i \in 1..KeySlot - 1 : keybind_cycle[i] \in Bindable
ASSUME MenuAssumption ==
    /\ "main" \in DOMAIN menus /\ menus["main"][1].type = "submenu"
    /\ \A m \in DOMAIN menus :
          /\ Len(menus[m]) \in Nat \ {0} /\ menus[m][1].type # "spacer"
          /\ \A i \in 1..Len(menus[m]) :
                /\ menus[m][i].type = "submenu" => m = "main" /\ menus[m][i].arg \in DOMAIN menus
                /\ menus[m][i].type = "keybind" => menus[m][i].arg \in Button
    /\ HoldTicks \in Nat \ {0} /\ BlankTicks \in Nat \ {0}

VARIABLES
    ui,       \* the firmware's state, and the keys the guest holds down
    down,     \* bound buttons held by the user
    mask,     \* btn_mask: held buttons that may not type before a release
    typed,    \* btn_prev: per button, the code its make typed, or Released
    dock,     \* docked keys hid_to_ps2 has reported down
    tap,      \* the docked key a running pick finds, or NoTap
    ext,      \* a guest reset from outside (the interact menu)
    mnt,      \* settings_disk_mounted in the main loop: [pc, at, prof]
    stranded  \* (history) codes whose binding a mount replaced while typed

padVars == <<down, mask, typed, dock, tap>>
vars == <<ui, padVars, ext, mnt, stranded>>

Init ==
    /\ ui = [mode |-> "none", prev |-> {}, target |-> NoTarget,
             cur |-> 1, vrow |-> 1, held |-> 0, latched |-> {},
             bind |-> bind_default, sel |-> [b \in Button |-> 1],
             key |-> [b \in Button |-> 0],
             menu |-> "main", row |-> 1, ret |-> 1,
             hold |-> 0, phase |-> 0, ticks |-> 0,
             guest |-> {}, echo |-> NoEvent]
    /\ down = {} /\ mask = {} /\ typed = [b \in Button |-> Released]
    /\ dock = {} /\ tap = NoTap
    /\ ext = FALSE
    /\ mnt = [pc |-> "idle", at |-> 1, prof |-> bind_default]
    /\ stranded = {}

-----------------------------------------------------------------------------
(* Key events.  held[] of pc98_kbd_ps2: a make puts the key down, a break   *)
(* lifts it, a break of a key that is up is dropped.  In reset the events   *)
(* are lost; the toggle of the register is not, and after an odd number of  *)
(* events the last one comes through (again) when the reset ends: echo.     *)

Event(g, e) == IF e.make THEN g \cup {e.code} ELSE g \ {e.code}

InReset(u) == ext \/ u.hold = 3

Echo(u, e) == IF u.echo = NoEvent THEN e ELSE NoEvent

vkb_emit(u, make, c) ==
    LET e == [make |-> make, code |-> c] IN
    [u EXCEPT !.echo = Echo(u, e), !.guest = IF InReset(u) THEN @ ELSE Event(@, e)]

-----------------------------------------------------------------------------
(* key_bind.c: a code from BIND_FN_FIRST up is a function and types nothing.*)

KeyCfg(u, b) == IF u.bind[b] >= BIND_FN_FIRST THEN 0 ELSE u.bind[b]

key_bind_set(u, b, c) == [u EXCEPT !.bind[b] = c]
key_bind_reset(u) == [u EXCEPT !.bind = bind_default]

OpensSettings(u, b) == u.bind[b] = SETTINGS_FN

-----------------------------------------------------------------------------
(* The virtual keyboard of vkb_ui.c.                                        *)

Abs(a, b) == IF a < b THEN b - a ELSE a - b
RowKeys(r) == vrows[r].start .. vrows[r].start + vrows[r].count - 1

\* The nearest key of row r; on ties the first going up, the last going down.
Nearest(k, r, dy) ==
    LET near == {j \in RowKeys(r) : \A i \in RowKeys(r) :
                    Abs(Centre[k], Centre[j]) <= Abs(Centre[k], Centre[i])}
    IN  CHOOSE j \in near : \A i \in near : IF dy = "down" THEN i <= j ELSE j <= i

cursor_move(u, d) ==
    LET s == vrows[u.vrow].start
        t == s + vrows[u.vrow].count - 1
        r == IF d = "up" THEN IF u.vrow = 1 THEN Len(vrows) ELSE u.vrow - 1
             ELSE IF u.vrow = Len(vrows) THEN 1 ELSE u.vrow + 1
    IN  IF d \in {"up", "down"} THEN [u EXCEPT !.vrow = r, !.cur = Nearest(@, r, d)]
        ELSE IF d = "left" THEN [u EXCEPT !.cur = IF @ = s THEN t ELSE @ - 1]
        ELSE [u EXCEPT !.cur = IF @ = t THEN s ELSE @ + 1]

NavStep(u, d, ev) == IF d \in ev THEN cursor_move(u, d) ELSE u

\* rpt: the held directions whose repeat is due (ui_repeat_btn once its timer
\* has run out, else none).  A diagonal steps vertically.
cursor_navigate(u, press, rpt) ==
    LET ev0 == IF press \cap DPad = {} THEN rpt ELSE press \cap DPad
        ev  == IF ev0 \cap {"up", "down"} # {} THEN ev0 \cap {"up", "down"} ELSE ev0
    IN  NavStep(NavStep(NavStep(NavStep(u, "up", ev), "down", ev), "left", ev), "right", ev)

\* (mutant) The latch bits are cleared, the breaks forgotten.
vkb_clear_latches_silent(u) == [u EXCEPT !.latched = {}]

\* One break per latched key in the order of the keys, paced.  The toggle
\* flips with each: what is left of them in echo is the last, or nothing.
LastLatched(u) == CHOOSE k \in u.latched : \A j \in u.latched : j <= k

vkb_clear_latches(u) ==
    LET e == [make |-> FALSE, code |-> Code[LastLatched(u)]]
        odd == (Cardinality(u.latched) % 2 = 1) # (u.echo # NoEvent)
    IN  IF u.latched = {} THEN u
        ELSE [u EXCEPT !.latched = {}, !.echo = IF odd THEN e ELSE NoEvent,
                       !.guest = IF InReset(u) THEN @
                                 ELSE @ \ {Code[k] : k \in u.latched}]

Unhold(u) ==
    IF u.held = 0 THEN u
    ELSE [vkb_emit(u, FALSE, Code[u.held]) EXCEPT !.held = 0]

vkb_release_all(u) == vkb_clear_latches(Unhold(u))

Close(u) == [u EXCEPT !.mode = "none"]

osd_enter_settings(u) ==
    [vkb_release_all([u EXCEPT !.target = NoTarget])
        EXCEPT !.mode = "settings", !.menu = "main", !.row = 1, !.ret = 1]

picker_close(u) == [u EXCEPT !.target = NoTarget, !.mode = "settings"]

vkb_ui_open_picker(u, b) ==
    [u EXCEPT !.target = b, !.mode = "vkb"]

\* Pick mode: a fresh docked key, A and B in this order.
Pick(u, press, rpt) ==
    IF tap # NoTap THEN picker_close(key_bind_set(u, u.target, tap))
    ELSE IF "A" \in press
    THEN picker_close(key_bind_set(u, u.target, Code[u.cur]))
    ELSE IF "B" \in press THEN picker_close(u)
    ELSE cursor_navigate(u, press, rpt)

\* X: latch or release the key; a toggle key is pressed once instead.
PressX(u) ==
    LET c == Code[u.cur]
        on == u.cur \notin u.latched
    IN  IF c \in ToggleCodes THEN vkb_emit(vkb_emit(u, TRUE, c), FALSE, c)
        ELSE [vkb_emit(u, on, c) EXCEPT
                 !.latched = IF on THEN @ \cup {u.cur} ELSE @ \ {u.cur}]

\* A: hold a key that is not latched.
PressA(u) ==
    IF u.cur \in u.latched THEN u
    ELSE [vkb_emit(u, TRUE, Code[u.cur]) EXCEPT !.held = u.cur]

vkb_input(u, press, rpt) ==
    IF u.target # NoTarget THEN Pick(u, press, rpt)
    ELSE IF "B" \in press THEN Close(vkb_release_all(u))
    ELSE LET nav == cursor_navigate(u, press, rpt)
             x == IF "X" \in press THEN PressX(nav) ELSE nav
             y == IF "Y" \in press THEN vkb_clear_latches(x) ELSE x
         IN  IF "A" \in press THEN PressA(y) ELSE y

-----------------------------------------------------------------------------
(* The menu and the binding roller of settings_ui.c.                        *)

keybind_slot(u, b) ==
    LET at == {i \in Slot : keybind_cycle[i] = u.bind[b]}
    IN  IF at = {} THEN KeySlot ELSE CHOOSE i \in at : \A j \in at : i <= j

\* A binding that is no key (unmapped, a function) clears the row's memory.
keybind_remember(u, b) == [u EXCEPT !.key[b] = KeyCfg(u, b)]

keybind_sync(u) ==
    [u EXCEPT !.sel = [b \in Button |-> keybind_slot(u, b)],
              !.key = [b \in Button |-> KeyCfg(u, b)]]

\* The next row in a direction that is not a spacer, wrapping.
move_cursor(u, d) ==
    LET n == Len(menus[u.menu])
        At(i) == ((u.row - 1 + (IF d = "down" THEN i ELSE n - i)) % n) + 1
        real == {i \in 1..n : menus[u.menu][At(i)].type # "spacer"}
    IN  [u EXCEPT !.row = At(CHOOSE i \in real : \A j \in real : i <= j)]

\* (mutant) The roller stores the marker of its own last slot.
Roll_marker(u, b, d) ==
    LET left == IF u.sel[b] = KeySlot THEN keybind_remember(u, b) ELSE u
        slot == IF d = "right" THEN IF u.sel[b] = KeySlot THEN 1 ELSE u.sel[b] + 1
                ELSE IF u.sel[b] = 1 THEN KeySlot ELSE u.sel[b] - 1
    IN  key_bind_set([left EXCEPT !.sel[b] = slot], b, keybind_cycle[slot])

\* Left or right on a binding row: leaving the key slot remembers its key,
\* coming back restores it.
Roll(u, b, d) ==
    LET left == IF u.sel[b] = KeySlot THEN keybind_remember(u, b) ELSE u
        slot == IF d = "right" THEN IF u.sel[b] = KeySlot THEN 1 ELSE u.sel[b] + 1
                ELSE IF u.sel[b] = 1 THEN KeySlot ELSE u.sel[b] - 1
    IN  key_bind_set([left EXCEPT !.sel[b] = slot], b,
                     IF slot = KeySlot THEN left.key[b] ELSE keybind_cycle[slot])

KeybindRow(u, b, press) ==
    IF "A" \in press /\ u.sel[b] = KeySlot THEN vkb_ui_open_picker(u, b)
    ELSE IF "right" \in press THEN Roll(u, b, "right")
    ELSE IF "left" \in press THEN Roll(u, b, "left")
    ELSE u

SubmenuRow(u, m) ==
    LET v == [u EXCEPT !.ret = u.row, !.menu = m, !.row = 1]
    IN  IF m = "controls" THEN keybind_sync(v) ELSE v

\* Reset PC holds the guest, starts the walk of settings_reset_tick and
\* closes the panel.
ResetPC(u) == [Close(u) EXCEPT !.hold = 3, !.phase = 1, !.ticks = 0, !.guest = {}]

settings_input(u, press) ==
    LET it == menus[u.menu][u.row] IN
    IF "B" \in press
    THEN IF u.menu = "main" THEN Close(u) ELSE [u EXCEPT !.menu = "main", !.row = u.ret]
    ELSE IF press \cap {"up", "down"} # {}
    THEN move_cursor(u, IF "up" \in press THEN "up" ELSE "down")
    ELSE IF it.type = "keybind" THEN KeybindRow(u, it.arg, press)
    ELSE IF "A" \notin press THEN u
    ELSE IF it.type = "submenu" THEN SubmenuRow(u, it.arg)
    ELSE IF it.type = "defaults" THEN key_bind_reset(u)
    ELSE IF it.type = "reset" THEN ResetPC(u) ELSE u

\* The count is dead between resets (ResetPC clears it) and kept at 0.
settings_reset_tick(u) ==
    LET due == u.ticks + 1 >= (IF u.phase = 1 THEN HoldTicks ELSE BlankTicks)
    IN  IF u.phase = 0 THEN u
        ELSE IF ~due THEN [u EXCEPT !.ticks = @ + 1]
        ELSE IF u.phase = 1
        THEN [u EXCEPT !.hold = 2, !.phase = 2, !.ticks = 0,
                       !.guest = IF ext THEN {} ELSE Event({}, u.echo)]
        ELSE [u EXCEPT !.hold = 0, !.phase = 0, !.ticks = 0]

-----------------------------------------------------------------------------
(* vkb_ui_tick: the opener, L1, the buttons bound to the settings, and the  *)
(* input of the mode that is left.                                          *)

Opener(u) == IF u.mode = "settings" THEN Close(u) ELSE osd_enter_settings(u)

\* (mutant) A pick in flight survives L1.
ToggleVkb_picks(u) ==
    IF u.mode = "none" THEN [u EXCEPT !.mode = "vkb"] ELSE Close(vkb_release_all(u))

ToggleVkb(u) ==
    IF u.mode = "none" THEN [u EXCEPT !.mode = "vkb"]
    ELSE Close(vkb_release_all([u EXCEPT !.target = NoTarget]))

\* The settings-bound buttons that are live in an overlay; B never is.
SettingsMask(u) == {b \in Button \ {"B"} : OpensSettings(u, b)}

dispatch_bindings(u, press) ==
    IF \E b \in press \cap Button : OpensSettings(u, b) THEN osd_enter_settings(u) ELSE u

ModeInput(u, press, rel, rpt) ==
    IF u.mode = "settings" THEN settings_input(u, press)
    ELSE IF u.mode = "none" THEN dispatch_bindings(u, press)
    ELSE IF u.held = 0 THEN vkb_input(u, press, rpt)
    ELSE IF "A" \in rel THEN Unhold(u) ELSE u

vkb_ui_tick(w, opener, rpt) ==
    LET press == w \ ui.prev
        rel == ui.prev \ w
        u0 == settings_reset_tick(ui)
        u1 == IF opener THEN Opener(u0) ELSE u0
        u2 == IF "L1" \in press THEN ToggleVkb(u1) ELSE u1
        hit == u2.mode # "none" /\ press \cap SettingsMask(u2) # {}
        u3 == IF ~hit THEN u2
              ELSE IF u2.mode = "settings" THEN Close(u2) ELSE osd_enter_settings(u2)
        left == IF hit THEN press \ SettingsMask(u2) ELSE press
    IN  [ModeInput(u3, left, rel, rpt) EXCEPT !.prev = w]

-----------------------------------------------------------------------------
(* pocket_keyboard.sv: an overlay or a reset gates the buttons and masks    *)
(* the held ones until they are released.  A make types the button's code,  *)
(* a break the code the button has by then.                                 *)

Osd(u) == u.mode # "none"
Gated == Osd(ui) \/ InReset(ui)
Effective == IF Gated THEN {} ELSE down \ mask
Settled == \A b \in Button : b \in Effective <=> typed[b] # Released

AllReleased == [b \in Button |-> Released]

Picking(u) == u.target # NoTarget

\* What a guest reset does to the scanner, hid_to_ps2 and the tap.  The tap
\* signals by a toggle, compared with its value when the pick began: a second
\* key nets out, and the reset, which clears toggle and code, reads as a key
\* of code 0 or as none, as the toggle stood.
KeyboardReset ==
    /\ typed' = AllReleased /\ mask' = down
    /\ dock' = {}
    /\ tap' \in IF ~Picking(ui') THEN {NoTap}
               ELSE IF InReset(ui) THEN {tap} ELSE {NoTap, 0}

Pad(d) ==
    /\ d # down /\ down' = d
    /\ mask' = IF Gated THEN d ELSE mask \cap d
    /\ UNCHANGED <<ui, typed, dock, tap, ext, mnt, stranded>>

Scan(b) ==
    LET make == b \in Effective
        c == KeyCfg(ui, b)
    IN  /\ ~InReset(ui) /\ make # (typed[b] # Released)
        /\ typed' = [typed EXCEPT ![b] = IF make THEN c ELSE Released]
        /\ ui' = IF c = 0 THEN ui
                 ELSE [ui EXCEPT !.guest = Event(@, [make |-> make, code |-> c])]
        /\ stranded' = stranded \cap ui'.guest
        /\ UNCHANGED <<down, mask, dock, tap, ext, mnt>>

\* (mutant) The overlay does not hold docked makes out.
DockMakeUngated(c) ==
    /\ ~InReset(ui) /\ c \notin dock
    /\ dock' = dock \cup {c}
    /\ tap' = IF Picking(ui) /\ tap = NoTap THEN c ELSE NoTap
    /\ ui' = [ui EXCEPT !.guest = @ \cup {c}]
    /\ UNCHANGED <<down, mask, typed, ext, mnt, stranded>>

\* Docked makes stay out of the guest while an overlay is up; breaks pass.
DockMake(c) ==
    /\ ~InReset(ui) /\ c \notin dock
    /\ dock' = dock \cup {c}
    /\ tap' = IF Picking(ui) /\ tap = NoTap THEN c ELSE NoTap
    /\ ui' = IF Osd(ui) THEN ui ELSE [ui EXCEPT !.guest = @ \cup {c}]
    /\ UNCHANGED <<down, mask, typed, ext, mnt, stranded>>

DockBreak(c) ==
    /\ ~InReset(ui) /\ c \in dock
    /\ dock' = dock \ {c}
    /\ ui' = [ui EXCEPT !.guest = @ \ {c}]
    /\ stranded' = stranded \ {c}
    /\ UNCHANGED <<down, mask, typed, tap, ext, mnt>>

\* The timer interrupt.  The word is the last adopted one while the pad
\* settles, and what is held once it has.
Tick(w, opener, rpt) ==
    /\ Settled
    /\ w = ui.prev \/ w \cap Button = down
    /\ ui' = vkb_ui_tick(w, opener, rpt)
    /\ IF InReset(ui') THEN KeyboardReset
       ELSE /\ mask' = IF Osd(ui') THEN down ELSE mask \cap down
            /\ tap' = IF Picking(ui) /\ Picking(ui') THEN tap ELSE NoTap
            /\ UNCHANGED <<typed, dock>>
    /\ stranded' = stranded \cap ui'.guest
    /\ UNCHANGED <<down, ext, mnt>>

ResetOn ==
    /\ ~ext /\ ext' = TRUE
    /\ ui' = [ui EXCEPT !.guest = {}] /\ stranded' = {}
    /\ KeyboardReset
    /\ UNCHANGED <<down, mnt>>

ResetOff ==
    /\ ext /\ ext' = FALSE
    /\ ui' = [ui EXCEPT !.guest = IF ui.hold = 3 THEN {} ELSE Event({}, ui.echo)]
    /\ UNCHANGED <<padVars, mnt, stranded>>

-----------------------------------------------------------------------------
(* settings_disk_mounted in the main loop: the bindings of the incoming     *)
(* profile one by one, then keybind_sync row by row.  A tick may come       *)
(* between any two steps.                                                   *)

Mount(p) ==
    /\ mnt.pc = "idle"
    /\ mnt' = [mnt EXCEPT !.pc = "set", !.at = 1, !.prof = p]
    /\ UNCHANGED <<ui, padVars, ext, stranded>>

MountSet ==
    LET b == Bound[mnt.at] IN
    /\ mnt.pc = "set"
    /\ ui' = key_bind_set(ui, b, mnt.prof[b])
    /\ mnt' = IF mnt.at < Len(Bound) THEN [mnt EXCEPT !.at = @ + 1]
              ELSE [mnt EXCEPT !.pc = "sync", !.at = 1]
    /\ stranded' = (stranded \cup ({typed[b]} \ {KeyCfg(ui', b)})) \cap ui.guest
    /\ UNCHANGED <<padVars, ext>>

MountSync ==
    LET b == Bound[mnt.at] IN
    /\ mnt.pc = "sync"
    /\ ui' = keybind_remember([ui EXCEPT !.sel[b] = keybind_slot(ui, b)], b)
    /\ mnt' = IF mnt.at < Len(Bound) THEN [mnt EXCEPT !.at = @ + 1]
              ELSE [pc |-> "idle", at |-> 1, prof |-> bind_default]
    /\ UNCHANGED <<padVars, ext, stranded>>

Ticks == \E w \in Words, opener \in BOOLEAN :
            \E rpt \in SUBSET (w \cap DPad) : Tick(w, opener, rpt)
Pads == \E w \in Words : Pad(w \cap Button)
Keyboard == (\E b \in Button : Scan(b)) \/ (\E c \in DockCodes : DockMake(c) \/ DockBreak(c))
Main == (\E p \in Profiles : Mount(p)) \/ MountSet \/ MountSync

Next == Ticks \/ Pads \/ Keyboard \/ ResetOn \/ ResetOff \/ Main

Spec == Init /\ [][Next]_vars

-----------------------------------------------------------------------------
(* Properties.                                                              *)

Codes == 1..BIND_FN_FIRST - 1

\* Types; the cursor is a key of its row, the menu cursor is on a row that
\* is no spacer, and the roller's own marker is never stored as a binding.
TypeOK ==
    /\ ui.mode \in {"none", "vkb", "settings"} /\ ui.target \in Button \cup {NoTarget}
    /\ ui.vrow \in 1..Len(vrows) /\ ui.cur \in RowKeys(ui.vrow)
    /\ ui.held \in Key \cup {0} /\ ui.latched \subseteq Key
    /\ ui.bind \in [Button -> Bindable] /\ ui.sel \in [Button -> Slot]
    /\ ui.key \in [Button -> Codes \cup {0}]
    /\ ui.menu \in DOMAIN menus /\ ui.row \in 1..Len(menus[ui.menu])
    /\ menus[ui.menu][ui.row].type # "spacer"
    /\ ui.hold \in {0, 2, 3} /\ ui.guest \subseteq Codes
    /\ down \subseteq Button /\ mask \subseteq down
    /\ typed \in [Button -> Codes \cup {0, Released}]

\* Who may hold code c down: the on-screen keyboard, a button that typed it,
\* the docked keyboard, or nobody since a mount changed the button's code.
Held(c) ==
    \/ \E k \in ui.latched : Code[k] = c
    \/ ui.held # 0 /\ Code[ui.held] = c
    \/ \E b \in Button : typed[b] = c
    \/ c \in dock
    \/ c \in stranded

\* No key stays down in the guest without somebody holding it, whatever
\* overlays, pickers, resets and rebindings come between its make and its
\* break; the one exception is a button held across a profile mount.
NothingStuck == \A c \in ui.guest : Held(c)

\* Keys are latched or held only while the keyboard is up for typing, a pick
\* runs only on the keyboard, and no button types under an overlay.
OverlayClean ==
    /\ ui.latched # {} \/ ui.held # 0 => ui.mode = "vkb" /\ ui.target = NoTarget
    /\ ui.target # NoTarget => ui.mode = "vkb"
    /\ Osd(ui) /\ Settled => typed = AllReleased

\* In the menu and in a pick nothing the user does types into the guest.
Browsing(u) == u.mode = "settings" \/ u.target # NoTarget
OverlayQuiet == [][Browsing(ui) /\ Browsing(ui') => ui'.guest \subseteq ui.guest]_vars
=============================================================================
