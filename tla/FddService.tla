----------------------------- MODULE FddService -----------------------------
(***************************************************************************)
(* The floppy path of the core: the service of firmware/fdd_service.c      *)
(* (mount, eject, insert and fdd_poll with its one-sector prefetch), the   *)
(* management side of the controller in fpga/core/common/floppy.v, and the *)
(* bridge RAM the two share.  A target-dataslot transfer is one step that  *)
(* succeeds or fails here; TdsEngine models it in detail.                  *)
(*                                                                         *)
(* Data is counted in units of 512 bytes: a sector is one or two units     *)
(* (512 or 1024 bytes), a file is a row of units, and the bridge RAM is    *)
(* eight of them:                                                          *)
(*   0    sector staging (words 0-127)                                     *)
(*   1    the Settings window APF saves (words 128-255)                    *)
(*   2-3  staging of a 1024-byte sector (words 256-511)                    *)
(*   4-5  the prefetch buffer (words 512-767)                              *)
(*                                                                         *)
(* The main loop is one process; pc marks the points where it waits or     *)
(* where another party can act.  The OSD runs inside the timer interrupt,  *)
(* to completion, so an OSD action is one step.                            *)
(***************************************************************************)
EXTENDS Integers, Sequences

CONSTANTS
    Drives,      \* the drives in use, of {0, 1}
    Image,       \* the files the user can bind to a drive's dataslot
    Fmt,         \* Fmt[i]: "raw", "fdi" or "d88"
    Width,       \* Width[i]: units per sector, as the image declares it
    TableWidth,  \* TableWidth[i]: units per sector by the size table
    Count,       \* Count[i]: how many sectors the image has
    Len512,      \* Len512[i]: the file's length in units
    Layout,      \* Layout[i][l]: the unit at which sector l starts
    Protect,     \* Protect[i]: the image's own write-protect mark
    InitFile,    \* InitFile[i]: the file's contents as shipped
    Val,         \* the contents a unit can have
    Junk, Fill,  \* bytes that belong to no sector; FORMAT's filler
    Saved,       \* the settings the window holds
    GuestData,   \* the sectors the guest writes, as pairs of units
    HostFails,   \* the host may fail a transfer
    GuestResets, \* the guest may reset the controller at any time
    OsdBusy      \* the OSD's interrupt may land inside a service

None == -1
RamUnit == 0..7
SettingsUnit == 1
PREF_WORD == 4
FileUnits(i) == 0..(Len512[i] - 1)

ASSUME ConstantsAssumption ==
    /\ Drives \subseteq {0, 1} /\ Drives # {}
    /\ Fmt \in [Image -> {"raw", "fdi", "d88"}]
    /\ Width \in [Image -> 1..2] /\ TableWidth \in [Image -> 1..2]
    /\ Count \in [Image -> Nat \ {0}] /\ Len512 \in [Image -> Nat \ {0}]
    /\ Protect \in [Image -> BOOLEAN]
    /\ Junk \in Val /\ Fill \in Val /\ Saved \in Val
    /\ GuestData \subseteq [1..2 -> Val]
    /\ HostFails \in BOOLEAN /\ GuestResets \in BOOLEAN /\ OsdBusy \in BOOLEAN

ASSUME ImageAssumption ==
    /\ DOMAIN InitFile = Image
    /\ \A i \in Image :
        /\ InitFile[i] \in [FileUnits(i) -> Val]
        /\ Layout[i] \in [0..(Count[i] - 1) -> Nat]
        /\ \A l \in 0..(Count[i] - 1) :
             /\ Layout[i][l] + Width[i] <= Len512[i]
             /\ Fmt[i] = "raw" => Layout[i][l] = l * Width[i]
             /\ Fmt[i] = "fdi" => Layout[i][l] = 1 + l * Width[i]
             /\ Fmt[i] = "d88" => Layout[i][l] > 0
        /\ Fmt[i] = "raw" => TableWidth[i] = Width[i]
        /\ Fmt[i] # "d88" => ~Protect[i]

VARIABLES
    slot,           \* the image bound to each drive's dataslot
    file,           \* the contents of every image on the SD card
    pending,        \* a binding the main loop has not mounted yet
    state,          \* floppy.v's state machine
    cmd,            \* its command: operation, drive and sd_sector
    fifo,           \* its sector FIFO
    media_present, media_w, media_n, media_wp,   \* its media registers
    ram, bram_addr,           \* bridge RAM and the FDD_BRAM_ADDR pointer
    mgmt_fifo, mgmt_drv,      \* the FDD_MGMT_ADDR latch
    pc, cur, cnt,             \* fdd_poll / fdd_mount: place and locals
    fdd_sector_words, fdd_img, pref_lba, fdd_sectors, fdd_inserted,
    xfer_hit,       \* an OSD transfer cut into the one main is waiting on
    pref_owner,     \* (history) the drive that last used the prefetch buffer
    want,           \* (history) the sector queued when its write was taken up
    steady          \* (history) cmd's drive is as it was when cmd began, and
                    \* so was the one main was then streaming for

hostVars  == <<slot, file, pending>>
mediaVars == <<media_present, media_w, media_n, media_wp>>
ctlVars   == <<state, cmd, fifo>>
ramVars   == <<ram, bram_addr, mgmt_fifo, mgmt_drv>>
fwVars    == <<fdd_sector_words, fdd_img, fdd_sectors, fdd_inserted>>
prefVars  == <<pref_lba, pref_owner>>
histVars  == <<want, steady>>
procVars  == <<pc, cur, cnt, xfer_hit>>
vars == <<hostVars, mediaVars, ctlVars, ramVars, fwVars, prefVars, procVars,
          histVars>>

-----------------------------------------------------------------------------
(* What a sector is, and where the firmware looks for it.                  *)

\* The units of sector l of image i, as the image itself lays them out.
SectorOf(i, l) == [j \in 1..Width[i] |-> file[i][Layout[i][l] + j - 1]]

\* (mutant) An FDI's header is forgotten and sectors are counted from 1.
OffsetFromOne(d, l) ==
    IF fdd_img[d].fmt = "d88" THEN Layout[slot[d]][l]
    ELSE (l - 1) * fdd_sector_words[d]

\* (mutant) An FDI is addressed as if it had no header.
OffsetNoBase(d, l) ==
    IF fdd_img[d].fmt # "d88" THEN l * fdd_sector_words[d]
    ELSE IF Fmt[slot[d]] = "d88" /\ l < Count[slot[d]]
         THEN Layout[slot[d]][l] ELSE 0

\* fdd_poll's offset: base + lba * width, or d88_offset's table walk, which
\* answers 0 for a sector it does not find.
Offset(d, l) ==
    LET i == slot[d] w == fdd_sector_words[d] IN
    IF fdd_img[d].fmt = "raw" THEN l * w
    ELSE IF fdd_img[d].fmt = "fdi" THEN 1 + l * w
    ELSE IF Fmt[i] = "d88" /\ l < Count[i] THEN Layout[i][l] ELSE 0

\* The walk of a D88 reads the headers over the same transfers: one that fails
\* leaves the sector "not found".
Offsets(d, l) ==
    {Offset(d, l)} \cup {o \in {0} : fdd_img[d].fmt = "d88" /\ HostFails}

Found(d, o) == fdd_img[d].fmt # "d88" \/ o # 0
InFile(d, o, w) == o + w <= Len512[slot[d]]

\* (mutant) Every sector is staged from word 0, a 1024-byte one too.
stage_word_low(d) == 0

\* A 1024-byte sector starting at word 0 would run over the Settings window,
\* so it is staged from word 256.
stage_word(d) == IF fdd_sector_words[d] > 1 THEN 2 ELSE 0

\* Bridge RAM after w units from offset o of image i have landed at dst.
Landed(i, o, w, dst) ==
    [u \in RamUnit |-> IF u \in dst..(dst + w - 1)
                       THEN file[i][o + (u - dst)] ELSE ram[u]]

\* Bridge RAM after a transfer that failed, or whose bytes were overrun.
Spoilt(w, dst) ==
    {ram, [u \in RamUnit |->
              IF u \in dst..(dst + w - 1) THEN Junk ELSE ram[u]]}

\* (mutant) The tag outlives what it described.
KeepTag(d) == pref_lba

\* "The tag must be dropped on mount and on any write."
DropTag(d) == [pref_lba EXCEPT ![d] = None]

\* The D88 walkers and the probes leave headers in unit 0.
HeadersRead == [ram EXCEPT ![0] = Junk]
Walked(d) == {ram} \cup {r \in {HeadersRead} : fdd_img[d].fmt = "d88"}

\* What the probes of fdd_mount can make of the image in the slot: its own
\* class or, when a header cannot be read or the remembered size is not the
\* file's, a raw stream shaped by the size table.
Class(i) == [fmt |-> Fmt[i], w |-> Width[i], n |-> Count[i], wp |-> Protect[i]]
RawClass(i) == [fmt |-> "raw", w |-> TableWidth[i],
                n |-> Len512[i] \div TableWidth[i], wp |-> FALSE]
Probed(d, size) ==
    LET i == slot[d] IN
    {Class(i)} \cup {c \in {RawClass(i)} :
                        HostFails \/ xfer_hit \/ size # Len512[i]}

-----------------------------------------------------------------------------
\* The locals of fdd_poll and fdd_mount between calls, and no write taken up.
DriveA == CHOOSE d \in Drives : TRUE
NoCall == [op |-> "read", drv |-> DriveA, lba |-> 0, off |-> 0, w |-> 1,
           size |-> 0]
NoWrite == [drv |-> DriveA, lba |-> 0, data |-> <<>>, steady |-> FALSE]

Init ==
    /\ slot \in [Drives -> Image]
    /\ \A d, e \in Drives : slot[d] = slot[e] => d = e
    /\ file = InitFile
    /\ pending \in [Drives -> BOOLEAN]   \* FALSE: nothing picked yet
    /\ state = "idle" /\ fifo = <<>>
    /\ want = NoWrite
    /\ steady = FALSE
    /\ cmd = [op |-> "read", drv |-> DriveA, lba |-> 0]
    /\ media_present = [d \in Drives |-> FALSE]
    /\ media_w = [d \in Drives |-> 1]
    /\ media_n = [d \in Drives |-> 0]
    /\ media_wp = [d \in Drives |-> FALSE]
    /\ ram = [u \in RamUnit |-> IF u = SettingsUnit THEN Saved ELSE Junk]
    /\ bram_addr = 0
    /\ mgmt_fifo = FALSE /\ mgmt_drv = DriveA
    /\ pc = "loop" /\ cnt = 0 /\ xfer_hit = FALSE
    /\ cur = NoCall
    /\ fdd_sector_words = [d \in Drives |-> 1]
    /\ fdd_img = [d \in Drives |->
                    [fmt |-> "raw", w |-> 1, n |-> 0, wp |-> FALSE]]
    /\ pref_lba = [d \in Drives |-> None] /\ pref_owner = None
    /\ fdd_sectors = [d \in Drives |-> 0]
    /\ fdd_inserted = [d \in Drives |-> FALSE]

-----------------------------------------------------------------------------
(* The host: the user binds a file to a drive's slot from the Pocket menu. *)

Rebind(d, i) ==
    /\ \A e \in Drives \ {d} : slot[e] # i
    /\ slot' = [slot EXCEPT ![d] = i]
    /\ pending' = [pending EXCEPT ![d] = TRUE]
    /\ steady' = (steady /\ cmd.drv # d)
    /\ UNCHANGED <<file, mediaVars, ctlVars, ramVars, fwVars, prefVars,
                   procVars, want>>

-----------------------------------------------------------------------------
(* The guest and the controller.  A command on a drive without media, or a *)
(* write to a protected one, ends at once and asks the firmware nothing.   *)

GuestRead(d, l) ==
    /\ state = "idle" /\ media_present[d] /\ l < media_n[d]
    /\ state' = "rd_wait"
    /\ cmd' = [op |-> "read", drv |-> d, lba |-> l]
    /\ steady' = (steady \/ pc \notin {"push", "pull"})
    /\ UNCHANGED <<hostVars, mediaVars, fifo, ramVars, fwVars, prefVars,
                   procVars, want>>

GuestWrite(d, l) ==
    /\ state = "idle" /\ media_present[d] /\ ~media_wp[d] /\ l < media_n[d]
    /\ state' = "wr_fill"
    /\ cmd' = [op |-> "write", drv |-> d, lba |-> l]
    /\ steady' = (steady \/ pc \notin {"push", "pull"})
    /\ UNCHANGED <<hostVars, mediaVars, fifo, ramVars, fwVars, prefVars,
                   procVars, want>>

\* (mutant) FORMAT does not look at the write-protect mark.
GuestFormatAny(d, l) ==
    /\ state = "idle" /\ media_present[d] /\ l < media_n[d]
    /\ state' = "wr_wait"
    /\ cmd' = [op |-> "format", drv |-> d, lba |-> l]
    /\ fifo' = [j \in 1..media_w[d] |-> Fill]
    /\ steady' = (steady \/ pc \notin {"push", "pull"})
    /\ UNCHANGED <<hostVars, mediaVars, ramVars, fwVars, prefVars,
                   procVars, want>>

\* FORMAT hands the firmware filler bytes, a sector of them per request.
GuestFormat(d, l) ==
    /\ state = "idle" /\ media_present[d] /\ ~media_wp[d] /\ l < media_n[d]
    /\ state' = "wr_wait"
    /\ cmd' = [op |-> "format", drv |-> d, lba |-> l]
    /\ fifo' = [j \in 1..media_w[d] |-> Fill]
    /\ steady' = (steady \/ pc \notin {"push", "pull"})
    /\ UNCHANGED <<hostVars, mediaVars, ramVars, fwVars, prefVars,
                   procVars, want>>

\* fifo_full: the FIFO holds a sector of the media the command is on.
FifoFull(f) == Len(f) >= media_w[cmd.drv]

\* DMA brings a write's sector in, unit by unit.
GuestFill(s) ==
    /\ state = "wr_fill"
    /\ fifo' = IF FifoFull(fifo) THEN fifo ELSE Append(fifo, s[Len(fifo) + 1])
    /\ state' = IF FifoFull(fifo') THEN "wr_wait" ELSE "wr_fill"
    /\ UNCHANGED <<hostVars, mediaVars, cmd, ramVars, fwVars, prefVars,
                   procVars, histVars>>

\* DMA takes a read's sector out; a terminal count may abandon its tail.
GuestDrain ==
    /\ state = "drain"
    /\ fifo' = <<>>
    /\ state' = "update"
    /\ UNCHANGED <<hostVars, mediaVars, cmd, ramVars, fwVars, prefVars,
                   procVars, histVars>>

\* S_UPDATE_SECTOR .. S_CHECK_TC: terminal count ends the command, else its
\* next sector is asked for: the one the location registers step to (end of
\* track, multitrack and the clamp included) or the next one FORMAT names.
NextSector ==
    /\ state = "update"
    /\ \/ state' = "idle" /\ fifo' = <<>> /\ UNCHANGED cmd
       \/ /\ \E l \in 0..(media_n[cmd.drv] - 1) :
                cmd' = [cmd EXCEPT !.lba = l]
          /\ state' = [read |-> "rd_wait", write |-> "wr_fill",
                       format |-> "wr_wait"][cmd.op]
          /\ fifo' = IF cmd.op = "format"
                     THEN [j \in 1..media_w[cmd.drv] |-> Fill] ELSE fifo
    /\ UNCHANGED <<hostVars, mediaVars, ramVars, fwVars, prefVars,
                   procVars, histVars>>

\* The DOR or DSR reset aborts the command and clears the FIFO.
GuestReset ==
    /\ GuestResets /\ state # "idle"
    /\ state' = "idle" /\ fifo' = <<>>
    /\ UNCHANGED <<hostVars, mediaVars, cmd, ramVars, fwVars, prefVars,
                   procVars, histVars>>

-----------------------------------------------------------------------------
(* fdd_mount, from the main loop.                                          *)

MountBegin(d) ==
    /\ pc = "loop" /\ pending[d]
    /\ pending' = [pending EXCEPT ![d] = FALSE]
    /\ pref_lba' = DropTag(d)
    /\ cur' = [cur EXCEPT !.drv = d, !.size = Len512[slot[d]]]
    /\ pc' = "probe"
    /\ steady' = (steady /\ cmd.drv # d)
    /\ UNCHANGED <<slot, file, mediaVars, ctlVars, ramVars, fwVars, pref_owner,
                   cnt, xfer_hit, want>>

\* fdd_probe_d88 and fdd_probe_fdi, the size table, then PRESENT = 0.
MountProbe(c) ==
    LET d == cur.drv IN
    /\ pc = "probe" /\ c \in Probed(d, cur.size)
    /\ fdd_img' = [fdd_img EXCEPT ![d] = c]
    /\ ram' = HeadersRead /\ bram_addr' = 0
    /\ mgmt_fifo' = FALSE /\ mgmt_drv' = d
    /\ media_present' = [media_present EXCEPT ![d] = FALSE]
    /\ pc' = "spin" /\ xfer_hit' = FALSE
    /\ steady' = (steady /\ cmd.drv # d)
    /\ UNCHANGED <<hostVars, media_w, media_n, media_wp, ctlVars, cur, cnt,
                   fdd_sector_words, fdd_sectors, fdd_inserted, prefVars,
                   want>>

\* After spin(): the geometry, PRESENT = 1 and, for drive A, the image's hash,
\* whose last read leaves the RAM pointer just past the staging unit.
MountDeclare ==
    LET d == cur.drv g == fdd_img[d] IN
    /\ pc = "spin"
    /\ media_n' = [media_n EXCEPT ![d] = g.n]
    /\ media_w' = [media_w EXCEPT ![d] = g.w]
    /\ media_wp' = [media_wp EXCEPT ![d] = g.wp]
    /\ media_present' = [media_present EXCEPT ![d] = TRUE]
    /\ fdd_sector_words' = [fdd_sector_words EXCEPT ![d] = g.w]
    /\ fdd_sectors' = [fdd_sectors EXCEPT ![d] = cur.size]
    /\ fdd_inserted' = [fdd_inserted EXCEPT ![d] = TRUE]
    /\ mgmt_fifo' = FALSE /\ mgmt_drv' = d
    /\ IF d = 0 THEN ram' = HeadersRead /\ bram_addr' = SettingsUnit
                ELSE UNCHANGED <<ram, bram_addr>>
    /\ pc' = "loop" /\ cur' = NoCall
    /\ UNCHANGED <<hostVars, ctlVars, fdd_img, prefVars, cnt, xfer_hit,
                   histVars>>

-----------------------------------------------------------------------------
(* fdd_poll.                                                               *)

\* (mutant) The request bits follow the write wait alone.
RequestWrites == IF state = "wr_wait" THEN "write" ELSE "none"

\* FDD_REQUEST: which wait of the controller is up.
Request == IF state = "rd_wait" THEN "read"
           ELSE IF state = "wr_wait" THEN "write" ELSE "none"

\* FDD_REQUEST is read first, register 0 (drive and LBA) some cycles later.
PollSample ==
    /\ pc = "loop" /\ Request # "none"
    /\ cur' = [cur EXCEPT !.op = Request]
    /\ pc' = "reg0"
    /\ UNCHANGED <<hostVars, mediaVars, ctlVars, ramVars, fwVars, prefVars,
                   cnt, xfer_hit, histVars>>

\* Register 0, the offset (a D88's walk goes through unit 0), and the branch:
\* a prefetch hit streams at once, a miss fetches, a write drains the FIFO.
PollReg0 ==
    LET d == cmd.drv
        hit == cur.op = "read" /\ pref_lba[d] = cmd.lba
        mover == hit \/ cur.op = "write" IN
    /\ pc = "reg0"
    /\ \E o \in Offsets(d, cmd.lba) :
          cur' = [cur EXCEPT !.drv = d, !.lba = cmd.lba, !.off = o,
                             !.w = fdd_sector_words[d]]
    /\ ram' \in Walked(d)
    /\ mgmt_drv' = d /\ mgmt_fifo' = mover
    /\ bram_addr' = IF hit THEN PREF_WORD
                    ELSE IF mover THEN stage_word(d) ELSE bram_addr
    /\ pc' = IF hit THEN "push" ELSE IF mover THEN "pull" ELSE "fetch"
    /\ cnt' = 0
    /\ want' = IF cur.op = "write"
               THEN [drv |-> d, lba |-> cmd.lba, data |-> fifo,
                     steady |-> steady]
               ELSE want
    /\ UNCHANGED <<hostVars, mediaVars, ctlVars, fwVars, prefVars, xfer_hit,
                   steady>>

\* The read transfer lands in the staging units; push_sector points at them.
FetchOk ==
    LET d == cur.drv IN
    /\ pc = "fetch" /\ Found(d, cur.off) /\ InFile(d, cur.off, cur.w)
    /\ ram' \in {Landed(slot[d], cur.off, cur.w, stage_word(d))}
                \cup {r \in Spoilt(cur.w, stage_word(d)) : xfer_hit}
    /\ bram_addr' = stage_word(d) /\ mgmt_fifo' = TRUE /\ mgmt_drv' = d
    /\ pc' = "push" /\ cnt' = 0 /\ xfer_hit' = FALSE
    /\ UNCHANGED <<hostVars, mediaVars, ctlVars, fwVars, prefVars, cur,
                   histVars>>

\* A D88 sector not found, an offset past the file, or a transfer the host
\* fails: nothing is pushed.
FetchFail ==
    LET d == cur.drv IN
    /\ pc = "fetch"
    /\ HostFails \/ xfer_hit \/ ~Found(d, cur.off) \/ ~InFile(d, cur.off, cur.w)
    /\ ram' \in {ram} \cup
                {r \in Spoilt(cur.w, stage_word(d)) : Found(d, cur.off)}
    /\ pc' = "prefetch" /\ xfer_hit' = FALSE
    /\ UNCHANGED <<hostVars, mediaVars, ctlVars, bram_addr, mgmt_fifo, mgmt_drv,
                   fwVars, prefVars, cur, cnt, histVars>>

\* One unit of push_sector.  The latched register decides where it goes: the
\* FIFO takes it only while a fill waits and has room; PRESENT takes bit 0.
PushUnit ==
    LET taken == mgmt_fifo /\ state = "rd_wait" /\ ~FifoFull(fifo)
        done  == cnt + 1 >= fdd_sector_words[cur.drv] IN
    /\ pc = "push"
    /\ IF taken THEN /\ fifo' = Append(fifo, ram[bram_addr])
                     /\ state' = IF FifoFull(fifo') THEN "drain" ELSE state
                ELSE UNCHANGED <<fifo, state>>
    /\ IF mgmt_fifo THEN UNCHANGED media_present
       ELSE \E b \in BOOLEAN :
              media_present' = [media_present EXCEPT ![mgmt_drv] = b]
    /\ bram_addr' = (bram_addr + 1) % 8
    /\ cnt' = cnt + 1
    /\ pc' = IF done THEN "prefetch" ELSE "push"
    /\ UNCHANGED <<hostVars, media_w, media_n, media_wp, cmd, ram, mgmt_fifo,
                   mgmt_drv, fwVars, prefVars, cur, xfer_hit, histVars>>

\* The tag is dropped, and LBA+1 is staged if the image still holds it.
Prefetch ==
    LET d == cur.drv IN
    /\ pc = "prefetch"
    /\ pref_lba' = DropTag(d)
    /\ IF (cur.lba + 1) * cur.w < fdd_sectors[d]
       THEN /\ \E o \in Offsets(d, cur.lba + 1) :
                 cur' = [cur EXCEPT !.lba = @ + 1, !.off = o]
            /\ ram' \in Walked(d)
            /\ pc' = "stage"
       ELSE pc' = "loop" /\ cur' = NoCall /\ UNCHANGED ram
    /\ cnt' = 0
    /\ UNCHANGED <<hostVars, mediaVars, ctlVars, bram_addr, mgmt_fifo, mgmt_drv,
                   fwVars, pref_owner, xfer_hit, histVars>>

StageOk ==
    LET d == cur.drv IN
    /\ pc = "stage" /\ cur.off # 0 /\ InFile(d, cur.off, cur.w)
    /\ ram' \in {Landed(slot[d], cur.off, cur.w, PREF_WORD)}
                \cup {r \in Spoilt(cur.w, PREF_WORD) : xfer_hit}
    /\ pref_lba' = [pref_lba EXCEPT ![d] = cur.lba]
    /\ pref_owner' = d
    /\ pc' = "loop" /\ cur' = NoCall /\ xfer_hit' = FALSE
    /\ UNCHANGED <<hostVars, mediaVars, ctlVars, bram_addr, mgmt_fifo, mgmt_drv,
                   fwVars, cnt, histVars>>

StageFail ==
    LET d == cur.drv IN
    /\ pc = "stage"
    /\ HostFails \/ xfer_hit \/ cur.off = 0 \/ ~InFile(d, cur.off, cur.w)
    /\ ram' \in {ram} \cup {r \in Spoilt(cur.w, PREF_WORD) : cur.off # 0}
    /\ pref_owner' = d
    /\ pc' = "loop" /\ cur' = NoCall /\ xfer_hit' = FALSE
    /\ UNCHANGED <<hostVars, mediaVars, ctlVars, bram_addr, mgmt_fifo, mgmt_drv,
                   fwVars, pref_lba, cnt, histVars>>

\* One unit of pull_fifo.  The FIFO pops in every state but the guest's drain;
\* popping it empty ends the controller's wait.  An empty FIFO, or a register
\* other than the FIFO, answers bytes of no sector.
PullUnit ==
    LET pops == mgmt_fifo /\ state # "drain" /\ fifo # <<>>
        done == cnt + 1 >= fdd_sector_words[cur.drv] IN
    /\ pc = "pull"
    /\ ram' = [ram EXCEPT ![bram_addr] = IF pops THEN Head(fifo) ELSE Junk]
    /\ bram_addr' = (bram_addr + 1) % 8
    /\ IF pops THEN /\ fifo' = Tail(fifo)
                    /\ state' = IF state = "wr_wait" /\ fifo' = <<>>
                                THEN "update" ELSE state
               ELSE UNCHANGED <<fifo, state>>
    /\ cnt' = cnt + 1
    /\ pc' = IF done THEN "persist" ELSE "pull"
    /\ UNCHANGED <<hostVars, mediaVars, cmd, mgmt_fifo, mgmt_drv, fwVars,
                   prefVars, cur, xfer_hit, histVars>>

\* (mutant) The transfer runs one unit too far.
WrittenLong(d, k) ==
    [file EXCEPT ![slot[d]] =
        [u \in FileUnits(slot[d]) |->
            IF u \in cur.off..(cur.off + k)
            THEN ram[stage_word(d) + (u - cur.off)] ELSE file[slot[d]][u]]]

\* The file after the first k units of the staged sector have reached it.
Written(d, k) ==
    [file EXCEPT ![slot[d]] =
        [u \in FileUnits(slot[d]) |->
            IF u \in cur.off..(cur.off + k - 1)
            THEN ram[stage_word(d) + (u - cur.off)] ELSE file[slot[d]][u]]]

\* The write transfer: its result is not looked at, so a failed one drops the
\* tag and goes on like a good one.
Persist ==
    LET d == cur.drv IN
    /\ pc = "persist"
    /\ IF Found(d, cur.off) /\ InFile(d, cur.off, cur.w)
       THEN \/ file' = Written(d, cur.w)
            \/ /\ HostFails \/ xfer_hit
               /\ \E k \in 0..(cur.w - 1) : file' = Written(d, k)
       ELSE UNCHANGED file
    /\ pref_lba' = DropTag(d)
    /\ pc' = "loop" /\ cur' = NoCall /\ cnt' = 0 /\ xfer_hit' = FALSE
    /\ want' = NoWrite
    /\ UNCHANGED <<slot, pending, mediaVars, ctlVars, ramVars, fwVars,
                   pref_owner, steady>>

-----------------------------------------------------------------------------
(* The OSD's Floppy rows, inside the timer interrupt.                      *)

OsdMay == OsdBusy \/ pc = "loop"

fdd_eject(d) ==
    /\ OsdMay /\ fdd_inserted[d]
    /\ media_present' = [media_present EXCEPT ![d] = FALSE]
    /\ mgmt_fifo' = FALSE /\ mgmt_drv' = d
    /\ fdd_inserted' = [fdd_inserted EXCEPT ![d] = FALSE]
    /\ pref_lba' = DropTag(d)
    /\ steady' = (steady /\ cmd.drv # d)
    /\ UNCHANGED <<hostVars, media_w, media_n, media_wp, ctlVars, ram,
                   bram_addr, fdd_sector_words, fdd_img, fdd_sectors, pref_owner,
                   procVars, want>>

\* fdd_insert is the whole of fdd_mount with the remembered size.
fdd_insert(d) ==
    /\ OsdMay /\ ~fdd_inserted[d] /\ fdd_sectors[d] # 0
    /\ \E c \in Probed(d, fdd_sectors[d]) :
         /\ fdd_img' = [fdd_img EXCEPT ![d] = c]
         /\ media_n' = [media_n EXCEPT ![d] = c.n]
         /\ media_w' = [media_w EXCEPT ![d] = c.w]
         /\ media_wp' = [media_wp EXCEPT ![d] = c.wp]
         /\ fdd_sector_words' = [fdd_sector_words EXCEPT ![d] = c.w]
    /\ media_present' = [media_present EXCEPT ![d] = TRUE]
    /\ fdd_inserted' = [fdd_inserted EXCEPT ![d] = TRUE]
    /\ pref_lba' = DropTag(d)
    /\ ram' = HeadersRead
    /\ bram_addr' = IF d = 0 THEN SettingsUnit ELSE 0
    /\ mgmt_fifo' = FALSE /\ mgmt_drv' = d
    /\ xfer_hit' = (xfer_hit \/ pc \in {"probe", "fetch", "stage", "persist"})
    /\ steady' = (steady /\ cmd.drv # d)
    /\ UNCHANGED <<hostVars, ctlVars, fdd_sectors, pref_owner, pc, cur, cnt,
                   want>>

-----------------------------------------------------------------------------
Guest ==
    \/ \E d \in Drives : \E l \in 0..(media_n[d] - 1) :
         GuestRead(d, l) \/ GuestWrite(d, l) \/ GuestFormat(d, l)
    \/ \E s \in GuestData : GuestFill(s)
    \/ GuestDrain \/ NextSector \/ GuestReset

MainMount ==
    \/ \E d \in Drives : MountBegin(d)
    \/ pc = "probe" /\ \E c \in Probed(cur.drv, cur.size) : MountProbe(c)
    \/ MountDeclare

MainPoll ==
    \/ PollSample \/ PollReg0 \/ FetchOk \/ FetchFail \/ PushUnit
    \/ Prefetch \/ StageOk \/ StageFail \/ PullUnit \/ Persist

Next ==
    \/ \E d \in Drives, i \in Image : Rebind(d, i)
    \/ Guest \/ MainMount \/ MainPoll
    \/ \E d \in Drives : fdd_eject(d) \/ fdd_insert(d)

Spec == Init /\ [][Next]_vars

(* The loop of main.c never blocks (every wait in it is bounded) and calls  *)
(* fdd_poll on each pass, so a request that stays up is sampled.  That the  *)
(* host does not fail the same transfer for ever is assumed.                *)
FairSpec ==
    /\ Spec
    /\ WF_vars(MainMount) /\ WF_vars(MainPoll)
    /\ SF_vars(PollSample) /\ SF_vars(FetchOk)

-----------------------------------------------------------------------------
(* Properties.                                                             *)

ClassType == [fmt : {"raw", "fdi", "d88"}, w : 1..2, n : Nat, wp : BOOLEAN]
CallType == [op : {"read", "write"}, drv : Drives, lba : Nat, off : Nat,
             w : 1..2, size : Nat]
WriteType == [drv : Drives, lba : Nat, data : Seq(Val), steady : BOOLEAN]

HostOK ==
    /\ slot \in [Drives -> Image]
    /\ DOMAIN file = Image
    /\ \A i \in Image : file[i] \in [FileUnits(i) -> Val]
    /\ pending \in [Drives -> BOOLEAN]
CtlOK ==
    /\ state \in {"idle", "rd_wait", "drain", "wr_fill", "wr_wait", "update"}
    /\ cmd \in [op : {"read", "write", "format"}, drv : Drives, lba : Nat]
    /\ fifo \in Seq(Val)
MediaOK ==
    /\ media_present \in [Drives -> BOOLEAN] /\ media_wp \in [Drives -> BOOLEAN]
    /\ media_w \in [Drives -> 1..2] /\ media_n \in [Drives -> Nat]
RamOK ==
    /\ ram \in [RamUnit -> Val] /\ bram_addr \in RamUnit
    /\ mgmt_fifo \in BOOLEAN /\ mgmt_drv \in Drives
FwOK ==
    /\ fdd_sector_words \in [Drives -> 1..2]
    /\ fdd_img \in [Drives -> ClassType]
    /\ fdd_sectors \in [Drives -> Nat] /\ fdd_inserted \in [Drives -> BOOLEAN]
PrefOK ==
    /\ pref_lba \in [Drives -> Nat \cup {None}]
    /\ pref_owner \in Drives \cup {None}
ProcOK ==
    /\ pc \in {"loop", "probe", "spin", "reg0", "fetch", "push", "prefetch",
               "stage", "pull", "persist"}
    /\ cur \in CallType
    /\ cnt \in Nat /\ xfer_hit \in BOOLEAN
HistOK == want \in WriteType /\ steady \in BOOLEAN

TypeOK ==
    /\ HostOK /\ CtlOK /\ MediaOK /\ RamOK /\ FwOK /\ PrefOK /\ ProcOK /\ HistOK

\* The drive is mounted as the image that is in its slot.
Settled(d) == ~pending[d] /\ fdd_img[d] = Class(slot[d])
                          /\ fdd_sector_words[d] = fdd_img[d].w

TagSound(d) ==
    (/\ pref_lba[d] \in 0..(Count[slot[d]] - 1)
     /\ pref_owner = d /\ Settled(d)) =>
        SectorOf(slot[d], pref_lba[d]) =
            [j \in 1..fdd_sector_words[d] |-> ram[PREF_WORD + j - 1]]

\* A prefetch tag is the truth about the prefetch buffer, for the drive that
\* filled it last: whatever was mounted, written, ejected or failed since, the
\* buffer holds the tagged sector of the image in the slot as it is now.
PrefetchTagSound == \A d \in Drives : TagSound(d)

\* When the controller takes a sector as complete and hands it to the guest, it
\* is the sector of that drive the guest's command is waiting for.
ReadServesRequested ==
    [][ (state = "rd_wait" /\ state' = "drain" /\ Settled(cmd.drv) /\ steady) =>
            fifo' = SectorOf(slot[cmd.drv], cmd.lba) ]_vars

\* A write that reaches the file changes it to the sector the guest queued, at
\* the LBA the guest's command named, and touches no other unit of any file.
WriteReachesItsSector ==
    [][ (file' # file /\ Settled(cur.drv) /\ want.steady) =>
          LET i == slot[cur.drv] IN
          /\ \A j \in Image \ {i} : file'[j] = file[j]
          /\ \A u \in FileUnits(i) :
               file'[i][u] # file[i][u] =>
                 LET at == Layout[i][want.lba] IN
                 /\ u \in at..(at + Width[i] - 1)
                 /\ file'[i][u] = want.data[u - at + 1] ]_vars

\* A write-protected image is never written, however a write was begun, while
\* it is the mounted one.
WriteProtectHonoured ==
    [][ \A d \in Drives :
          (Protect[slot[d]] /\ Settled(d) /\ want.steady) =>
              file'[slot[d]] = file[slot[d]] ]_vars

\* The floppy service keeps out of the Settings window of the bridge RAM.
SettingsWindowKept == [][ ram'[SettingsUnit] = ram[SettingsUnit] ]_vars

\* A read request the controller raises is answered, failed transfers and media
\* changes in between notwithstanding: fdd_poll finds it up again and retries.
ReadAnswered == (state = "rd_wait") ~> (state # "rd_wait")
=============================================================================
