---------------------------- MODULE ScsiService -----------------------------
(***************************************************************************)
(* The PC-9801-55 SCSI board: its option ROM (scsi_rom.asm) on the guest's *)
(* side, the register window and mailbox (pc98_scsi.sv, Peripherals.sv),   *)
(* and the firmware that executes the commands (scsi_service.c) and mounts *)
(* the image (main.c).                                                     *)
(*                                                                         *)
(* A unit is a 512-byte block.  The file holds FileLen of them, the first  *)
(* of an "nhd" being its header.  The data buffer holds MaxBlocks units; a *)
(* reply shorter than a block is one unit.                                 *)
(***************************************************************************)
EXTENDS Naturals

CONSTANTS Kinds,       \* formats the image may have: "flat", "nhd", "refused"
          FileLen,     \* blocks in the file
          MaxBlocks,   \* SCSI_MAX_BLOCKS, the size of the data buffer
          MaxTries,    \* HDD_MOUNT_TRIES
          HeaderFails  \* header reads may fail, deliver nothing or garble

ASSUME ScsiAssumption ==
    /\ Kinds \subseteq {"flat", "nhd", "refused"}
    /\ FileLen \in Nat \ {0, 1} /\ MaxBlocks \in Nat \ {0}
    /\ MaxTries \in Nat \ {0} /\ HeaderFails \in BOOLEAN

Pos == 0..(FileLen - 1)
Cell == 0..(MaxBlocks - 1)

\* Contents: the file as shipped, what the guest writes, replies, residue.
Shipped(u)   == <<"file", u>>
Payload(j)   == <<"guest", j>>
Reply(op, x) == <<op, x>>
Residue      == <<"residue", 0>>

Sense == {"none", "not_ready", "read", "write", "range", "opcode", "field"}

\* The commands.  INQUIRY stands for MODE SENSE of the pages 3 and 4 too.
Ready   == {"test", "rezero"}
Replies == {"sense", "inquiry", "capacity"}
Moves   == {"read", "write"}
Command == [op : Ready \cup Replies \cup {"bad_mode", "bad_op"},
            lba : {0}, blocks : {0}]
             \cup [op : Moves, lba : 0..FileLen, blocks : 0..(MaxBlocks + 1)]
NoCommand == [op |-> "test", lba |-> 0, blocks |-> 0]

VARIABLES
    kind, file,                   \* the image
    cmd_req, cmd_ack,             \* the mailbox toggles
    auxstatus, aux_seen,          \* bit 7, and as the guest's read presented it
    scsistatus, dbuf, rdptr, wrptr,
    pc, sum, cdb, blk, st,        \* the firmware: place, first header read,
                                  \* command, block of it, status to report
    scsi_sectors, scsi_base, scsi_sense, scsi_reprobe, scsi_bytes,
    mounted_hdd, hdd_tries,
    rom, call, n,                 \* the guest: place, command (and the CDB
                                  \* registers, once emitted), units moved
    owed                          \* (history) the sense of the last failure

imageVars == <<kind, file>>
boxVars   == <<cmd_req, cmd_ack>>
auxVars   == <<auxstatus, aux_seen>>
bufVars   == <<dbuf, rdptr, wrptr>>
runVars   == <<sum, cdb, blk, st>>
diskVars  == <<scsi_sectors, scsi_base, scsi_reprobe, scsi_bytes>>
mainVars  == <<mounted_hdd, hdd_tries>>
romVars   == <<rom, call, n>>
vars == <<imageVars, boxVars, auxVars, scsistatus, bufVars, pc, runVars, diskVars,
          scsi_sense, mainVars, romVars, owed>>

\* The image as its format has it.
Base(f)     == IF f = "nhd" THEN 1 ELSE 0
Capacity(f) == IF f = "refused" THEN 0 ELSE FileLen - Base(f)

Min(a, b) == IF a < b THEN a ELSE b
Moved(c)  == Min(c.blocks, MaxBlocks)

Init ==
    /\ kind \in Kinds /\ file = [u \in Pos |-> Shipped(u)]
    /\ cmd_req = FALSE /\ cmd_ack = FALSE
    /\ auxstatus = FALSE /\ aux_seen = FALSE /\ scsistatus = "good"
    /\ dbuf = [j \in Cell |-> Residue] /\ rdptr = 0 /\ wrptr = 0
    /\ pc = "mount" /\ sum = "none" /\ cdb = NoCommand /\ blk = 0 /\ st = "good"
    /\ scsi_sectors = 0 /\ scsi_base = 0 /\ scsi_sense = "none"
    /\ scsi_reprobe = FALSE /\ scsi_bytes = FALSE
    /\ mounted_hdd = FALSE /\ hdd_tries = 0
    /\ rom = "idle" /\ call = NoCommand /\ n = 0 /\ owed = "none"

-----------------------------------------------------------------------------
(* The guest: a BIOS call, one command (a chunk of at most 16 blocks).     *)

Issue(c) ==
    /\ rom = "idle"
    /\ call' = c /\ n' = 0
    /\ rom' = IF c.op = "write" /\ Moved(c) > 0 THEN "fill" ELSE "emit"
    /\ UNCHANGED <<imageVars, boxVars, auxVars, scsistatus, bufVars, pc, runVars,
                   diskVars, scsi_sense, mainVars, owed>>

\* buf_out: the write pointer is the board's own, and wraps with the buffer.
Fill ==
    /\ rom = "fill"
    /\ dbuf' = [dbuf EXCEPT ![wrptr] = Payload(n)]
    /\ wrptr' = (wrptr + 1) % MaxBlocks
    /\ n' = n + 1
    /\ rom' = IF n + 1 = Moved(call) THEN "emit" ELSE rom
    /\ UNCHANGED <<imageVars, boxVars, auxVars, scsistatus, rdptr, pc, runVars,
                   diskVars, scsi_sense, mainVars, call, owed>>

\* The CDB, then scsi_go: the read that drops an old completion, and CMD.
Emit ==
    /\ rom = "emit"
    /\ auxstatus' = FALSE /\ cmd_req' = ~cmd_req
    /\ rom' = "wait"
    /\ UNCHANGED <<imageVars, cmd_ack, aux_seen, scsistatus, bufVars, pc, runVars,
                   diskVars, scsi_sense, mainVars, call, n, owed>>

\* One poll of 0xCC0 is a strobe: the byte is presented at its start and what
\* was presented is cleared at its end.
StrobeStart ==
    /\ rom = "wait"
    /\ aux_seen' = auxstatus /\ rom' = "strobe"
    /\ UNCHANGED <<imageVars, boxVars, auxstatus, scsistatus, bufVars, pc, runVars,
                   diskVars, scsi_sense, mainVars, call, n, owed>>

\* (mutant) The end of the strobe clears the register as it is by then.
StrobeEndAll ==
    /\ rom = "strobe"
    /\ auxstatus' = FALSE
    /\ aux_seen' = FALSE
    /\ rom' = IF aux_seen THEN "status" ELSE "wait"
    /\ UNCHANGED <<imageVars, boxVars, scsistatus, bufVars, pc, runVars,
                   diskVars, scsi_sense, mainVars, call, n, owed>>

StrobeEnd ==
    /\ rom = "strobe"
    /\ auxstatus' = (auxstatus /\ ~aux_seen)
    /\ aux_seen' = FALSE
    /\ rom' = IF aux_seen THEN "status" ELSE "wait"
    /\ UNCHANGED <<imageVars, boxVars, scsistatus, bufVars, pc, runVars,
                   diskVars, scsi_sense, mainVars, call, n, owed>>

\* The status byte.  After CHECK CONDITION sense_map asks for the sense.
Status ==
    /\ rom = "status"
    /\ IF scsistatus = "check"
       THEN call' = [NoCommand EXCEPT !.op = "sense"] /\ rom' = "emit"
       ELSE IF call.op \in Replies \/ (call.op = "read" /\ Moved(call) > 0)
       THEN rom' = "pull" /\ UNCHANGED call
       ELSE rom' = "idle" /\ call' = NoCommand
    /\ n' = 0
    /\ UNCHANGED <<imageVars, boxVars, auxVars, scsistatus, bufVars, pc, runVars,
                   diskVars, scsi_sense, mainVars, owed>>

Pull ==
    /\ rom = "pull"
    /\ rdptr' = (rdptr + 1) % MaxBlocks
    /\ IF call.op = "read" /\ n + 1 < Moved(call)
       THEN n' = n + 1 /\ UNCHANGED <<rom, call>>
       ELSE n' = 0 /\ rom' = "idle" /\ call' = NoCommand
    /\ owed' = IF call.op = "sense" THEN "none" ELSE owed
    /\ UNCHANGED <<imageVars, boxVars, auxVars, scsistatus, dbuf, wrptr, pc, runVars,
                   diskVars, scsi_sense, mainVars>>

-----------------------------------------------------------------------------
(* The firmware's main loop: scsi_mount until it has an answer, scsi_poll. *)

MountSkip ==
    /\ pc = "mount"
    /\ mounted_hdd \/ ~scsi_bytes      \* done, or the slot has no size yet
    /\ pc' = "poll"
    /\ UNCHANGED <<imageVars, boxVars, auxVars, scsistatus, bufVars, runVars, diskVars,
                   scsi_sense, mainVars, romVars, owed>>

MountBegin ==
    /\ pc = "mount" /\ ~mounted_hdd
    /\ scsi_bytes' = TRUE /\ scsi_reprobe' = TRUE
    /\ pc' = "mount_hdr" /\ sum' = "none"
    /\ UNCHANGED <<imageVars, boxVars, auxVars, scsistatus, bufVars, cdb, blk, st,
                   scsi_sectors, scsi_base, scsi_sense, mainVars, romVars, owed>>

\* What a header read may bring: the block, an error, nothing at all (the poison
\* stays), or bytes that are not the same from one read to the next.
Delivery == {"good"} \cup IF HeaderFails THEN {"error", "poison", "garbled"} ELSE {}

Landed(r) == r \notin {"error", "poison"}

\* (mutant) The sums are not compared.
AgreeAny(r, s) == TRUE

Agree(r, s) == r = s /\ r # "garbled"

\* What scsi_probe makes of the block that landed.
Seen(r) == IF r = "good" THEN kind ELSE "flat"

FirstRead(r) ==
    /\ pc \in {"mount_hdr", "exec_hdr"}
    /\ sum = "none" /\ Landed(r)
    /\ sum' = r
    /\ UNCHANGED <<imageVars, boxVars, auxVars, scsistatus, bufVars, pc, cdb, blk, st,
                   diskVars, scsi_sense, mainVars, romVars, owed>>

\* From scsi_mount, or from scsi_execute, whose answer is final.  scsi_mount
\* also clears the sense, even one that the guest has yet to ask for.
Probed(r) ==
    /\ pc \in {"mount_hdr", "exec_hdr"}
    /\ sum # "none" /\ Landed(r) /\ Agree(sum, r)
    /\ scsi_base' = Base(Seen(r)) /\ scsi_sectors' = Capacity(Seen(r))
    /\ IF pc = "mount_hdr"
       THEN /\ scsi_sense' = "none" /\ owed' = "none" /\ mounted_hdd' = TRUE
            /\ pc' = "poll" /\ UNCHANGED scsi_reprobe
       ELSE /\ scsi_reprobe' = FALSE /\ pc' = "exec"
            /\ UNCHANGED <<scsi_sense, owed, mounted_hdd>>
    /\ UNCHANGED <<imageVars, boxVars, auxVars, scsistatus, bufVars, runVars,
                   scsi_bytes, hdd_tries, romVars>>

\* scsi_probe leaves the classification standing; scsi_mount then drops it.
ProbeFails(r) ==
    /\ pc \in {"mount_hdr", "exec_hdr"}
    /\ ~Landed(r) \/ (sum # "none" /\ ~Agree(sum, r))
    /\ IF pc = "mount_hdr"
       THEN /\ scsi_sectors' = 0
            /\ hdd_tries' = hdd_tries + 1
            /\ mounted_hdd' = (hdd_tries + 1 >= MaxTries)
            /\ pc' = "poll"
       ELSE pc' = "exec" /\ UNCHANGED <<scsi_sectors, mainVars>>
    /\ UNCHANGED <<imageVars, boxVars, auxVars, scsistatus, bufVars, runVars, scsi_base,
                   scsi_sense, scsi_reprobe, scsi_bytes, romVars, owed>>

PollIdle ==
    /\ pc = "poll" /\ cmd_req = cmd_ack
    /\ pc' = "mount"
    /\ UNCHANGED <<imageVars, boxVars, auxVars, scsistatus, bufVars, runVars, diskVars,
                   scsi_sense, mainVars, romVars, owed>>

\* scsi_poll acknowledges first and reads the CDB; scsi_execute probes again as
\* long as the mount's answer is provisional.
Claim ==
    /\ pc = "poll" /\ cmd_req # cmd_ack
    /\ cmd_ack' = cmd_req
    /\ cdb' = call /\ blk' = 0 /\ sum' = "none"
    /\ pc' = IF scsi_reprobe /\ scsi_bytes THEN "exec_hdr" ELSE "exec"
    /\ UNCHANGED <<imageVars, cmd_req, auxVars, scsistatus, bufVars, st,
                   diskVars, scsi_sense, mainVars, romVars, owed>>

-----------------------------------------------------------------------------
(* scsi_execute.                                                           *)

\* scsi_ok and scsi_fail, up to the two registers that scsi_complete writes.
\* REQUEST SENSE clears the sense it has reported.
Finish(sense) ==
    /\ st' = IF sense = "none" THEN "good" ELSE "check"
    /\ scsi_sense' = sense
    /\ owed' = IF cdb.op = "sense" THEN owed ELSE sense
    /\ pc' = "status"

NeedsDisk == cdb.op \in {"test", "capacity"} \cup Moves
PastEnd == cdb.lba >= scsi_sectors \/ cdb.lba + Moved(cdb) > scsi_sectors

\* Why a command is refused before it moves anything; "none" if it is not.
Refusal ==
    IF NeedsDisk /\ scsi_sectors = 0 THEN "not_ready"
    ELSE IF cdb.op \in Moves /\ cdb.blocks > 0 /\ PastEnd THEN "range"
    ELSE IF cdb.op = "bad_mode" THEN "field"
    ELSE IF cdb.op = "bad_op" THEN "opcode" ELSE "none"

Moving == cdb.op \in Moves /\ cdb.blocks > 0 /\ Refusal = "none"

Answer == IF cdb.op = "sense" THEN scsi_sense
          ELSE IF cdb.op = "capacity" THEN scsi_sectors - 1 ELSE 0

\* (mutant) The sense is reported and the buffer not rewound.
NoMoveKeepsPtr ==
    /\ pc = "exec" /\ ~Moving
    /\ Finish(Refusal)
    /\ IF cdb.op \in Replies /\ Refusal = "none"
       THEN dbuf' = [dbuf EXCEPT ![0] = Reply(cdb.op, Answer)] /\ rdptr' = 0
       ELSE UNCHANGED <<dbuf, rdptr>>
    /\ UNCHANGED <<imageVars, boxVars, auxVars, scsistatus, wrptr, sum, cdb, blk,
                   diskVars, mainVars, romVars>>

\* The commands that move no blocks.  A reply rewinds both of the guest's
\* pointers.
NoMove ==
    /\ pc = "exec" /\ ~Moving
    /\ Finish(Refusal)
    /\ IF cdb.op \in Replies /\ Refusal = "none"
       THEN /\ dbuf' = [dbuf EXCEPT ![0] = Reply(cdb.op, Answer)]
            /\ rdptr' = 0 /\ wrptr' = 0
       ELSE UNCHANGED bufVars
    /\ UNCHANGED <<imageVars, boxVars, auxVars, scsistatus, sum, cdb, blk,
                   diskVars, mainVars, romVars>>

\* (mutant) The read pointer is left where the last command had it.
ReadBlockKeepsPtr(ok) ==
    /\ pc = "exec" /\ Moving /\ cdb.op = "read"
    /\ wrptr' = 0 /\ UNCHANGED rdptr
    /\ IF ok
       THEN /\ dbuf' = [dbuf EXCEPT ![blk] = file[scsi_base + cdb.lba + blk]]
            /\ blk' = blk + 1
            /\ IF blk + 1 < Moved(cdb)
               THEN UNCHANGED <<st, scsi_sense, owed, pc>>
               ELSE Finish("none")
       ELSE Finish("read") /\ UNCHANGED <<dbuf, blk>>
    /\ UNCHANGED <<imageVars, boxVars, auxVars, scsistatus, sum, cdb, diskVars,
                   mainVars, romVars>>

\* One block of scsi_do_read; the pointers are rewound before and after.
ReadBlock(ok) ==
    /\ pc = "exec" /\ Moving /\ cdb.op = "read"
    /\ wrptr' = 0
    /\ IF ok
       THEN /\ dbuf' = [dbuf EXCEPT ![blk] = file[scsi_base + cdb.lba + blk]]
            /\ blk' = blk + 1
            /\ IF blk + 1 < Moved(cdb)
               THEN UNCHANGED <<rdptr, st, scsi_sense, owed, pc>>
               ELSE rdptr' = 0 /\ Finish("none")
       ELSE Finish("read") /\ UNCHANGED <<dbuf, rdptr, blk>>
    /\ UNCHANGED <<imageVars, boxVars, auxVars, scsistatus, sum, cdb, diskVars,
                   mainVars, romVars>>

\* (mutant) The write's blocks go on after one that failed.
WriteBlockGoesOn(ok, landed) ==
    LET at == scsi_base + cdb.lba + blk IN
    /\ pc = "exec" /\ Moving /\ cdb.op = "write"
    /\ ok => landed
    /\ file' = IF landed THEN [file EXCEPT ![at] = dbuf[blk]] ELSE file
    /\ blk' = blk + 1
    /\ IF blk + 1 < Moved(cdb)
       THEN UNCHANGED <<wrptr, st, scsi_sense, owed, pc>>
       ELSE wrptr' = 0 /\ Finish(IF ok THEN "none" ELSE "write")
    /\ UNCHANGED <<kind, boxVars, auxVars, scsistatus, dbuf, rdptr, sum, cdb, diskVars,
                   mainVars, romVars>>

\* One block of scsi_do_write.  A transfer that fails may have landed.
WriteBlock(ok, landed) ==
    LET at == scsi_base + cdb.lba + blk IN
    /\ pc = "exec" /\ Moving /\ cdb.op = "write"
    /\ ok => landed
    /\ file' = IF landed THEN [file EXCEPT ![at] = dbuf[blk]] ELSE file
    /\ IF ~ok THEN Finish("write") /\ UNCHANGED <<wrptr, blk>>
       ELSE /\ blk' = blk + 1
            /\ IF blk + 1 < Moved(cdb)
               THEN UNCHANGED <<wrptr, st, scsi_sense, owed, pc>>
               ELSE wrptr' = 0 /\ Finish("none")
    /\ UNCHANGED <<kind, boxVars, auxVars, scsistatus, dbuf, rdptr, sum, cdb, diskVars,
                   mainVars, romVars>>

\* scsi_complete: the status byte, then the bit the guest polls.
StatusWrite ==
    /\ pc = "status"
    /\ scsistatus' = st /\ pc' = "aux"
    /\ UNCHANGED <<imageVars, boxVars, auxVars, bufVars, runVars, diskVars, scsi_sense,
                   mainVars, romVars, owed>>

AuxWrite ==
    /\ pc = "aux"
    /\ auxstatus' = TRUE /\ pc' = "mount"
    /\ cdb' = NoCommand /\ blk' = 0 /\ st' = "good" /\ sum' = "none"
    /\ UNCHANGED <<imageVars, boxVars, aux_seen, scsistatus, bufVars, diskVars,
                   scsi_sense, mainVars, romVars, owed>>

Firmware ==
    \/ MountSkip \/ MountBegin \/ PollIdle \/ Claim \/ NoMove
    \/ \E r \in Delivery : FirstRead(r) \/ Probed(r) \/ ProbeFails(r)
    \/ \E ok \in BOOLEAN : ReadBlock(ok)
    \/ \E ok, landed \in BOOLEAN : WriteBlock(ok, landed)
    \/ StatusWrite \/ AuxWrite

Guest == Fill \/ Emit \/ StrobeStart \/ StrobeEnd \/ Status \/ Pull

Next == Firmware \/ Guest \/ \E c \in Command : Issue(c)

Spec == Init /\ [][Next]_vars

-----------------------------------------------------------------------------
(* Properties.                                                             *)

\* A header that was not delivered, or not the same twice, is never taken for a
\* flat image: what is served is what the file's format says.
ClassRight ==
    scsi_sectors # 0 =>
        scsi_base = Base(kind) /\ scsi_sectors = Capacity(kind)

\* What the guest pulls out of the buffer after a good status answers the very
\* command it sent: the file's blocks, in order, or that command's reply.
AnswerRight ==
    [][ Pull =>
          /\ call.op = "read" => dbuf[rdptr] = file[Base(kind) + call.lba + n]
          /\ call.op = "capacity" => dbuf[rdptr] = Reply("capacity", Capacity(kind) - 1)
          /\ call.op = "sense" => owed = "none" \/ dbuf[rdptr] = Reply("sense", owed)
          /\ call.op \notin {"read", "capacity", "sense"} => dbuf[rdptr][1] = call.op ]_vars

\* The file changes only under a write command of the guest that is waiting for
\* it, within the blocks it named, each getting the block the guest put out for
\* it.
WriteRight ==
    [][ \A u \in Pos : file'[u] # file[u] =>
          /\ rom \in {"wait", "strobe"} /\ call.op = "write"
          /\ \E j \in 0..(Moved(call) - 1) :
                 u = Base(kind) + call.lba + j /\ file'[u] = Payload(j) ]_vars

\* A write that ends with a good status is in the file, all of it.
WriteKept ==
    [][ (Status /\ call.op = "write" /\ scsistatus = "good") =>
          \A j \in 0..(Moved(call) - 1) :
              file[Base(kind) + call.lba + j] = Payload(j) ]_vars

\* A guest that polls is owed exactly one completion: its command is in the
\* mailbox, or the firmware is at it, or the completion is in the register;
\* and outside its polls there is none, so nothing answers a command but its own
\* completion.
InMailbox == cmd_req # cmd_ack
InFirmware == pc \in {"exec_hdr", "exec", "status", "aux"}
OneCompletion ==
    /\ rom \in {"wait", "strobe"} => InMailbox \/ InFirmware \/ auxstatus
    /\ InMailbox => ~InFirmware /\ ~auxstatus
    /\ InFirmware => ~auxstatus
    /\ InMailbox \/ InFirmware \/ auxstatus => rom \in {"wait", "strobe"}
=============================================================================
