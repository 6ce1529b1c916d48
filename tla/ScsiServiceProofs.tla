-------------------------- MODULE ScsiServiceProofs -------------------------
(* ScsiService, for any file, buffer and number of tries, and whatever the  *)
(* header reads bring.                                                      *)
EXTENDS ScsiService, TLAPS

-----------------------------------------------------------------------------
(* The classification.                                                      *)

LEMMA ClassStep == ClassRight /\ [Next]_vars => ClassRight'
<1> SUFFICES ASSUME ClassRight, [Next]_vars PROVE ClassRight'
  OBVIOUS
<1>1. ASSUME kind' = kind, scsi_sectors' = scsi_sectors, scsi_base' = scsi_base
      PROVE  ClassRight'
  BY <1>1 DEF ClassRight, Base, Capacity
<1>2. ASSUME NEW r \in Delivery, Probed(r) PROVE ClassRight'
  <2>1. r = "good"
    BY <1>2 DEF Probed, Delivery, Landed, Agree
  <2>2. Seen(r) = kind
    BY <2>1 DEF Seen
  <2>3. scsi_base' = Base(kind) /\ scsi_sectors' = Capacity(kind) /\ kind' = kind
    BY <1>2, <2>2 DEF Probed, imageVars
  <2> QED
    BY <2>3 DEF ClassRight, Base, Capacity
<1>3. ASSUME NEW r \in Delivery, ProbeFails(r) PROVE ClassRight'
  <2>1. CASE scsi_sectors' = 0
    BY <2>1 DEF ClassRight
  <2>2. CASE scsi_sectors' = scsi_sectors
    <3>1. kind' = kind /\ scsi_base' = scsi_base
      BY <1>3 DEF ProbeFails, imageVars
    <3> QED
      BY <2>2, <3>1, <1>1
  <2> QED
    BY <1>3, <2>1, <2>2 DEF ProbeFails
<1>4. CASE Guest \/ (\E c \in Command : Issue(c)) \/ UNCHANGED vars
  BY <1>4, <1>1 DEF Guest, Fill, Emit, StrobeStart, StrobeEnd, Status, Pull, Issue,
       vars, imageVars, diskVars
<1>5. CASE \/ MountSkip \/ MountBegin \/ PollIdle \/ Claim \/ StatusWrite \/ AuxWrite
  BY <1>5, <1>1 DEF MountSkip, MountBegin, PollIdle, Claim, StatusWrite, AuxWrite,
       imageVars, diskVars
<1>6. CASE \/ NoMove \/ \E ok \in BOOLEAN : ReadBlock(ok)
           \/ \E ok, landed \in BOOLEAN : WriteBlock(ok, landed)
  BY <1>6, <1>1 DEF NoMove, ReadBlock, WriteBlock, imageVars, diskVars
<1>7. ASSUME NEW r \in Delivery, FirstRead(r) PROVE ClassRight'
  BY <1>7, <1>1 DEF FirstRead, imageVars, diskVars
<1> QED
  BY <1>2, <1>3, <1>4, <1>5, <1>6, <1>7 DEF Next, Firmware

\* Whatever order mounts, retries and the commands' re-probes come in, and
\* whatever their header reads bring, an image is only ever served at the offset
\* and with the capacity of its own format (scsi_probe, scsi_mount).
THEOREM ClassSafe == Spec => []ClassRight
<1>1. Init => ClassRight
  BY DEF Init, ClassRight
<1>2. ClassRight /\ [Next]_vars => ClassRight'
  BY ClassStep
<1> QED
  BY <1>1, <1>2, PTL DEF Spec

-----------------------------------------------------------------------------
(* The completion.                                                          *)

\* A byte that the register presented to the guest's read is still in it, and
\* the read is under way.
Presented == aux_seen => rom = "strobe" /\ auxstatus

BoxInv ==
    /\ cmd_req \in BOOLEAN /\ cmd_ack \in BOOLEAN
    /\ auxstatus \in BOOLEAN /\ aux_seen \in BOOLEAN
    /\ Presented
    /\ OneCompletion

\* What OneCompletion looks at.
View == <<cmd_req, cmd_ack, auxstatus, aux_seen>>

LEMMA BoxKept ==
    ASSUME BoxInv, UNCHANGED View,
           rom' = rom \/ {rom, rom'} \cap {"wait", "strobe"} = {},
           InFirmware' <=> InFirmware
    PROVE  BoxInv'
<1>1. InMailbox' <=> InMailbox
  BY DEF InMailbox, View
<1>2. rom' \in {"wait", "strobe"} <=> rom \in {"wait", "strobe"}
  OBVIOUS
<1>3. OneCompletion'
  BY <1>1, <1>2 DEF OneCompletion, BoxInv, View
<1>4. Presented'
  BY DEF Presented, BoxInv, View
<1> QED
  BY <1>3, <1>4 DEF BoxInv, View

LEMMA BoxStep == BoxInv /\ [Next]_vars => BoxInv'
<1> SUFFICES ASSUME BoxInv, [Next]_vars PROVE BoxInv'
  OBVIOUS
<1> USE DEF boxVars, auxVars, romVars
<1>1. CASE Fill \/ Status \/ Pull \/ \E c \in Command : Issue(c)
  <2>1. UNCHANGED View /\ pc' = pc
    BY <1>1 DEF Fill, Status, Pull, Issue, View
  <2>2. {rom, rom'} \cap {"wait", "strobe"} = {}
    BY <1>1 DEF Fill, Status, Pull, Issue
  <2> QED
    BY <2>1, <2>2, BoxKept DEF InFirmware
<1>2. CASE Emit
  BY <1>2 DEF Emit, BoxInv, Presented, OneCompletion, InMailbox, InFirmware
<1>3. CASE StrobeStart
  BY <1>3 DEF StrobeStart, BoxInv, Presented, OneCompletion, InMailbox, InFirmware
<1>4. CASE StrobeEnd
  <2>1. CASE aux_seen
    BY <1>4, <2>1 DEF StrobeEnd, BoxInv, Presented, OneCompletion, InMailbox, InFirmware
  <2>2. CASE ~aux_seen
    BY <1>4, <2>2 DEF StrobeEnd, BoxInv, Presented, OneCompletion, InMailbox, InFirmware
  <2> QED
    BY <2>1, <2>2
<1>5. CASE MountSkip \/ MountBegin \/ PollIdle \/ StatusWrite
  <2>1. UNCHANGED View /\ rom' = rom
    BY <1>5 DEF MountSkip, MountBegin, PollIdle, StatusWrite, View
  <2>2. InFirmware' <=> InFirmware
    BY <1>5 DEF MountSkip, MountBegin, PollIdle, StatusWrite, InFirmware
  <2> QED
    BY <2>1, <2>2, BoxKept
<1>6. ASSUME NEW r \in Delivery, FirstRead(r) \/ Probed(r) \/ ProbeFails(r)
      PROVE  BoxInv'
  <2>1. UNCHANGED View /\ rom' = rom
    BY <1>6 DEF FirstRead, Probed, ProbeFails, View
  <2>2. InFirmware' <=> InFirmware
    BY <1>6 DEF FirstRead, Probed, ProbeFails, InFirmware
  <2> QED
    BY <2>1, <2>2, BoxKept
<1>7. CASE Claim
  BY <1>7 DEF Claim, BoxInv, Presented, OneCompletion, InMailbox, InFirmware
<1>8. CASE \/ NoMove \/ \E ok \in BOOLEAN : ReadBlock(ok)
           \/ \E ok, landed \in BOOLEAN : WriteBlock(ok, landed)
  <2>1. UNCHANGED View /\ rom' = rom
    BY <1>8 DEF NoMove, ReadBlock, WriteBlock, View
  <2>2. pc = "exec" /\ pc' \in {"exec", "status"}
    BY <1>8 DEF NoMove, ReadBlock, WriteBlock, Finish
  <2> QED
    BY <2>1, <2>2, BoxKept DEF InFirmware
<1>9. CASE AuxWrite
  BY <1>9 DEF AuxWrite, BoxInv, Presented, OneCompletion, InMailbox, InFirmware
<1>10. CASE UNCHANGED vars
  BY <1>10, BoxKept DEF vars, View, InFirmware
<1> QED
  BY <1>1, <1>2, <1>3, <1>4, <1>5, <1>6, <1>7, <1>8, <1>9, <1>10
     DEF Next, Firmware, Guest

\* A guest that polls is owed exactly one completion, and none is left over when
\* it does not (scsi_poll, scsi_complete, the strobe of pc98_scsi.sv).
THEOREM CompletionSafe == Spec => []OneCompletion
<1>1. Init => BoxInv
  BY DEF Init, BoxInv, Presented, OneCompletion, InMailbox, InFirmware
<1>2. BoxInv /\ [Next]_vars => BoxInv'
  BY BoxStep
<1>3. BoxInv => OneCompletion
  BY DEF BoxInv
<1> QED
  BY <1>1, <1>2, <1>3, PTL DEF Spec

-----------------------------------------------------------------------------
(* The data.  One call of the guest goes through three phases: until the     *)
(* firmware executes it the buffer holds what the guest put out (Loaded),    *)
(* while it executes a prefix of its blocks has been moved (Progress), and   *)
(* from then on a good status stands for the whole answer (Outcome).         *)

RomPlace == {"idle", "fill", "emit", "wait", "strobe", "status", "pull"}
FirmwarePlace == {"mount", "mount_hdr", "poll", "exec_hdr", "exec", "status", "aux"}

DataType ==
    /\ kind \in Kinds
    /\ file = [u \in Pos |-> file[u]] /\ dbuf = [j \in Cell |-> dbuf[j]]
    /\ rom \in RomPlace /\ call \in Command /\ n \in Nat
    /\ pc \in FirmwarePlace /\ cdb \in Command /\ blk \in Nat
    /\ st \in {"good", "check"} /\ scsistatus \in {"good", "check"}
    /\ scsi_sectors \in Nat /\ scsi_base \in Nat

\* A sense that the guest is owed is still there to be asked for.
SenseKept == owed = "none" \/ owed = scsi_sense

Out(m) == \A j \in Cell : j < m => dbuf[j] = Payload(j)
InFile(m) == \A j \in Cell : j < m => file[Base(kind) + call.lba + j] = Payload(j)
InBuffer(m) == \A j \in Cell : j < m => dbuf[j] = file[Base(kind) + call.lba + j]

Loaded ==
    /\ call.op = "write" => wrptr = Moved(call) % MaxBlocks /\ Out(Moved(call))
    /\ call.op \notin {"write", "sense"} => wrptr = 0
    /\ SenseKept

Progress ==
    /\ cdb = call /\ (blk = 0 \/ blk < Moved(call))
    /\ call.op = "read" => InBuffer(blk)
    /\ call.op = "write" => InFile(blk)

\* What the buffer holds for the guest to pull.
Content ==
    /\ call.op = "read" => InBuffer(Moved(call))
    /\ call.op = "capacity" => dbuf[0] = Reply("capacity", Capacity(kind) - 1)
    /\ call.op = "inquiry" => dbuf[0] = Reply("inquiry", 0)
    /\ call.op = "sense" => owed = "none" \/ dbuf[0] = Reply("sense", owed)

Pulls(c) == c.op \in Replies \/ (c.op = "read" /\ Moved(c) > 0)

Outcome(s) ==
    /\ call.op = "sense" => s = "good"
    /\ call.op # "sense" => SenseKept
    /\ s = "good" =>
          /\ wrptr = 0 /\ Content
          /\ Pulls(call) => rdptr = 0
          /\ call.op = "write" => InFile(Moved(call))

AtIdle   == rom = "idle" => wrptr = 0 /\ SenseKept
AtFill   == rom = "fill" => /\ call.op = "write" /\ n < Moved(call) /\ wrptr = n
                            /\ Out(n) /\ SenseKept
AtEmit   == rom = "emit" => Loaded
AtBox    == InMailbox => Loaded
AtHeader == pc = "exec_hdr" => Loaded /\ cdb = call /\ blk = 0
AtExec   == pc = "exec" => Loaded /\ Progress
AtStatus == pc = "status" => Outcome(st)
AtAux    == pc = "aux" \/ auxstatus \/ rom = "status" => Outcome(scsistatus)
AtPull   == rom = "pull" => /\ wrptr = 0 /\ Content /\ Pulls(call) /\ rdptr = n
                            /\ call.op = "read" => n < Moved(call)
                            /\ call.op # "read" => n = 0
                            /\ call.op # "sense" => SenseKept

Phase == /\ AtIdle /\ AtFill /\ AtEmit /\ AtBox /\ AtHeader
         /\ AtExec /\ AtStatus /\ AtAux /\ AtPull

DataInv == BoxInv /\ ClassRight /\ DataType /\ Phase

LEMMA CommandFacts ==
    ASSUME NEW c \in Command
    PROVE  /\ c.lba \in Nat /\ c.blocks \in Nat /\ Moved(c) \in Nat /\ Moved(c) <= MaxBlocks
           /\ c.op \notin Moves => c.blocks = 0 /\ Moved(c) = 0
           /\ (c.blocks > 0 <=> Moved(c) > 0)
           /\ c.op \in Ready \cup Replies \cup Moves \cup {"bad_mode", "bad_op"}
<1>1. MaxBlocks \in Nat /\ MaxBlocks > 0 /\ FileLen \in Nat
  BY ScsiAssumption
<1>2. CASE c \in [op : Ready \cup Replies \cup {"bad_mode", "bad_op"}, lba : {0}, blocks : {0}]
  BY <1>1, <1>2 DEF Moved, Min, Ready, Replies, Moves
<1>3. CASE c \in [op : Moves, lba : 0..FileLen, blocks : 0..(MaxBlocks + 1)]
  BY <1>1, <1>3 DEF Moved, Min
<1> QED BY <1>2, <1>3 DEF Command

LEMMA SpecialCommands ==
    /\ NoCommand \in Command /\ NoCommand.op = "test"
    /\ [NoCommand EXCEPT !.op = "sense"] \in Command
    /\ [NoCommand EXCEPT !.op = "sense"].op = "sense"
  BY DEF NoCommand, Command, Ready, Replies

LEMMA ModSmall == ASSUME NEW x \in Nat, NEW m \in Nat, x < m PROVE x % m = x
  OBVIOUS

\* Only a guest that polls has a command out.
LEMMA Quiet ==
    ASSUME BoxInv, rom \notin {"wait", "strobe"}
    PROVE  ~InMailbox /\ ~InFirmware /\ auxstatus = FALSE
  BY DEF BoxInv, OneCompletion

-----------------------------------------------------------------------------
(* What the phases are about does not change.                               *)

DataView == <<kind, file, dbuf, wrptr, rdptr, call>>

LEMMA DataKept ==
    ASSUME UNCHANGED DataView, (owed' = owed /\ scsi_sense' = scsi_sense) \/ owed' = "none"
    PROVE  /\ SenseKept => SenseKept'
           /\ Loaded => Loaded'
           /\ Content => Content'
           /\ \A s : Outcome(s) => Outcome(s)'
           /\ \A m : (Out(m)' <=> Out(m)) /\ (InFile(m)' <=> InFile(m)) /\ (InBuffer(m)' <=> InBuffer(m))
<1>1. SenseKept => SenseKept'
  BY DEF SenseKept
<1>2. \A m : (Out(m)' <=> Out(m)) /\ (InFile(m)' <=> InFile(m)) /\ (InBuffer(m)' <=> InBuffer(m))
  BY DEF DataView, Out, InFile, InBuffer, Base
<1>3. Loaded => Loaded'
  BY <1>1, <1>2 DEF Loaded, DataView
<1>4. Content => Content'
  BY <1>2 DEF Content, DataView, Capacity, Base
<1>5. \A s : Outcome(s) => Outcome(s)'
  BY <1>1, <1>2, <1>4 DEF Outcome, DataView
<1> QED BY <1>1, <1>2, <1>3, <1>4, <1>5

\* Which parts of Phase a step has to re-establish: those of the guest's place
\* when no command is out, those of the firmware's when it executes one.
LEMMA GuestPhase ==
    ASSUME (~InFirmware /\ ~InMailbox /\ auxstatus = FALSE)', rom' # "status",
           AtIdle', AtFill', AtEmit', AtPull'
    PROVE  Phase'
  BY DEF Phase, InFirmware, AtBox, AtHeader, AtExec, AtStatus, AtAux

LEMMA FirmwarePhase ==
    ASSUME rom' \in {"wait", "strobe"}, (~InMailbox)', auxstatus' = FALSE,
           AtHeader', AtExec', AtStatus', (pc = "aux" => Outcome(scsistatus))'
    PROVE  Phase'
  BY DEF Phase, AtIdle, AtFill, AtEmit, AtBox, AtAux, AtPull

LEMMA Working ==
    ASSUME BoxInv, InFirmware
    PROVE  rom \in {"wait", "strobe"} /\ ~InMailbox /\ auxstatus = FALSE
  BY DEF BoxInv, OneCompletion

\* Steps of the main loop outside a command.
LEMMA LoopPhase ==
    ASSUME DataInv, UNCHANGED DataView, UNCHANGED <<rom, n, cmd_req, cmd_ack, auxstatus, scsistatus>>,
           (owed' = owed /\ scsi_sense' = scsi_sense) \/ owed' = "none",
           pc \notin {"exec_hdr", "exec", "status", "aux"},
           pc' \notin {"exec_hdr", "exec", "status", "aux"}
    PROVE  Phase'
<1>1. Phase
  BY DEF DataInv
<1>2. /\ SenseKept => SenseKept'
      /\ Loaded => Loaded'
      /\ Content => Content'
      /\ \A s : Outcome(s) => Outcome(s)'
      /\ \A m : Out(m)' <=> Out(m)
  BY DataKept
<1>3. call' = call /\ wrptr' = wrptr /\ rdptr' = rdptr /\ (InMailbox' <=> InMailbox)
  BY DEF DataView, InMailbox
<1>4. AtIdle' /\ AtEmit' /\ AtBox'
  BY <1>1, <1>2, <1>3 DEF Phase, AtIdle, AtEmit, AtBox
<1>5. AtFill'
  <2>1. \A m : m = n => (Out(m)' <=> Out(n)')
    BY DEF Out, DataView
  <2> QED BY <1>1, <1>2, <1>3, <2>1 DEF Phase, AtFill, Moved
<1>6. AtAux'
  <2>1. Outcome(scsistatus)' <=> \A s : s = scsistatus => Outcome(s)'
    BY DEF Outcome
  <2> QED BY <1>1, <1>2, <1>3, <2>1 DEF Phase, AtAux
<1>7. AtPull'
  BY <1>1, <1>2, <1>3 DEF Phase, AtPull, Pulls, Moved
<1>8. AtHeader' /\ AtExec' /\ AtStatus'
  BY DEF AtHeader, AtExec, AtStatus
<1> QED BY <1>4, <1>5, <1>6, <1>7, <1>8 DEF Phase

-----------------------------------------------------------------------------
(* The guest's steps.                                                       *)

\* A guest that does not poll leaves mailbox, firmware and register empty.
LEMMA QuietStep ==
    ASSUME BoxInv, rom \notin {"wait", "strobe"},
           UNCHANGED <<cmd_req, cmd_ack, auxstatus, pc>>
    PROVE  (~InFirmware /\ ~InMailbox /\ auxstatus = FALSE)'
  BY Quiet DEF InFirmware, InMailbox

LEMMA IssuePhase == ASSUME DataInv, NEW c \in Command, Issue(c) PROVE Phase'
<1>1. AtIdle /\ rom = "idle"
  BY DEF DataInv, Phase, Issue
<1>2. wrptr' = 0 /\ SenseKept' /\ call' = c /\ n' = 0 /\ rom' \in {"fill", "emit"}
  BY <1>1 DEF AtIdle, Issue, bufVars, SenseKept
<1>4. 0 % MaxBlocks = 0
  BY ScsiAssumption
<1>5. AtFill'
  <2>1. rom' = "fill" => c.op = "write" /\ 0 < Moved(c)
    BY DEF Issue
  <2>3. Out(n)'
    BY <1>2, ScsiAssumption DEF Out, Cell
  <2>4. rom' = "fill" => n' < Moved(call')
    BY <1>2, <2>1
  <2> QED BY <1>2, <2>1, <2>3, <2>4 DEF AtFill, Moved
<1>6. AtEmit'
  <2>1. rom' = "emit" => ~(c.op = "write" /\ Moved(c) > 0)
    BY DEF Issue
  <2>2. c.op = "write" /\ rom' = "emit" => Moved(c) = 0
    BY <2>1, CommandFacts
  <2>3. rom' = "emit" /\ c.op = "write" => wrptr' = Moved(call') % MaxBlocks /\ Out(Moved(call))'
    <3>1. Moved(c) = 0 => Out(Moved(call))'
      BY <1>2, ScsiAssumption DEF Out, Cell, Moved
    <3> QED BY <1>2, <1>4, <2>2, <3>1
  <2> QED BY <1>2, <2>3 DEF AtEmit, Loaded, Moved
<1>7. (~InFirmware /\ ~InMailbox /\ auxstatus = FALSE)'
  BY <1>1, QuietStep DEF DataInv, Issue, boxVars, auxVars
<1> QED BY <1>2, <1>5, <1>6, <1>7, GuestPhase DEF AtIdle, AtPull

LEMMA FillPhase == ASSUME DataInv, Fill PROVE Phase'
<1>1. AtFill /\ rom = "fill" /\ call \in Command /\ n \in Nat
  BY DEF DataInv, Phase, Fill, DataType
<1>2. call.op = "write" /\ n < Moved(call) /\ wrptr = n /\ Out(n) /\ SenseKept
  BY <1>1 DEF AtFill
<1>3. Moved(call) \in Nat /\ Moved(call) <= MaxBlocks /\ MaxBlocks \in Nat
  BY <1>1, CommandFacts, ScsiAssumption
<1>4. n \in Cell
  BY <1>1, <1>2, <1>3 DEF Cell
<1>5. \A j \in Cell : dbuf'[j] = IF j = n THEN Payload(n) ELSE dbuf[j]
  BY <1>2, <1>4 DEF Fill, DataInv, DataType
<1>6. \A m : m = n + 1 => Out(m)'
  BY <1>1, <1>2, <1>5 DEF Out, Cell
<1>7. SenseKept' /\ call' = call /\ n' = n + 1 /\ wrptr' = (n + 1) % MaxBlocks /\ rom' \in {"fill", "emit"}
  BY <1>1, <1>2 DEF SenseKept, Fill
<1>8. AtFill'
  <2>1. rom' = "fill" => n + 1 < Moved(call)
    BY <1>1, <1>2, <1>3 DEF Fill
  <2>2. rom' = "fill" => wrptr' = n'
    BY <1>1, <1>3, <1>7, <2>1, ModSmall
  <2>3. Out(n)'
    BY <1>6, <1>7 DEF Out
  <2> QED BY <1>2, <1>7, <2>1, <2>2, <2>3 DEF AtFill, Moved
<1>9. AtEmit'
  <2>1. rom' = "emit" => n + 1 = Moved(call)
    BY <1>1 DEF Fill
  <2>2. rom' = "emit" => Out(Moved(call))'
    BY <1>6, <1>7, <2>1 DEF Out, Moved
  <2> QED BY <1>2, <1>7, <2>1, <2>2 DEF AtEmit, Loaded, Moved
<1>10. (~InFirmware /\ ~InMailbox /\ auxstatus = FALSE)'
  BY <1>1, QuietStep DEF DataInv, Fill, boxVars, auxVars
<1> QED BY <1>7, <1>8, <1>9, <1>10, GuestPhase DEF AtIdle, AtPull

LEMMA EmitPhase == ASSUME DataInv, Emit PROVE Phase'
<1>1. Loaded /\ ~InFirmware
  BY Quiet DEF DataInv, Phase, AtEmit, Emit
<1>2. Loaded'
  BY <1>1, DataKept DEF Emit, DataView, imageVars, bufVars
<1>3. AtIdle' /\ AtFill' /\ AtEmit' /\ AtPull' /\ AtAux'
  BY <1>1 DEF Emit, AtIdle, AtFill, AtEmit, AtPull, AtAux, InFirmware
<1>4. AtHeader' /\ AtExec' /\ AtStatus'
  BY <1>1 DEF Emit, AtHeader, AtExec, AtStatus, InFirmware
<1> QED BY <1>2, <1>3, <1>4 DEF Phase, AtBox

\* Both ends of a poll.
LEMMA StrobePhase == ASSUME DataInv, StrobeStart \/ StrobeEnd PROVE Phase'
<1>1. UNCHANGED DataView /\ owed' = owed /\ scsi_sense' = scsi_sense
  BY DEF StrobeStart, StrobeEnd, DataView, imageVars, bufVars
<1>2. UNCHANGED <<cmd_req, cmd_ack, scsistatus, pc, cdb, blk, st, kind, call, wrptr, file, dbuf>>
  BY DEF StrobeStart, StrobeEnd, imageVars, bufVars, boxVars, runVars
<1>3. /\ SenseKept => SenseKept'
      /\ Loaded => Loaded'
      /\ \A s : Outcome(s) => Outcome(s)'
      /\ \A m : (InFile(m)' <=> InFile(m)) /\ (InBuffer(m)' <=> InBuffer(m))
  BY <1>1, DataKept
<1>4. rom' \in {"wait", "strobe", "status"} /\ (rom' = "status" => auxstatus) /\ (auxstatus' => auxstatus)
  BY DEF StrobeStart, StrobeEnd, DataInv, BoxInv, Presented
<1>5. Phase
  BY DEF DataInv
<1>6. AtIdle' /\ AtFill' /\ AtEmit' /\ AtPull'
  BY <1>4 DEF AtIdle, AtFill, AtEmit, AtPull
<1>7. AtBox' /\ AtHeader'
  BY <1>2, <1>3, <1>5 DEF AtBox, AtHeader, InMailbox, Phase
<1>8. AtExec'
  <2>1. Progress => Progress'
    BY <1>2, <1>3 DEF Progress, Moved, InFile, InBuffer, Base
  <2> QED BY <1>2, <1>3, <1>5, <2>1 DEF AtExec, Phase
<1>9. AtStatus' /\ AtAux'
  <2>1. /\ Outcome(st)' <=> \A s : s = st => Outcome(s)'
        /\ Outcome(scsistatus)' <=> \A s : s = scsistatus => Outcome(s)'
    BY <1>2 DEF Outcome
  <2> QED BY <1>2, <1>3, <1>4, <1>5, <2>1 DEF AtStatus, AtAux, Phase
<1> QED BY <1>6, <1>7, <1>8, <1>9 DEF Phase

LEMMA StatusPhase == ASSUME DataInv, Status PROVE Phase'
<1>1. rom = "status" /\ Outcome(scsistatus) /\ call \in Command /\ scsistatus \in {"good", "check"}
  BY DEF DataInv, Phase, AtAux, Status, DataType
<1>2. UNCHANGED <<kind, file, dbuf, wrptr, rdptr, owed, scsi_sense>> /\ n' = 0
  BY DEF Status, imageVars, bufVars
<1>3. (~InFirmware /\ ~InMailbox /\ auxstatus = FALSE)'
  BY <1>1, QuietStep DEF DataInv, Status, boxVars, auxVars
<1>4. CASE scsistatus = "check"
  <2>1. SenseKept'
    BY <1>1, <1>2, <1>4 DEF Outcome, SenseKept
  <2>2. rom' = "emit" /\ call' = [NoCommand EXCEPT !.op = "sense"]
    BY <1>4 DEF Status
  <2>3. call'.op = "sense"
    BY <2>2, SpecialCommands
  <2>4. Loaded'
    BY <2>1, <2>3 DEF Loaded
  <2> QED BY <1>3, <2>2, <2>4, GuestPhase DEF AtIdle, AtFill, AtEmit, AtPull
<1>5. CASE scsistatus = "good" /\ Pulls(call)
  <2>1. rom' = "pull" /\ call' = call
    BY <1>5 DEF Status, Pulls
  <2>2. wrptr = 0 /\ Content /\ rdptr = 0 /\ (call.op # "sense" => SenseKept)
    BY <1>1, <1>5 DEF Outcome
  <2>3. Content' /\ (SenseKept => SenseKept')
    BY <1>2, <2>1, <2>2, DataKept DEF DataView
  <2>4. call.op = "read" => 0 < Moved(call)
    BY <1>1, <1>5, CommandFacts DEF Pulls, Replies
  <2>5. AtPull'
    BY <1>2, <1>5, <2>1, <2>2, <2>3, <2>4 DEF AtPull, Pulls, Moved
  <2> QED BY <1>3, <2>1, <2>5, GuestPhase DEF AtIdle, AtFill, AtEmit
<1>6. CASE scsistatus = "good" /\ ~Pulls(call)
  <2>1. rom' = "idle"
    BY <1>6 DEF Status, Pulls
  <2>2. wrptr = 0 /\ SenseKept
    BY <1>1, <1>6 DEF Outcome, Pulls, Replies
  <2>3. AtIdle'
    BY <1>2, <2>2 DEF AtIdle, SenseKept
  <2> QED BY <1>3, <2>1, <2>3, GuestPhase DEF AtPull, AtFill, AtEmit
<1> QED BY <1>1, <1>4, <1>5, <1>6

LEMMA PullPhase == ASSUME DataInv, Pull PROVE Phase'
<1>1. rom = "pull" /\ AtPull /\ call \in Command /\ n \in Nat
  BY DEF DataInv, Phase, Pull, DataType
<1>2. UNCHANGED <<kind, file, dbuf, wrptr, scsi_sense>>
  BY DEF Pull, imageVars
<1>3. (~InFirmware /\ ~InMailbox /\ auxstatus = FALSE)'
  BY <1>1, QuietStep DEF DataInv, Pull, boxVars, auxVars
<1>4. CASE call.op = "read" /\ n + 1 < Moved(call)
  <2>1. rom' = "pull" /\ call' = call /\ n' = n + 1 /\ owed' = owed
    BY <1>1, <1>4 DEF Pull
  <2>2. n + 1 < MaxBlocks /\ MaxBlocks \in Nat
    BY <1>1, <1>4, CommandFacts, ScsiAssumption
  <2>3. rdptr' = n'
    BY <1>1, <2>1, <2>2, ModSmall DEF Pull, AtPull
  <2>4. Content'
    BY <1>1, <1>2, <2>1 DEF Content, AtPull, InBuffer, Base, Capacity, Moved
  <2>5. SenseKept => SenseKept'
    BY <1>2, <2>1 DEF SenseKept
  <2>6. AtPull'
    BY <1>1, <1>2, <1>4, <2>1, <2>3, <2>4, <2>5 DEF AtPull, Pulls, Moved
  <2> QED BY <1>3, <2>1, <2>6, GuestPhase DEF AtIdle, AtFill, AtEmit
<1>5. CASE ~(call.op = "read" /\ n + 1 < Moved(call))
  <2>1. rom' = "idle"
    BY <1>5 DEF Pull
  <2>2. SenseKept'
    BY <1>1, <1>2 DEF Pull, AtPull, SenseKept
  <2>3. AtIdle'
    BY <1>1, <1>2, <2>2 DEF AtIdle, AtPull
  <2> QED BY <1>3, <2>1, <2>3, GuestPhase DEF AtPull, AtFill, AtEmit
<1> QED BY <1>4, <1>5

-----------------------------------------------------------------------------
(* The firmware's steps.                                                    *)

LEMMA ClaimPhase == ASSUME DataInv, Claim PROVE Phase'
<1>1. InMailbox /\ Loaded /\ call \in Command
  BY DEF DataInv, DataType, Phase, AtBox, InMailbox, Claim
<1>2. rom' \in {"wait", "strobe"} /\ (~InMailbox)' /\ auxstatus' = FALSE
  BY <1>1 DEF DataInv, BoxInv, OneCompletion, InMailbox, Claim, romVars, auxVars
<1>3. Loaded'
  BY <1>1, DataKept DEF Claim, DataView, imageVars, bufVars, romVars
<1>4. cdb' = call' /\ blk' = 0 /\ pc' \in {"exec_hdr", "exec"}
  BY DEF Claim, romVars
<1>5. InBuffer(blk)' /\ InFile(blk)'
  BY <1>4, ScsiAssumption DEF InBuffer, InFile, Cell
<1>6. AtExec'
  BY <1>3, <1>4, <1>5 DEF AtExec, Progress
<1> QED BY <1>2, <1>3, <1>4, <1>6, FirmwarePhase DEF AtHeader, AtStatus

\* The header reads inside a command.
LEMMA HeaderPhase ==
    ASSUME DataInv, pc = "exec_hdr", pc' \in {"exec_hdr", "exec"},
           UNCHANGED <<kind, file, dbuf, wrptr, rdptr, rom, call, n, cmd_req, cmd_ack,
                       auxstatus, owed, scsi_sense, cdb, blk>>
    PROVE  Phase'
<1>1. AtHeader /\ InFirmware
  BY DEF DataInv, Phase, InFirmware
<1>2. rom' \in {"wait", "strobe"} /\ (~InMailbox)' /\ auxstatus' = FALSE
  BY <1>1, Working DEF DataInv, InMailbox
<1>3. Loaded'
  BY <1>1, DataKept DEF AtHeader, DataView
<1>4. cdb' = call' /\ blk' = 0
  BY <1>1 DEF AtHeader
<1>5. InBuffer(blk)' /\ InFile(blk)'
  BY <1>4, ScsiAssumption DEF InBuffer, InFile, Cell
<1>6. AtExec'
  BY <1>3, <1>4, <1>5 DEF AtExec, Progress
<1> QED BY <1>2, <1>3, <1>4, <1>6, FirmwarePhase DEF AtHeader, AtStatus

LEMMA CompletePhase == ASSUME DataInv, StatusWrite \/ AuxWrite PROVE Phase'
<1>1. UNCHANGED DataView /\ owed' = owed /\ scsi_sense' = scsi_sense
  BY DEF StatusWrite, AuxWrite, DataView, imageVars, bufVars, romVars
<1>2. \A s : Outcome(s) => Outcome(s)'
  BY <1>1, DataKept
<1>3. rom \in {"wait", "strobe"} /\ ~InMailbox /\ auxstatus = FALSE
  BY Working DEF DataInv, InFirmware, StatusWrite, AuxWrite
<1>4. rom' \in {"wait", "strobe"} /\ (~InMailbox)'
  BY <1>3 DEF StatusWrite, AuxWrite, romVars, boxVars, InMailbox
<1>5. Outcome(scsistatus')
  BY DEF StatusWrite, AuxWrite, DataInv, Phase, AtStatus, AtAux
<1>6. Outcome(scsistatus)'
  <2>1. Outcome(scsistatus)' <=> \A s : s = scsistatus' => Outcome(s)'
    BY DEF Outcome
  <2> QED BY <1>2, <1>5, <2>1
<1>7. AtHeader' /\ AtExec' /\ AtStatus'
  BY DEF StatusWrite, AuxWrite, AtHeader, AtExec, AtStatus
<1> QED BY <1>4, <1>6, <1>7 DEF Phase, AtIdle, AtFill, AtEmit, AtBox, AtAux, AtPull

\* A command that moves blocks has found them all inside the image.
LEMMA MovingFacts ==
    ASSUME DataInv, pc = "exec", Moving
    PROVE  /\ cdb = call /\ scsi_base = Base(kind) /\ Base(kind) \in Nat /\ call.lba \in Nat
           /\ blk \in Cell /\ blk < Moved(call) /\ Moved(call) \in Nat
           /\ Base(kind) + call.lba + Moved(call) <= FileLen
<1>1. cdb = call /\ call \in Command /\ blk \in Nat /\ (blk = 0 \/ blk < Moved(call)) /\ ClassRight
  BY DEF DataInv, Phase, AtExec, Progress, DataType
<1>2. /\ call.lba \in Nat /\ Moved(call) \in Nat /\ Moved(call) <= MaxBlocks
      /\ call.blocks \in Nat /\ (call.blocks > 0 => Moved(call) > 0)
  BY <1>1, CommandFacts
<1>3. blk < Moved(call) /\ blk \in Cell
  BY <1>1, <1>2, ScsiAssumption DEF Moving, Cell
<1>4. scsi_sectors # 0 /\ call.lba + Moved(call) <= scsi_sectors
  <2>1. NeedsDisk
    BY DEF Moving, NeedsDisk
  <2>2. scsi_sectors # 0 /\ ~PastEnd
    BY <2>1 DEF Moving, Refusal
  <2>3. scsi_sectors \in Nat
    BY DEF DataInv, DataType
  <2> QED BY <1>1, <1>2, <2>2, <2>3 DEF PastEnd
<1>5. scsi_base = Base(kind) /\ scsi_sectors = Capacity(kind)
  BY <1>1, <1>4 DEF ClassRight
<1>6. Base(kind) \in Nat /\ Capacity(kind) + Base(kind) = FileLen
  BY <1>4, <1>5, ScsiAssumption DEF Base, Capacity
<1>7. Base(kind) + call.lba + Moved(call) <= FileLen
  <2>1. scsi_sectors \in Nat /\ FileLen \in Nat
    BY ScsiAssumption DEF DataInv, DataType
  <2> QED BY <1>2, <1>4, <1>5, <1>6, <2>1
<1> QED BY <1>1, <1>2, <1>3, <1>5, <1>6, <1>7

\* The commands' steps change neither the mailbox nor the guest.
LEMMA ExecPhase ==
    ASSUME DataInv, pc = "exec", pc' \in {"exec", "status"},
           UNCHANGED <<rom, cmd_req, cmd_ack, auxstatus>>, AtExec', AtStatus'
    PROVE  Phase'
<1>1. rom' \in {"wait", "strobe"} /\ (~InMailbox)' /\ auxstatus' = FALSE
  BY Working DEF DataInv, InFirmware, InMailbox
<1> QED BY <1>1, FirmwarePhase DEF AtHeader

LEMMA NoMovePhase == ASSUME DataInv, NoMove PROVE Phase'
<1>1. pc = "exec" /\ Loaded /\ cdb = call /\ call \in Command /\ ~Moving /\ ClassRight
  BY DEF DataInv, Phase, AtExec, Progress, DataType, NoMove
<1>2. /\ st' = (IF Refusal = "none" THEN "good" ELSE "check") /\ scsi_sense' = Refusal
      /\ owed' = (IF call.op = "sense" THEN owed ELSE Refusal) /\ pc' = "status"
  BY <1>1 DEF NoMove, Finish
<1>3. UNCHANGED <<kind, file, call, rom, cmd_req, cmd_ack, auxstatus>>
  BY DEF NoMove, imageVars, boxVars, auxVars, romVars
<1>4. call.op = "sense" => Refusal = "none"
  BY <1>1 DEF Refusal, NeedsDisk, Moves
<1>5. call.op # "sense" => SenseKept'
  BY <1>2 DEF SenseKept
<1>6. ASSUME Refusal = "none"
      PROVE  wrptr' = 0 /\ Content' /\ (Pulls(call)' => rdptr' = 0) /\ (call.op = "write" => InFile(Moved(call))')
  <2>1. CASE call.op \in Replies
    <3>1. /\ dbuf' = [dbuf EXCEPT ![0] = Reply(call.op, Answer)]
          /\ rdptr' = 0 /\ wrptr' = 0
      BY <1>1, <1>6, <2>1 DEF NoMove
    <3>2. dbuf'[0] = Reply(call.op, Answer)
      <4>1. 0 \in Cell /\ dbuf = [j \in Cell |-> dbuf[j]]
        BY ScsiAssumption DEF Cell, DataInv, DataType
      <4> QED BY <3>1, <4>1
    <3>3. call.op \in {"sense", "inquiry", "capacity"}
      BY <2>1 DEF Replies
    <3>4. CASE call.op = "sense"
      BY <1>1, <1>2, <1>3, <3>1, <3>2, <3>4 DEF Content, Answer, Loaded, SenseKept
    <3>5. CASE call.op = "inquiry"
      BY <1>1, <1>3, <3>1, <3>2, <3>5 DEF Content, Answer
    <3>6. CASE call.op = "capacity"
      <4>1. scsi_sectors # 0
        BY <1>1, <1>6, <3>6 DEF Refusal, NeedsDisk
      <4>2. Answer = Capacity(kind) - 1
        BY <1>1, <3>6, <4>1 DEF Answer, ClassRight
      <4>3. dbuf'[0] = Reply("capacity", Capacity(kind') - 1)
        BY <1>3, <3>2, <3>6, <4>2
      <4>4. Content'
        BY <1>3, <3>6, <4>3 DEF Content, Capacity, Base
      <4> QED BY <3>1, <3>6, <4>4
    <3> QED BY <3>3, <3>4, <3>5, <3>6
  <2>2. CASE call.op \notin Replies
    <3>1. UNCHANGED <<dbuf, rdptr, wrptr>>
      BY <1>1, <2>2 DEF NoMove, bufVars
    <3>2. call.op \in Moves => Moved(call) = 0
      <4>1. call.op \in Moves => ~(call.blocks > 0)
        BY <1>1, <1>6 DEF Moving
      <4>2. Moved(call) \in Nat /\ (call.blocks > 0 <=> Moved(call) > 0)
        BY <1>1, CommandFacts
      <4> QED BY <4>1, <4>2
    <3>3. wrptr = 0
      <4>1. call.op = "write" => wrptr = 0 % MaxBlocks
        BY <1>1, <3>2 DEF Loaded, Moves
      <4>2. 0 % MaxBlocks = 0
        BY ScsiAssumption
      <4> QED BY <1>1, <2>2, <4>1, <4>2 DEF Loaded, Replies
    <3>4. call.op \in Moves => InBuffer(Moved(call))' /\ InFile(Moved(call))'
      BY <1>3, <3>2, ScsiAssumption DEF InBuffer, InFile, Cell, Moved
    <3>5. Content'
      BY <1>3, <2>2, <3>4 DEF Content, Moves, Replies
    <3>6. Pulls(call)' => FALSE
      BY <1>3, <2>2, <3>2 DEF Pulls, Moves, Moved
    <3> QED BY <3>1, <3>3, <3>4, <3>5, <3>6 DEF Moves
  <2> QED BY <2>1, <2>2
<1>7. AtStatus'
  <2>1. st' = "good" => Refusal = "none"
    BY <1>2
  <2>2. call' = call
    BY <1>3
  <2> QED BY <1>2, <1>4, <1>5, <1>6, <2>1, <2>2 DEF AtStatus, Outcome
<1> QED BY <1>1, <1>2, <1>3, <1>7, ExecPhase DEF AtExec

LEMMA ReadBlockPhase == ASSUME DataInv, NEW ok \in BOOLEAN, ReadBlock(ok) PROVE Phase'
<1>1. /\ pc = "exec" /\ Moving /\ Loaded /\ Progress /\ cdb.op = "read"
      /\ dbuf = [j \in Cell |-> dbuf[j]]
  BY DEF DataInv, Phase, AtExec, ReadBlock, DataType
<1>2. /\ cdb = call /\ scsi_base = Base(kind) /\ Base(kind) \in Nat /\ call.lba \in Nat
      /\ blk \in Cell /\ blk \in Nat /\ blk < Moved(call) /\ Moved(call) \in Nat
  BY <1>1, MovingFacts DEF DataInv, DataType
<1>3. /\ wrptr' = 0 /\ call.op = "read"
      /\ UNCHANGED <<kind, file, call, cdb, rom, cmd_req, cmd_ack, auxstatus>>
  BY <1>1, <1>2 DEF ReadBlock, imageVars, boxVars, auxVars, romVars
<1>4. ASSUME ok PROVE \A m : m = blk + 1 => InBuffer(m)'
  <2>1. dbuf' = [dbuf EXCEPT ![blk] = file[Base(kind) + call.lba + blk]]
    BY <1>2, <1>4 DEF ReadBlock
  <2>2. \A j \in Cell : dbuf'[j] = IF j = blk THEN file[Base(kind) + call.lba + blk] ELSE dbuf[j]
    BY <1>1, <1>2, <2>1
  <2>3. InBuffer(blk)
    BY <1>1, <1>2, <1>3 DEF Progress
  <2>4. \A j \in Cell : j < blk + 1 => dbuf'[j] = file[Base(kind) + call.lba + j]
    BY <1>2, <2>2, <2>3 DEF InBuffer, Cell
  <2> QED BY <1>3, <2>4 DEF InBuffer, Base
<1>5. CASE ok /\ blk + 1 < Moved(call)
  <2>1. UNCHANGED <<scsi_sense, owed, pc>> /\ blk' = blk + 1
    BY <1>2, <1>5 DEF ReadBlock
  <2>2. Loaded'
    BY <1>1, <1>3, <2>1 DEF Loaded, SenseKept
  <2>3. InBuffer(blk)'
    BY <1>4, <1>5, <2>1 DEF InBuffer
  <2>4. Progress'
    BY <1>2, <1>3, <1>5, <2>1, <2>3 DEF Progress, Moved
  <2> QED BY <1>1, <1>3, <2>1, <2>2, <2>4, ExecPhase DEF AtExec, AtStatus
<1>6. CASE ok /\ ~(blk + 1 < Moved(call))
  <2>1. /\ st' = "good" /\ scsi_sense' = "none" /\ owed' = "none" /\ pc' = "status" /\ rdptr' = 0
    BY <1>1, <1>2, <1>6 DEF ReadBlock, Finish
  <2>2. Moved(call) = blk + 1
    BY <1>2, <1>6
  <2>3. InBuffer(Moved(call))'
    BY <1>3, <1>4, <1>6, <2>2 DEF InBuffer, Moved
  <2>4. Content'
    BY <1>3, <2>3 DEF Content
  <2>5. Outcome(st)'
    BY <1>3, <2>1, <2>4 DEF Outcome, SenseKept
  <2> QED BY <1>1, <1>3, <2>1, <2>5, ExecPhase DEF AtExec, AtStatus
<1>7. CASE ~ok
  <2>1. /\ st' = "check" /\ scsi_sense' = "read" /\ owed' = "read" /\ pc' = "status"
    BY <1>1, <1>7 DEF ReadBlock, Finish
  <2>2. Outcome(st)'
    BY <1>3, <2>1 DEF Outcome, SenseKept
  <2> QED BY <1>1, <1>3, <2>1, <2>2, ExecPhase DEF AtExec, AtStatus
<1> QED BY <1>5, <1>6, <1>7

\* Where a step of a write puts what.
LEMMA WriteBlockFile ==
    ASSUME DataInv, NEW ok \in BOOLEAN, NEW landed \in BOOLEAN, WriteBlock(ok, landed)
    PROVE  /\ call.op = "write" /\ blk \in Cell /\ blk < Moved(call)
           /\ \A u \in Pos : file'[u] = IF landed /\ u = Base(kind) + call.lba + blk
                                        THEN Payload(blk) ELSE file[u]
<1>1. /\ pc = "exec" /\ Moving /\ Loaded /\ cdb.op = "write"
      /\ file = [u \in Pos |-> file[u]]
  BY DEF DataInv, Phase, AtExec, WriteBlock, DataType
<1>2. /\ cdb = call /\ scsi_base = Base(kind) /\ Base(kind) \in Nat /\ call.lba \in Nat
      /\ blk \in Cell /\ blk \in Nat /\ blk < Moved(call) /\ Moved(call) \in Nat
  BY <1>1, MovingFacts DEF DataInv, DataType
<1>3. dbuf[blk] = Payload(blk)
  BY <1>1, <1>2 DEF Loaded, Out
<1>4. file' = IF landed THEN [file EXCEPT ![Base(kind) + call.lba + blk] = Payload(blk)] ELSE file
  BY <1>2, <1>3 DEF WriteBlock
<1> QED BY <1>1, <1>2, <1>4

LEMMA WriteBlockPhase ==
    ASSUME DataInv, NEW ok \in BOOLEAN, NEW landed \in BOOLEAN, WriteBlock(ok, landed)
    PROVE  Phase'
<1>1. pc = "exec" /\ Moving /\ Loaded /\ Progress /\ cdb.op = "write"
  BY DEF DataInv, Phase, AtExec, WriteBlock
<1>2. /\ cdb = call /\ scsi_base = Base(kind) /\ Base(kind) \in Nat /\ call.lba \in Nat
      /\ blk \in Cell /\ blk \in Nat /\ blk < Moved(call) /\ Moved(call) \in Nat
      /\ Base(kind) + call.lba + Moved(call) <= FileLen
  BY <1>1, MovingFacts DEF DataInv, DataType
<1>3. /\ call.op = "write"
      /\ UNCHANGED <<kind, dbuf, rdptr, call, cdb, rom, cmd_req, cmd_ack, auxstatus>>
  BY <1>1, <1>2 DEF WriteBlock, boxVars, auxVars, romVars
<1>4. ASSUME ok PROVE \A m : m = blk + 1 => InFile(m)'
  <2>1. \A u \in Pos : file'[u] = IF u = Base(kind) + call.lba + blk THEN Payload(blk) ELSE file[u]
    BY <1>4, WriteBlockFile DEF WriteBlock
  <2>2. InFile(blk)
    BY <1>1, <1>2, <1>3 DEF Progress
  <2>3. \A j \in Cell : j < blk + 1 => Base(kind) + call.lba + j \in Pos
    BY <1>2, ScsiAssumption DEF Cell, Pos
  <2>4. \A j \in Cell : j < blk + 1 => file'[Base(kind) + call.lba + j] = Payload(j)
    <3> TAKE j \in Cell
    <3> HAVE j < blk + 1
    <3>1. CASE j = blk
      BY <2>1, <2>3, <3>1
    <3>2. CASE j < blk
      <4>1. Base(kind) + call.lba + j # Base(kind) + call.lba + blk
        BY <1>2, <3>2 DEF Cell
      <4> QED BY <2>1, <2>2, <2>3, <3>2, <4>1 DEF InFile
    <3> QED BY <1>2, <3>1, <3>2 DEF Cell
  <2> QED BY <1>3, <2>4 DEF InFile, Base
<1>5. CASE ok /\ blk + 1 < Moved(call)
  <2>1. UNCHANGED <<wrptr, scsi_sense, owed, pc>> /\ blk' = blk + 1
    BY <1>2, <1>5 DEF WriteBlock
  <2>2. Loaded'
    BY <1>1, <1>3, <2>1 DEF Loaded, SenseKept, Out, Moved
  <2>3. InFile(blk)'
    BY <1>4, <1>5, <2>1 DEF InFile
  <2>4. Progress'
    BY <1>2, <1>3, <1>5, <2>1, <2>3 DEF Progress, Moved
  <2> QED BY <1>1, <1>3, <2>1, <2>2, <2>4, ExecPhase DEF AtExec, AtStatus
<1>6. CASE ok /\ ~(blk + 1 < Moved(call))
  <2>1. /\ st' = "good" /\ scsi_sense' = "none" /\ owed' = "none" /\ pc' = "status" /\ wrptr' = 0
    BY <1>1, <1>2, <1>6 DEF WriteBlock, Finish
  <2>2. Moved(call) = blk + 1
    BY <1>2, <1>6
  <2>3. InFile(Moved(call))'
    BY <1>3, <1>4, <1>6, <2>2 DEF InFile, Moved
  <2>4. Content' /\ ~Pulls(call)'
    BY <1>3 DEF Content, Pulls, Replies
  <2>5. Outcome(st)'
    BY <1>3, <2>1, <2>3, <2>4 DEF Outcome, SenseKept
  <2> QED BY <1>1, <1>3, <2>1, <2>5, ExecPhase DEF AtExec, AtStatus
<1>7. CASE ~ok
  <2>1. /\ st' = "check" /\ scsi_sense' = "write" /\ owed' = "write" /\ pc' = "status"
    BY <1>1, <1>7 DEF WriteBlock, Finish
  <2>2. Outcome(st)'
    BY <1>3, <2>1 DEF Outcome, SenseKept
  <2> QED BY <1>1, <1>3, <2>1, <2>2, ExecPhase DEF AtExec, AtStatus
<1> QED BY <1>5, <1>6, <1>7

-----------------------------------------------------------------------------
(* Types.                                                                   *)

LEMMA TypeStep == ASSUME DataInv, [Next]_vars PROVE DataType'
<1> USE DEF imageVars, boxVars, auxVars, bufVars, runVars, diskVars, mainVars, romVars
<1>0. DataType
  BY DEF DataInv
<1>1. ASSUME NEW c \in Command, Issue(c) PROVE DataType'
  BY <1>0, <1>1 DEF Issue, DataType, RomPlace
<1>2. CASE Fill
  <2>1. dbuf' = [j \in Cell |-> dbuf'[j]]
    BY <1>0, <1>2 DEF Fill, DataType
  <2> QED BY <1>0, <1>2, <2>1 DEF Fill, DataType, RomPlace
<1>3. CASE Emit \/ StrobeStart \/ StrobeEnd
  BY <1>0, <1>3 DEF Emit, StrobeStart, StrobeEnd, DataType, RomPlace
<1>4. CASE Status \/ Pull
  BY <1>0, <1>4, SpecialCommands DEF Status, Pull, DataType, RomPlace
<1>5. CASE MountSkip \/ MountBegin \/ PollIdle \/ Claim \/ StatusWrite \/ AuxWrite
  BY <1>0, <1>5, SpecialCommands
     DEF MountSkip, MountBegin, PollIdle, Claim, StatusWrite, AuxWrite, DataType, FirmwarePlace
<1>6. ASSUME NEW r \in Delivery, FirstRead(r) \/ Probed(r) \/ ProbeFails(r) PROVE DataType'
  <2>1. \A f : Base(f) \in Nat /\ Capacity(f) \in Nat
    BY ScsiAssumption DEF Base, Capacity
  <2> QED BY <1>0, <1>6, <2>1 DEF FirstRead, Probed, ProbeFails, DataType, FirmwarePlace
<1>7. CASE NoMove
  <2>1. dbuf' = [j \in Cell |-> dbuf'[j]]
    BY <1>0, <1>7 DEF NoMove, DataType
  <2> QED BY <1>0, <1>7, <2>1 DEF NoMove, Finish, DataType, FirmwarePlace
<1>8. ASSUME NEW ok \in BOOLEAN, ReadBlock(ok) PROVE DataType'
  <2>1. dbuf' = [j \in Cell |-> dbuf'[j]]
    BY <1>0, <1>8 DEF ReadBlock, DataType
  <2> QED BY <1>0, <1>8, <2>1 DEF ReadBlock, Finish, DataType, FirmwarePlace
<1>9. ASSUME NEW ok \in BOOLEAN, NEW landed \in BOOLEAN, WriteBlock(ok, landed) PROVE DataType'
  <2>1. file' = [u \in Pos |-> file'[u]]
    BY <1>0, <1>9 DEF WriteBlock, DataType
  <2> QED BY <1>0, <1>9, <2>1 DEF WriteBlock, Finish, DataType, FirmwarePlace
<1>10. CASE UNCHANGED vars
  BY <1>0, <1>10 DEF vars, DataType
<1> QED BY <1>1, <1>2, <1>3, <1>4, <1>5, <1>6, <1>7, <1>8, <1>9, <1>10 DEF Next, Firmware, Guest

-----------------------------------------------------------------------------
(* Every step keeps DataInv.                                                *)

LEMMA PhaseStep == ASSUME DataInv, [Next]_vars PROVE Phase'
<1> USE DEF imageVars, boxVars, auxVars, bufVars, runVars, diskVars, mainVars, romVars
<1>1. CASE Guest \/ \E c \in Command : Issue(c)
  BY <1>1, IssuePhase, FillPhase, EmitPhase, StrobePhase, StatusPhase, PullPhase DEF Guest
<1>2. CASE MountSkip \/ MountBegin \/ PollIdle
  BY <1>2, LoopPhase DEF MountSkip, MountBegin, PollIdle, DataView
<1>3. ASSUME NEW r \in Delivery, FirstRead(r) \/ Probed(r) \/ ProbeFails(r) PROVE Phase'
  <2>1. /\ UNCHANGED DataView
        /\ UNCHANGED <<rom, n, cmd_req, cmd_ack, auxstatus, scsistatus, cdb, blk>>
    BY <1>3 DEF FirstRead, Probed, ProbeFails, DataView
  <2>2. CASE pc = "mount_hdr"
    <3>1. pc' \notin {"exec_hdr", "exec", "status", "aux"}
      BY <1>3, <2>2 DEF FirstRead, Probed, ProbeFails
    <3>2. (owed' = owed /\ scsi_sense' = scsi_sense) \/ owed' = "none"
      BY <1>3, <2>2 DEF FirstRead, Probed, ProbeFails
    <3> QED BY <2>1, <2>2, <3>1, <3>2, LoopPhase
  <2>3. CASE pc = "exec_hdr"
    <3>1. pc' \in {"exec_hdr", "exec"} /\ owed' = owed /\ scsi_sense' = scsi_sense
      BY <1>3, <2>3 DEF FirstRead, Probed, ProbeFails
    <3> QED BY <2>1, <2>3, <3>1, HeaderPhase DEF DataView
  <2> QED BY <1>3, <2>2, <2>3 DEF FirstRead, Probed, ProbeFails
<1>4. CASE Claim \/ NoMove \/ StatusWrite \/ AuxWrite
  BY <1>4, ClaimPhase, NoMovePhase, CompletePhase
<1>5. CASE \/ \E ok \in BOOLEAN : ReadBlock(ok)
           \/ \E ok, landed \in BOOLEAN : WriteBlock(ok, landed)
  BY <1>5, ReadBlockPhase, WriteBlockPhase
<1>6. CASE UNCHANGED vars
  BY <1>6 DEF vars, DataInv, Phase, AtIdle, AtFill, AtEmit, AtBox, AtHeader, AtExec, AtStatus,
       AtAux, AtPull, InMailbox, Loaded, Progress, Outcome, Content, SenseKept, Out, InFile,
       InBuffer, Pulls, Moved, Base, Capacity
<1> QED BY <1>1, <1>2, <1>3, <1>4, <1>5, <1>6 DEF Next, Firmware

LEMMA DataStep == DataInv /\ [Next]_vars => DataInv'
  BY BoxStep, ClassStep, TypeStep, PhaseStep DEF DataInv

LEMMA DataInit == Init => DataInv
<1> SUFFICES ASSUME Init PROVE DataInv
  OBVIOUS
<1>1. BoxInv /\ ClassRight
  BY DEF Init, BoxInv, Presented, OneCompletion, InMailbox, InFirmware, ClassRight
<1>2. DataType
  BY SpecialCommands DEF Init, DataType, RomPlace, FirmwarePlace
<1>3. Phase
  BY DEF Init, Phase, AtIdle, AtFill, AtEmit, AtBox, AtHeader, AtExec, AtStatus, AtAux, AtPull,
       InMailbox, SenseKept
<1> QED BY <1>1, <1>2, <1>3 DEF DataInv

LEMMA DataAlways == Spec => []DataInv
  BY DataInit, DataStep, PTL DEF Spec

-----------------------------------------------------------------------------

\* The file changes only under a write of the guest that waits for it, within
\* the blocks it named, each getting the block the guest put out for it
\* (scsi_do_write behind the mailbox and the board's write pointer).
THEOREM WritesOnlyAsked == Spec => WriteRight
<1>1. ASSUME DataInv, [Next]_vars
      PROVE  [\A u \in Pos : file'[u] # file[u] =>
                /\ rom \in {"wait", "strobe"} /\ call.op = "write"
                /\ \E j \in 0..(Moved(call) - 1) :
                       u = Base(kind) + call.lba + j /\ file'[u] = Payload(j)]_vars
  <2>1. CASE file' = file
    BY <2>1
  <2>2. ASSUME NEW ok \in BOOLEAN, NEW landed \in BOOLEAN, WriteBlock(ok, landed)
        PROVE  \A u \in Pos : file'[u] # file[u] =>
                 /\ rom \in {"wait", "strobe"} /\ call.op = "write"
                 /\ \E j \in 0..(Moved(call) - 1) :
                        u = Base(kind) + call.lba + j /\ file'[u] = Payload(j)
    <3>1. rom \in {"wait", "strobe"}
      BY <1>1, <2>2, Working DEF WriteBlock, InFirmware, DataInv
    <3>2. /\ call.op = "write" /\ blk \in Cell /\ blk < Moved(call)
          /\ \A u \in Pos : file'[u] = IF landed /\ u = Base(kind) + call.lba + blk
                                       THEN Payload(blk) ELSE file[u]
      BY <1>1, <2>2, WriteBlockFile
    <3>3. blk \in 0..(Moved(call) - 1)
      <4>1. Moved(call) \in Nat
        BY <1>1, CommandFacts DEF DataInv, DataType
      <4> QED BY <3>2, <4>1 DEF Cell
    <3> QED BY <3>1, <3>2, <3>3
  <2>3. file' = file \/ \E ok, landed \in BOOLEAN : WriteBlock(ok, landed)
    BY <1>1 DEF Next, Firmware, Guest, Issue, Fill, Emit, StrobeStart, StrobeEnd, Status, Pull,
         MountSkip, MountBegin, FirstRead, Probed, ProbeFails, PollIdle, Claim, NoMove, ReadBlock,
         StatusWrite, AuxWrite, vars, imageVars
  <2> QED BY <2>1, <2>2, <2>3
<1> QED BY <1>1, DataAlways, PTL DEF Spec, WriteRight

\* A write that ends with a good status is in the file, all of it, whatever the
\* transfers of other commands did (scsi_do_write, scsi_complete).
THEOREM GoodWritesKept == Spec => WriteKept
<1>1. ASSUME DataInv
      PROVE  [(Status /\ call.op = "write" /\ scsistatus = "good") =>
                \A j \in 0..(Moved(call) - 1) :
                    file[Base(kind) + call.lba + j] = Payload(j)]_vars
  <2> SUFFICES ASSUME Status, call.op = "write", scsistatus = "good",
                      NEW j \in 0..(Moved(call) - 1)
               PROVE  file[Base(kind) + call.lba + j] = Payload(j)
    OBVIOUS
  <2>1. InFile(Moved(call))
    BY <1>1 DEF DataInv, Phase, AtAux, Outcome, Status
  <2>2. Moved(call) \in Nat /\ Moved(call) <= MaxBlocks /\ MaxBlocks \in Nat
    BY <1>1, CommandFacts, ScsiAssumption DEF DataInv, DataType
  <2>3. j \in Cell /\ j < Moved(call)
    BY <2>2 DEF Cell
  <2> QED BY <2>1, <2>3 DEF InFile
<1> QED BY <1>1, DataAlways, PTL DEF WriteKept

\* What the guest pulls out after a good status answers the very command it
\* sent: the blocks of the file, in order, or that command's own reply
\* (scsi_do_read, scsi_data_begin and the pointers of pc98_scsi.sv).
THEOREM AnswersRight == Spec => AnswerRight
<1>1. ASSUME DataInv
      PROVE  [Pull =>
          /\ call.op = "read" => dbuf[rdptr] = file[Base(kind) + call.lba + n]
          /\ call.op = "capacity" => dbuf[rdptr] = Reply("capacity", Capacity(kind) - 1)
          /\ call.op = "sense" => owed = "none" \/ dbuf[rdptr] = Reply("sense", owed)
          /\ call.op \notin {"read", "capacity", "sense"} => dbuf[rdptr][1] = call.op]_vars
  <2> SUFFICES ASSUME Pull
               PROVE  /\ call.op = "read" => dbuf[rdptr] = file[Base(kind) + call.lba + n]
                      /\ call.op = "capacity" => dbuf[rdptr] = Reply("capacity", Capacity(kind) - 1)
                      /\ call.op = "sense" => owed = "none" \/ dbuf[rdptr] = Reply("sense", owed)
                      /\ call.op \notin {"read", "capacity", "sense"} => dbuf[rdptr][1] = call.op
    OBVIOUS
  <2>1. /\ Content /\ Pulls(call) /\ rdptr = n /\ n \in Nat
        /\ (call.op = "read" => n < Moved(call)) /\ (call.op # "read" => n = 0)
    BY <1>1 DEF DataInv, Phase, AtPull, Pull, DataType
  <2>2. call.op = "read" => dbuf[rdptr] = file[Base(kind) + call.lba + n]
    <3>1. Moved(call) \in Nat /\ Moved(call) <= MaxBlocks /\ MaxBlocks \in Nat
      BY <1>1, CommandFacts, ScsiAssumption DEF DataInv, DataType
    <3>2. call.op = "read" => n \in Cell
      BY <2>1, <3>1 DEF Cell
    <3> QED BY <2>1, <3>2 DEF Content, InBuffer
  <2>3. call.op = "inquiry" => dbuf[rdptr][1] = "inquiry"
    BY <2>1 DEF Content, Reply
  <2> QED BY <2>1, <2>2, <2>3 DEF Content, Pulls, Replies
<1> QED BY <1>1, DataAlways, PTL DEF AnswerRight
=============================================================================
