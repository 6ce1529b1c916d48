----------------------------- MODULE TdsEngine ------------------------------
(***************************************************************************)
(* A target-dataslot transfer, from the firmware's call to the host's DMA: *)
(* tds_transfer_to of firmware/disk_tds.c, the handshake registers of      *)
(* softcpu_fdd_bridge.sv and the target executor of core_bridge_cmd.v.     *)
(*                                                                         *)
(* A job stands for the arguments of one call.  The firmware writes them   *)
(* into four registers, one store each, so a register file can mix two     *)
(* jobs.  The clock crossings deliver in order and faster than a store of  *)
(* the firmware; an edge is seen when it happens.                          *)
(*                                                                         *)
(* Two contexts call: "main", and "irq", the timer interrupt, which runs   *)
(* on top of main and finishes first.                                      *)
(***************************************************************************)
EXTENDS Naturals

CONSTANTS Job, NoJob,
          Dir,         \* Dir[j]: "read" or "write"
          Timeouts,    \* a call may give up before the host answers
          Interrupts,  \* the timer interrupt may transfer too
          HostErrs     \* the host may answer with an error

ASSUME JobAssumption ==
    /\ NoJob \notin Job
    /\ Dir \in [Job -> {"read", "write"}]
    /\ Timeouts \in BOOLEAN /\ Interrupts \in BOOLEAN /\ HostErrs \in BOOLEAN

Context == {"main", "irq"}
Reg == {"id", "offset", "bridge", "length"}
Dirs == {"read", "write"}

VARIABLES
    pc, job,            \* per context: place in the call, and its arguments
    result,             \* per context: what the last call returned
    reg,                \* the job each register was last written for
    lvl,                \* tds_read_r, tds_write_r
    queue,              \* target_dataslot_read_queue, ..._write_queue
    tstate, op,         \* the executor, and the command it gave the host
    ack,                \* target_dataslot_ack: the host is at work
    tds_done, tds_err,  \* the status register
    served,             \* (history) the call's own command has completed
    last,               \* (history) the last command the host carried out
    rose                \* (history) done rose since this context's trigger

fwVars   == <<pc, job, result>>
cmdVars  == <<lvl, queue, tstate, op, ack>>
histVars == <<served, last, rose>>
vars == <<fwVars, reg, cmdVars, tds_done, tds_err, histVars>>

\* The command that carries out a job as the call meant it.
Whole(j) == [dir |-> Dir[j], regs |-> [r \in Reg |-> j]]
NoOp == [dir |-> "read", regs |-> [r \in Reg |-> NoJob]]

Init ==
    /\ pc = [c \in Context |-> "idle"] /\ job = [c \in Context |-> NoJob]
    /\ result = [c \in Context |-> "none"]
    /\ reg = [r \in Reg |-> NoJob]
    /\ lvl = [d \in Dirs |-> FALSE] /\ queue = [d \in Dirs |-> FALSE]
    /\ tstate = "idle" /\ op = NoOp /\ ack = FALSE
    /\ tds_done = FALSE /\ tds_err = FALSE
    /\ served = [c \in Context |-> "no"] /\ last = NoOp
    /\ rose = [c \in Context |-> FALSE]

-----------------------------------------------------------------------------
(* tds_transfer_to.  The interrupted main loop stands still meanwhile.  An  *)
(* idle executor takes a queued command within a few clocks, before the    *)
(* firmware's next store.                                                  *)

Runs(c) ==
    /\ c = "main" => pc["irq"] = "idle"
    /\ tstate = "idle" => \A d \in Dirs : ~queue[d]

Begin(c, j) ==
    /\ Runs(c) /\ pc[c] = "idle" /\ (c = "irq" => Interrupts)
    /\ pc' = [pc EXCEPT ![c] = "id"] /\ job' = [job EXCEPT ![c] = j]
    /\ served' = [served EXCEPT ![c] = "no"]
    /\ rose' = [rose EXCEPT ![c] = FALSE]
    /\ UNCHANGED <<result, reg, cmdVars, tds_done, tds_err, last>>

\* (mutant) The offset register is forgotten.
AfterNoOffset == [id |-> "bridge", offset |-> "bridge", bridge |-> "length",
                  length |-> "clr"]

After == [id |-> "offset", offset |-> "bridge", bridge |-> "length",
          length |-> "clr"]

WriteReg(c) ==
    /\ Runs(c) /\ pc[c] \in Reg
    /\ reg' = [reg EXCEPT ![pc[c]] = job[c]]
    /\ pc' = [pc EXCEPT ![c] = After[pc[c]]]
    /\ UNCHANGED <<job, result, cmdVars, tds_done, tds_err, histVars>>

Clr(c) ==
    /\ Runs(c) /\ pc[c] = "clr"
    /\ tds_done' = FALSE
    /\ pc' = [pc EXCEPT ![c] = "trig"]
    /\ UNCHANGED <<job, result, reg, cmdVars, tds_err, histVars>>

\* (mutant) The trigger does not clear done.
TrigKeepsDone(c) ==
    LET d == Dir[job[c]] IN
    /\ Runs(c) /\ pc[c] = "trig"
    /\ lvl' = [lvl EXCEPT ![d] = ~ack]
    /\ queue' = [queue EXCEPT ![d] = @ \/ (~lvl[d] /\ lvl'[d])]
    /\ pc' = [pc EXCEPT ![c] = "wait"]
    /\ UNCHANGED <<job, result, reg, tstate, op, ack, tds_done, tds_err,
                   histVars>>

\* The trigger raises a level, which the acknowledge of an earlier command
\* still holds down; the executor queues its rising edge.
Trig(c) ==
    LET d == Dir[job[c]] IN
    /\ Runs(c) /\ pc[c] = "trig"
    /\ lvl' = [lvl EXCEPT ![d] = ~ack]
    /\ queue' = [queue EXCEPT ![d] = @ \/ (~lvl[d] /\ lvl'[d])]
    /\ tds_done' = FALSE
    /\ pc' = [pc EXCEPT ![c] = "wait"]
    /\ UNCHANGED <<job, result, reg, tstate, op, ack, tds_err, histVars>>

\* (mutant) The error bits are not looked at.
ReturnAny(c, ok) ==
    /\ Runs(c) /\ pc[c] = "wait" /\ tds_done /\ ok
    /\ pc' = [pc EXCEPT ![c] = "idle"] /\ job' = [job EXCEPT ![c] = NoJob]
    /\ result' = [result EXCEPT ![c] = "ok"]
    /\ UNCHANGED <<reg, cmdVars, tds_done, tds_err, histVars>>

\* (mutant) An error is retried, without a bound.
ReturnRetries(c, ok) ==
    /\ Runs(c) /\ pc[c] = "wait" /\ tds_done /\ ok = ~tds_err
    /\ pc' = [pc EXCEPT ![c] = IF ok THEN "idle" ELSE "id"]
    /\ job' = [job EXCEPT ![c] = IF ok THEN NoJob ELSE @]
    /\ result' = [result EXCEPT ![c] = IF ok THEN "ok" ELSE @]
    /\ UNCHANGED <<reg, cmdVars, tds_done, tds_err, histVars>>

\* The wait ends with done up: success unless the error bits are set.
Return(c, ok) ==
    /\ Runs(c) /\ pc[c] = "wait" /\ tds_done /\ ok = ~tds_err
    /\ pc' = [pc EXCEPT ![c] = "idle"] /\ job' = [job EXCEPT ![c] = NoJob]
    /\ result' = [result EXCEPT ![c] = IF ok THEN "ok" ELSE "failed"]
    /\ UNCHANGED <<reg, cmdVars, tds_done, tds_err, histVars>>

\* DISK_SPIN_LIMIT polls without done: the call fails, its command stays.
GiveUp(c) ==
    /\ Timeouts /\ Runs(c) /\ pc[c] = "wait" /\ ~tds_done
    /\ pc' = [pc EXCEPT ![c] = "idle"] /\ job' = [job EXCEPT ![c] = NoJob]
    /\ result' = [result EXCEPT ![c] = "failed"]
    /\ UNCHANGED <<reg, cmdVars, tds_done, tds_err, histVars>>

-----------------------------------------------------------------------------
(* core_bridge_cmd.v: TARG_ST_IDLE takes a queued command, a read first,   *)
(* with the registers as they are then.                                    *)

Take(d) ==
    /\ tstate = "idle" /\ queue[d] /\ (d = "write" => ~queue["read"])
    /\ queue' = [queue EXCEPT ![d] = FALSE]
    /\ op' = [dir |-> d, regs |-> reg]
    /\ tstate' = "dso"
    /\ UNCHANGED <<fwVars, reg, lvl, ack, tds_done, tds_err, histVars>>

\* "bu": the host has the command; the acknowledge drops both levels.
HostBusy ==
    /\ tstate = "dso" /\ ~ack
    /\ ack' = TRUE
    /\ lvl' = [d \in Dirs |-> FALSE]
    /\ UNCHANGED <<fwVars, reg, queue, tstate, op, tds_done, tds_err, histVars>>

\* "ok": the DMA is over; done rises and latches the result code.
HostOk(e) ==
    /\ tstate = "dso" /\ ack /\ (e => HostErrs)
    /\ tstate' = "idle" /\ ack' = FALSE
    /\ tds_done' = TRUE /\ tds_err' = e
    /\ last' = IF e THEN last ELSE op
    /\ served' = [c \in Context |->
                    IF job[c] \in Job /\ op = Whole(job[c])
                    THEN (IF e THEN "failed" ELSE "moved") ELSE served[c]]
    /\ rose' = [c \in Context |-> rose[c] \/ pc[c] = "wait"]
    /\ UNCHANGED <<fwVars, reg, lvl, queue, op>>

-----------------------------------------------------------------------------
Firmware(c) ==
    \/ WriteReg(c) \/ Clr(c) \/ Trig(c) \/ GiveUp(c)
    \/ \E ok \in BOOLEAN : Return(c, ok)

Host ==
    \/ \E d \in Dirs : Take(d)
    \/ HostBusy
    \/ \E e \in BOOLEAN : HostOk(e)

Next ==
    \/ \E c \in Context, j \in Job : Begin(c, j)
    \/ \E c \in Context : Firmware(c)
    \/ Host

Spec == Init /\ [][Next]_vars

\* A call that has begun goes on, and a host that answers at all answers.
FairSpec == Spec /\ WF_vars(Host) /\ \A c \in Context : WF_vars(Firmware(c))

-----------------------------------------------------------------------------
(* Properties.                                                             *)

TypeOK ==
    /\ pc \in [Context -> {"idle", "clr", "trig", "wait"} \cup Reg]
    /\ job \in [Context -> Job \cup {NoJob}]
    /\ result \in [Context -> {"none", "ok", "failed"}]
    /\ reg \in [Reg -> Job \cup {NoJob}]
    /\ lvl \in [Dirs -> BOOLEAN] /\ queue \in [Dirs -> BOOLEAN]
    /\ tstate \in {"idle", "dso"} /\ ack \in BOOLEAN
    /\ op \in [dir : Dirs, regs : [Reg -> Job \cup {NoJob}]]
    /\ last \in [dir : Dirs, regs : [Reg -> Job \cup {NoJob}]]
    /\ tds_done \in BOOLEAN /\ tds_err \in BOOLEAN
    /\ served \in [Context -> {"no", "moved", "failed"}]
    /\ rose \in [Context -> BOOLEAN]

\* "Non-zero on success": a call that reports success has had its own sector
\* moved by the host, and not another call's.
TransferFaithful ==
    [][ \A c \in Context :
          (pc[c] = "wait" /\ pc'[c] = "idle" /\ result'[c] = "ok") =>
              served[c] = "moved" ]_vars

\* The host is only ever given commands that some call asked for as a whole:
\* never one with the slot of one call and the offset of another.
CommandWhole == tstate = "dso" => \E j \in Job : op = Whole(j)

\* A done the firmware sees while it waits rose after its own trigger: one
\* that came late for an abandoned call, before the trigger, is not mistaken
\* for the answer.
DoneIsRecent == \A c \in Context : (pc[c] = "wait" /\ tds_done) => rose[c]

\* A call returns, whatever the host answers.
CallReturns == \A c \in Context : (pc[c] # "idle") ~> (pc[c] = "idle")

\* Calls that neither give up nor interrupt each other implement Transfer.
MoveOf(o) == IF \E j \in Job : o = Whole(j) THEN o.regs["id"] ELSE NoJob
Tr == INSTANCE Transfer WITH
    asked <- job["main"], result <- result["main"],
    phase <- IF pc["main"] = "idle" THEN "idle"
             ELSE IF served["main"] = "no" THEN "asked" ELSE served["main"],
    last  <- MoveOf(last)
Implements == Tr!Spec
=============================================================================
