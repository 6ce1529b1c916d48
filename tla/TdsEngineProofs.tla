--------------------------- MODULE TdsEngineProofs --------------------------
(* TdsEngine implements Transfer when calls neither give up nor interrupt   *)
(* one another, the hypothesis NoGiveUp.  Without it it does not: the late  *)
(* end of an abandoned transfer is taken for the next call's, and an        *)
(* interrupted call's registers are mixed with another.  What is left then  *)
(* is DoneRecent: types and DoneIsRecent need no such hypothesis.           *)
EXTENDS TdsEngine, TLAPS

NoGiveUp == ~Timeouts /\ ~Interrupts

\* The handshake is at rest: nothing raised, queued or in the host's hands.
AtRest ==
    /\ tstate = "idle" /\ ~ack
    /\ \A d \in Dirs : ~lvl[d] /\ ~queue[d]

\* The registers written so far hold the call's own arguments.
RegsOwn ==
    LET p == pc["main"] j == job["main"] IN
    /\ p \in {"offset", "bridge", "length", "clr", "trig", "wait"} =>
           reg["id"] = j
    /\ p \in {"bridge", "length", "clr", "trig", "wait"} => reg["offset"] = j
    /\ p \in {"length", "clr", "trig", "wait"} => reg["bridge"] = j
    /\ p \in {"clr", "trig", "wait"} => reg["length"] = j

\* The three stations of a command while its call waits.
Queued ==
    LET d == Dir[job["main"]] IN
    /\ tstate = "idle" /\ ~ack /\ ~tds_done /\ served["main"] = "no"
    /\ \A e \in Dirs : queue[e] <=> e = d

InHost ==
    /\ tstate = "dso" /\ ~tds_done /\ served["main"] = "no"
    /\ op = Whole(job["main"])
    /\ \A e \in Dirs : ~queue[e]
    /\ ack => \A e \in Dirs : ~lvl[e]

Answered ==
    /\ AtRest /\ tds_done
    /\ served["main"] = IF tds_err THEN "failed" ELSE "moved"

CallInv ==
    /\ TypeOK
    /\ pc["irq"] = "idle" /\ job["irq"] = NoJob
    /\ pc["main"] = "idle" <=> job["main"] = NoJob
    /\ pc["main"] # "wait" => AtRest
    /\ pc["main"] \notin {"idle", "wait"} => served["main"] = "no"
    /\ pc["main"] = "wait" => Queued \/ InHost \/ Answered
    /\ RegsOwn

-----------------------------------------------------------------------------
LEMMA CallInit == Init => CallInv
<1> SUFFICES ASSUME Init PROVE CallInv
  OBVIOUS
<1>1. TypeOK
  BY DEF Init, TypeOK, Context, Reg, Dirs, NoOp
<1>2. AtRest
  BY DEF Init, AtRest, Dirs
<1> QED BY <1>1, <1>2 DEF Init, CallInv, RegsOwn, Context

\* Types, one step per action.
LEMMA TypeStep == TypeOK /\ [Next]_vars => TypeOK'
<1> SUFFICES ASSUME TypeOK, [Next]_vars PROVE TypeOK'
  OBVIOUS
<1> USE DEF TypeOK, vars, fwVars, cmdVars, histVars
<1>1. ASSUME NEW c \in Context, NEW j \in Job, Begin(c, j) PROVE TypeOK'
  BY <1>1 DEF Begin, Reg
<1>2. ASSUME NEW c \in Context, WriteReg(c) PROVE TypeOK'
  BY <1>2 DEF WriteReg, After, Reg
<1>3. ASSUME NEW c \in Context, Clr(c) PROVE TypeOK'
  BY <1>3 DEF Clr
<1>4. ASSUME NEW c \in Context, Trig(c) PROVE TypeOK'
  BY <1>4 DEF Trig
<1>5. ASSUME NEW c \in Context, GiveUp(c) PROVE TypeOK'
  BY <1>5 DEF GiveUp
<1>6. ASSUME NEW c \in Context, NEW ok \in BOOLEAN, Return(c, ok) PROVE TypeOK'
  BY <1>6 DEF Return
<1>7. ASSUME NEW d \in Dirs, Take(d) PROVE TypeOK'
  BY <1>7 DEF Take
<1>8. CASE HostBusy
  BY <1>8 DEF HostBusy
<1>9. ASSUME NEW e \in BOOLEAN, HostOk(e) PROVE TypeOK'
  BY <1>9 DEF HostOk
<1>10. CASE UNCHANGED vars
  BY <1>10
<1> QED
  BY <1>1, <1>2, <1>3, <1>4, <1>5, <1>6, <1>7, <1>8, <1>9, <1>10
  DEF Next, Firmware, Host

\* The whole of the engine keeps its types, late answers and interrupts too.
THEOREM TypeCorrect == Spec => []TypeOK
<1>1. Init => TypeOK
  BY CallInit DEF CallInv
<1> QED BY <1>1, TypeStep, PTL DEF Spec

\* No step lets a stale done reach a waiting call: a call comes to wait only
\* through its trigger, which takes done down, and a done that rises marks
\* every call that waits.
LEMMA RecentStep == TypeOK /\ DoneIsRecent /\ [Next]_vars => DoneIsRecent'
<1> SUFFICES ASSUME TypeOK, DoneIsRecent, [Next]_vars,
                    NEW x \in Context, pc'[x] = "wait", tds_done'
             PROVE  rose'[x]
  BY DEF DoneIsRecent
<1>1. ASSUME NEW c \in Context, NEW j \in Job, Begin(c, j) PROVE rose'[x]
  <2>1. x # c /\ pc[x] = "wait" /\ tds_done
    BY <1>1 DEF Begin, TypeOK
  <2> QED BY <1>1, <2>1 DEF Begin, DoneIsRecent, TypeOK
<1>2. ASSUME NEW c \in Context, WriteReg(c) PROVE rose'[x]
  <2>1. After[pc[c]] # "wait"
    BY <1>2 DEF WriteReg, After, Reg
  <2>2. pc[x] = "wait" /\ tds_done
    BY <1>2, <2>1 DEF WriteReg, TypeOK
  <2> QED BY <1>2, <2>2 DEF WriteReg, DoneIsRecent, histVars
<1>3. ASSUME NEW c \in Context, Clr(c) \/ Trig(c) PROVE FALSE
  BY <1>3 DEF Clr, Trig
<1>4. ASSUME NEW c \in Context,
             GiveUp(c) \/ \E ok \in BOOLEAN : Return(c, ok)
      PROVE  rose'[x]
  <2>1. pc[x] = "wait" /\ tds_done /\ rose' = rose
    BY <1>4 DEF GiveUp, Return, TypeOK, histVars
  <2> QED BY <2>1 DEF DoneIsRecent
<1>5. CASE (\E d \in Dirs : Take(d)) \/ HostBusy \/ UNCHANGED vars
  BY <1>5 DEF Take, HostBusy, vars, fwVars, histVars, DoneIsRecent
<1>6. ASSUME NEW e \in BOOLEAN, HostOk(e) PROVE rose'[x]
  BY <1>6 DEF HostOk, fwVars
<1> QED BY <1>1, <1>2, <1>3, <1>4, <1>5, <1>6 DEF Next, Firmware, Host

\* Whatever gives up and whatever interrupts, a done that a waiting call sees
\* rose after that call's own trigger, and not before it for an abandoned one.
THEOREM DoneRecent == Spec => []DoneIsRecent
<1>1. Init => TypeOK /\ DoneIsRecent
  BY CallInit DEF CallInv, Init, DoneIsRecent
<1>2. TypeOK /\ DoneIsRecent /\ [Next]_vars => (TypeOK /\ DoneIsRecent)'
  BY TypeStep, RecentStep
<1> QED BY <1>1, <1>2, PTL DEF Spec

\* The registers as the executor takes them are the call's own command.
LEMMA OwnCommand ==
    ASSUME CallInv, pc["main"] = "wait"
    PROVE  [dir |-> Dir[job["main"]], regs |-> reg] = Whole(job["main"])
<1>1. \A r \in Reg : reg[r] = job["main"]
  BY DEF CallInv, RegsOwn, Reg
<1>2. reg = [r \in Reg |-> job["main"]]
  BY <1>1 DEF CallInv, TypeOK
<1> QED BY <1>2 DEF Whole

\* The firmware's steps, all of them main's.
LEMMA FirmwareStep ==
    ASSUME NoGiveUp, CallInv, NEW c \in Context,
           (\E j \in Job : Begin(c, j)) \/ Firmware(c)
    PROVE  CallInv'
<1> USE DEF CallInv
<1>a. c = "main"
  BY DEF NoGiveUp, Context, Begin, Firmware, WriteReg, Clr, Trig, GiveUp,
         Return, Reg
<1>b. TypeOK'
  BY TypeStep DEF Next
<1>c. /\ "main" \in Context /\ "irq" \in Context
      /\ job["main"] # NoJob => job["main"] \in Job
  BY DEF Context, TypeOK
<1>1. ASSUME NEW j \in Job, Begin("main", j) PROVE CallInv'
  <2>1. AtRest'
    BY <1>1 DEF Begin, AtRest, cmdVars
  <2>2. pc'["main"] = "id" /\ pc'["irq"] = "idle"
        /\ job'["main"] = j /\ job'["irq"] = NoJob /\ served'["main"] = "no"
    BY <1>1, <1>c DEF Begin, TypeOK
  <2> QED BY <1>b, <2>1, <2>2, JobAssumption DEF RegsOwn
<1>2. CASE WriteReg("main")
  <2>1. AtRest' /\ served'["main"] = "no"
    BY <1>2 DEF WriteReg, AtRest, cmdVars, histVars, Reg
  <2>2. /\ pc'["main"] = After[pc["main"]] /\ pc'["irq"] = "idle"
        /\ job' = job /\ reg' = [reg EXCEPT ![pc["main"]] = job["main"]]
        /\ pc["main"] \in {"id", "offset", "bridge", "length"}
    BY <1>2, <1>c DEF WriteReg, TypeOK, Reg
  <2>3. pc'["main"] \in {"offset", "bridge", "length", "clr"}
    BY <2>2 DEF After
  <2>4. RegsOwn'
    BY <2>2 DEF RegsOwn, After, TypeOK, Reg
  <2> QED BY <1>b, <2>1, <2>2, <2>3, <2>4
<1>3. CASE Clr("main")
  <2>1. AtRest' /\ served'["main"] = "no"
    BY <1>3 DEF Clr, AtRest, cmdVars, histVars
  <2>2. pc'["main"] = "trig" /\ pc'["irq"] = "idle" /\ job' = job /\ reg' = reg
    BY <1>3, <1>c DEF Clr, TypeOK
  <2> QED BY <1>3, <1>b, <2>1, <2>2 DEF RegsOwn, Clr
<1>4. CASE Trig("main")
  <2>1. AtRest /\ served["main"] = "no" /\ job["main"] \in Job
    BY <1>4, <1>c DEF Trig
  <2>2. pc'["main"] = "wait" /\ pc'["irq"] = "idle" /\ job' = job /\ reg' = reg
    BY <1>4, <1>c DEF Trig, TypeOK
  <2>3. Dir[job["main"]] \in Dirs
    BY <2>1, JobAssumption DEF Dirs
  <2>4. \A e \in Dirs : queue'[e] <=> e = Dir[job["main"]]
    BY <1>4, <2>1, <2>3 DEF Trig, AtRest, TypeOK
  <2>5. Queued'
    BY <1>4, <2>1, <2>2, <2>4 DEF Trig, AtRest, Queued, histVars
  <2> QED BY <1>4, <1>b, <2>2, <2>5 DEF RegsOwn, Trig
<1>5. ASSUME NEW ok \in BOOLEAN, Return("main", ok) PROVE CallInv'
  <2>1. AtRest
    BY <1>5 DEF Return, Queued, InHost, Answered
  <2>2. AtRest'
    BY <1>5, <2>1 DEF Return, AtRest, cmdVars
  <2>3. /\ pc'["main"] = "idle" /\ pc'["irq"] = "idle"
        /\ job'["main"] = NoJob /\ job'["irq"] = NoJob
    BY <1>5, <1>c DEF Return, TypeOK
  <2> QED BY <1>b, <2>2, <2>3 DEF RegsOwn
<1> QED
  BY <1>a, <1>1, <1>2, <1>3, <1>4, <1>5 DEF Firmware, GiveUp, NoGiveUp

\* The executor and the host move the command on from station to station.
LEMMA HostStep ==
    ASSUME NoGiveUp, CallInv, Host
    PROVE  CallInv'
<1> USE DEF CallInv
<1>b. TypeOK'
  BY TypeStep DEF Next
<1>c. pc["main"] = "wait" /\ UNCHANGED <<fwVars, reg>>
  BY DEF Host, Take, HostBusy, HostOk, AtRest
<1>d. job["main"] \in Job /\ Dir[job["main"]] \in Dirs
  BY <1>c, JobAssumption DEF TypeOK, Context, Dirs
<1>1. ASSUME NEW d \in Dirs, Take(d) PROVE CallInv'
  <2>1. Queued
    BY <1>1, <1>c DEF Take, InHost, Answered, AtRest
  <2>2. d = Dir[job["main"]]
    BY <1>1, <2>1 DEF Take, Queued
  <2>3. op' = Whole(job["main"])
    BY <1>1, <1>c, <2>2, OwnCommand DEF Take
  <2>4. \A e \in Dirs : ~queue'[e]
    BY <1>1, <2>1, <2>2 DEF Take, Queued, TypeOK
  <2>5. InHost'
    BY <1>1, <1>c, <2>1, <2>3, <2>4
    DEF Take, Queued, InHost, histVars, Whole, fwVars
  <2> QED BY <1>b, <1>c, <2>5 DEF RegsOwn, fwVars
<1>2. CASE HostBusy
  <2>1. InHost
    BY <1>2, <1>c DEF HostBusy, Queued, Answered, AtRest
  <2>2. InHost'
    BY <1>2, <1>c, <2>1 DEF HostBusy, InHost, histVars, Whole, fwVars
  <2> QED BY <1>b, <1>c, <2>2 DEF RegsOwn, fwVars
<1>3. ASSUME NEW e \in BOOLEAN, HostOk(e) PROVE CallInv'
  <2>1. InHost
    BY <1>3, <1>c DEF HostOk, Queued, Answered, AtRest
  <2>2. served'["main"] = IF e THEN "failed" ELSE "moved"
    BY <1>3, <1>d, <2>1 DEF HostOk, InHost, Context
  <2>3. AtRest'
    BY <1>3, <2>1 DEF HostOk, InHost, AtRest
  <2>4. Answered'
    BY <1>3, <2>2, <2>3 DEF HostOk, Answered
  <2> QED BY <1>b, <1>c, <2>4 DEF RegsOwn, fwVars
<1> QED BY <1>1, <1>2, <1>3 DEF Host

LEMMA CallStep == ASSUME NoGiveUp, CallInv, [Next]_vars PROVE CallInv'
<1>1. CASE UNCHANGED vars
  BY <1>1
  DEF vars, fwVars, cmdVars, histVars, CallInv, TypeOK, AtRest, RegsOwn, Queued,
      InHost, Answered, Whole
<1> QED BY <1>1, FirmwareStep, HostStep DEF Next

\* When calls neither give up nor interrupt one another, a call that reports
\* success has had its own sector moved, for any jobs and any host errors.
THEOREM Faithful == ASSUME NoGiveUp PROVE Spec => TransferFaithful
<1>1. Init => CallInv
  BY CallInit
<1>2. CallInv /\ [Next]_vars => CallInv'
  BY CallStep
<1>3. CallInv /\ [Next]_vars =>
        [\A c \in Context :
           (pc[c] = "wait" /\ pc'[c] = "idle" /\ result'[c] = "ok") =>
               served[c] = "moved"]_vars
  <2> SUFFICES ASSUME CallInv, Next, NEW c \in Context,
                      pc[c] = "wait", pc'[c] = "idle", result'[c] = "ok"
               PROVE  served[c] = "moved"
    OBVIOUS
  <2>1. c = "main"
    BY DEF CallInv, Context
  <2>2. \E ok \in BOOLEAN : Return("main", ok)
    BY <2>1 DEF Next, Begin, Firmware, WriteReg, Clr, Trig, GiveUp, Host, Take,
                HostBusy, HostOk, fwVars, Return, NoGiveUp, CallInv, TypeOK,
                Context, Reg
  <2>3. tds_done /\ ~tds_err
    BY <2>1, <2>2 DEF Return, CallInv, TypeOK
  <2> QED BY <2>1, <2>3 DEF CallInv, Queued, InHost, Answered
<1> QED BY <1>1, <1>2, <1>3, PTL DEF Spec, TransferFaithful

\* Under the same condition the host is never given a command that mixes the
\* arguments of two calls.
THEOREM NeverMixed == ASSUME NoGiveUp PROVE Spec => []CommandWhole
<1>1. Init => CallInv
  BY CallInit
<1>2. CallInv /\ [Next]_vars => CallInv'
  BY CallStep
<1>3. CallInv => CommandWhole
  <2> SUFFICES ASSUME CallInv, tstate = "dso" PROVE \E j \in Job : op = Whole(j)
    BY DEF CommandWhole
  <2>1. InHost /\ job["main"] \in Job
    BY DEF CallInv, AtRest, Queued, Answered, TypeOK, Context
  <2> QED BY <2>1 DEF InHost
<1> QED BY <1>1, <1>2, <1>3, PTL DEF Spec

-----------------------------------------------------------------------------
(* The refinement: every step of the engine is a step of Transfer or leaves *)
(* its variables alone.                                                     *)

LEMMA MoveOfWhole == ASSUME NEW j \in Job PROVE MoveOf(Whole(j)) = j
  BY DEF MoveOf, Whole, Reg

LEMMA RefinesInit == Init => Tr!Init
<1> SUFFICES ASSUME Init PROVE Tr!Init
  OBVIOUS
<1>1. \A j \in Job : NoOp # Whole(j)
  <2> SUFFICES ASSUME NEW j \in Job, NoOp = Whole(j) PROVE FALSE
    OBVIOUS
  <2>1. NoOp.regs["id"] = NoJob /\ Whole(j).regs["id"] = j
    BY DEF NoOp, Whole, Reg
  <2> QED BY <2>1, JobAssumption
<1> QED BY <1>1 DEF Init, Tr!Init, MoveOf, Context

LEMMA RefinesStep ==
    ASSUME NoGiveUp, CallInv, [Next]_vars
    PROVE  [Tr!Next]_Tr!vars
<1> USE DEF CallInv
<1>m. "main" \in Context
  BY DEF Context
<1>1. ASSUME NEW c \in Context, NEW j \in Job, Begin(c, j) PROVE Tr!Next
  <2>1. c = "main"
    BY <1>1 DEF Begin, NoGiveUp, Context
  <2>2. /\ pc["main"] = "idle" /\ pc'["main"] = "id" /\ job'["main"] = j
        /\ served'["main"] = "no" /\ UNCHANGED <<result, last>>
    BY <1>1, <1>m, <2>1 DEF Begin, TypeOK
  <2>3. Tr!Ask(j)
    BY <2>2 DEF Tr!Ask, MoveOf
  <2> QED BY <2>3 DEF Tr!Next
<1>2. ASSUME NEW c \in Context, WriteReg(c) \/ Clr(c) \/ Trig(c)
      PROVE  UNCHANGED Tr!vars
  <2>1. c = "main"
    BY <1>2 DEF WriteReg, Clr, Trig, Context, Reg
  <2>2. pc["main"] # "idle" /\ pc'["main"] # "idle"
    BY <1>2, <1>m, <2>1 DEF WriteReg, Clr, Trig, TypeOK, Reg, After
  <2>3. UNCHANGED <<job, result, served, last>>
    BY <1>2 DEF WriteReg, Clr, Trig, histVars
  <2> QED BY <2>2, <2>3 DEF Tr!vars, MoveOf
<1>3. ASSUME NEW c \in Context, NEW ok \in BOOLEAN, Return(c, ok) PROVE Tr!Next
  <2>1. c = "main"
    BY <1>3 DEF Return, Context
  <2>2. Answered
    BY <1>3, <2>1 DEF Return, Queued, InHost
  <2>3. /\ pc["main"] = "wait" /\ pc'["main"] = "idle" /\ job'["main"] = NoJob
        /\ UNCHANGED <<served, last>> /\ ok = ~tds_err
        /\ result'["main"] = IF ok THEN "ok" ELSE "failed"
    BY <1>3, <1>m, <2>1 DEF Return, TypeOK, histVars
  <2>4. Tr!Return(ok)
    <3>1. served["main"] = IF ok THEN "moved" ELSE "failed"
      BY <2>2, <2>3 DEF Answered, TypeOK
    <3> QED BY <2>3, <3>1 DEF Tr!Return, MoveOf
  <2> QED BY <2>4 DEF Tr!Next
<1>4. CASE (\E d \in Dirs : Take(d)) \/ HostBusy
  BY <1>4 DEF Take, HostBusy, fwVars, histVars, Tr!vars, MoveOf
<1>5. ASSUME NEW e \in BOOLEAN, HostOk(e) PROVE Tr!Next
  <2>1. pc["main"] = "wait" /\ InHost /\ job["main"] \in Job
    BY <1>5 DEF HostOk, Queued, Answered, AtRest, TypeOK, Context
  <2>2. /\ served'["main"] = IF e THEN "failed" ELSE "moved"
        /\ UNCHANGED <<pc, job, result>> /\ served["main"] = "no"
    BY <1>5, <1>m, <2>1 DEF HostOk, InHost, fwVars
  <2>3. MoveOf(op) = job["main"]
    BY <2>1, MoveOfWhole DEF InHost
  <2>4. CASE e
    <3>1. Tr!Fail
      BY <1>5, <2>1, <2>2, <2>4 DEF Tr!Fail, HostOk, MoveOf
    <3> QED BY <3>1 DEF Tr!Next
  <2>5. CASE ~e
    <3>1. MoveOf(last)' = job["main"]
      <4>1. last' = op
        BY <1>5, <2>5 DEF HostOk
      <4> QED BY <2>3, <4>1 DEF MoveOf
    <3>2. Tr!Move
      BY <2>1, <2>2, <2>5, <3>1 DEF Tr!Move
    <3> QED BY <3>2 DEF Tr!Next
  <2> QED BY <2>4, <2>5
<1>6. CASE UNCHANGED vars
  BY <1>6 DEF vars, fwVars, histVars, Tr!vars, MoveOf
<1> QED
  BY <1>1, <1>2, <1>3, <1>4, <1>5, <1>6
  DEF Next, Firmware, Host, GiveUp, NoGiveUp

\* tds_transfer_to over its registers, executor and host implements the atomic
\* transfer the services count on, as long as calls neither give up nor
\* interrupt one another.
THEOREM EngineImplements == ASSUME NoGiveUp PROVE Spec => Implements
<1>1. Init => CallInv /\ Tr!Init
  BY CallInit, RefinesInit
<1>2. CallInv /\ [Next]_vars => CallInv'
  BY CallStep
<1>3. CallInv /\ [Next]_vars => [Tr!Next]_Tr!vars
  BY RefinesStep
<1> QED BY <1>1, <1>2, <1>3, PTL DEF Spec, Implements, Tr!Spec
=============================================================================
