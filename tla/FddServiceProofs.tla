-------------------------- MODULE FddServiceProofs --------------------------
(* Theorems of FddService, for every set of images, every layout and every  *)
(* setting of the failure switches unless a theorem says otherwise.         *)
EXTENDS FddService, SequenceTheorems, TLAPS

\* The offset fdd_poll computes is a natural number, whatever the format.
LEMMA OffsetsType ==
    ASSUME HostOK, FwOK, NEW d \in Drives, NEW l \in Nat, NEW o \in Offsets(d, l)
    PROVE  o \in Nat
<1>1. fdd_sector_words[d] = 1 \/ fdd_sector_words[d] = 2
  BY DEF FwOK
<1>2. l * fdd_sector_words[d] \in Nat
  <2>1. CASE fdd_sector_words[d] = 1
    BY <2>1
  <2>2. CASE fdd_sector_words[d] = 2
    BY <2>2
  <2> QED BY <1>1, <2>1, <2>2
<1>3. slot[d] \in Image
  BY DEF HostOK
<1>4. l < Count[slot[d]] => Layout[slot[d]][l] \in Nat
  <2>1. Layout[slot[d]] \in [0..(Count[slot[d]] - 1) -> Nat]
    BY <1>3, ImageAssumption
  <2>2. Count[slot[d]] \in Nat
    BY <1>3, ConstantsAssumption
  <2> QED BY <2>1, <2>2
<1>5. Offset(d, l) \in Nat
  BY <1>2, <1>3, <1>4 DEF Offset
<1> QED BY <1>5 DEF Offsets

\* What the probes make of an image is a media class.
LEMMA ProbedType ==
    ASSUME HostOK, NEW d \in Drives, NEW size, NEW c \in Probed(d, size)
    PROVE  c \in ClassType
<1>1. slot[d] \in Image
  BY DEF HostOK
<1>2. Len512[slot[d]] \div TableWidth[slot[d]] \in Nat
  BY <1>1, ConstantsAssumption
<1>3. Class(slot[d]) \in ClassType
  BY <1>1, ConstantsAssumption DEF Class, ClassType
<1>4. RawClass(slot[d]) \in ClassType
  BY <1>1, <1>2, ConstantsAssumption DEF RawClass, ClassType
<1> QED BY <1>3, <1>4 DEF Probed

\* Bridge RAM stays a row of unit contents through every kind of transfer.
LEMMA HeadersType == RamOK => HeadersRead \in [RamUnit -> Val]
  BY ConstantsAssumption DEF RamOK, HeadersRead, RamUnit

LEMMA WalkedType ==
    ASSUME RamOK, NEW d \in Drives, NEW r \in Walked(d)
    PROVE  r \in [RamUnit -> Val]
  BY HeadersType DEF RamOK, Walked

LEMMA SpoiltType ==
    ASSUME RamOK, NEW w \in 1..2, NEW dst \in RamUnit, NEW r \in Spoilt(w, dst)
    PROVE  r \in [RamUnit -> Val]
  BY ConstantsAssumption DEF RamOK, Spoilt, RamUnit

LEMMA LandedType ==
    ASSUME HostOK, RamOK, NEW d \in Drives, NEW o \in Nat, NEW w \in 1..2,
           NEW dst \in RamUnit, InFile(d, o, w)
    PROVE  Landed(slot[d], o, w, dst) \in [RamUnit -> Val]
<1>1. slot[d] \in Image /\ file[slot[d]] \in [FileUnits(slot[d]) -> Val]
  BY DEF HostOK
<1>2. Len512[slot[d]] \in Nat
  BY <1>1, ConstantsAssumption
<1>3. \A u \in dst..(dst + w - 1) : o + (u - dst) \in FileUnits(slot[d])
  BY <1>2 DEF InFile, FileUnits, RamUnit
<1> QED BY <1>1, <1>3 DEF Landed, RamOK

\* The file keeps its shape when the first k units of a sector are written.
LEMMA WrittenType ==
    ASSUME HostOK, RamOK, ProcOK, NEW d \in Drives, NEW k \in 0..2
    PROVE  /\ DOMAIN Written(d, k) = Image
           /\ \A i \in Image : Written(d, k)[i] \in [FileUnits(i) -> Val]
<1>1. slot[d] \in Image
  BY DEF HostOK
<1>2. stage_word(d) \in {0, 2} /\ cur.off \in Nat
  BY DEF stage_word, ProcOK, CallType
<1>3. \A u \in cur.off..(cur.off + k - 1) :
          stage_word(d) + (u - cur.off) \in RamUnit
  BY <1>2 DEF RamUnit
<1>4. \A u \in FileUnits(slot[d]) : file[slot[d]][u] \in Val
  BY <1>1 DEF HostOK
<1>5. [u \in FileUnits(slot[d]) |->
            IF u \in cur.off..(cur.off + k - 1)
            THEN ram[stage_word(d) + (u - cur.off)] ELSE file[slot[d]][u]]
      \in [FileUnits(slot[d]) -> Val]
  BY <1>3, <1>4 DEF RamOK
<1> QED BY <1>1, <1>5 DEF HostOK, Written

LEMMA NoCallType == NoCall \in CallType /\ NoWrite \in WriteType
<1>1. DriveA \in Drives
  BY ConstantsAssumption DEF DriveA
<1>2. <<>> \in Seq(Val)
  OBVIOUS
<1> QED BY <1>1, <1>2 DEF NoCall, CallType, NoWrite, WriteType

-----------------------------------------------------------------------------
(* Type correctness, one step per action; a group of variables an action    *)
(* leaves alone keeps its part of the invariant.                            *)

LEMMA Frame ==
    /\ HostOK /\ UNCHANGED hostVars => HostOK'
    /\ CtlOK /\ UNCHANGED ctlVars => CtlOK'
    /\ MediaOK /\ UNCHANGED mediaVars => MediaOK'
    /\ RamOK /\ UNCHANGED ramVars => RamOK'
    /\ FwOK /\ UNCHANGED fwVars => FwOK'
    /\ PrefOK /\ UNCHANGED prefVars => PrefOK'
    /\ ProcOK /\ UNCHANGED procVars => ProcOK'
    /\ HistOK /\ UNCHANGED histVars => HistOK'
<1>1. HostOK /\ UNCHANGED hostVars => HostOK'
  BY DEF HostOK, hostVars
<1>2. CtlOK /\ UNCHANGED ctlVars => CtlOK'
  BY DEF CtlOK, ctlVars
<1>3. MediaOK /\ UNCHANGED mediaVars => MediaOK'
  BY DEF MediaOK, mediaVars
<1>4. RamOK /\ UNCHANGED ramVars => RamOK'
  BY DEF RamOK, ramVars
<1>5. FwOK /\ UNCHANGED fwVars => FwOK'
  BY DEF FwOK, fwVars
<1>6. PrefOK /\ UNCHANGED prefVars => PrefOK'
  BY DEF PrefOK, prefVars
<1>7. ProcOK /\ UNCHANGED procVars => ProcOK'
  BY DEF ProcOK, procVars
<1>8. HistOK /\ UNCHANGED histVars => HistOK'
  BY DEF HistOK, histVars
<1> QED BY <1>1, <1>2, <1>3, <1>4, <1>5, <1>6, <1>7, <1>8

LEMMA InitType == Init => TypeOK
<1> SUFFICES ASSUME Init PROVE TypeOK
  OBVIOUS
<1>1. DriveA \in Drives
  BY ConstantsAssumption DEF DriveA
<1>2. HostOK
  BY ImageAssumption DEF Init, HostOK
<1>3. CtlOK
  BY <1>1 DEF Init, CtlOK
<1>4. MediaOK
  BY DEF Init, MediaOK
<1>5. RamOK
  <2>1. ram \in [RamUnit -> Val]
    BY ConstantsAssumption DEF Init
  <2>2. bram_addr = 0 /\ 0 \in RamUnit
    BY DEF Init, RamUnit
  <2> QED BY <1>1, <2>1, <2>2 DEF Init, RamOK
<1>6. FwOK
  BY DEF Init, FwOK, ClassType
<1>7. PrefOK
  BY DEF Init, PrefOK
<1>8. ProcOK /\ HistOK
  BY NoCallType DEF Init, ProcOK, HistOK
<1> QED BY <1>2, <1>3, <1>4, <1>5, <1>6, <1>7, <1>8 DEF TypeOK

LEMMA GuestType == TypeOK /\ Guest => TypeOK'
<1> SUFFICES ASSUME TypeOK, Guest PROVE TypeOK'
  OBVIOUS
<1> USE DEF TypeOK
<1>0. ASSUME NEW d \in Drives
      PROVE  [j \in 1..media_w[d] |-> Fill] \in Seq(Val)
  <2>1. media_w[d] \in Nat
    BY DEF MediaOK
  <2>2. [j \in 1..media_w[d] |-> Fill] \in [1..media_w[d] -> Val]
    BY ConstantsAssumption
  <2> QED BY <2>1, <2>2, SeqDef
<1>1. ASSUME NEW d \in Drives, NEW l \in 0..(media_n[d] - 1), GuestRead(d, l)
      PROVE  TypeOK'
  <2>1. CtlOK' /\ HistOK'
    BY <1>1 DEF GuestRead, CtlOK, HistOK, MediaOK
  <2> QED BY <1>1, <2>1, Frame DEF GuestRead
<1>2. ASSUME NEW d \in Drives, NEW l \in 0..(media_n[d] - 1), GuestWrite(d, l)
      PROVE  TypeOK'
  <2>1. CtlOK' /\ HistOK'
    BY <1>2 DEF GuestWrite, CtlOK, HistOK, MediaOK
  <2> QED BY <1>2, <2>1, Frame DEF GuestWrite
<1>3. ASSUME NEW d \in Drives, NEW l \in 0..(media_n[d] - 1), GuestFormat(d, l)
      PROVE  TypeOK'
  <2>1. CtlOK' /\ HistOK'
    BY <1>3, <1>0 DEF GuestFormat, CtlOK, HistOK, MediaOK
  <2> QED BY <1>3, <2>1, Frame DEF GuestFormat
<1>4. ASSUME NEW s \in GuestData, GuestFill(s) PROVE TypeOK'
  <2>1. media_w[cmd.drv] \in 1..2 /\ Len(fifo) \in Nat /\ fifo \in Seq(Val)
    BY DEF MediaOK, CtlOK
  <2>2. ~FifoFull(fifo) => s[Len(fifo) + 1] \in Val
    BY <2>1, ConstantsAssumption DEF FifoFull
  <2>3. fifo' \in Seq(Val)
    BY <1>4, <2>1, <2>2 DEF GuestFill
  <2>4. CtlOK'
    BY <1>4, <2>3 DEF GuestFill, CtlOK
  <2> QED BY <1>4, <2>4, Frame DEF GuestFill
<1>5. CASE GuestDrain
  <2>1. CtlOK'
    BY <1>5 DEF GuestDrain, CtlOK
  <2> QED BY <1>5, <2>1, Frame DEF GuestDrain
<1>6. CASE NextSector
  <2>1. cmd.drv \in Drives /\ fifo \in Seq(Val)
    BY DEF CtlOK
  <2>2. fifo' \in Seq(Val)
    <3>1. [j \in 1..media_w[cmd.drv] |-> Fill] \in Seq(Val)
      BY <1>0, <2>1
    <3>2. fifo' \in {<<>>, fifo, [j \in 1..media_w[cmd.drv] |-> Fill]}
      BY <1>6 DEF NextSector
    <3>3. <<>> \in Seq(Val)
      OBVIOUS
    <3> QED BY <2>1, <3>1, <3>2, <3>3
  <2>3. CtlOK'
    BY <1>6, <2>2 DEF NextSector, CtlOK
  <2> QED BY <1>6, <2>3, Frame DEF NextSector
<1>7. CASE GuestReset
  <2>1. CtlOK'
    BY <1>7 DEF GuestReset, CtlOK
  <2> QED BY <1>7, <2>1, Frame DEF GuestReset
<1> QED BY <1>1, <1>2, <1>3, <1>4, <1>5, <1>6, <1>7 DEF Guest

LEMMA MountType == TypeOK /\ MainMount => TypeOK'
<1> SUFFICES ASSUME TypeOK, MainMount PROVE TypeOK'
  OBVIOUS
<1> USE DEF TypeOK
<1>1. ASSUME NEW d \in Drives, MountBegin(d) PROVE TypeOK'
  <2>1. HostOK' /\ PrefOK' /\ HistOK'
    BY <1>1 DEF MountBegin, HostOK, PrefOK, HistOK, DropTag
  <2>2. Len512[slot[d]] \in Nat
    BY ConstantsAssumption DEF HostOK
  <2>3. ProcOK'
    BY <1>1, <2>2 DEF MountBegin, ProcOK, CallType
  <2> QED BY <1>1, <2>1, <2>3, Frame DEF MountBegin
<1>2. ASSUME NEW c \in Probed(cur.drv, cur.size), MountProbe(c) PROVE TypeOK'
  <2>1. cur.drv \in Drives
    BY DEF ProcOK, CallType
  <2>2. c \in ClassType
    BY <2>1, ProbedType
  <2>3. RamOK'
    <3>1. HeadersRead \in [RamUnit -> Val] /\ 0 \in RamUnit
      BY HeadersType DEF RamUnit
    <3> QED BY <1>2, <2>1, <3>1 DEF MountProbe, RamOK
  <2>4. MediaOK' /\ FwOK' /\ HistOK'
    BY <1>2, <2>1, <2>2 DEF MountProbe, MediaOK, FwOK, HistOK
  <2>5. ProcOK'
    BY <1>2 DEF MountProbe, ProcOK
  <2> QED BY <1>2, <2>3, <2>4, <2>5, Frame DEF MountProbe
<1>3. CASE MountDeclare
  <2>1. cur.drv \in Drives /\ cur.size \in Nat
    BY DEF ProcOK, CallType
  <2>2. fdd_img[cur.drv] \in ClassType
    BY <2>1 DEF FwOK
  <2>3. RamOK'
    <3>1. HeadersRead \in [RamUnit -> Val] /\ SettingsUnit \in RamUnit
      BY HeadersType DEF RamUnit, SettingsUnit
    <3> QED BY <1>3, <2>1, <3>1 DEF MountDeclare, RamOK
  <2>4. MediaOK'
    BY <1>3, <2>1, <2>2 DEF MountDeclare, MediaOK, ClassType
  <2>5. FwOK'
    BY <1>3, <2>1, <2>2 DEF MountDeclare, FwOK, ClassType
  <2>6. ProcOK'
    BY <1>3, NoCallType DEF MountDeclare, ProcOK
  <2> QED BY <1>3, <2>3, <2>4, <2>5, <2>6, Frame DEF MountDeclare
<1> QED BY <1>1, <1>2, <1>3 DEF MainMount

LEMMA PollType == TypeOK /\ MainPoll => TypeOK'
<1> SUFFICES ASSUME TypeOK, MainPoll PROVE TypeOK'
  OBVIOUS
<1> USE DEF TypeOK
<1>a. /\ cur.drv \in Drives /\ cur.lba \in Nat /\ cur.off \in Nat
      /\ cur.w \in 1..2
  BY DEF ProcOK, CallType
<1>b. cmd.drv \in Drives /\ cmd.lba \in Nat
  BY DEF CtlOK
<1>c. \A d \in Drives : stage_word(d) \in RamUnit
  BY DEF stage_word, RamUnit
<1>d. PREF_WORD \in RamUnit
  BY DEF PREF_WORD, RamUnit
<1>1. CASE PollSample
  <2>1. ProcOK'
    BY <1>1 DEF PollSample, Request, ProcOK, CallType
  <2> QED BY <1>1, <2>1, Frame DEF PollSample
<1>2. CASE PollReg0
  <2>1. \A o \in Offsets(cmd.drv, cmd.lba) : o \in Nat
    BY <1>b, OffsetsType
  <2>2. ram' \in [RamUnit -> Val]
    BY <1>2, <1>b, WalkedType DEF PollReg0
  <2>3. bram_addr' \in RamUnit /\ mgmt_fifo' \in BOOLEAN /\ mgmt_drv' \in Drives
    BY <1>2, <1>b, <1>c, <1>d DEF PollReg0, RamOK
  <2>4. fdd_sector_words[cmd.drv] \in 1..2
    BY <1>b DEF FwOK
  <2>5. cur' \in CallType
    <3>1. PICK o \in Offsets(cmd.drv, cmd.lba) :
            cur' = [cur EXCEPT !.drv = cmd.drv, !.lba = cmd.lba, !.off = o,
                               !.w = fdd_sector_words[cmd.drv]]
      BY <1>2 DEF PollReg0
    <3> QED BY <3>1, <2>1, <2>4, <1>b DEF ProcOK, CallType
  <2>6. HistOK'
    BY <1>2, <1>b DEF PollReg0, HistOK, WriteType, CtlOK
  <2>7. RamOK'
    BY <2>2, <2>3 DEF RamOK
  <2>8. ProcOK'
    BY <1>2, <2>5 DEF PollReg0, ProcOK
  <2> QED BY <1>2, <2>6, <2>7, <2>8, Frame DEF PollReg0
<1>3. CASE FetchOk
  <2>1. ram' \in [RamUnit -> Val]
    BY <1>3, <1>a, <1>c, LandedType, SpoiltType DEF FetchOk
  <2>2. RamOK'
    BY <1>3, <2>1, <1>a, <1>c DEF FetchOk, RamOK
  <2>3. ProcOK'
    BY <1>3 DEF FetchOk, ProcOK
  <2> QED BY <1>3, <2>2, <2>3, Frame DEF FetchOk
<1>4. CASE FetchFail
  <2>1. ram' \in [RamUnit -> Val]
    BY <1>4, <1>a, <1>c, SpoiltType DEF FetchFail, RamOK
  <2>2. RamOK'
    BY <1>4, <2>1 DEF FetchFail, RamOK
  <2>3. ProcOK'
    BY <1>4 DEF FetchFail, ProcOK
  <2> QED BY <1>4, <2>2, <2>3, Frame DEF FetchFail
<1>5. CASE PushUnit
  <2>1. RamOK'
    BY <1>5 DEF PushUnit, RamOK, RamUnit
  <2>2. CtlOK'
    BY <1>5 DEF PushUnit, CtlOK, RamOK
  <2>3. MediaOK'
    BY <1>5 DEF PushUnit, MediaOK
  <2>4. ProcOK'
    BY <1>5 DEF PushUnit, ProcOK
  <2> QED BY <1>5, <2>1, <2>2, <2>3, <2>4, Frame DEF PushUnit
<1>6. CASE Prefetch
  <2>1. cur.lba + 1 \in Nat
    BY <1>a
  <2>2. \A o \in Offsets(cur.drv, cur.lba + 1) : o \in Nat
    BY <1>a, <2>1, OffsetsType
  <2>3. cur' \in CallType
    BY <1>6, <2>1, <2>2, NoCallType DEF Prefetch, ProcOK, CallType
  <2>4. ram' \in [RamUnit -> Val]
    BY <1>6, <1>a, WalkedType DEF Prefetch, RamOK
  <2>5. RamOK'
    BY <1>6, <2>4 DEF Prefetch, RamOK
  <2>6. ProcOK'
    BY <1>6, <2>3 DEF Prefetch, ProcOK
  <2>7. PrefOK'
    BY <1>6, <1>a DEF Prefetch, PrefOK, DropTag
  <2> QED BY <1>6, <2>5, <2>6, <2>7, Frame DEF Prefetch
<1>7. CASE StageOk
  <2>1. ram' \in [RamUnit -> Val]
    BY <1>7, <1>a, <1>d, LandedType, SpoiltType DEF StageOk
  <2>2. RamOK'
    BY <1>7, <2>1 DEF StageOk, RamOK
  <2>3. PrefOK'
    BY <1>7, <1>a DEF StageOk, PrefOK
  <2>4. ProcOK'
    BY <1>7, NoCallType DEF StageOk, ProcOK
  <2> QED BY <1>7, <2>2, <2>3, <2>4, Frame DEF StageOk
<1>8. CASE StageFail
  <2>1. ram' \in [RamUnit -> Val]
    BY <1>8, <1>a, <1>d, SpoiltType DEF StageFail, RamOK
  <2>2. RamOK'
    BY <1>8, <2>1 DEF StageFail, RamOK
  <2>3. PrefOK'
    BY <1>8, <1>a DEF StageFail, PrefOK
  <2>4. ProcOK'
    BY <1>8, NoCallType DEF StageFail, ProcOK
  <2> QED BY <1>8, <2>2, <2>3, <2>4, Frame DEF StageFail
<1>9. CASE PullUnit
  <2>1. fifo # <<>> => Head(fifo) \in Val /\ Tail(fifo) \in Seq(Val)
    BY DEF CtlOK
  <2>2. RamOK'
    BY <1>9, <2>1, ConstantsAssumption DEF PullUnit, RamOK, RamUnit
  <2>3. CtlOK'
    BY <1>9, <2>1 DEF PullUnit, CtlOK
  <2>4. ProcOK'
    BY <1>9 DEF PullUnit, ProcOK
  <2> QED BY <1>9, <2>2, <2>3, <2>4, Frame DEF PullUnit
<1>10. CASE Persist
  <2>1. \A k \in 0..(cur.w - 1) : k \in 0..2
    BY <1>a
  <2>2. /\ DOMAIN file' = Image
        /\ \A i \in Image : file'[i] \in [FileUnits(i) -> Val]
    <3>1. CASE UNCHANGED file
      BY <3>1 DEF HostOK
    <3>2. ASSUME NEW k \in 0..2, file' = Written(cur.drv, k)
          PROVE  /\ DOMAIN file' = Image
                 /\ \A i \in Image : file'[i] \in [FileUnits(i) -> Val]
      BY <3>2, <1>a, WrittenType
    <3> QED BY <1>10, <1>a, <2>1, <3>1, <3>2 DEF Persist
  <2>3. HostOK'
    BY <1>10, <2>2 DEF Persist, HostOK
  <2>4. PrefOK'
    BY <1>10, <1>a DEF Persist, PrefOK, DropTag
  <2>5. ProcOK' /\ HistOK'
    BY <1>10, NoCallType DEF Persist, ProcOK, HistOK
  <2> QED BY <1>10, <2>3, <2>4, <2>5, Frame DEF Persist
<1> QED
  BY <1>1, <1>2, <1>3, <1>4, <1>5, <1>6, <1>7, <1>8, <1>9, <1>10 DEF MainPoll

LEMMA OsdType ==
    ASSUME TypeOK, NEW d \in Drives, fdd_eject(d) \/ fdd_insert(d)
    PROVE  TypeOK'
<1> USE DEF TypeOK
<1>1. CASE fdd_eject(d)
  <2>1. MediaOK' /\ RamOK' /\ FwOK' /\ PrefOK' /\ HistOK'
    BY <1>1 DEF fdd_eject, DropTag, MediaOK, RamOK, FwOK, PrefOK, HistOK
  <2> QED BY <1>1, <2>1, Frame DEF fdd_eject
<1>2. CASE fdd_insert(d)
  <2>1. \A c \in Probed(d, fdd_sectors[d]) : c \in ClassType
    BY ProbedType
  <2>2. MediaOK' /\ FwOK'
    BY <1>2, <2>1 DEF fdd_insert, MediaOK, FwOK, ClassType
  <2>3. RamOK'
    <3>1. HeadersRead \in [RamUnit -> Val] /\ SettingsUnit \in RamUnit
          /\ 0 \in RamUnit
      BY HeadersType DEF RamUnit, SettingsUnit
    <3> QED BY <1>2, <3>1 DEF fdd_insert, RamOK
  <2>4. PrefOK' /\ HistOK' /\ ProcOK'
    BY <1>2 DEF fdd_insert, DropTag, PrefOK, HistOK, ProcOK
  <2> QED BY <1>2, <2>2, <2>3, <2>4, Frame DEF fdd_insert
<1> QED BY <1>1, <1>2

LEMMA TypeStep == TypeOK /\ [Next]_vars => TypeOK'
<1> SUFFICES ASSUME TypeOK, [Next]_vars PROVE TypeOK'
  OBVIOUS
<1>1. ASSUME NEW d \in Drives, NEW i \in Image, Rebind(d, i) PROVE TypeOK'
  <2>1. HostOK' /\ HistOK'
    BY <1>1 DEF Rebind, TypeOK, HostOK, HistOK
  <2> QED BY <1>1, <2>1, Frame DEF Rebind, TypeOK
<1>2. CASE UNCHANGED vars
  BY <1>2, Frame DEF TypeOK, vars
<1> QED BY <1>1, <1>2, GuestType, MountType, PollType, OsdType DEF Next

\* The floppy path keeps its registers, pointers, FIFO and files in their types
\* through every interleaving of guest, main loop, host and OSD interrupt; in
\* particular the RAM pointer never leaves the RAM and the offsets fdd_poll
\* hands to a transfer are never negative.
THEOREM TypeCorrect == Spec => []TypeOK
<1>1. Init => TypeOK
  BY InitType
<1>2. TypeOK /\ [Next]_vars => TypeOK'
  BY TypeStep
<1> QED BY <1>1, <1>2, PTL DEF Spec

-----------------------------------------------------------------------------
(* The prefetch tag and the Settings window, while the OSD keeps out of a   *)
(* service that is under way (~OsdBusy).  Neither is inductive: a transfer  *)
(* in flight carries a width and an offset computed some steps earlier, and *)
(* the pointer into bridge RAM was set before the FIFO was drained through  *)
(* it.  The parts below say what those still mean when they are used.       *)

\* No file is in two slots, so a write through one drive spares the other.
SlotsApart == \A d, e \in Drives : slot[d] = slot[e] => d = e

\* The width fdd_poll computed is the drive's until the call returns.
WidthKept ==
    pc \in {"fetch", "push", "prefetch", "stage", "pull", "persist"} =>
        cur.w = fdd_sector_words[cur.drv]

\* A drive being mounted or staged for has no tag.
Untagged == pc \in {"probe", "spin", "stage"} => pref_lba[cur.drv] = None

\* What is being staged is the sector that will be tagged.
StageAimed ==
    (pc = "stage" /\ Settled(cur.drv) /\ cur.off # 0
        /\ cur.lba \in 0..(Count[slot[cur.drv]] - 1)) =>
    cur.off = Layout[slot[cur.drv]][cur.lba]

\* pull_fifo writes inside the staging units of its drive.
PullInside ==
    pc = "pull" => /\ cnt < fdd_sector_words[cur.drv]
                   /\ bram_addr = stage_word(cur.drv) + cnt

ServiceInv ==
    /\ TypeOK /\ xfer_hit = FALSE
    /\ SlotsApart /\ WidthKept /\ Untagged /\ StageAimed /\ PullInside
    /\ PrefetchTagSound

\* A drive's tag stays sound when nothing it speaks of has changed.
LEMMA TagKept ==
    ASSUME TypeOK, NEW d \in Drives, TagSound(d),
           slot'[d] = slot[d], file'[slot[d]] = file[slot[d]],
           Settled(d)' => Settled(d),
           pref_lba'[d] = pref_lba[d], pref_owner' = pref_owner,
           fdd_sector_words'[d] = fdd_sector_words[d],
           ram'[4] = ram[4], ram'[5] = ram[5]
    PROVE  TagSound(d)'
<1> SUFFICES ASSUME (pref_lba[d] \in 0..(Count[slot[d]] - 1))',
                    (pref_owner = d)', Settled(d)'
             PROVE  (SectorOf(slot[d], pref_lba[d]) =
                     [j \in 1..fdd_sector_words[d] |-> ram[PREF_WORD + j - 1]])'
  BY DEF TagSound
<1>1. SectorOf(slot[d], pref_lba[d]) =
          [j \in 1..fdd_sector_words[d] |-> ram[PREF_WORD + j - 1]]
  BY DEF TagSound
<1>2. SectorOf(slot[d], pref_lba[d])' = SectorOf(slot[d], pref_lba[d])
  BY DEF SectorOf
<1>3. fdd_sector_words[d] \in 1..2
  BY DEF TypeOK, FwOK
<1>4. \A j \in 1..fdd_sector_words[d] :
          ram'[PREF_WORD + j - 1] = ram[PREF_WORD + j - 1]
  BY <1>3 DEF PREF_WORD
<1>5. [j \in 1..fdd_sector_words'[d] |-> ram'[PREF_WORD + j - 1]] =
      [j \in 1..fdd_sector_words[d] |-> ram[PREF_WORD + j - 1]]
  BY <1>4
<1> QED BY <1>1, <1>2, <1>5

\* A tag says nothing while it is dropped, while the drive waits to be mounted,
\* or while the other drive owns the buffer.
LEMMA TagMute ==
    ASSUME NEW d \in Drives,
           pref_lba'[d] = None \/ pending'[d] \/ pref_owner' # d
    PROVE  TagSound(d)'
  BY DEF TagSound, Settled, None

\* Headers and staged sectors land outside the Settings window and the prefetch
\* buffer.
LEMMA StageUnits ==
    ASSUME TypeOK, NEW d \in Drives, WidthKept, pc = "fetch", d = cur.drv,
           NEW u \in {1, 4, 5}
    PROVE  /\ Landed(slot[d], cur.off, cur.w, stage_word(d))[u] = ram[u]
           /\ \A r \in Spoilt(cur.w, stage_word(d)) : r[u] = ram[u]
<1>1. cur.w = fdd_sector_words[d] /\ cur.w \in 1..2 /\ u \in RamUnit
  BY DEF WidthKept, TypeOK, ProcOK, CallType, RamUnit
<1>2. u \notin stage_word(d)..(stage_word(d) + cur.w - 1)
  BY <1>1 DEF stage_word
<1> QED BY <1>1, <1>2 DEF Landed, Spoilt

LEMMA HeaderUnits ==
    ASSUME TypeOK, NEW d \in Drives, NEW u \in {1, 4, 5}
    PROVE  /\ HeadersRead[u] = ram[u]
           /\ \A r \in Walked(d) : r[u] = ram[u]
<1>1. u \in RamUnit /\ u # 0
  BY DEF RamUnit
<1> QED BY <1>1 DEF HeadersRead, Walked, TypeOK, RamOK

\* On a settled drive the offset of a sector the image has is where the image
\* keeps it; only a D88 walk that failed answers 0 instead.
LEMMA OffsetSettled ==
    ASSUME TypeOK, NEW d \in Drives, NEW l \in 0..(Count[slot[d]] - 1),
           Settled(d), NEW o \in Offsets(d, l), o # 0
    PROVE  o = Layout[slot[d]][l]
<1>1. slot[d] \in Image
  BY DEF TypeOK, HostOK
<1>2. /\ fdd_img[d].fmt = Fmt[slot[d]]
      /\ fdd_sector_words[d] = Width[slot[d]]
  BY DEF Settled, Class
<1>3. l < Count[slot[d]]
  BY <1>1, ConstantsAssumption
<1>4. Fmt[slot[d]] \in {"raw", "fdi", "d88"}
  BY <1>1, ConstantsAssumption
<1>5. /\ Fmt[slot[d]] = "raw" => Layout[slot[d]][l] = l * Width[slot[d]]
      /\ Fmt[slot[d]] = "fdi" => Layout[slot[d]][l] = 1 + l * Width[slot[d]]
  BY <1>1, ImageAssumption
<1>6. o = Offset(d, l)
  BY DEF Offsets
<1> QED BY <1>2, <1>3, <1>4, <1>5, <1>6 DEF Offset

\* Every unit the service may not touch keeps its contents.
Kept == \A u \in {1, 4, 5} : ram'[u] = ram[u]

\* What an action must still show once its type is known: it says what the
\* service invariant has besides TypeOK.
Rest ==
    /\ xfer_hit = FALSE
    /\ SlotsApart /\ WidthKept /\ Untagged /\ StageAimed /\ PullInside
    /\ PrefetchTagSound

LEMMA GuestService ==
    ASSUME ServiceInv, UNCHANGED <<hostVars, ramVars, fwVars, prefVars, procVars>>
    PROVE  Rest' /\ Kept
<1> USE DEF ServiceInv, hostVars, ramVars, fwVars, prefVars, procVars
<1>1. ASSUME NEW d \in Drives PROVE TagSound(d)'
  BY TagKept DEF PrefetchTagSound, Settled
<1>2. (xfer_hit = FALSE)' /\ SlotsApart' /\ WidthKept' /\ Untagged'
  BY DEF SlotsApart, WidthKept, Untagged
<1>3. StageAimed'
  BY DEF StageAimed, Settled
<1>4. PullInside'
  BY DEF PullInside, stage_word
<1> QED BY <1>1, <1>2, <1>3, <1>4 DEF Rest, PrefetchTagSound, Kept

LEMMA MountService ==
    ASSUME ServiceInv, MainMount
    PROVE  Rest' /\ Kept
<1> USE DEF ServiceInv
<1>a. cur.drv \in Drives
  BY DEF TypeOK, ProcOK, CallType
<1>1. ASSUME NEW d \in Drives, MountBegin(d) PROVE Rest' /\ Kept
  <2>1. ASSUME NEW e \in Drives PROVE TagSound(e)'
    <3>1. CASE e = d
      <4>1. pref_lba'[d] = None
        BY <1>1 DEF MountBegin, DropTag, TypeOK, PrefOK
      <4> QED BY <3>1, <4>1, TagMute
    <3>2. CASE e # d
      <4>1. pref_lba'[e] = pref_lba[e] /\ pending'[e] = pending[e]
        BY <1>1, <3>2 DEF MountBegin, DropTag, TypeOK, PrefOK, HostOK
      <4> QED
        BY <1>1, <4>1, TagKept
        DEF MountBegin, PrefetchTagSound, Settled, ramVars, fwVars
    <3> QED BY <3>1, <3>2
  <2>2. Untagged'
    BY <1>1 DEF MountBegin, DropTag, Untagged, TypeOK, PrefOK, ProcOK, CallType
  <2>3. SlotsApart' /\ WidthKept' /\ StageAimed' /\ PullInside' /\ xfer_hit' = FALSE
    BY <1>1 DEF MountBegin, SlotsApart, WidthKept, StageAimed, PullInside
  <2> QED
    BY <1>1, <2>1, <2>2, <2>3
    DEF Rest, Kept, MountBegin, PrefetchTagSound, ramVars
<1>2. ASSUME NEW c \in Probed(cur.drv, cur.size), MountProbe(c)
      PROVE  Rest' /\ Kept
  <2>1. pref_lba[cur.drv] = None /\ prefVars' = prefVars
    BY <1>2 DEF MountProbe, Untagged, prefVars
  <2>2. Kept
    BY <1>2, <1>a, HeaderUnits DEF MountProbe, Kept
  <2>3. ASSUME NEW e \in Drives PROVE TagSound(e)'
    <3>1. CASE e = cur.drv
      BY <2>1, <3>1, TagMute DEF prefVars
    <3>2. CASE e # cur.drv
      <4>1. fdd_img'[e] = fdd_img[e]
        BY <1>2, <1>a, <3>2 DEF MountProbe, TypeOK, FwOK
      <4> QED
        BY <1>2, <2>1, <2>2, <4>1, TagKept
        DEF MountProbe, PrefetchTagSound, Settled, hostVars, prefVars, Kept
    <3> QED BY <3>1, <3>2
  <2>4. Untagged'
    BY <1>2, <2>1 DEF MountProbe, Untagged, prefVars
  <2>5. SlotsApart' /\ WidthKept' /\ StageAimed' /\ PullInside' /\ xfer_hit' = FALSE
    BY <1>2
    DEF MountProbe, SlotsApart, WidthKept, StageAimed, PullInside, hostVars
  <2> QED BY <2>2, <2>3, <2>4, <2>5 DEF Rest, PrefetchTagSound
<1>3. CASE MountDeclare
  <2>1. pref_lba[cur.drv] = None /\ prefVars' = prefVars
    BY <1>3 DEF MountDeclare, Untagged, prefVars
  <2>2. Kept
    BY <1>3, <1>a, HeaderUnits DEF MountDeclare, Kept
  <2>3. ASSUME NEW e \in Drives PROVE TagSound(e)'
    <3>1. CASE e = cur.drv
      BY <2>1, <3>1, TagMute DEF prefVars
    <3>2. CASE e # cur.drv
      <4>1. fdd_sector_words'[e] = fdd_sector_words[e]
        BY <1>3, <1>a, <3>2 DEF MountDeclare, TypeOK, FwOK
      <4> QED
        BY <1>3, <2>1, <2>2, <4>1, TagKept
        DEF MountDeclare, PrefetchTagSound, Settled, hostVars, prefVars, Kept
    <3> QED BY <3>1, <3>2
  <2>4. SlotsApart' /\ WidthKept' /\ StageAimed' /\ PullInside' /\ Untagged'
        /\ xfer_hit' = FALSE
    BY <1>3
    DEF MountDeclare, SlotsApart, WidthKept, StageAimed, PullInside, Untagged,
        hostVars
  <2> QED BY <2>2, <2>3, <2>4 DEF Rest, PrefetchTagSound
<1> QED BY <1>1, <1>2, <1>3 DEF MainMount

\* The steps of fdd_poll before it stages: they leave the tags, the files and
\* the mounts alone, so what is left to show is the part about the locals.
LEMMA PollFrame ==
    ASSUME ServiceInv, UNCHANGED <<hostVars, fwVars, prefVars>>, Kept
    PROVE  SlotsApart' /\ PrefetchTagSound'
<1> USE DEF ServiceInv, hostVars, fwVars, prefVars
<1>1. ASSUME NEW d \in Drives PROVE TagSound(d)'
  BY TagKept DEF PrefetchTagSound, Settled, Kept
<1> QED BY <1>1 DEF PrefetchTagSound, SlotsApart

LEMMA PollService ==
    ASSUME ServiceInv,
           PollSample \/ PollReg0 \/ FetchOk \/ FetchFail \/ PushUnit \/ PullUnit
    PROVE  Rest' /\ Kept
<1> USE DEF ServiceInv
<1>a. cur.drv \in Drives /\ cmd.drv \in Drives
  BY DEF TypeOK, ProcOK, CallType, CtlOK
<1>b. \A d \in Drives : fdd_sector_words[d] \in 1..2
  BY DEF TypeOK, FwOK
<1>1. CASE PollSample
  <2>1. Kept
    BY <1>1 DEF PollSample, Kept, ramVars
  <2>2. SlotsApart' /\ PrefetchTagSound'
    BY <1>1, <2>1, PollFrame DEF PollSample
  <2>3. WidthKept' /\ Untagged' /\ StageAimed' /\ PullInside' /\ xfer_hit' = FALSE
    BY <1>1 DEF PollSample, WidthKept, Untagged, StageAimed, PullInside
  <2> QED BY <2>1, <2>2, <2>3 DEF Rest
<1>2. CASE PollReg0
  <2>1. Kept
    BY <1>2, <1>a, HeaderUnits DEF PollReg0, Kept
  <2>2. SlotsApart' /\ PrefetchTagSound'
    BY <1>2, <2>1, PollFrame DEF PollReg0
  <2>3. /\ cur'.w = fdd_sector_words[cmd.drv] /\ cur'.drv = cmd.drv
        /\ fdd_sector_words' = fdd_sector_words
        /\ pc' \in {"push", "pull", "fetch"}
    BY <1>2 DEF PollReg0, TypeOK, ProcOK, CallType, fwVars
  <2>4. WidthKept' /\ Untagged' /\ StageAimed' /\ xfer_hit' = FALSE
    BY <1>2, <2>3 DEF PollReg0, WidthKept, Untagged, StageAimed
  <2>5. PullInside'
    <3>1. stage_word(cur.drv)' = stage_word(cmd.drv)
      BY <2>3 DEF stage_word
    <3>2. stage_word(cmd.drv) + 0 = stage_word(cmd.drv)
      BY DEF stage_word
    <3>3. pc' = "pull" => cnt' = 0 /\ bram_addr' = stage_word(cmd.drv)
      BY <1>2 DEF PollReg0
    <3>4. 0 < fdd_sector_words[cmd.drv]
      BY <1>a, <1>b
    <3> QED BY <2>3, <3>1, <3>2, <3>3, <3>4 DEF PullInside
  <2> QED BY <2>1, <2>2, <2>4, <2>5 DEF Rest
<1>3. CASE FetchOk
  <2>1. Kept
    BY <1>3, <1>a, StageUnits DEF FetchOk, Kept
  <2>2. SlotsApart' /\ PrefetchTagSound'
    BY <1>3, <2>1, PollFrame DEF FetchOk
  <2>3. WidthKept' /\ Untagged' /\ StageAimed' /\ PullInside' /\ xfer_hit' = FALSE
    BY <1>3 DEF FetchOk, WidthKept, Untagged, StageAimed, PullInside, fwVars
  <2> QED BY <2>1, <2>2, <2>3 DEF Rest
<1>4. CASE FetchFail
  <2>1. Kept
    BY <1>4, <1>a, StageUnits DEF FetchFail, Kept
  <2>2. SlotsApart' /\ PrefetchTagSound'
    BY <1>4, <2>1, PollFrame DEF FetchFail
  <2>3. WidthKept' /\ Untagged' /\ StageAimed' /\ PullInside' /\ xfer_hit' = FALSE
    BY <1>4 DEF FetchFail, WidthKept, Untagged, StageAimed, PullInside, fwVars
  <2> QED BY <2>1, <2>2, <2>3 DEF Rest
<1>5. CASE PushUnit
  <2>1. Kept
    BY <1>5 DEF PushUnit, Kept
  <2>2. SlotsApart' /\ PrefetchTagSound'
    BY <1>5, <2>1, PollFrame DEF PushUnit
  <2>3. WidthKept' /\ Untagged' /\ StageAimed' /\ PullInside' /\ xfer_hit' = FALSE
    BY <1>5 DEF PushUnit, WidthKept, Untagged, StageAimed, PullInside, fwVars
  <2> QED BY <2>1, <2>2, <2>3 DEF Rest
<1>6. CASE PullUnit
  <2>1. /\ cnt \in Nat /\ cnt < fdd_sector_words[cur.drv]
        /\ bram_addr = stage_word(cur.drv) + cnt
    BY <1>6 DEF PullUnit, PullInside, TypeOK, ProcOK
  <2>2. bram_addr \in {0, 2, 3}
    BY <2>1, <1>a, <1>b DEF stage_word
  <2>3. Kept
    BY <1>6, <2>2 DEF PullUnit, Kept, TypeOK, RamOK, RamUnit
  <2>4. SlotsApart' /\ PrefetchTagSound'
    BY <1>6, <2>3, PollFrame DEF PullUnit
  <2>5. WidthKept' /\ Untagged' /\ StageAimed' /\ xfer_hit' = FALSE
    BY <1>6 DEF PullUnit, WidthKept, Untagged, StageAimed, fwVars
  <2>6. PullInside'
    <3>1. SUFFICES ASSUME pc' = "pull"
                   PROVE  /\ cnt' < fdd_sector_words[cur.drv]
                          /\ bram_addr' = stage_word(cur.drv) + cnt'
      BY <1>6 DEF PullUnit, PullInside, stage_word, fwVars
    <3>2. ~(cnt + 1 >= fdd_sector_words[cur.drv])
      BY <1>6, <3>1 DEF PullUnit
    <3>3. (bram_addr + 1) % 8 = bram_addr + 1
      BY <2>2
    <3>4. cnt' = cnt + 1 /\ bram_addr' = bram_addr + 1
      BY <1>6, <3>3 DEF PullUnit
    <3>5. stage_word(cur.drv) \in Nat /\ fdd_sector_words[cur.drv] \in Nat
      BY <1>a, <1>b DEF stage_word
    <3> QED BY <2>1, <3>2, <3>4, <3>5
  <2> QED BY <2>3, <2>4, <2>5, <2>6 DEF Rest
<1> QED BY <1>1, <1>2, <1>3, <1>4, <1>5, <1>6

\* The tag is dropped first; the sector then aimed at is the one that follows.
LEMMA PrefetchService ==
    ASSUME ServiceInv, Prefetch
    PROVE  Rest' /\ Kept
<1> USE DEF ServiceInv
<1>a. /\ cur.drv \in Drives /\ cur.lba + 1 \in Nat
      /\ cur.w = fdd_sector_words[cur.drv]
  <2>1. cur.drv \in Drives /\ cur.lba \in Nat
    BY DEF TypeOK, ProcOK, CallType
  <2>2. pc = "prefetch"
    BY DEF Prefetch
  <2> QED BY <2>1, <2>2 DEF WidthKept
<1>1. Kept
  <2>1. ram' = ram \/ ram' \in Walked(cur.drv)
    BY DEF Prefetch
  <2> QED BY <1>a, <2>1, HeaderUnits DEF Kept
<1>2. pref_lba'[cur.drv] = None
  BY <1>a DEF Prefetch, DropTag, TypeOK, PrefOK
<1>3. ASSUME NEW e \in Drives PROVE TagSound(e)'
  <2>1. CASE e = cur.drv
    BY <1>2, <2>1, TagMute
  <2>2. CASE e # cur.drv
    <3>1. pref_lba'[e] = pref_lba[e]
      BY <2>2 DEF Prefetch, DropTag, TypeOK, PrefOK
    <3> QED
      BY <1>1, <3>1, TagKept
      DEF Prefetch, PrefetchTagSound, Settled, Kept, hostVars, fwVars
  <2> QED BY <2>1, <2>2
<1>4. CASE pc' = "loop"
  <2>1. WidthKept' /\ Untagged' /\ StageAimed' /\ PullInside'
    BY <1>4 DEF WidthKept, Untagged, StageAimed, PullInside
  <2> QED
    BY <1>1, <1>3, <2>1 DEF Rest, Prefetch, PrefetchTagSound, SlotsApart, hostVars
<1>5. CASE pc' = "stage"
  <2>1. PICK o \in Offsets(cur.drv, cur.lba + 1) :
          cur' = [cur EXCEPT !.lba = @ + 1, !.off = o]
    BY <1>5 DEF Prefetch
  <2>2. /\ cur'.drv = cur.drv /\ cur'.w = cur.w
        /\ cur'.lba = cur.lba + 1 /\ cur'.off = o
    BY <2>1 DEF TypeOK, ProcOK, CallType
  <2>3. Settled(cur.drv)' => Settled(cur.drv)
    BY <2>2 DEF Prefetch, Settled, hostVars, fwVars
  <2>4. slot' = slot
    BY DEF Prefetch, hostVars
  <2>5. StageAimed'
    <3>1. SUFFICES ASSUME Settled(cur.drv), o # 0,
                          cur.lba + 1 \in 0..(Count[slot[cur.drv]] - 1)
                   PROVE  o = Layout[slot[cur.drv]][cur.lba + 1]
      BY <2>2, <2>3, <2>4 DEF StageAimed
    <3> QED BY <1>a, <3>1, OffsetSettled
  <2>6. WidthKept' /\ Untagged' /\ PullInside'
    BY <1>5, <1>a, <1>2, <2>2
    DEF WidthKept, Untagged, PullInside, Prefetch, fwVars
  <2> QED
    BY <1>1, <1>3, <2>5, <2>6
    DEF Rest, Prefetch, PrefetchTagSound, SlotsApart, hostVars
<1> QED BY <1>4, <1>5 DEF Prefetch

\* The tag is set exactly when its sector has landed.
LEMMA StageService ==
    ASSUME ServiceInv, StageOk \/ StageFail
    PROVE  Rest' /\ ram'[SettingsUnit] = ram[SettingsUnit]
<1> USE DEF ServiceInv
<1>a. /\ cur.drv \in Drives /\ cur.lba \in Nat /\ cur.off \in Nat
      /\ cur.w \in 1..2 /\ pc = "stage" /\ cur.w = fdd_sector_words[cur.drv]
  BY DEF TypeOK, ProcOK, CallType, StageOk, StageFail, WidthKept
<1>b. pref_owner' = cur.drv /\ pc' = "loop" /\ UNCHANGED <<hostVars, fwVars>>
  BY DEF StageOk, StageFail
<1>1. ram'[SettingsUnit] = ram[SettingsUnit]
  <2>1. SettingsUnit \in RamUnit
        /\ SettingsUnit \notin PREF_WORD..(PREF_WORD + cur.w - 1)
    BY <1>a DEF SettingsUnit, RamUnit, PREF_WORD
  <2> QED BY <2>1 DEF StageOk, StageFail, Landed, Spoilt
<1>2. ASSUME NEW e \in Drives PROVE TagSound(e)'
  <2>1. CASE e # cur.drv
    BY <1>b, <2>1, TagMute
  <2>2. CASE e = cur.drv /\ StageFail
    <3>1. pref_lba'[e] = None
      BY <2>2, <1>a DEF StageFail, Untagged
    <3> QED BY <3>1, TagMute
  <2>3. CASE e = cur.drv /\ StageOk
    <3>1. SUFFICES ASSUME pref_lba'[e] \in 0..(Count[slot[e]] - 1), Settled(e)
                   PROVE  SectorOf(slot[e], pref_lba[e])' =
                          [j \in 1..fdd_sector_words[e] |->
                              ram'[PREF_WORD + j - 1]]
      BY <1>b DEF TagSound, Settled, hostVars, fwVars
    <3>2. pref_lba'[e] = cur.lba
      BY <2>3 DEF StageOk, TypeOK, PrefOK
    <3>3. ram' = Landed(slot[e], cur.off, cur.w, PREF_WORD) /\ cur.off # 0
      BY <2>3 DEF StageOk
    <3>4. cur.off = Layout[slot[e]][cur.lba]
      BY <1>a, <2>3, <3>1, <3>2, <3>3 DEF StageAimed
    <3>5. fdd_sector_words[e] = Width[slot[e]]
      BY <3>1 DEF Settled, Class
    <3>6. ASSUME NEW j \in 1..fdd_sector_words[e]
          PROVE  ram'[PREF_WORD + j - 1] = file[slot[e]][cur.off + j - 1]
      <4>1. j \in 1..2 /\ j \in 1..cur.w
        BY <1>a, <2>3
      <4>2. /\ PREF_WORD + j - 1 \in RamUnit
            /\ PREF_WORD + j - 1 \in PREF_WORD..(PREF_WORD + cur.w - 1)
            /\ cur.off + ((PREF_WORD + j - 1) - PREF_WORD) = cur.off + j - 1
        BY <1>a, <4>1 DEF PREF_WORD, RamUnit
      <4> QED BY <3>3, <4>2 DEF Landed
    <3>7. SectorOf(slot[e], pref_lba[e])' =
          [j \in 1..Width[slot[e]] |->
              file[slot[e]][Layout[slot[e]][cur.lba] + j - 1]]
      BY <1>b, <3>2 DEF SectorOf, hostVars
    <3> QED BY <3>4, <3>5, <3>6, <3>7
  <2> QED BY <2>1, <2>2, <2>3
<1>3. /\ SlotsApart' /\ WidthKept' /\ Untagged' /\ StageAimed' /\ PullInside'
      /\ xfer_hit' = FALSE
  BY <1>b
  DEF SlotsApart, WidthKept, Untagged, StageAimed, PullInside, StageOk,
      StageFail, hostVars
<1> QED BY <1>1, <1>2, <1>3 DEF Rest, PrefetchTagSound

\* A write changes the file of one drive, and drops that drive's tag.
LEMMA PersistService ==
    ASSUME ServiceInv, Persist
    PROVE  Rest' /\ Kept
<1> USE DEF ServiceInv
<1>a. cur.drv \in Drives
  BY DEF TypeOK, ProcOK, CallType
<1>1. Kept
  BY DEF Persist, Kept, ramVars
<1>2. ASSUME NEW e \in Drives PROVE TagSound(e)'
  <2>1. CASE e = cur.drv
    <3>1. pref_lba'[e] = None
      BY <2>1 DEF Persist, DropTag, TypeOK, PrefOK
    <3> QED BY <3>1, TagMute
  <2>2. CASE e # cur.drv
    <3>1. pref_lba'[e] = pref_lba[e]
      BY <2>2 DEF Persist, DropTag, TypeOK, PrefOK
    <3>2. slot[e] # slot[cur.drv] /\ slot[e] \in Image
      BY <1>a, <2>2 DEF SlotsApart, TypeOK, HostOK
    <3>3. file'[slot[e]] = file[slot[e]]
      BY <3>2 DEF Persist, Written, TypeOK, HostOK
    <3> QED
      BY <1>1, <3>1, <3>3, TagKept
      DEF Persist, PrefetchTagSound, Settled, Kept, fwVars
  <2> QED BY <2>1, <2>2
<1>3. /\ SlotsApart' /\ WidthKept' /\ Untagged' /\ StageAimed' /\ PullInside'
      /\ xfer_hit' = FALSE
  BY DEF Persist, SlotsApart, WidthKept, Untagged, StageAimed, PullInside
<1> QED BY <1>1, <1>2, <1>3 DEF Rest, PrefetchTagSound

\* The OSD's interrupt between two services: both operations drop the tag.
LEMMA OsdService ==
    ASSUME ServiceInv, ~OsdBusy, NEW d \in Drives, fdd_eject(d) \/ fdd_insert(d)
    PROVE  Rest' /\ Kept
<1> USE DEF ServiceInv
<1>a. pc = "loop" /\ pc' = "loop" /\ hostVars' = hostVars
  BY DEF fdd_eject, fdd_insert, OsdMay, procVars
<1>1. Kept
  BY HeaderUnits DEF fdd_eject, fdd_insert, Kept
<1>2. ASSUME NEW e \in Drives PROVE TagSound(e)'
  <2>1. CASE e = d
    <3>1. pref_lba'[e] = None
      BY <2>1 DEF fdd_eject, fdd_insert, DropTag, TypeOK, PrefOK
    <3> QED BY <3>1, TagMute
  <2>2. CASE e # d
    <3>1. pref_lba'[e] = pref_lba[e] /\ pref_owner' = pref_owner
      BY <2>2 DEF fdd_eject, fdd_insert, DropTag, TypeOK, PrefOK
    <3>2. fdd_sector_words'[e] = fdd_sector_words[e] /\ fdd_img'[e] = fdd_img[e]
      BY <2>2 DEF fdd_eject, fdd_insert, TypeOK, FwOK
    <3> QED
      BY <1>a, <1>1, <3>1, <3>2, TagKept
      DEF PrefetchTagSound, Settled, Kept, hostVars
  <2> QED BY <2>1, <2>2
<1>3. SlotsApart' /\ WidthKept' /\ Untagged' /\ StageAimed' /\ PullInside'
  BY <1>a DEF SlotsApart, WidthKept, Untagged, StageAimed, PullInside, hostVars
<1>4. xfer_hit' = FALSE
  BY <1>a DEF fdd_eject, fdd_insert, procVars
<1> QED BY <1>1, <1>2, <1>3, <1>4 DEF Rest, PrefetchTagSound

\* A new binding silences the drive's tag until the main loop has mounted it.
LEMMA RebindService ==
    ASSUME ServiceInv, NEW d \in Drives, NEW i \in Image, Rebind(d, i)
    PROVE  Rest' /\ Kept
<1> USE DEF ServiceInv
<1>1. Kept
  BY DEF Rebind, Kept, ramVars
<1>2. pending'[d] /\ \A e \in Drives \ {d} :
                        pending'[e] = pending[e] /\ slot'[e] = slot[e]
  BY DEF Rebind, TypeOK, HostOK
<1>3. ASSUME NEW e \in Drives PROVE TagSound(e)'
  <2>1. CASE e = d
    BY <1>2, <2>1, TagMute
  <2>2. CASE e # d
    BY <1>1, <1>2, <2>2, TagKept
    DEF Rebind, PrefetchTagSound, Settled, Kept, fwVars, prefVars
  <2> QED BY <2>1, <2>2
<1>4. SlotsApart'
  BY DEF Rebind, SlotsApart, TypeOK, HostOK
<1>5. StageAimed'
  <2>1. CASE cur.drv = d
    BY <1>2, <2>1 DEF StageAimed, Settled, Rebind, procVars
  <2>2. CASE cur.drv # d
    <3>1. cur.drv \in Drives \ {d}
      BY <2>2 DEF TypeOK, ProcOK, CallType
    <3> QED BY <1>2, <3>1 DEF StageAimed, Settled, Rebind, procVars, fwVars
  <2> QED BY <2>1, <2>2
<1>6. WidthKept' /\ Untagged' /\ PullInside' /\ xfer_hit' = FALSE
  BY DEF Rebind, WidthKept, Untagged, PullInside, stage_word, procVars, fwVars,
         prefVars, ramVars
<1> QED BY <1>1, <1>3, <1>4, <1>5, <1>6 DEF Rest, PrefetchTagSound

LEMMA ServiceInit == Init => ServiceInv
<1> SUFFICES ASSUME Init PROVE ServiceInv
  OBVIOUS
<1>1. PrefetchTagSound
  BY DEF Init, PrefetchTagSound, TagSound, None
<1> QED
  BY <1>1, InitType
  DEF Init, ServiceInv, SlotsApart, WidthKept, Untagged, StageAimed, PullInside

LEMMA ServiceStep ==
    ASSUME ~OsdBusy, ServiceInv, [Next]_vars
    PROVE  ServiceInv' /\ ram'[SettingsUnit] = ram[SettingsUnit]
<1>1. TypeOK'
  BY TypeStep DEF ServiceInv
<1>2. Rest' /\ ram'[SettingsUnit] = ram[SettingsUnit]
  <2>a. Kept => ram'[SettingsUnit] = ram[SettingsUnit]
    BY DEF Kept, SettingsUnit
  <2>1. CASE UNCHANGED vars
    BY <2>1, <2>a, GuestService DEF vars
  <2>2. CASE Guest
    <3>1. UNCHANGED <<hostVars, ramVars, fwVars, prefVars, procVars>>
      BY <2>2
      DEF Guest, GuestRead, GuestWrite, GuestFormat, GuestFill, GuestDrain,
          NextSector, GuestReset
    <3> QED BY <3>1, <2>a, GuestService
  <2>3. CASE MainMount
    BY <2>3, <2>a, MountService
  <2>4. CASE MainPoll
    BY <2>4, <2>a, PollService, PrefetchService, StageService, PersistService
    DEF MainPoll
  <2>5. ASSUME NEW d \in Drives, fdd_eject(d) \/ fdd_insert(d)
        PROVE  Rest' /\ ram'[SettingsUnit] = ram[SettingsUnit]
    BY <2>5, <2>a, OsdService
  <2>6. ASSUME NEW d \in Drives, NEW i \in Image, Rebind(d, i)
        PROVE  Rest' /\ ram'[SettingsUnit] = ram[SettingsUnit]
    BY <2>6, <2>a, RebindService
  <2> QED BY <2>1, <2>2, <2>3, <2>4, <2>5, <2>6 DEF Next
<1> QED BY <1>1, <1>2 DEF ServiceInv, Rest

\* As long as the OSD's interrupt does not cut into a service, the prefetch tag
\* of the drive that filled the buffer last tells the truth: for any images,
\* with failing transfers, guest resets, remounts, ejects and writes.
THEOREM PrefetchSafe ==
    ASSUME ~OsdBusy
    PROVE  Spec => []PrefetchTagSound
<1>1. Init => ServiceInv
  BY ServiceInit
<1>2. ServiceInv /\ [Next]_vars => ServiceInv'
  BY ServiceStep
<1>3. ServiceInv => PrefetchTagSound
  BY DEF ServiceInv
<1> QED BY <1>1, <1>2, <1>3, PTL DEF Spec

\* Under the same condition no step of the floppy path changes the Settings
\* window of the bridge RAM, which APF writes back to the SD card on exit.
THEOREM SettingsSafe ==
    ASSUME ~OsdBusy
    PROVE  Spec => SettingsWindowKept
<1>1. Init => ServiceInv
  BY ServiceInit
<1>2. ServiceInv /\ [Next]_vars => ServiceInv'
  BY ServiceStep
<1>3. ServiceInv /\ [Next]_vars => [ram'[SettingsUnit] = ram[SettingsUnit]]_vars
  BY ServiceStep
<1> QED BY <1>1, <1>2, <1>3, PTL DEF Spec, SettingsWindowKept

-----------------------------------------------------------------------------
(* Which sector it is.  fdd_poll samples a request, reads the drive and LBA *)
(* some cycles later, computes an offset, moves units one by one, and only  *)
(* then reads or writes the file: the parts below follow a sector through   *)
(* these steps, for as long as the guest does not reset the controller in   *)
(* between (~GuestResets) and the OSD keeps out.                            *)

\* A present disk is described to the controller as it was probed.
MediaTold ==
    \A d \in Drives : media_present[d] =>
        /\ media_wp[d] = fdd_img[d].wp /\ media_n[d] = fdd_img[d].n
        /\ media_w[d] = fdd_img[d].w /\ fdd_sector_words[d] = fdd_img[d].w

\* While a sector moves the register that is latched is the FIFO's; while a
\* drive is remounted it has no disk.
Latched ==
    /\ pc \in {"push", "pull"} => mgmt_fifo
    /\ pc = "spin" => ~media_present[cur.drv]

\* A command with nothing changed under it is one that the controller would
\* still begin.
SteadyCommand ==
    steady => /\ media_present[cmd.drv] /\ cmd.lba < media_n[cmd.drv]
              /\ cmd.op # "read" => ~media_wp[cmd.drv]

\* The states of the controller and its FIFO.
CommandShape ==
    /\ state \in {"rd_wait", "drain"} => cmd.op = "read"
    /\ state \in {"wr_fill", "wr_wait"} => cmd.op # "read"
    /\ state \in {"idle", "update"} => fifo = <<>>

FifoShape ==
    steady => /\ state = "wr_fill" => Len(fifo) < media_w[cmd.drv]
              /\ state = "wr_wait" /\ pc # "pull" => Len(fifo) = media_w[cmd.drv]
              /\ state = "rd_wait" /\ pc # "push" => fifo = <<>>

\* The controller waits for the request that fdd_poll has taken up.
Sampled ==
    /\ pc = "reg0" => state = IF cur.op = "read" THEN "rd_wait" ELSE "wr_wait"
    /\ pc = "fetch" => state = "rd_wait" /\ cur.drv = cmd.drv /\ cur.lba = cmd.lba

Aimed(l) ==
    /\ l \in 0..(Count[slot[cur.drv]] - 1)
    /\ Found(cur.drv, cur.off) => cur.off = Layout[slot[cur.drv]][l]

Fetching == pc = "fetch" /\ steady /\ Settled(cur.drv) => Aimed(cur.lba)

\* One drive is in use: no other fills the prefetch buffer.
OneDrive == \A d, e \in Drives : d = e

\* A sector on its way to the FIFO: its first cnt units are there, the others
\* in the RAM from the pointer on.
Pushing ==
    pc = "push" /\ steady =>
      LET w == fdd_sector_words[cur.drv] IN
      /\ state = "rd_wait" /\ cur.drv = cmd.drv /\ cur.lba = cmd.lba
      /\ Len(fifo) = cnt /\ cnt < w /\ bram_addr + w - cnt <= 6
      /\ OneDrive /\ Settled(cur.drv) =>
            \A j \in 1..w : SectorOf(slot[cur.drv], cur.lba)[j] =
                IF j <= cnt THEN fifo[j] ELSE ram[bram_addr + (j - cnt) - 1]

\* A tag is only there once the buffer was used.
TagOwned == \A d \in Drives : pref_lba[d] # None => pref_owner \in Drives

\* A sector on its way to the file: its first cnt units are staged, the others
\* in the FIFO; then all are staged.
Pulling ==
    pc = "pull" /\ want.steady =>
      LET w == fdd_sector_words[cur.drv] IN
      /\ state = "wr_wait" /\ Len(fifo) = w - cnt /\ Len(want.data) = w
      /\ \A j \in 1..w : want.data[j] =
             IF j <= cnt THEN ram[stage_word(cur.drv) + j - 1] ELSE fifo[j - cnt]

Staged ==
    pc = "persist" /\ want.steady =>
      \A j \in 1..fdd_sector_words[cur.drv] :
          want.data[j] = ram[stage_word(cur.drv) + j - 1]

Writing ==
    /\ pc = "pull" /\ steady => want.steady
    /\ pc \in {"pull", "persist"} /\ want.steady /\ Settled(cur.drv) =>
          ~Protect[slot[cur.drv]] /\ Aimed(want.lba)

Flow ==
    /\ MediaTold /\ Latched /\ SteadyCommand /\ CommandShape /\ FifoShape
    /\ Sampled /\ Fetching /\ Pushing /\ TagOwned /\ Pulling /\ Staged /\ Writing
FlowInv == ServiceInv /\ Flow

LEMMA FlowTypes ==
    ASSUME TypeOK
    PROVE  /\ cmd.drv \in Drives /\ cmd.lba \in Nat /\ cur.drv \in Drives /\ cur.lba \in Nat
           /\ cur.off \in Nat /\ cnt \in Nat /\ steady \in BOOLEAN /\ fifo \in Seq(Val)
           /\ \A d \in Drives : /\ media_w[d] \in 1..2 /\ media_n[d] \in Nat
                                /\ fdd_sector_words[d] \in 1..2
                                /\ slot[d] \in Image /\ Count[slot[d]] \in Nat
  BY ConstantsAssumption DEF TypeOK, CtlOK, ProcOK, CallType, HistOK, MediaOK, FwOK, HostOK

LEMMA FoundSettled ==
    ASSUME TypeOK, NEW d \in Drives, NEW l \in 0..(Count[slot[d]] - 1),
           Settled(d), NEW o \in Offsets(d, l), Found(d, o)
    PROVE  o = Layout[slot[d]][l]
<1>1. CASE o # 0
  BY <1>1, OffsetSettled
<1>2. CASE o = 0
  <2>1. fdd_img[d].fmt # "d88" /\ o = Offset(d, l)
    BY <1>2 DEF Found, Offsets
  <2>2. /\ fdd_img[d].fmt = Fmt[slot[d]] /\ fdd_sector_words[d] = Width[slot[d]]
        /\ Fmt[slot[d]] \in {"raw", "fdi", "d88"} /\ slot[d] \in Image
    BY ConstantsAssumption DEF Settled, Class, TypeOK, HostOK
  <2>3. /\ Fmt[slot[d]] = "raw" => Layout[slot[d]][l] = l * Width[slot[d]]
        /\ Fmt[slot[d]] = "fdi" => Layout[slot[d]][l] = 1 + l * Width[slot[d]]
    BY <2>2, ImageAssumption
  <2> QED BY <2>1, <2>2, <2>3 DEF Offset
<1> QED BY <1>1, <1>2

\* A steady command on a settled drive names a sector of its image.
LEMMA SteadySector ==
    ASSUME FlowInv, steady, Settled(cmd.drv)
    PROVE  /\ cmd.lba \in 0..(Count[slot[cmd.drv]] - 1)
           /\ media_w[cmd.drv] = fdd_sector_words[cmd.drv]
           /\ fdd_sector_words[cmd.drv] = Width[slot[cmd.drv]]
           /\ cmd.op # "read" => ~Protect[slot[cmd.drv]]
<1>1. cmd.drv \in Drives /\ cmd.lba \in Nat /\ Count[slot[cmd.drv]] \in Nat
  BY FlowTypes DEF FlowInv, ServiceInv
<1>2. media_present[cmd.drv] /\ cmd.lba < media_n[cmd.drv] /\ (cmd.op # "read" => ~media_wp[cmd.drv])
  BY DEF FlowInv, Flow, SteadyCommand
<1>3. /\ media_wp[cmd.drv] = fdd_img[cmd.drv].wp /\ media_n[cmd.drv] = fdd_img[cmd.drv].n
      /\ media_w[cmd.drv] = fdd_img[cmd.drv].w /\ fdd_sector_words[cmd.drv] = fdd_img[cmd.drv].w
  BY <1>1, <1>2 DEF FlowInv, Flow, MediaTold
<1>4. /\ fdd_img[cmd.drv].wp = Protect[slot[cmd.drv]] /\ fdd_img[cmd.drv].n = Count[slot[cmd.drv]]
      /\ fdd_img[cmd.drv].w = Width[slot[cmd.drv]]
  BY DEF Settled, Class
<1> QED BY <1>1, <1>2, <1>3, <1>4

LEMMA SteadyWidth ==
    ASSUME FlowInv, steady
    PROVE  media_w[cmd.drv] = fdd_sector_words[cmd.drv]
  BY FlowTypes DEF FlowInv, ServiceInv, Flow, SteadyCommand, MediaTold

\* Steps outside the part of fdd_poll that carries a sector.
LEMMA Outside ==
    ASSUME FlowInv, UNCHANGED ctlVars, pc \notin {"push", "pull"},
           pc' \notin {"reg0", "fetch", "push", "pull", "persist"},
           steady' => /\ steady
                      /\ media_present'[cmd.drv] = media_present[cmd.drv]
                      /\ media_n'[cmd.drv] = media_n[cmd.drv]
                      /\ media_wp'[cmd.drv] = media_wp[cmd.drv]
                      /\ media_w'[cmd.drv] = media_w[cmd.drv]
    PROVE  /\ (SteadyCommand /\ CommandShape /\ FifoShape)'
           /\ (Sampled /\ Fetching /\ Pushing /\ Pulling /\ Staged /\ Writing)'
<1>1. SteadyCommand' /\ CommandShape'
  BY DEF FlowInv, Flow, SteadyCommand, CommandShape, ctlVars
<1>2. FifoShape'
  BY DEF FlowInv, Flow, FifoShape, ctlVars
<1>3. (Sampled /\ Fetching /\ Pushing /\ Pulling /\ Staged /\ Writing)'
  BY DEF Sampled, Fetching, Pushing, Pulling, Staged, Writing
<1> QED BY <1>1, <1>2, <1>3

-----------------------------------------------------------------------------
(* The host and the guest.                                                  *)

LEMMA RebindFlow ==
    ASSUME FlowInv, NEW d \in Drives, NEW i \in Image, Rebind(d, i)
    PROVE  Flow'
<1> USE DEF hostVars, mediaVars, ctlVars, ramVars, fwVars, prefVars, procVars
<1>0. Flow /\ TypeOK /\ cmd.drv \in Drives /\ cur.drv \in Drives
  BY FlowTypes DEF FlowInv, ServiceInv
<1>1. UNCHANGED <<file, mediaVars, ctlVars, ramVars, fwVars, prefVars, procVars, want>>
  BY DEF Rebind
<1>2. (steady' => steady /\ cmd.drv # d) /\ pending'[d]
      /\ \A e \in Drives \ {d} : pending'[e] = pending[e] /\ slot'[e] = slot[e]
  BY <1>0 DEF Rebind, TypeOK, HostOK
<1>3. \A e \in Drives : Settled(e)' => e # d /\ Settled(e) /\ slot'[e] = slot[e]
  BY <1>1, <1>2 DEF Settled
<1>4. (MediaTold /\ Latched /\ SteadyCommand /\ CommandShape /\ FifoShape)'
  BY <1>0, <1>1, <1>2 DEF Flow, MediaTold, Latched, SteadyCommand, CommandShape, FifoShape
<1>5. (Sampled /\ TagOwned /\ Staged)'
  BY <1>0, <1>1 DEF Flow, Sampled, TagOwned, Staged, stage_word
<1>6. Pulling'
  BY <1>0, <1>1 DEF Flow, Pulling, stage_word
<1>7. ASSUME NEW l, Settled(cur.drv)', Aimed(l) PROVE Aimed(l)'
  BY <1>0, <1>1, <1>3, <1>7 DEF Aimed, Found
<1>8. Fetching'
  <2>1. Settled(cur.drv)' => Settled(cur.drv)
    BY <1>0, <1>1, <1>3 DEF Settled
  <2>2. \A l : l = cur.lba => (Aimed(l)' => Aimed(cur.lba)')
    BY <1>1 DEF Aimed
  <2> QED BY <1>0, <1>1, <1>2, <1>7, <2>1, <2>2 DEF Flow, Fetching
<1>9. Writing'
  <2>1. Settled(cur.drv)' => Settled(cur.drv) /\ slot'[cur.drv'] = slot[cur.drv]
    BY <1>0, <1>1, <1>3 DEF Settled
  <2>2. \A l : l = want.lba => (Aimed(l)' => Aimed(want.lba)')
    BY <1>1 DEF Aimed
  <2> QED BY <1>0, <1>1, <1>2, <1>7, <2>1, <2>2 DEF Flow, Writing
<1>10. Pushing'
  <2>1. Settled(cur.drv)' => Settled(cur.drv) /\ slot'[cur.drv'] = slot[cur.drv]
    BY <1>0, <1>1, <1>3 DEF Settled
  <2>2. Settled(cur.drv)' => SectorOf(slot[cur.drv], cur.lba)' = SectorOf(slot[cur.drv], cur.lba)
    BY <1>1, <2>1 DEF SectorOf
  <2> QED BY <1>0, <1>1, <1>2, <2>1, <2>2 DEF Flow, Pushing
<1> QED BY <1>4, <1>5, <1>6, <1>8, <1>9, <1>10 DEF Flow

\* While fdd_poll carries a sector for a command that nothing has disturbed, the
\* controller waits, and the guest with it.
LEMMA GuestWaits ==
    ASSUME FlowInv, ~GuestResets, Guest
    PROVE  /\ state \notin {"rd_wait", "wr_wait"} /\ pc \notin {"reg0", "fetch"}
           /\ ~(pc = "pull" /\ want.steady) /\ ~(pc \in {"push", "pull"} /\ steady)
<1>1. state \notin {"rd_wait", "wr_wait"}
  BY DEF Guest, GuestRead, GuestWrite, GuestFormat, GuestFill, GuestDrain, NextSector, GuestReset
<1>2. pc \notin {"reg0", "fetch"}
  BY <1>1 DEF FlowInv, Flow, Sampled
<1>3. ~(pc = "pull" /\ want.steady) /\ ~(pc = "push" /\ steady)
  BY <1>1 DEF FlowInv, Flow, Pulling, Pushing
<1>4. ~(pc = "pull" /\ steady)
  BY <1>3 DEF FlowInv, Flow, Writing
<1> QED BY <1>1, <1>2, <1>3, <1>4

LEMMA GuestFrame ==
    ASSUME FlowInv, ~GuestResets, Guest
    PROVE  /\ (MediaTold /\ Latched /\ Sampled /\ Fetching /\ Pushing)'
           /\ (TagOwned /\ Pulling /\ Staged /\ Writing)'
<1> USE DEF hostVars, mediaVars, ramVars, fwVars, prefVars, procVars, histVars
<1>1. UNCHANGED <<hostVars, mediaVars, ramVars, fwVars, prefVars, procVars, want>>
  BY DEF Guest, GuestRead, GuestWrite, GuestFormat, GuestFill, GuestDrain, NextSector, GuestReset
<1>2. pc \in {"push", "pull"} => (steady' <=> steady)
  BY DEF Guest, GuestRead, GuestWrite, GuestFormat, GuestFill, GuestDrain, NextSector, GuestReset
<1>3. /\ pc \notin {"reg0", "fetch"} /\ ~(pc = "pull" /\ want.steady)
      /\ ~(pc \in {"push", "pull"} /\ steady)
  BY GuestWaits
<1>4. (MediaTold /\ Latched /\ TagOwned)'
  BY <1>1 DEF FlowInv, Flow, MediaTold, Latched, TagOwned
<1>5. (Sampled /\ Fetching /\ Pushing /\ Pulling)'
  BY <1>1, <1>2, <1>3 DEF Sampled, Fetching, Pushing, Pulling
<1>6. (Staged /\ Writing)'
  <2>1. Settled(cur.drv)' <=> Settled(cur.drv)
    BY <1>1 DEF Settled
  <2>2. Aimed(want.lba)' <=> Aimed(want.lba)
    BY <1>1 DEF Aimed, Found
  <2> QED BY <1>1, <1>2, <1>3, <2>1, <2>2 DEF FlowInv, Flow, Staged, Writing, stage_word
<1> QED BY <1>4, <1>5, <1>6

LEMMA GuestFlow ==
    ASSUME FlowInv, ~GuestResets, Guest
    PROVE  Flow'
<1> USE DEF mediaVars, procVars, histVars
<1>0. /\ SteadyCommand /\ CommandShape /\ FifoShape /\ fifo \in Seq(Val)
      /\ \A d \in Drives : media_w[d] \in 1..2 /\ media_n[d] \in Nat
      /\ cmd.drv \in Drives /\ steady \in BOOLEAN
      /\ cmd = [op |-> cmd.op, drv |-> cmd.drv, lba |-> cmd.lba]
      /\ cmd.op \in {"read", "write", "format"}
  BY FlowTypes DEF FlowInv, ServiceInv, Flow, TypeOK, CtlOK
<1>1. /\ state \notin {"rd_wait", "wr_wait"} /\ ~(pc \in {"push", "pull"} /\ steady)
  BY GuestWaits
<1> SUFFICES (SteadyCommand /\ CommandShape /\ FifoShape)'
  BY GuestFrame DEF Flow
<1>2. ASSUME NEW d \in Drives, NEW l \in 0..(media_n[d] - 1), GuestRead(d, l) \/ GuestWrite(d, l)
      PROVE  (SteadyCommand /\ CommandShape /\ FifoShape)'
  <2>1. fifo = <<>> /\ fifo' = fifo /\ UNCHANGED mediaVars /\ cmd'.drv = d /\ cmd'.lba = l
    BY <1>0, <1>2 DEF GuestRead, GuestWrite, CommandShape
  <2>2. l < media_n[d] /\ media_present[d] /\ (cmd'.op # "read" => ~media_wp[d])
        /\ state' = (IF cmd'.op = "read" THEN "rd_wait" ELSE "wr_fill")
    BY <1>0, <1>2 DEF GuestRead, GuestWrite
  <2>3. Len(fifo') < media_w[d]
    BY <1>0, <2>1
  <2> QED BY <2>1, <2>2, <2>3 DEF SteadyCommand, CommandShape, FifoShape
<1>3. ASSUME NEW d \in Drives, NEW l \in 0..(media_n[d] - 1), GuestFormat(d, l)
      PROVE  (SteadyCommand /\ CommandShape /\ FifoShape)'
  <2>1. /\ fifo' = [j \in 1..media_w[d] |-> Fill] /\ state' = "wr_wait"
        /\ UNCHANGED mediaVars /\ cmd'.drv = d /\ cmd'.lba = l /\ cmd'.op = "format"
    BY <1>3 DEF GuestFormat
  <2>2. l < media_n[d] /\ media_present[d] /\ ~media_wp[d]
    BY <1>0, <1>3 DEF GuestFormat
  <2>3. Len(fifo') = media_w[d]
    BY <1>0, <2>1
  <2> QED BY <2>1, <2>2, <2>3 DEF SteadyCommand, CommandShape, FifoShape
<1>4. ASSUME NEW s \in GuestData, GuestFill(s)
      PROVE  (SteadyCommand /\ CommandShape /\ FifoShape)'
  <2>1. UNCHANGED <<mediaVars, cmd, steady, pc>> /\ state = "wr_fill" /\ state' \in {"wr_wait", "wr_fill"}
    BY <1>4 DEF GuestFill
  <2>2. SteadyCommand' /\ CommandShape'
    BY <1>0, <2>1 DEF SteadyCommand, CommandShape
  <2>3. ASSUME steady PROVE FifoShape'
    <3>1. Len(fifo) < media_w[cmd.drv] /\ Len(fifo) \in Nat /\ media_w[cmd.drv] \in 1..2
      BY <1>0, <2>1, <2>3 DEF FifoShape
    <3>2. ~FifoFull(fifo)
      BY <3>1 DEF FifoFull
    <3>3. Len(fifo') = Len(fifo) + 1
      BY <1>0, <1>4, <3>2 DEF GuestFill
    <3>4. state' = "wr_wait" => Len(fifo') >= media_w[cmd.drv]
      BY <1>4 DEF GuestFill, FifoFull
    <3>5. state' = "wr_fill" => ~(Len(fifo') >= media_w[cmd.drv])
      BY <1>4 DEF GuestFill, FifoFull
    <3>6. (state' = "wr_wait" => Len(fifo') = media_w[cmd.drv]) /\ (state' = "wr_fill" => Len(fifo') < media_w[cmd.drv])
      BY <3>1, <3>3, <3>4, <3>5
    <3> QED BY <2>1, <3>6 DEF FifoShape
  <2> QED BY <2>1, <2>2, <2>3 DEF FifoShape
<1>5. CASE GuestDrain
  BY <1>0, <1>5 DEF GuestDrain, SteadyCommand, CommandShape, FifoShape
<1>6. CASE NextSector
  <2>1. UNCHANGED <<mediaVars, steady, pc>> /\ state = "update" /\ fifo = <<>>
    BY <1>0, <1>6 DEF NextSector, CommandShape
  <2>2. CASE state' = "idle" /\ fifo' = <<>> /\ UNCHANGED cmd
    BY <1>0, <2>1, <2>2 DEF SteadyCommand, CommandShape, FifoShape
  <2>3. ASSUME NEW l \in 0..(media_n[cmd.drv] - 1), cmd' = [cmd EXCEPT !.lba = l],
               state' = [read |-> "rd_wait", write |-> "wr_fill", format |-> "wr_wait"][cmd.op],
               fifo' = IF cmd.op = "format" THEN [j \in 1..media_w[cmd.drv] |-> Fill] ELSE fifo
        PROVE  (SteadyCommand /\ CommandShape /\ FifoShape)'
    <3>1. cmd'.op = cmd.op /\ cmd'.drv = cmd.drv /\ cmd'.lba = l /\ l < media_n[cmd.drv]
      BY <1>0, <2>3
    <3>2. SteadyCommand'
      BY <1>0, <2>1, <3>1 DEF SteadyCommand
    <3>3. CASE cmd.op = "format"
      <4>1. state' = "wr_wait" /\ Len(fifo') = media_w[cmd.drv]
        BY <1>0, <2>3, <3>3
      <4> QED BY <2>1, <3>1, <3>2, <3>3, <4>1 DEF CommandShape, FifoShape
    <3>4. CASE cmd.op # "format"
      <4>1. state' = (IF cmd.op = "read" THEN "rd_wait" ELSE "wr_fill") /\ fifo' = <<>>
        BY <1>0, <2>1, <2>3, <3>4
      <4>2. Len(fifo') < media_w[cmd.drv]
        BY <1>0, <4>1
      <4> QED BY <2>1, <3>1, <3>2, <4>1, <4>2 DEF CommandShape, FifoShape
    <3> QED BY <3>3, <3>4
  <2> QED BY <1>6, <2>2, <2>3 DEF NextSector
<1> QED BY <1>2, <1>3, <1>4, <1>5, <1>6 DEF Guest, GuestReset

-----------------------------------------------------------------------------
(* The main loop and the OSD outside the part that carries a sector.        *)

LEMMA MountFlow == ASSUME FlowInv, MainMount PROVE Flow'
<1> USE DEF hostVars, mediaVars, prefVars
<1>0. /\ Flow /\ TypeOK /\ cmd.drv \in Drives /\ cur.drv \in Drives
      /\ steady \in BOOLEAN
  BY FlowTypes DEF FlowInv, ServiceInv
<1>1. ASSUME NEW d \in Drives, MountBegin(d) PROVE Flow'
  <2>1. UNCHANGED <<mediaVars, ctlVars, fwVars, pref_owner>> /\ pc = "loop" /\ pc' = "probe"
        /\ (steady' => steady)
    BY <1>0, <1>1 DEF MountBegin
  <2>2. TagOwned'
    BY <1>0, <1>1 DEF MountBegin, DropTag, Flow, TagOwned, TypeOK, PrefOK
  <2>3. MediaTold' /\ Latched'
    BY <1>0, <2>1 DEF Flow, MediaTold, Latched, fwVars
  <2> QED BY <2>1, <2>2, <2>3, Outside DEF Flow
<1>2. ASSUME NEW c \in Probed(cur.drv, cur.size), MountProbe(c) PROVE Flow'
  <2>1. /\ UNCHANGED <<media_w, media_n, media_wp, ctlVars, pref_lba, pref_owner, cur, fdd_sector_words>>
        /\ pc = "probe" /\ pc' = "spin" /\ (steady' => steady /\ cmd.drv # cur.drv)
        /\ media_present' = [media_present EXCEPT ![cur.drv] = FALSE]
        /\ fdd_img' = [fdd_img EXCEPT ![cur.drv] = c]
    BY <1>0, <1>2 DEF MountProbe
  <2>2. /\ ~media_present'[cur.drv]
        /\ \A e \in Drives : e # cur.drv => media_present'[e] = media_present[e] /\ fdd_img'[e] = fdd_img[e]
    BY <1>0, <2>1 DEF TypeOK, MediaOK, FwOK
  <2>3. MediaTold' /\ Latched' /\ TagOwned'
    BY <1>0, <2>1, <2>2 DEF Flow, MediaTold, Latched, TagOwned
  <2> QED BY <1>0, <2>1, <2>2, <2>3, Outside DEF Flow
<1>3. CASE MountDeclare
  <2>1. /\ UNCHANGED <<ctlVars, pref_lba, pref_owner, steady, fdd_img>>
        /\ pc = "spin" /\ pc' = "loop"
        /\ media_present' = [media_present EXCEPT ![cur.drv] = TRUE]
        /\ media_n' = [media_n EXCEPT ![cur.drv] = fdd_img[cur.drv].n]
        /\ media_w' = [media_w EXCEPT ![cur.drv] = fdd_img[cur.drv].w]
        /\ media_wp' = [media_wp EXCEPT ![cur.drv] = fdd_img[cur.drv].wp]
        /\ fdd_sector_words' = [fdd_sector_words EXCEPT ![cur.drv] = fdd_img[cur.drv].w]
    BY <1>3 DEF MountDeclare, histVars
  <2>2. \A e \in Drives :
           /\ e = cur.drv => /\ media_n'[e] = fdd_img[e].n /\ media_w'[e] = fdd_img[e].w
                             /\ media_wp'[e] = fdd_img[e].wp /\ fdd_sector_words'[e] = fdd_img[e].w
           /\ e # cur.drv => /\ media_present'[e] = media_present[e] /\ media_n'[e] = media_n[e]
                             /\ media_w'[e] = media_w[e] /\ media_wp'[e] = media_wp[e]
                             /\ fdd_sector_words'[e] = fdd_sector_words[e]
    BY <1>0, <2>1 DEF TypeOK, MediaOK, FwOK
  <2>3. steady => cmd.drv # cur.drv
    BY <1>0, <2>1 DEF Flow, Latched, SteadyCommand
  <2>4. MediaTold'
    <3>1. SUFFICES ASSUME NEW e \in Drives, media_present'[e]
                   PROVE  /\ media_wp'[e] = fdd_img[e].wp /\ media_n'[e] = fdd_img[e].n
                          /\ media_w'[e] = fdd_img[e].w /\ fdd_sector_words'[e] = fdd_img[e].w
      BY <2>1 DEF MediaTold
    <3>2. CASE e = cur.drv
      BY <2>2, <3>2
    <3>3. CASE e # cur.drv
      BY <1>0, <2>2, <3>1, <3>3 DEF Flow, MediaTold
    <3> QED BY <3>2, <3>3
  <2>5. Latched' /\ TagOwned'
    BY <1>0, <2>1 DEF Flow, Latched, TagOwned
  <2> QED BY <1>0, <2>1, <2>2, <2>3, <2>4, <2>5, Outside DEF Flow
<1> QED BY <1>1, <1>2, <1>3 DEF MainMount

LEMMA OsdFlow ==
    ASSUME FlowInv, ~OsdBusy, NEW d \in Drives, fdd_eject(d) \/ fdd_insert(d)
    PROVE  Flow'
<1> USE DEF mediaVars, procVars
<1>0. /\ Flow /\ TypeOK /\ cmd.drv \in Drives /\ steady \in BOOLEAN
  BY FlowTypes DEF FlowInv, ServiceInv
<1>1. /\ UNCHANGED <<ctlVars, pref_owner>> /\ pc = "loop" /\ pc' = "loop"
      /\ (steady' => steady /\ cmd.drv # d) /\ pref_lba' = DropTag(d)
  BY <1>0 DEF fdd_eject, fdd_insert, OsdMay
<1>2. \A e \in Drives : e # d =>
         /\ media_present'[e] = media_present[e] /\ media_n'[e] = media_n[e]
         /\ media_w'[e] = media_w[e] /\ media_wp'[e] = media_wp[e]
         /\ fdd_sector_words'[e] = fdd_sector_words[e] /\ fdd_img'[e] = fdd_img[e]
  BY <1>0 DEF fdd_eject, fdd_insert, TypeOK, MediaOK, FwOK
<1>3. media_present'[d] => /\ media_wp'[d] = fdd_img'[d].wp /\ media_n'[d] = fdd_img'[d].n
                           /\ media_w'[d] = fdd_img'[d].w /\ fdd_sector_words'[d] = fdd_img'[d].w
  BY <1>0 DEF fdd_eject, fdd_insert, TypeOK, MediaOK, FwOK
<1>4. MediaTold'
  BY <1>0, <1>2, <1>3 DEF Flow, MediaTold
<1>5. Latched' /\ TagOwned'
  BY <1>0, <1>1 DEF Flow, Latched, TagOwned, DropTag, TypeOK, PrefOK
<1> QED BY <1>0, <1>1, <1>2, <1>4, <1>5, Outside DEF Flow

\* Taking a request up, a failed fetch, the staging of the next sector and the
\* end of a write.
LEMMA QuietFlow ==
    ASSUME FlowInv, PollSample \/ FetchFail \/ Prefetch \/ StageOk \/ StageFail \/ Persist
    PROVE  Flow'
<1> USE DEF mediaVars, prefVars, histVars, fwVars
<1>0. /\ Flow /\ TypeOK /\ cur.drv \in Drives
  BY FlowTypes DEF FlowInv, ServiceInv
<1>1. UNCHANGED <<mediaVars, ctlVars, fwVars, steady>> /\ pc \notin {"push", "pull"}
      /\ pc' \notin {"fetch", "push", "pull", "persist", "spin"}
  BY DEF PollSample, FetchFail, Prefetch, StageOk, StageFail, Persist
<1>2. MediaTold' /\ Latched'
  BY <1>0, <1>1 DEF Flow, MediaTold, Latched
<1>3. TagOwned'
  BY <1>0 DEF PollSample, FetchFail, Prefetch, StageOk, StageFail, Persist, DropTag, Flow, TagOwned,
       TypeOK, PrefOK
<1>4. CASE pc' # "reg0"
  BY <1>1, <1>2, <1>3, <1>4, Outside DEF Flow
<1>5. CASE pc' = "reg0"
  <2>1. PollSample
    BY <1>5 DEF PollSample, FetchFail, Prefetch, StageOk, StageFail, Persist
  <2>2. cur'.op = Request /\ Request # "none"
    BY <2>1 DEF PollSample, TypeOK, ProcOK, CallType, FlowInv, ServiceInv
  <2>3. Sampled'
    BY <1>1, <1>5, <2>2 DEF Sampled, Request, ctlVars
  <2>4. (SteadyCommand /\ CommandShape /\ FifoShape)'
    BY <1>0, <1>1 DEF Flow, SteadyCommand, CommandShape, FifoShape, ctlVars
  <2>5. (Fetching /\ Pushing /\ Pulling /\ Staged /\ Writing)'
    BY <1>5 DEF Fetching, Pushing, Pulling, Staged, Writing
  <2> QED BY <1>2, <1>3, <2>3, <2>4, <2>5 DEF Flow
<1> QED BY <1>4, <1>5

-----------------------------------------------------------------------------
(* fdd_poll carries a sector.                                               *)

\* Register 0 is read while the controller still waits: what the call aims at
\* from then on is what the guest asked for.
LEMMA Reg0Flow == ASSUME FlowInv, PollReg0 PROVE Flow'
<1> USE DEF hostVars, mediaVars, ctlVars, fwVars, prefVars
<1>0. /\ Flow /\ TypeOK /\ cmd.drv \in Drives /\ cmd.lba \in Nat /\ steady \in BOOLEAN
      /\ fdd_sector_words[cmd.drv] \in 1..2 /\ fifo \in Seq(Val)
  BY FlowTypes DEF FlowInv, ServiceInv
<1>1. /\ UNCHANGED <<hostVars, mediaVars, ctlVars, fwVars, prefVars, steady>>
      /\ pc = "reg0" /\ cnt' = 0 /\ pc' \in {"push", "pull", "fetch"}
  BY DEF PollReg0
<1>2. PICK o \in Offsets(cmd.drv, cmd.lba) :
         cur' = [cur EXCEPT !.drv = cmd.drv, !.lba = cmd.lba, !.off = o, !.w = fdd_sector_words[cmd.drv]]
  BY DEF PollReg0
<1>3. cur'.drv = cmd.drv /\ cur'.lba = cmd.lba /\ cur'.off = o /\ cur.op \in {"read", "write"}
  BY <1>0, <1>2 DEF TypeOK, ProcOK, CallType
<1>4. \A d \in Drives : Settled(d)' <=> Settled(d)
  BY <1>1 DEF Settled
<1>5. state = IF cur.op = "read" THEN "rd_wait" ELSE "wr_wait"
  BY <1>0, <1>1 DEF Flow, Sampled
<1>6. (pc' = "pull" <=> cur.op = "write") /\ (pc' \in {"push", "pull"} => mgmt_fifo')
  BY <1>3 DEF PollReg0
<1>7. (MediaTold /\ Latched /\ SteadyCommand /\ CommandShape /\ TagOwned)'
  BY <1>0, <1>1, <1>6 DEF Flow, MediaTold, Latched, SteadyCommand, CommandShape, TagOwned
<1>8. FifoShape' /\ Sampled'
  BY <1>0, <1>1, <1>3, <1>5, <1>6 DEF Flow, FifoShape, Sampled
<1>9. steady /\ Settled(cmd.drv) =>
         /\ cmd.lba \in 0..(Count[slot[cmd.drv]] - 1)
         /\ Found(cmd.drv, o) => o = Layout[slot[cmd.drv]][cmd.lba]
  BY <1>0, <1>2, SteadySector, FoundSettled
<1>10. \A l : l = cmd.lba => (steady /\ Settled(cmd.drv) => Aimed(l)')
  BY <1>1, <1>3, <1>9 DEF Aimed, Found
<1>11. Fetching'
  <2>1. \A l : l = cur'.lba => (Aimed(l)' => Aimed(cur.lba)')
    BY DEF Aimed
  <2>2. Settled(cur.drv)' => Settled(cmd.drv)
    BY <1>1, <1>3 DEF Settled
  <2> QED BY <1>1, <1>3, <1>10, <2>1, <2>2 DEF Fetching
<1>12. Writing' /\ Staged'
  <2>1. pc' = "pull" => want' = [drv |-> cmd.drv, lba |-> cmd.lba, data |-> fifo, steady |-> steady]
    BY <1>6 DEF PollReg0
  <2>2. pc' = "pull" => want'.steady = steady /\ want'.lba = cmd.lba
    BY <2>1
  <2>3. \A l : l = want'.lba => (Aimed(l)' => Aimed(want.lba)')
    BY DEF Aimed
  <2>4. Settled(cur.drv)' => Settled(cmd.drv)
    BY <1>1, <1>3 DEF Settled
  <2>5. pc' = "pull" => cmd.op # "read"
    BY <1>0, <1>5, <1>6 DEF Flow, CommandShape
  <2>6. steady /\ Settled(cmd.drv) /\ cmd.op # "read" => ~Protect[slot[cmd.drv]]
    BY SteadySector
  <2> QED BY <1>0, <1>1, <1>3, <1>10, <2>2, <2>3, <2>4, <2>5, <2>6 DEF Writing, Staged
<1>13. Pulling'
  <2>1. SUFFICES ASSUME pc' = "pull", want'.steady PROVE Pulling'
    BY DEF Pulling
  <2>2. want' = [drv |-> cmd.drv, lba |-> cmd.lba, data |-> fifo, steady |-> steady]
    BY <1>6, <2>1 DEF PollReg0
  <2>3. want'.data = fifo /\ steady
    BY <2>1, <2>2
  <2>4. state = "wr_wait" /\ Len(fifo) = fdd_sector_words[cmd.drv]
    BY <1>0, <1>1, <1>5, <1>6, <2>1, <2>3, SteadyWidth DEF Flow, FifoShape
  <2>5. \A j \in 1..fdd_sector_words[cmd.drv] : ~(j <= 0) /\ j - 0 = j
    BY <1>0
  <2>6. fdd_sector_words[cmd.drv] - 0 = fdd_sector_words[cmd.drv]
    BY <1>0
  <2> QED BY <1>1, <1>3, <2>3, <2>4, <2>5, <2>6 DEF Pulling
<1>14. Pushing'
  <2>1. SUFFICES ASSUME pc' = "push", steady PROVE Pushing'
    BY <1>1 DEF Pushing
  <2>2. cur.op = "read" /\ pref_lba[cmd.drv] = cmd.lba /\ bram_addr' = 4
    BY <2>1 DEF PollReg0, PREF_WORD
  <2>3. state = "rd_wait" /\ fifo = <<>>
    BY <1>0, <1>1, <1>5, <2>1, <2>2 DEF Flow, FifoShape
  <2>4. ASSUME OneDrive, Settled(cmd.drv), NEW j \in 1..fdd_sector_words[cmd.drv]
        PROVE  SectorOf(slot[cmd.drv], cmd.lba)[j] = ram'[4 + j - 1]
    <3>1. pref_owner = cmd.drv
      <4>1. pref_lba[cmd.drv] # None
        BY <1>0, <2>2 DEF None
      <4>2. pref_owner \in Drives
        BY <1>0, <4>1 DEF Flow, TagOwned
      <4> QED BY <1>0, <2>4, <4>2 DEF OneDrive
    <3>2. cmd.lba \in 0..(Count[slot[cmd.drv]] - 1)
      BY <2>1, <2>4, SteadySector
    <3>3. SectorOf(slot[cmd.drv], cmd.lba) =
            [k \in 1..fdd_sector_words[cmd.drv] |-> ram[PREF_WORD + k - 1]]
      BY <1>0, <2>2, <2>4, <3>1, <3>2 DEF FlowInv, ServiceInv, PrefetchTagSound, TagSound
    <3>4. 4 + j - 1 \in {4, 5}
      BY <1>0
    <3>5. ram'[4 + j - 1] = ram[4 + j - 1]
      BY <1>0, <3>4, HeaderUnits DEF PollReg0
    <3> QED BY <3>3, <3>5 DEF PREF_WORD
  <2>5. Settled(cur.drv)' <=> Settled(cmd.drv)
    BY <1>1, <1>3 DEF Settled
  <2>6. SectorOf(slot[cur.drv], cur.lba)' = SectorOf(slot[cmd.drv], cmd.lba)
    BY <1>1, <1>3 DEF SectorOf
  <2>7. \A j \in 1..fdd_sector_words[cmd.drv] : ~(j <= 0) /\ j - 0 = j
    BY <1>0
  <2>8. Len(fifo') = 0 /\ 0 < fdd_sector_words[cmd.drv] /\ 4 + fdd_sector_words[cmd.drv] - 0 <= 6
    BY <1>0, <1>1, <2>3
  <2> QED BY <1>1, <1>3, <2>2, <2>3, <2>4, <2>5, <2>6, <2>7, <2>8 DEF Pushing
<1> QED BY <1>7, <1>8, <1>11, <1>12, <1>13, <1>14 DEF Flow

LEMMA FetchFlow == ASSUME FlowInv, FetchOk PROVE Flow'
<1> USE DEF hostVars, mediaVars, ctlVars, fwVars, prefVars, histVars
<1>0. /\ Flow /\ TypeOK /\ cur.drv \in Drives /\ cur.off \in Nat
      /\ fdd_sector_words[cur.drv] \in 1..2 /\ cur.w = fdd_sector_words[cur.drv] /\ xfer_hit = FALSE
  BY FlowTypes DEF FlowInv, ServiceInv, WidthKept, FetchOk
<1>1. /\ UNCHANGED <<hostVars, mediaVars, ctlVars, fwVars, prefVars, cur, histVars>>
      /\ pc = "fetch" /\ pc' = "push" /\ cnt' = 0 /\ mgmt_fifo' = TRUE /\ bram_addr' = stage_word(cur.drv)
      /\ ram' = Landed(slot[cur.drv], cur.off, cur.w, stage_word(cur.drv)) /\ Found(cur.drv, cur.off)
  BY <1>0 DEF FetchOk
<1>2. (MediaTold /\ Latched /\ SteadyCommand /\ CommandShape /\ FifoShape /\ TagOwned)'
  BY <1>0, <1>1 DEF Flow, MediaTold, Latched, SteadyCommand, CommandShape, FifoShape, TagOwned
<1>3. (Sampled /\ Fetching /\ Pulling /\ Staged /\ Writing)'
  BY <1>1 DEF Sampled, Fetching, Pulling, Staged, Writing
<1>4. Pushing'
  <2>1. SUFFICES ASSUME steady PROVE Pushing'
    BY <1>1 DEF Pushing
  <2>2. state = "rd_wait" /\ cur.drv = cmd.drv /\ cur.lba = cmd.lba /\ fifo = <<>>
    BY <1>0, <1>1, <2>1 DEF Flow, Sampled, FifoShape
  <2>3. stage_word(cur.drv) \in Nat /\ stage_word(cur.drv) + fdd_sector_words[cur.drv] - 0 <= 6
    BY <1>0 DEF stage_word
  <2>4. ASSUME Settled(cur.drv), NEW j \in 1..fdd_sector_words[cur.drv]
        PROVE  SectorOf(slot[cur.drv], cur.lba)[j] = ram'[stage_word(cur.drv) + j - 1]
    <3>1. cur.off = Layout[slot[cur.drv]][cur.lba]
      BY <1>0, <1>1, <2>1, <2>4 DEF Flow, Fetching, Aimed
    <3>2. fdd_sector_words[cur.drv] = Width[slot[cur.drv]]
      BY <2>4 DEF Settled, Class
    <3>3. SectorOf(slot[cur.drv], cur.lba)[j] = file[slot[cur.drv]][cur.off + j - 1]
      BY <3>1, <3>2 DEF SectorOf
    <3>4. /\ stage_word(cur.drv) + j - 1 \in RamUnit
          /\ stage_word(cur.drv) + j - 1 \in stage_word(cur.drv)..(stage_word(cur.drv) + cur.w - 1)
          /\ cur.off + ((stage_word(cur.drv) + j - 1) - stage_word(cur.drv)) = cur.off + j - 1
      BY <1>0, <2>3 DEF RamUnit
    <3> QED BY <1>1, <3>3, <3>4 DEF Landed
  <2>5. (Settled(cur.drv)' <=> Settled(cur.drv)) /\ stage_word(cur.drv)' = stage_word(cur.drv)
    BY <1>1 DEF Settled, stage_word
  <2>6. SectorOf(slot[cur.drv], cur.lba)' = SectorOf(slot[cur.drv], cur.lba)
    BY <1>1 DEF SectorOf
  <2>7. \A j \in 1..fdd_sector_words[cur.drv] : ~(j <= 0) /\ j - 0 = j
    BY <1>0
  <2>8. Len(fifo') = 0 /\ 0 < fdd_sector_words[cur.drv]
    BY <1>0, <1>1, <2>2
  <2> QED BY <1>1, <2>2, <2>3, <2>4, <2>5, <2>6, <2>7, <2>8 DEF Pushing
<1> QED BY <1>2, <1>3, <1>4 DEF Flow

\* One unit into the FIFO of a command that nothing has disturbed.
LEMMA PushSteady ==
    ASSUME FlowInv, PushUnit, steady
    PROVE  /\ state = "rd_wait" /\ cnt \in Nat /\ Len(fifo') = cnt + 1
           /\ fifo' = Append(fifo, ram[bram_addr]) /\ bram_addr' = bram_addr + 1
           /\ IF cnt + 1 < fdd_sector_words[cur.drv]
              THEN state' = "rd_wait" /\ pc' = "push"
              ELSE state' = "drain" /\ pc' = "prefetch" /\ cnt + 1 = fdd_sector_words[cur.drv]
<1>0. /\ pc = "push" /\ mgmt_fifo /\ Pushing /\ TypeOK /\ cnt \in Nat /\ fifo \in Seq(Val)
      /\ media_w[cmd.drv] = fdd_sector_words[cmd.drv] /\ fdd_sector_words[cur.drv] \in 1..2
  BY FlowTypes, SteadyWidth DEF FlowInv, ServiceInv, Flow, Latched, PushUnit
<1>1. /\ state = "rd_wait" /\ cur.drv = cmd.drv /\ Len(fifo) = cnt
      /\ cnt < fdd_sector_words[cur.drv] /\ bram_addr + fdd_sector_words[cur.drv] - cnt <= 6
  BY <1>0 DEF Pushing
<1>2. bram_addr \in Nat /\ bram_addr + 1 \in 0..7
  BY <1>0, <1>1 DEF TypeOK, RamOK, RamUnit
<1>3. bram_addr' = bram_addr + 1
  <2>1. (bram_addr + 1) % 8 = bram_addr + 1
    BY <1>2
  <2> QED BY <2>1 DEF PushUnit
<1>4. ~FifoFull(fifo)
  BY <1>0, <1>1 DEF FifoFull
<1>5. fifo' = Append(fifo, ram[bram_addr]) /\ state' = IF FifoFull(fifo') THEN "drain" ELSE state
  BY <1>0, <1>1, <1>4 DEF PushUnit
<1>6. Len(fifo') = cnt + 1
  BY <1>0, <1>1, <1>5
<1>7. FifoFull(fifo') <=> cnt + 1 >= fdd_sector_words[cur.drv]
  BY <1>0, <1>1, <1>6 DEF FifoFull
<1>8. pc' = IF cnt + 1 >= fdd_sector_words[cur.drv] THEN "prefetch" ELSE "push"
  BY DEF PushUnit
<1> QED BY <1>0, <1>1, <1>3, <1>5, <1>6, <1>7, <1>8

LEMMA PushFlow == ASSUME FlowInv, PushUnit PROVE Flow'
<1> USE DEF hostVars, fwVars, prefVars, histVars
<1>0. /\ Flow /\ TypeOK /\ mgmt_fifo /\ pc = "push" /\ fdd_sector_words[cur.drv] \in 1..2
      /\ steady \in BOOLEAN /\ fifo \in Seq(Val)
  BY FlowTypes DEF FlowInv, ServiceInv, Flow, Latched, PushUnit
<1>1. /\ UNCHANGED <<hostVars, media_present, media_w, media_n, media_wp, cmd, ram, mgmt_fifo, mgmt_drv,
                     fwVars, prefVars, cur, histVars>>
      /\ cnt' = cnt + 1 /\ pc' \in {"push", "prefetch"}
  BY <1>0 DEF PushUnit
<1>2. (MediaTold /\ Latched /\ SteadyCommand /\ TagOwned)'
  BY <1>0, <1>1 DEF Flow, MediaTold, Latched, SteadyCommand, TagOwned
<1>3. (Sampled /\ Fetching /\ Pulling /\ Staged /\ Writing)'
  BY <1>1 DEF Sampled, Fetching, Pulling, Staged, Writing
<1>4. CommandShape'
  <2>1. \/ state' = state /\ fifo' = fifo
        \/ state = "rd_wait" /\ state' \in {"rd_wait", "drain"}
    BY <1>0 DEF PushUnit
  <2> QED BY <1>0, <1>1, <2>1 DEF Flow, CommandShape
<1>5. FifoShape'
  BY <1>1, PushSteady DEF FifoShape
<1>6. Pushing'
  <2>1. SUFFICES ASSUME pc' = "push", steady PROVE Pushing'
    BY <1>1 DEF Pushing
  <2>2. /\ state' = "rd_wait" /\ cnt \in Nat /\ Len(fifo') = cnt + 1 /\ cnt + 1 < fdd_sector_words[cur.drv]
        /\ fifo' = Append(fifo, ram[bram_addr]) /\ bram_addr' = bram_addr + 1
    BY <2>1, PushSteady
  <2>3. /\ cur.drv = cmd.drv /\ cur.lba = cmd.lba /\ Len(fifo) = cnt
        /\ bram_addr + fdd_sector_words[cur.drv] - cnt <= 6 /\ bram_addr \in Nat
    BY <1>0, <2>1 DEF Flow, Pushing, TypeOK, RamOK, RamUnit
  <2>4. bram_addr' + fdd_sector_words[cur.drv] - cnt' <= 6
    BY <1>0, <1>1, <2>2, <2>3
  <2>5. ASSUME OneDrive, Settled(cur.drv), NEW j \in 1..fdd_sector_words[cur.drv]
        PROVE  SectorOf(slot[cur.drv], cur.lba)[j] =
                 IF j <= cnt' THEN fifo'[j] ELSE ram[bram_addr' + (j - cnt') - 1]
    <3>1. SectorOf(slot[cur.drv], cur.lba)[j] =
            IF j <= cnt THEN fifo[j] ELSE ram[bram_addr + (j - cnt) - 1]
      BY <1>0, <2>1, <2>5 DEF Flow, Pushing
    <3>2. CASE j <= cnt
      <4>1. fifo'[j] = fifo[j]
        BY <1>0, <2>2, <2>3, <3>2
      <4> QED BY <1>1, <2>2, <3>1, <3>2, <4>1
    <3>3. CASE j = cnt + 1
      <4>1. fifo'[j] = ram[bram_addr]
        BY <1>0, <2>2, <2>3, <3>3
      <4>2. bram_addr + (j - cnt) - 1 = bram_addr /\ ~(j <= cnt)
        BY <2>2, <2>3, <3>3
      <4> QED BY <1>1, <2>2, <3>1, <3>3, <4>1, <4>2
    <3>4. CASE j > cnt + 1
      <4>1. bram_addr' + (j - cnt') - 1 = bram_addr + (j - cnt) - 1 /\ ~(j <= cnt) /\ ~(j <= cnt')
        BY <1>1, <2>2, <2>3, <3>4
      <4> QED BY <3>1, <4>1
    <3>5. j <= cnt \/ j = cnt + 1 \/ j > cnt + 1
      BY <1>0, <2>2
    <3> QED BY <3>2, <3>3, <3>4, <3>5
  <2>6. Settled(cur.drv)' <=> Settled(cur.drv)
    BY <1>1 DEF Settled
  <2>7. SectorOf(slot[cur.drv], cur.lba)' = SectorOf(slot[cur.drv], cur.lba)
    BY <1>1 DEF SectorOf
  <2> QED BY <1>1, <2>2, <2>3, <2>4, <2>5, <2>6, <2>7 DEF Pushing
<1> QED BY <1>2, <1>3, <1>4, <1>5, <1>6 DEF Flow

\* One unit out of the FIFO of a command that nothing has disturbed.
LEMMA PullSteady ==
    ASSUME FlowInv, PullUnit, want.steady
    PROVE  /\ state = "wr_wait" /\ fifo # <<>> /\ fifo' = Tail(fifo)
           /\ ram' = [ram EXCEPT ![stage_word(cur.drv) + cnt] = Head(fifo)]
           /\ Len(fifo) = fdd_sector_words[cur.drv] - cnt /\ cnt < fdd_sector_words[cur.drv]
           /\ IF cnt + 1 < fdd_sector_words[cur.drv]
              THEN state' = "wr_wait" /\ pc' = "pull"
              ELSE state' = "update" /\ pc' = "persist"
<1>0. /\ pc = "pull" /\ mgmt_fifo /\ Pulling /\ cnt \in Nat /\ fifo \in Seq(Val)
      /\ fdd_sector_words[cur.drv] \in 1..2
  BY FlowTypes DEF FlowInv, ServiceInv, Flow, Latched, PullUnit
<1>1. cnt < fdd_sector_words[cur.drv] /\ bram_addr = stage_word(cur.drv) + cnt
  BY <1>0 DEF FlowInv, ServiceInv, PullInside
<1>2. state = "wr_wait" /\ Len(fifo) = fdd_sector_words[cur.drv] - cnt
  BY <1>0 DEF Pulling
<1>3. fifo # <<>>
  BY <1>0, <1>1, <1>2
<1>4. /\ fifo' = Tail(fifo) /\ state' = (IF fifo' = <<>> THEN "update" ELSE state)
      /\ ram' = [ram EXCEPT ![stage_word(cur.drv) + cnt] = Head(fifo)]
  BY <1>0, <1>1, <1>2, <1>3 DEF PullUnit
<1>5. Len(fifo') = Len(fifo) - 1 /\ fifo' \in Seq(Val)
  BY <1>0, <1>3, <1>4
<1>6. fifo' = <<>> <=> ~(cnt + 1 < fdd_sector_words[cur.drv])
  <2>1. fifo' = <<>> <=> Len(fifo') = 0
    BY <1>5, EmptySeq
  <2> QED BY <1>0, <1>1, <1>2, <1>5, <2>1
<1>7. pc' = IF cnt + 1 >= fdd_sector_words[cur.drv] THEN "persist" ELSE "pull"
  BY DEF PullUnit
<1> QED BY <1>0, <1>1, <1>2, <1>3, <1>4, <1>6, <1>7

LEMMA PullFlow == ASSUME FlowInv, PullUnit PROVE Flow'
<1> USE DEF hostVars, mediaVars, fwVars, prefVars, histVars
<1>0. /\ Flow /\ TypeOK /\ mgmt_fifo /\ pc = "pull" /\ fdd_sector_words[cur.drv] \in 1..2
      /\ cnt \in Nat /\ fifo \in Seq(Val) /\ ram \in [RamUnit -> Val]
  BY FlowTypes DEF FlowInv, ServiceInv, Flow, Latched, PullUnit, TypeOK, RamOK
<1>1. /\ UNCHANGED <<hostVars, mediaVars, cmd, mgmt_fifo, mgmt_drv, fwVars, prefVars, cur, histVars>>
      /\ cnt' = cnt + 1 /\ pc' \in {"pull", "persist"}
  BY DEF PullUnit
<1>2. (MediaTold /\ Latched /\ SteadyCommand /\ TagOwned /\ Sampled /\ Fetching /\ Pushing)'
  BY <1>0, <1>1 DEF Flow, MediaTold, Latched, SteadyCommand, TagOwned, Sampled, Fetching, Pushing
<1>3. CommandShape'
  <2>1. \/ state' = state /\ (fifo = <<>> => fifo' = fifo)
        \/ state = "wr_wait" /\ state' = "update" /\ fifo' = <<>>
    BY DEF PullUnit
  <2> QED BY <1>0, <1>1, <2>1 DEF Flow, CommandShape
<1>4. FifoShape'
  <2>1. steady => want.steady
    BY <1>0 DEF Flow, Writing
  <2> QED BY <1>1, <2>1, PullSteady DEF FifoShape
<1>5. Writing'
  <2>1. Settled(cur.drv)' <=> Settled(cur.drv)
    BY <1>1 DEF Settled
  <2>2. Aimed(want.lba)' <=> Aimed(want.lba)
    BY <1>1 DEF Aimed, Found
  <2> QED BY <1>0, <1>1, <2>1, <2>2 DEF Flow, Writing
<1>6. stage_word(cur.drv)' = stage_word(cur.drv) /\ stage_word(cur.drv) \in {0, 2}
  BY <1>1 DEF stage_word
<1>7. ASSUME want.steady, NEW j \in 1..fdd_sector_words[cur.drv]
      PROVE  want.data[j] = IF j <= cnt + 1 THEN ram'[stage_word(cur.drv) + j - 1] ELSE fifo'[j - (cnt + 1)]
  <2>1. /\ fifo # <<>> /\ fifo' = Tail(fifo) /\ Len(fifo) = fdd_sector_words[cur.drv] - cnt
        /\ ram' = [ram EXCEPT ![stage_word(cur.drv) + cnt] = Head(fifo)]
        /\ cnt < fdd_sector_words[cur.drv]
    BY <1>7, PullSteady
  <2>2. want.data[j] = IF j <= cnt THEN ram[stage_word(cur.drv) + j - 1] ELSE fifo[j - cnt]
    BY <1>0, <1>7 DEF Flow, Pulling
  <2>3. stage_word(cur.drv) + cnt \in RamUnit /\ stage_word(cur.drv) + j - 1 \in RamUnit
    BY <1>0, <1>6, <2>1, SMTT(30) DEF RamUnit
  <2>4. CASE j <= cnt
    <3>1. stage_word(cur.drv) + j - 1 # stage_word(cur.drv) + cnt /\ j <= cnt + 1
      BY <1>0, <1>6, <2>4
    <3> QED BY <1>0, <2>1, <2>2, <2>3, <2>4, <3>1
  <2>5. CASE j = cnt + 1
    <3>1. stage_word(cur.drv) + j - 1 = stage_word(cur.drv) + cnt /\ ~(j <= cnt) /\ j - cnt = 1
      BY <1>0, <1>6, <2>5
    <3>2. Head(fifo) = fifo[1]
      BY <1>0, <2>1
    <3> QED BY <1>0, <2>1, <2>2, <2>3, <2>5, <3>1, <3>2
  <2>6. CASE j > cnt + 1
    <3>1. ~(j <= cnt) /\ ~(j <= cnt + 1) /\ j - (cnt + 1) \in 1..(Len(fifo) - 1) /\ (j - (cnt + 1)) + 1 = j - cnt
      BY <1>0, <2>1, <2>6
    <3>2. \A k \in 1..(Len(fifo) - 1) : Tail(fifo)[k] = fifo[k + 1]
      BY <1>0, <2>1
    <3> QED BY <2>1, <2>2, <3>1, <3>2
  <2> QED BY <1>0, <2>4, <2>5, <2>6
<1>8. Pulling'
  <2>1. SUFFICES ASSUME pc' = "pull", want.steady PROVE Pulling'
    BY <1>1 DEF Pulling
  <2>2. /\ state' = "wr_wait" /\ fifo' = Tail(fifo) /\ fifo # <<>>
        /\ Len(fifo) = fdd_sector_words[cur.drv] - cnt
    BY <2>1, PullSteady
  <2>3. Len(fifo') = fdd_sector_words[cur.drv] - cnt'
    BY <1>0, <1>1, <2>2
  <2>4. Len(want.data) = fdd_sector_words[cur.drv]
    BY <1>0, <2>1 DEF Flow, Pulling
  <2> QED BY <1>1, <1>6, <1>7, <2>1, <2>2, <2>3, <2>4 DEF Pulling
<1>9. Staged'
  <2>1. SUFFICES ASSUME pc' = "persist", want.steady, NEW j \in 1..fdd_sector_words[cur.drv]
                 PROVE  want.data[j] = ram'[stage_word(cur.drv) + j - 1]
    BY <1>1, <1>6 DEF Staged
  <2>2. ~(cnt + 1 < fdd_sector_words[cur.drv])
    BY <2>1, PullSteady
  <2>3. j <= cnt + 1
    BY <1>0, <2>2
  <2> QED BY <1>7, <2>1, <2>3
<1> QED BY <1>2, <1>3, <1>4, <1>5, <1>8, <1>9 DEF Flow

-----------------------------------------------------------------------------
(* The three data theorems.                                                 *)

LEMMA FlowStep ==
    ASSUME ~OsdBusy, ~GuestResets, FlowInv, [Next]_vars
    PROVE  FlowInv'
<1>1. ServiceInv'
  BY ServiceStep DEF FlowInv
<1>2. Flow'
  <2>1. CASE UNCHANGED vars
    <3> USE <2>1 DEF vars, hostVars, mediaVars, ctlVars, ramVars, fwVars, prefVars, procVars, histVars
    <3>1. Flow
      BY DEF FlowInv
    <3>2. (MediaTold /\ Latched /\ SteadyCommand /\ CommandShape /\ FifoShape /\ Sampled /\ TagOwned)'
      BY <3>1 DEF Flow, MediaTold, Latched, SteadyCommand, CommandShape, FifoShape, Sampled, TagOwned
    <3>3. /\ Settled(cur.drv)' <=> Settled(cur.drv)
          /\ Aimed(cur.lba)' <=> Aimed(cur.lba)
          /\ Aimed(want.lba)' <=> Aimed(want.lba)
          /\ SectorOf(slot[cur.drv], cur.lba)' = SectorOf(slot[cur.drv], cur.lba)
      BY DEF Settled, Aimed, Found, SectorOf
    <3>4. (Fetching /\ Writing)'
      BY <3>1, <3>3 DEF Flow, Fetching, Writing
    <3>5. Pushing'
      BY <3>1, <3>3 DEF Flow, Pushing
    <3>6. (Pulling /\ Staged)'
      BY <3>1 DEF Flow, Pulling, Staged, stage_word
    <3> QED BY <3>2, <3>4, <3>5, <3>6 DEF Flow
  <2>2. CASE MainPoll
    BY <2>2, QuietFlow, Reg0Flow, FetchFlow, PushFlow, PullFlow DEF MainPoll
  <2> QED BY <2>1, <2>2, RebindFlow, GuestFlow, MountFlow, OsdFlow DEF Next
<1> QED BY <1>1, <1>2 DEF FlowInv

LEMMA FlowInit == Init => FlowInv
<1> SUFFICES ASSUME Init PROVE FlowInv
  OBVIOUS
<1>1. (MediaTold /\ Latched /\ SteadyCommand /\ CommandShape /\ FifoShape)
  BY DEF Init, MediaTold, Latched, SteadyCommand, CommandShape, FifoShape
<1>2. (Sampled /\ Fetching /\ Pushing /\ TagOwned /\ Pulling /\ Staged /\ Writing)
  BY DEF Init, Sampled, Fetching, Pushing, TagOwned, Pulling, Staged, Writing
<1> QED BY <1>1, <1>2, ServiceInit DEF FlowInv, Flow

LEMMA FlowAlways ==
    ASSUME ~OsdBusy, ~GuestResets
    PROVE  Spec => []FlowInv
<1>1. FlowInv /\ [Next]_vars => FlowInv'
  BY FlowStep
<1> QED BY <1>1, FlowInit, PTL DEF Spec

\* Only the end of a write touches a file, and only the one in its drive's slot.
LEMMA FileChange ==
    ASSUME FlowInv, [Next]_vars, file' # file
    PROVE  /\ Persist /\ Found(cur.drv, cur.off) /\ slot[cur.drv] \in Image
           /\ \A i \in Image \ {slot[cur.drv]} : file'[i] = file[i]
           /\ \A u \in FileUnits(slot[cur.drv]) :
                file'[slot[cur.drv]][u] # file[slot[cur.drv]][u] =>
                   /\ u \in cur.off..(cur.off + cur.w - 1)
                   /\ file'[slot[cur.drv]][u] = ram[stage_word(cur.drv) + (u - cur.off)]
<1>0. /\ TypeOK /\ cur.drv \in Drives /\ slot[cur.drv] \in Image /\ cur.off \in Nat /\ cur.w \in 1..2
      /\ DOMAIN file = Image
  BY FlowTypes DEF FlowInv, ServiceInv, TypeOK, ProcOK, CallType, HostOK
<1>1. Persist
  BY DEF Next, Guest, MainMount, MainPoll, Rebind, GuestRead, GuestWrite, GuestFormat, GuestFill,
       GuestDrain, NextSector, GuestReset, MountBegin, MountProbe, MountDeclare, PollSample, PollReg0,
       FetchOk, FetchFail, PushUnit, Prefetch, StageOk, StageFail, PullUnit, fdd_eject, fdd_insert,
       vars, hostVars
<1>2. Found(cur.drv, cur.off) /\ \E k \in 0..cur.w : file' = Written(cur.drv, k)
  BY <1>0, <1>1 DEF Persist
<1>3. PICK k \in 0..cur.w : file' = Written(cur.drv, k)
  BY <1>2
<1>4. /\ \A i \in Image \ {slot[cur.drv]} : file'[i] = file[i]
      /\ file'[slot[cur.drv]] = [u \in FileUnits(slot[cur.drv]) |->
            IF u \in cur.off..(cur.off + k - 1)
            THEN ram[stage_word(cur.drv) + (u - cur.off)] ELSE file[slot[cur.drv]][u]]
  BY <1>0, <1>3 DEF Written, TypeOK, HostOK
<1>5. \A u : u \in cur.off..(cur.off + k - 1) => u \in cur.off..(cur.off + cur.w - 1)
  BY <1>0
<1> QED BY <1>0, <1>1, <1>2, <1>4, <1>5

\* A write that reaches a file puts the sector the guest queued where the image
\* keeps the sector its command named, and touches nothing else: for any images
\* and drives, with failing and torn transfers, remounts and rebinds, as long as
\* neither a reset of the controller nor the OSD's interrupt cuts into it
\* (fdd_poll, pull_fifo and the write of the staged sector).
THEOREM WritesReachTheirSector ==
    ASSUME ~OsdBusy, ~GuestResets
    PROVE  Spec => WriteReachesItsSector
<1>1. ASSUME FlowInv, [Next]_vars
      PROVE  [(file' # file /\ Settled(cur.drv) /\ want.steady) =>
          LET i == slot[cur.drv] IN
          /\ \A j \in Image \ {i} : file'[j] = file[j]
          /\ \A u \in FileUnits(i) :
               file'[i][u] # file[i][u] =>
                 LET at == Layout[i][want.lba] IN
                 /\ u \in at..(at + Width[i] - 1)
                 /\ file'[i][u] = want.data[u - at + 1]]_vars
  <2>1. SUFFICES ASSUME file' # file, Settled(cur.drv), want.steady,
                        NEW u \in FileUnits(slot[cur.drv]),
                        file'[slot[cur.drv]][u] # file[slot[cur.drv]][u]
                 PROVE  /\ u \in Layout[slot[cur.drv]][want.lba]
                                   ..(Layout[slot[cur.drv]][want.lba] + Width[slot[cur.drv]] - 1)
                        /\ file'[slot[cur.drv]][u] = want.data[u - Layout[slot[cur.drv]][want.lba] + 1]
    BY <1>1, FileChange
  <2>2. /\ Persist /\ Found(cur.drv, cur.off) /\ u \in cur.off..(cur.off + cur.w - 1)
        /\ file'[slot[cur.drv]][u] = ram[stage_word(cur.drv) + (u - cur.off)]
    BY <1>1, <2>1, FileChange
  <2>3. cur.off = Layout[slot[cur.drv]][want.lba]
    <3>1. Writing /\ pc = "persist"
      BY <1>1, <2>2 DEF FlowInv, Flow, Persist
    <3>2. Aimed(want.lba)
      BY <2>1, <3>1 DEF Writing
    <3> QED BY <2>2, <3>2 DEF Aimed
  <2>4. cur.w = fdd_sector_words[cur.drv] /\ cur.w = Width[slot[cur.drv]] /\ cur.w \in 1..2 /\ cur.off \in Nat
    BY <1>1, <2>1, <2>2 DEF FlowInv, ServiceInv, WidthKept, Persist, Settled, Class, TypeOK, ProcOK, CallType
  <2>5. \A j \in 1..cur.w : want.data[j] = ram[stage_word(cur.drv) + j - 1]
    BY <1>1, <2>1, <2>2, <2>4 DEF FlowInv, Flow, Staged, Persist
  <2>6. /\ u - cur.off + 1 \in 1..cur.w
        /\ stage_word(cur.drv) + (u - cur.off + 1) - 1 = stage_word(cur.drv) + (u - cur.off)
    BY <2>2, <2>4 DEF stage_word
  <2> QED BY <2>2, <2>3, <2>4, <2>5, <2>6
<1> QED BY <1>1, FlowAlways, PTL DEF Spec, WriteReachesItsSector

\* Under the same conditions a write-protected image that is the mounted one is
\* never written, by WRITE or by FORMAT (the controller's test of the mark, the
\* mark that fdd_mount declares).
THEOREM ProtectionHolds ==
    ASSUME ~OsdBusy, ~GuestResets
    PROVE  Spec => WriteProtectHonoured
<1>1. ASSUME FlowInv, [Next]_vars
      PROVE  [\A d \in Drives :
                 (Protect[slot[d]] /\ Settled(d) /\ want.steady) =>
                     file'[slot[d]] = file[slot[d]]]_vars
  <2>1. SUFFICES ASSUME NEW d \in Drives, Protect[slot[d]], Settled(d), want.steady, file' # file
                 PROVE  file'[slot[d]] = file[slot[d]]
    OBVIOUS
  <2>2. /\ Persist /\ \A i \in Image \ {slot[cur.drv]} : file'[i] = file[i]
        /\ slot[d] \in Image /\ cur.drv \in Drives
    BY <1>1, <2>1, FileChange, FlowTypes DEF FlowInv, ServiceInv
  <2>3. d # cur.drv
    <3>1. Writing /\ pc = "persist"
      BY <1>1, <2>2 DEF FlowInv, Flow, Persist
    <3> QED BY <2>1, <3>1 DEF Writing
  <2>4. slot[d] # slot[cur.drv]
    BY <1>1, <2>2, <2>3 DEF FlowInv, ServiceInv, SlotsApart
  <2> QED BY <2>2, <2>4
<1> QED BY <1>1, FlowAlways, PTL DEF Spec, WriteProtectHonoured

\* With one drive in use, the sector the controller hands the guest is the one
\* its command waits for, out of the prefetch buffer or freshly read, failed
\* transfers and remounts in between notwithstanding.  With two drives it need
\* not be: they share the buffer and not the tag.
THEOREM ReadsServeTheirRequest ==
    ASSUME ~OsdBusy, ~GuestResets, OneDrive
    PROVE  Spec => ReadServesRequested
<1>1. ASSUME FlowInv, [Next]_vars
      PROVE  [(state = "rd_wait" /\ state' = "drain" /\ Settled(cmd.drv) /\ steady) =>
                 fifo' = SectorOf(slot[cmd.drv], cmd.lba)]_vars
  <2>1. SUFFICES ASSUME state = "rd_wait", state' = "drain", Settled(cmd.drv), steady
                 PROVE  fifo' = SectorOf(slot[cmd.drv], cmd.lba)
    OBVIOUS
  <2>2. PushUnit
    BY <1>1, <2>1
    DEF Next, Guest, MainMount, MainPoll, Rebind, GuestRead, GuestWrite, GuestFormat, GuestFill,
       GuestDrain, NextSector, GuestReset, MountBegin, MountProbe, MountDeclare, PollSample, PollReg0,
       FetchOk, FetchFail, Prefetch, StageOk, StageFail, PullUnit, Persist, fdd_eject, fdd_insert,
       vars, ctlVars
  <2>3. /\ fifo' = Append(fifo, ram[bram_addr]) /\ cnt \in Nat /\ cnt + 1 = fdd_sector_words[cur.drv]
    BY <1>1, <2>1, <2>2, PushSteady
  <2>4. /\ cur.drv = cmd.drv /\ cur.lba = cmd.lba /\ Len(fifo) = cnt
        /\ \A j \in 1..fdd_sector_words[cur.drv] : SectorOf(slot[cur.drv], cur.lba)[j] =
                IF j <= cnt THEN fifo[j] ELSE ram[bram_addr + (j - cnt) - 1]
    BY <1>1, <2>1, <2>2 DEF FlowInv, Flow, Pushing, PushUnit
  <2>5. fdd_sector_words[cur.drv] = Width[slot[cur.drv]] /\ fdd_sector_words[cur.drv] \in 1..2
        /\ bram_addr \in Nat /\ fifo \in Seq(Val)
    BY <1>1, <2>1, <2>4, FlowTypes DEF FlowInv, ServiceInv, Settled, Class, TypeOK, RamOK, RamUnit
  <2>6. ASSUME NEW j \in 1..Width[slot[cur.drv]]
        PROVE  fifo'[j] = SectorOf(slot[cur.drv], cur.lba)[j]
    <3>1. CASE j <= cnt
      BY <2>3, <2>4, <2>5, <3>1
    <3>2. CASE j = cnt + 1
      <4>1. bram_addr + (j - cnt) - 1 = bram_addr /\ ~(j <= cnt)
        BY <2>3, <2>5, <3>2
      <4>2. fifo'[j] = ram[bram_addr]
        BY <2>3, <2>4, <2>5, <3>2
      <4> QED BY <2>4, <2>5, <4>1, <4>2
    <3>3. j <= cnt \/ j = cnt + 1
      BY <2>3, <2>5
    <3> QED BY <3>1, <3>2, <3>3
  <2>7. /\ DOMAIN fifo' = 1..Width[slot[cur.drv]]
        /\ DOMAIN SectorOf(slot[cur.drv], cur.lba) = 1..Width[slot[cur.drv]]
    BY <2>3, <2>4, <2>5 DEF SectorOf
  <2>8. fifo' = [j \in DOMAIN fifo' |-> fifo'[j]]
    BY <2>3, <2>5
  <2> QED BY <2>4, <2>6, <2>7, <2>8 DEF SectorOf
<1> QED BY <1>1, FlowAlways, PTL DEF Spec, ReadServesRequested
=============================================================================
