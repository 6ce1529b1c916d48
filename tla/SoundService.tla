---------------------------- MODULE SoundService ----------------------------
(***************************************************************************)
(* The two sound loaders and the drive-noise service: rhythm.c fills the   *)
(* lower half of the OPNA's ADPCM-A store with the drum kit, drive_sound.c *)
(* the upper half with the drive's mechanism, both a chunk per pass of the *)
(* main loop and both through one auto-incrementing address register; the  *)
(* service then borrows drum channels for mechanism samples.               *)
(*                                                                         *)
(* A file is the sequence of its samples (WAV framing, stereo and 8-bit    *)
(* conversion are left out), a channel's start and end are pages.  Calls   *)
(* are atomic: they all run in the main loop.  The build has the store     *)
(* (OMGMT_CAPS), and a disk is mounted, so the loop polls.                 *)
(***************************************************************************)
EXTENDS AdpcmaEnc, FiniteSets

CONSTANTS Channels,   \* how many rhythm voices (6)
          HalfPages,  \* pages of each half of the store (64)
          Chunk,      \* samples a pass reads (SECTOR_BYTES)
          WavData, WavRate,  \* the whole frames of each voice's WAV
          NoWav,      \* voices whose file is not a usable WAV
          BinData, BinPair,  \* rhythm.bin: payload and voice table
          KitData, KitRate,  \* fddsnd.bin: the samples of each segment
          Starts,     \* which slots may be bound at the start
          Late,       \* slots that may be bound later
          BadVoice, BadSeg,  \* the files a read of which may fail
          Hold,       \* polls of rattle after a step (60)
          AgeMax      \* polls after which a borrow ends (4096)

Ch == 0..Channels - 1
Seg == <<"tick", "clunk", "seek", "read", "motor">>
Slots == Ch \cup {Channels, Channels + 1}
BinSlot == Channels
KitSlot == Channels + 1

ASSUME SoundAssumption ==
    /\ Channels \in Nat \ {0} /\ HalfPages \in Nat \ {0} /\ Chunk \in Nat \ {0}
    /\ Hold \in Nat \ {0} /\ AgeMax \in Nat \ {0}
    /\ Starts \subseteq SUBSET Slots /\ Late \subseteq Slots
    /\ NoWav \subseteq Ch /\ BadVoice \subseteq Ch /\ BadSeg \subseteq 1..Len(Seg)
    /\ \A v \in Ch : /\ WavData[v] \in Seq(Int) /\ Len(WavData[v]) # 1
                     /\ WavRate[v] \in Nat \ {0}
                     /\ BinPair[v] \in Nat \X Nat
    /\ BinData \in Seq(Nat) /\ KitRate \in Nat \ {0}
    /\ \A s \in 1..Len(Seg) : KitData[s] \in Seq(Int) /\ Len(KitData[s]) # 1

Half == HalfPages * PageBytes

VARIABLES
    bound,                 \* slots the host has bound
    store, rhyaddr,        \* the store and its address register
    mode, wav,             \* rhythm_load's mode; the state of wav_step
    rhythm,                \* rhythm_start and rhythm_end
    rhythm_done, drive_done,
    dl, drv, drv_loaded,   \* the state of drive_sound_load; drv_start, drv_end
    pair, lr,              \* per channel: start and end, level
    ch_seg, ch_age,        \* the segment a channel is borrowed for (0: free), its age
    seek_hold, last_head,
    on,                    \* the Drive Sound option
    pc                     \* where the main loop is

storeVars == <<store, rhyaddr>>
rhythmVars == <<mode, wav, rhythm, rhythm_done>>
driveVars == <<dl, drv, drv_loaded, drive_done>>
chipVars == <<pair, lr>>
pollVars == <<ch_seg, ch_age, seek_hold, last_head>>
vars == <<bound, storeVars, rhythmVars, driveVars, chipVars, pollVars, on, pc>>

NoEnc == adpcm_enc_init(0)

Init ==
    /\ bound \in Starts
    /\ store = [a \in 0..2 * Half - 1 |-> 0] /\ rhyaddr = 0
    /\ mode = 0 /\ rhythm = [v \in Ch |-> <<0, 0>>]
    /\ wav = [voice |-> 0, cursor |-> 0, open |-> FALSE, left |-> <<>>,
              written |-> 0, enc |-> NoEnc, packed |-> {}]
    /\ dl = [hdr |-> FALSE, seg |-> 1, cursor |-> 0, base |-> 0, open |-> FALSE,
             left |-> <<>>, enc |-> NoEnc]
    /\ drv = [s \in 1..Len(Seg) |-> <<0, 0>>]
    /\ drv_loaded = FALSE /\ rhythm_done = FALSE /\ drive_done = FALSE
    /\ pair = [c \in Ch |-> <<0, 0>>] /\ lr = [c \in Ch |-> "guest"]
    /\ ch_seg = [c \in Ch |-> 0] /\ ch_age = [c \in Ch |-> 0]
    /\ seek_hold = 0 /\ last_head = FALSE /\ on = TRUE /\ pc = "rhythm"

-----------------------------------------------------------------------------
(* The store.                                                               *)

\* (mutant) The address is set when a stream opens and trusted from then on.
Arm_once(want, opening) == IF opening THEN want ELSE rhyaddr

\* Each call sets the address register again: the other loader has moved it.
Arm(want, opening) == want

Least(a, b) == IF a < b THEN a ELSE b

\* The bytes that still fit below the wall, written from the register on.
Fitting(bytes, room) == SubSeq(bytes, 1, Least(Len(bytes), room))
Put(addr, bytes) ==
    /\ store' = [a \in DOMAIN store |->
                    IF a - addr \in 0..Len(bytes) - 1 THEN bytes[a - addr + 1] ELSE store[a]]
    /\ rhyaddr' = (addr + Len(bytes)) % (2 * Half)

Drop(s, n) == SubSeq(s, n + 1, Len(s))

\* One chunk through the encoder, and the flush if the file ends or fails.
Flushed(f) == LET g == Flush(f) IN [g EXCEPT !.out = f.out \o @]

\* A flush whose tail never ends: it does not return, and its samples fill
\* whatever room there is below the wall.
Stuck(f) == LET g == Samples([f EXCEPT !.out = <<>>], 2 * Half, TRUE)
            IN  [g EXCEPT !.out = f.out \o @]
Hangs(e, chunk, last) == last /\ ~Ends(Push(e, chunk))
Feed(e, chunk, last) ==
    LET f == Push(e, chunk)
    IN  IF ~last THEN f ELSE IF Ends(f) THEN Flushed(f) ELSE Stuck(f)

-----------------------------------------------------------------------------
(* rhythm_load.                                                             *)

\* WAV files win; the mode is fixed by what is bound when first looked at.
Mode == IF mode # 0 THEN mode
        ELSE IF bound \cap Ch # {} THEN 2
        ELSE IF BinSlot \in bound THEN 1 ELSE 0

AtRhythm == pc = "rhythm" /\ mode' = Mode
RhythmTurn == AtRhythm /\ pc' = "drive"

RhythmIdle ==
    /\ RhythmTurn /\ (rhythm_done \/ Mode = 0)
    /\ UNCHANGED <<bound, storeVars, wav, rhythm, rhythm_done, driveVars, chipVars,
                   pollVars, on>>

\* Pairs that name pages outside the drum half are pulled inside.
ClampPair(p) == <<IF p[1] >= HalfPages THEN 0 ELSE p[1],
                  IF p[2] >= HalfPages THEN HalfPages - 1 ELSE p[2]>>

\* The whole file in one call: the table is taken over with the header, the
\* voices are programmed only when the last chunk has landed.
bin_load(chunks) ==
    LET payload == Fitting(BinData, Half)
        all == (Len(payload) + Chunk - 1) \div Chunk
        landed == Fitting(payload, chunks * Chunk)
    IN  /\ RhythmTurn /\ ~rhythm_done /\ Mode = 1 /\ chunks <= all
        /\ rhythm' = [v \in Ch |-> ClampPair(BinPair[v])]
        /\ Put(0, landed)
        /\ rhythm_done' = (chunks = all)
        /\ pair' = IF chunks = all THEN rhythm' ELSE pair
        /\ UNCHANGED <<bound, wav, driveVars, lr, pollVars, on>>

\* The header cannot be read or is refused: nothing is touched.
BinRefused ==
    /\ RhythmTurn /\ ~rhythm_done /\ Mode = 1
    /\ UNCHANGED <<bound, storeVars, wav, rhythm, rhythm_done, driveVars, chipVars,
                   pollVars, on>>

AtWav == AtRhythm /\ ~rhythm_done /\ Mode = 2
WavTurn == AtWav /\ pc' = "drive"

WavEnd ==
    /\ WavTurn /\ wav.voice >= Channels /\ rhythm_done' = TRUE
    /\ UNCHANGED <<bound, storeVars, wav, rhythm, driveVars, chipVars, pollVars, on>>

\* An unbound slot, an unusable file or a failed probe skips the voice.
WavSkip ==
    /\ WavTurn /\ wav.voice < Channels /\ ~wav.open
    /\ wav.voice \notin bound \/ wav.voice \in NoWav \cup BadVoice
    /\ wav' = [wav EXCEPT !.voice = @ + 1]
    /\ UNCHANGED <<bound, storeVars, rhythm, rhythm_done, driveVars, chipVars, pollVars, on>>

\* wav_step on an open voice, or on one it opens: a chunk is encoded, and a
\* voice that ends is programmed, unless a read of it failed.
wav_step(ok) ==
    LET v == wav.voice
        w == IF wav.open THEN wav
             ELSE [wav EXCEPT !.open = TRUE, !.left = WavData[v], !.written = 0,
                              !.enc = adpcm_enc_init(WavRate[v])]
        at == w.cursor + w.written
        left == IF at >= Half THEN <<>> ELSE w.left
        n == Least(Len(left), Chunk)
        rest == IF ok THEN Drop(left, n) ELSE left
        ends == ~ok \/ rest = <<>>
        chunk == IF ok THEN SubSeq(left, 1, n) ELSE <<>>
        hangs == Hangs(w.enc, chunk, ends)
        e == Feed(w.enc, chunk, ends)
        bytes == Fitting(e.out, Half - at)
        written == w.written + Len(bytes)
        keep == ok /\ written > 0
        pages == <<w.cursor \div PageBytes, (w.cursor + written - 1) \div PageBytes>>
    IN  /\ AtWav /\ v < Channels /\ (ok \/ (n > 0 /\ v \in BadVoice))
        /\ wav.open \/ v \in bound \ NoWav
        /\ pc' = IF hangs THEN "hung" ELSE "drive"
        /\ Put(Arm(at, ~wav.open), bytes)
        /\ IF ~ends \/ hangs
           THEN /\ wav' = [w EXCEPT !.left = rest, !.written = written,
                                    !.enc = [e EXCEPT !.out = <<>>]]
                /\ UNCHANGED <<rhythm, pair>>
           ELSE /\ wav' = [voice |-> v + 1, open |-> FALSE, left |-> <<>>, enc |-> NoEnc,
                           written |-> 0,
                           cursor |-> IF keep THEN w.cursor + written ELSE w.cursor,
                           packed |-> IF keep THEN w.packed \cup {v} ELSE w.packed]
                /\ IF keep THEN rhythm' = [rhythm EXCEPT ![v] = pages]
                                /\ pair' = [pair EXCEPT ![v] = pages]
                   ELSE UNCHANGED <<rhythm, pair>>
        /\ UNCHANGED <<bound, rhythm_done, driveVars, lr, pollVars, on>>

-----------------------------------------------------------------------------
(* drive_sound_load.                                                        *)

AtDrive == pc = "drive"
DriveTurn == AtDrive /\ pc' = "poll"

\* Loaded, refused, not bound yet, or the header cannot be read: retried.
DriveIdle ==
    /\ DriveTurn /\ (drive_done \/ ~dl.hdr)
    /\ UNCHANGED <<bound, storeVars, rhythmVars, driveVars, chipVars, pollVars, on>>

\* The header is parsed: a bad one silences the kit for good.
DriveHeader(good) ==
    /\ DriveTurn /\ ~drive_done /\ ~dl.hdr /\ KitSlot \in bound
    /\ dl' = IF good THEN [dl EXCEPT !.hdr = TRUE, !.cursor = Half, !.seg = 1] ELSE dl
    /\ drive_done' = ~good
    /\ UNCHANGED <<bound, storeVars, rhythmVars, drv, drv_loaded, chipVars, pollVars, on>>

DriveEnd ==
    /\ DriveTurn /\ ~drive_done /\ dl.hdr /\ ~dl.open /\ dl.seg > Len(Seg)
    /\ drv_loaded' = TRUE /\ drive_done' = TRUE
    /\ UNCHANGED <<bound, storeVars, rhythmVars, dl, drv, chipVars, pollVars, on>>

drive_sound_load(ok) ==
    LET s == dl.seg
        d == IF dl.open THEN dl
             ELSE [dl EXCEPT !.open = TRUE, !.left = KitData[s], !.base = dl.cursor,
                             !.enc = adpcm_enc_init(KitRate)]
        n == Least(Len(d.left), Chunk)
        rest == IF ok THEN Drop(d.left, n) ELSE d.left
        ends == ~ok \/ rest = <<>>
        chunk == IF ok THEN SubSeq(d.left, 1, n) ELSE <<>>
        hangs == Hangs(d.enc, chunk, ends)
        e == Feed(d.enc, chunk, ends)
        bytes == Fitting(e.out, 2 * Half - d.cursor)
        cursor == d.cursor + Len(bytes)
    IN  /\ AtDrive /\ ~drive_done /\ dl.hdr /\ s <= Len(Seg) /\ (ok \/ (n > 0 /\ s \in BadSeg))
        /\ pc' = IF hangs THEN "hung" ELSE "poll"
        /\ Put(Arm(d.cursor, ~dl.open), bytes)
        /\ IF ~ends \/ hangs
           THEN /\ dl' = [d EXCEPT !.left = rest, !.cursor = cursor,
                                   !.enc = [e EXCEPT !.out = <<>>]]
                /\ drv' = drv
           ELSE /\ dl' = [d EXCEPT !.open = FALSE, !.seg = s + 1, !.left = <<>>, !.enc = NoEnc,
                                   !.base = 0,
                                   !.cursor = ((cursor + PageBytes - 1) \div PageBytes) * PageBytes]
                /\ drv' = [drv EXCEPT ![s] =
                              IF ok /\ cursor > d.base
                              THEN <<d.base \div PageBytes, (cursor - 1) \div PageBytes>>
                              ELSE <<0, 0>>]
        /\ UNCHANGED <<bound, rhythmVars, drv_loaded, drive_done, chipVars, pollVars, on>>

-----------------------------------------------------------------------------
(* drive_sound_poll, as transformers of the channels and the service state. *)

\* The end flags a poll finds are any set of channels: voices end, and the
\* guest clears flags, as they like.
Service(ended) == [pair |-> pair, lr |-> lr, flag |-> ended, seg |-> ch_seg, age |-> ch_age]

\* (mutant) The drum pair comes back, the guest's level does not.
chan_restore_loud(s, c) ==
    [s EXCEPT !.pair[c] = rhythm[c], !.seg[c] = 0, !.age[c] = 0]

chan_restore(s, c) ==
    [s EXCEPT !.pair[c] = rhythm[c], !.lr[c] = "guest", !.seg[c] = 0, !.age[c] = 0]

\* A free channel whose end flag is up, the highest first; else any free one.
chan_play(s, g) ==
    LET free == {c \in Ch : s.seg[c] = 0}
        ended == free \cap s.flag
        best == IF ended # {} THEN ended ELSE free
        c == CHOOSE x \in best : \A y \in best : y <= x
    IN  IF free = {} THEN s
        ELSE [s EXCEPT !.flag = @ \ {c}, !.pair[c] = drv[g], !.lr[c] = "kit",
                       !.seg[c] = g, !.age[c] = 0]

Playing(s, g) == \E c \in Ch : s.seg[c] = g
PlayEdge(cond, s, g) == IF cond THEN chan_play(s, g) ELSE s
PlayLoop(cond, s, g) == IF cond /\ ~Playing(s, g) THEN chan_play(s, g) ELSE s

\* The plays of one poll: edges first, then the loops nobody plays yet.
Plays(s, step, clunk, hold, xfer, motor) ==
    PlayLoop(motor, PlayLoop(xfer, PlayLoop(hold > 0,
        PlayEdge(clunk, PlayEdge(step, s, 1), 2), 3), 4), 5)

\* (mutant) A borrow has no age.
Swept_ageless(s, c, want) ==
    LET t == s
        keep == s.seg[c] \in want
    IN  IF s.seg[c] = 0 \/ c \notin s.flag THEN t
        ELSE IF keep THEN [t EXCEPT !.age[c] = 0]
        ELSE chan_restore(t, c)

\* The flag pass over one channel: an ended sample, or one that has been
\* sounding too long, is keyed again if its level still wants it.
Swept(s, c, want) ==
    LET t == [s EXCEPT !.age[c] = Least(@ + 1, AgeMax)]
        keep == s.seg[c] \in want
    IN  IF s.seg[c] = 0 THEN s
        ELSE IF c \notin s.flag /\ t.age[c] < AgeMax THEN t
        ELSE IF keep THEN [t EXCEPT !.age[c] = 0]
        ELSE chan_restore(t, c)

Sweep(s, want) ==
    LET run[c \in 0..Channels] ==
            IF c = 0 THEN s ELSE LET t == run[c - 1] IN Swept(t, c - 1, want)
    IN  run[Channels]

PollTurn == pc = "poll" /\ pc' = "rhythm"

PollIdle ==
    /\ PollTurn /\ ~drv_loaded
    /\ UNCHANGED <<bound, storeVars, rhythmVars, driveVars, chipVars, pollVars, on>>

drive_sound_poll(step, head, xfer, motor, ended) ==
    LET hold == IF on /\ step THEN Hold ELSE seek_hold
        left == IF hold > 0 THEN hold - 1 ELSE 0
        played == IF on THEN Plays(Service(ended), step, head /\ ~last_head, hold, xfer, motor)
                  ELSE Service(ended)
        want == IF ~on THEN {}
                ELSE {g \in 3..5 : (g = 3 /\ left > 0) \/ (g = 4 /\ xfer) \/ (g = 5 /\ motor)}
        s == Sweep(played, want)
    IN  /\ PollTurn /\ drv_loaded
        /\ pair' = s.pair /\ lr' = s.lr
        /\ ch_seg' = s.seg /\ ch_age' = s.age
        /\ seek_hold' = left /\ last_head' = head
        /\ UNCHANGED <<bound, storeVars, rhythmVars, driveVars, on>>

-----------------------------------------------------------------------------
(* The host, the user, the guest and the chip.                              *)

Bind(s) ==
    /\ s \in Late \ bound /\ bound' = bound \cup {s}
    /\ UNCHANGED <<storeVars, rhythmVars, driveVars, chipVars, pollVars, on, pc>>
Toggle ==
    /\ on' = ~on
    /\ UNCHANGED <<bound, storeVars, rhythmVars, driveVars, chipVars, pollVars, pc>>
GuestLevel(c) ==
    /\ lr' = [lr EXCEPT ![c] = "guest"]
    /\ UNCHANGED <<bound, storeVars, rhythmVars, driveVars, pair, pollVars, on, pc>>

MainLoop ==
    \/ RhythmIdle \/ BinRefused \/ WavEnd \/ WavSkip
    \/ (\E n \in 0..(Len(BinData) + Chunk - 1) \div Chunk : bin_load(n))
    \/ (\E ok \in BOOLEAN : wav_step(ok))
    \/ DriveIdle \/ DriveEnd
    \/ (\E ok \in BOOLEAN : DriveHeader(ok) \/ drive_sound_load(ok))
    \/ PollIdle
    \/ (\E step, head, xfer, motor \in BOOLEAN, ended \in SUBSET Ch :
            drive_sound_poll(step, head, xfer, motor, ended))

Environment ==
    \/ (\E s \in Late : Bind(s)) \/ Toggle
    \/ (\E c \in Ch : GuestLevel(c))

Next == MainLoop \/ Environment

Spec == Init /\ [][Next]_vars

\* The loop goes round, unless a call does not return.
After == [rhythm |-> "drive", drive |-> "poll", poll |-> "rhythm"]
FairSpec == Spec /\ WF_pc(pc # "hung" /\ pc' = After[pc])

-----------------------------------------------------------------------------
(* Properties.                                                              *)

\* A file of no samples becomes a page of silence, as a zero sample would.
Packed(pcm, rate) == PackVoice(IF pcm = <<>> THEN <<0>> ELSE pcm, rate)
VoicePack == [v \in Ch |-> Packed(WavData[v], WavRate[v])]
SegPack == [s \in 1..Len(Seg) |-> Packed(KitData[s], KitRate)]

\* No position of the file wraps.
InRange(pcm, rate) == (IF pcm = <<>> THEN 1 ELSE Len(pcm)) * One + Ratio(rate) <= PosSize

\* The pages p hold the packed file from its start, whole or up to the wall.
Holds(p, file, wall) ==
    LET at == p[1] * PageBytes
        n == (p[2] - p[1] + 1) * PageBytes
    IN  /\ n = Least(Len(file), wall - at)
        /\ \A k \in 0..n - 1 : store[at + k] = file[k + 1]

\* Every programmed voice and segment names exactly its own encoded file, as
\* the packer would have made it, in its own half of the store: whatever the
\* loaders interleave, whichever reads fail, and however full a half is.
StoreRight ==
    /\ \A v \in wav.packed :
          InRange(WavData[v], WavRate[v]) => Holds(rhythm[v], VoicePack[v], Half)
    /\ \A s \in 1..Len(Seg) : drv[s] # <<0, 0>> =>
          /\ drv[s][1] >= HalfPages
          /\ InRange(KitData[s], KitRate) => Holds(drv[s], SegPack[s], 2 * Half)
    /\ rhythm_done /\ mode = 1 =>
          \A k \in 0..Least(Len(BinData), Half) - 1 : store[k] = BinData[k + 1]

\* A channel the service does not hold is the guest's again: it plays drums
\* and sounds at the level the guest set; and no loop holds two channels.
HandedBack ==
    /\ \A c \in Ch : ch_seg[c] = 0 => pair[c][2] < HalfPages /\ lr[c] = "guest"
    /\ \A g \in 3..5 : Cardinality({c \in Ch : ch_seg[c] = g}) <= 1

\* "at most one 512-byte chunk of source data per call, so the service loop
\* keeps its latency": a call of a loader comes back, after a failed read and
\* at the wall too, unless the file it is at is longer than positions reach.
KeepsLatency == pc = "hung" =>
    \/ wav.open /\ ~InRange(WavData[wav.voice], WavRate[wav.voice])
    \/ dl.open /\ ~InRange(KitData[dl.seg], KitRate)

\* "Turning the option off must not strand a borrowed channel": all of them
\* come back, the end flags the guest takes away notwithstanding.
Returned == ~on ~> (on \/ \A c \in Ch : ch_seg[c] = 0)
=============================================================================
