----------------------------- MODULE Player_proofs -----------------------------
(***************************************************************************)
(* Proofs about Player, for every set of files and configs, every buffer    *)
(* size and every position sought: it implements Playback.                  *)
(***************************************************************************)
EXTENDS Player, LoopHead_proofs, SequenceTheorems

-----------------------------------------------------------------------------
(* Buffers of samples *)

\* A function on the first n indices is a sequence of that length.
LEMMA FunctionIsSeq ==
    ASSUME NEW S, NEW n \in Nat, NEW f \in [1 .. n -> S]
    PROVE  f \in Seq(S) /\ Len(f) = n
  <1>1. f \in Seq(S)
    BY SeqDef
  <1>2. Len(f) \in Nat /\ DOMAIN f = 1 .. Len(f) /\ DOMAIN f = 1 .. n
    BY <1>1, LenProperties
  <1> QED  BY <1>1, <1>2

\* A silent buffer is made of n silent samples.
LEMMA SilentCells ==
    ASSUME NEW n \in Nat
    PROVE  /\ Silent(n) \in Seq(CellRecord)
           /\ Len(Silent(n)) = n
           /\ \A i \in 1 .. n : Silent(n)[i] = Cell(Silence, 0)
  <1>1. Cell(Silence, 0) \in CellRecord
    BY DEF Cell, CellRecord
  <1>2. Silent(n) \in [1 .. n -> CellRecord]
    BY <1>1 DEF Silent
  <1>3. \A i \in 1 .. n : Silent(n)[i] = Cell(Silence, 0)
    BY DEF Silent
  <1> QED  BY <1>2, <1>3, FunctionIsSeq

\* A decoded buffer has consecutive samples of the file, at full volume.
LEMMA DecodedCells ==
    ASSUME NEW src \in Nat, NEW n \in Nat
    PROVE  /\ Decoded(src, n) \in Seq(CellRecord)
           /\ Len(Decoded(src, n)) = n
           /\ \A i \in 1 .. n : Decoded(src, n)[i] = Cell(src + i - 1, 0)
  <1>1. \A i \in 1 .. n : Cell(src + i - 1, 0) \in CellRecord
    BY DEF Cell, CellRecord
  <1>2. Decoded(src, n) \in [1 .. n -> CellRecord]
    BY <1>1 DEF Decoded
  <1>3. \A i \in 1 .. n : Decoded(src, n)[i] = Cell(src + i - 1, 0)
    BY DEF Decoded
  <1> QED  BY <1>2, <1>3, FunctionIsSeq

-----------------------------------------------------------------------------
(* The song: what was configured, and its times *)

InfoOK(info) ==
    /\ info.pad_begin_duration \in Nat
    /\ info.trim_begin_duration \in Nat
    /\ info.fade_start \in Nat
    /\ info.fade_duration \in Nat
    /\ info.pad_end_start \in Nat
    /\ info.play_duration \in Nat
    /\ info.play_forever \in BOOLEAN
    /\ info.pad_begin_duration <= info.fade_start
    /\ info.pad_end_start = info.fade_start + info.fade_duration

\* The unrolled stream is that of the snapshot.
SameTimeline(info, start) ==
    /\ info.num_samples = start.num_samples
    /\ info.loop_flag = start.loop_flag
    /\ info.loop_start_sample = start.loop_start_sample
    /\ info.loop_end_sample = start.loop_end_sample
    /\ info.loop_target = start.loop_target

\* Configs with the same loop have the same unrolled stream.
LEMMA TimelineOf ==
    ASSUME NEW info, NEW start, SameTimeline(info, start)
    PROVE  /\ \A t : IsOver(info, t) <=> IsOver(start, t)
           /\ \A t, s : IsSource(info, t, s) <=> IsSource(start, t, s)
           /\ LoopBody(info) = LoopBody(start)
  BY DEF SameTimeline, IsOver, IsSource, LoopBody, LastCopy

\* A play state a song starts with: nothing of its times was used up.
Fresh(p) ==
    /\ p.play_position = 0
    /\ p.pad_begin_left = p.pad_begin_duration
    /\ p.trim_begin_left = p.trim_begin_duration
    /\ p.fade_left = p.fade_duration

\* However long the parts of a song are, the main part is a number of samples.
LEMMA WholeBodyIsInt ==
    ASSUME NEW v \in VgmRecord, NEW c \in ConfigRecord
    PROVE  WholeBody(v, c) \in Int
  <1>1. LoopBody(v) \in Int /\ c.loop_count \in Nat /\ c.body_time \in Nat
        /\ v.num_samples \in Nat /\ v.loop_start_sample \in Nat
        /\ v.loop_end_sample \in Nat
    BY DEF VgmRecord, ConfigRecord, LoopBody
  <1>2. PICK half : half = c.loop_count \div 2 /\ half \in Int
    BY <1>1
  <1>3. PICK x : x = LoopBody(v) * half /\ x \in Int
    BY <1>1, <1>2
  <1>4. PICK y : y = LoopBody(v) * c.loop_count /\ y \in Int
    BY <1>1
  <1>5. PICK z : z = y \div 2 /\ z \in Int
    BY <1>4
  <1> QED  BY <1>1, <1>2, <1>3, <1>4, <1>5 DEF WholeBody

\* The times setup_state_processing works out fit each other.
LEMMA SongInfo ==
    ASSUME SongOK
    PROVE  /\ InfoOK(Info)
           /\ SameTimeline(Info, start_vgmstream)
           /\ Info.play_forever = config.play_forever
           /\ TimesOK(Info, start_pstate)
           /\ Fresh(start_pstate)
           /\ Info.loop_target > 0 => Info.fade_duration = 0
  <1> DEFINE v == start_vgmstream
             c == config
  <1>1. v \in VgmRecord /\ c \in ConfigRecord
    BY DEF SongOK, Startable, Openable
  <1>2. PICK body :
          /\ body = WholeBody(v, c) - c.trim_begin - c.trim_end
                      + (IF v.loop_flag THEN c.fade_delay ELSE 0)
          /\ body \in Int
    BY <1>1, WholeBodyIsInt DEF ConfigRecord, VgmRecord
  <1>3. PICK fade :
          fade = (IF v.loop_flag THEN c.fade_time ELSE 0) /\ fade \in Nat
    BY <1>1 DEF ConfigRecord
  <1>4. PICK main : main = NotNegative(body) /\ main \in Nat /\ main >= body
    BY <1>2 DEF NotNegative
  <1>5. PICK whole :
          /\ whole = NotNegative(c.pad_begin + body + fade + c.pad_end)
          /\ whole \in Nat
          /\ whole <= c.pad_begin + main + fade + c.pad_end
    BY <1>1, <1>2, <1>3, <1>4 DEF NotNegative, ConfigRecord
  <1>6. start_pstate = [pad_begin_duration |-> c.pad_begin,
                        trim_begin_duration |-> c.trim_begin,
                        body_duration |-> main,
                        fade_duration |-> fade,
                        pad_end_duration |-> c.pad_end,
                        play_duration |-> whole,
                        play_position |-> 0,
                        pad_begin_left |-> c.pad_begin,
                        trim_begin_left |-> c.trim_begin,
                        fade_left |-> fade,
                        fade_start |-> c.pad_begin + main,
                        pad_end_start |-> c.pad_begin + main + fade]
    BY <1>2, <1>3, <1>4, <1>5 DEF SongOK, SetupStateProcessing
  <1>7. c.pad_begin \in Nat /\ c.trim_begin \in Nat /\ c.pad_end \in Nat
        /\ c.play_forever \in BOOLEAN
    BY <1>1 DEF ConfigRecord
  <1>8. InfoOK(Info) /\ Info.play_forever = config.play_forever
    BY <1>3, <1>4, <1>5, <1>6, <1>7 DEF Info, InfoOK
  <1>9. SameTimeline(Info, start_vgmstream)
    BY DEF Info, SameTimeline
  <1>10. Fresh(start_pstate)
    BY <1>6 DEF Fresh
  <1>11. start_pstate \in PlayState
    BY <1>3, <1>4, <1>5, <1>6, <1>7 DEF PlayState
  <1>12. TimesOK(Info, start_pstate)
    BY <1>3, <1>4, <1>5, <1>6, <1>7, <1>11 DEF TimesOK, Info
  <1>13. Info.loop_target > 0 => Info.fade_duration = 0
    <2>1. start_vgmstream.loop_target > 0 => config.ignore_fade
      BY DEF SongOK
    <2>2. config.ignore_fade => fade = 0
      BY <1>3 DEF SongOK
    <2> QED  BY <1>6, <2>1, <2>2 DEF Info
  <1> QED  BY <1>8, <1>9, <1>10, <1>12, <1>13
-----------------------------------------------------------------------------
(* The invariant holds at first ... *)

\* setup_state_modifiers leaves a config that still is one.
LEMMA FinalConfigIsConfig ==
    ASSUME NEW v, Forceable(v), NEW c \in ConfigRecord
    PROVE  /\ FinalConfig(v, c) \in ConfigRecord
           /\ FinalConfig(v, c).ignore_fade = IgnoreFade(v, c)
           /\ FinalConfig(v, c).loop_count = c.loop_count
           /\ IgnoreFade(v, c) => /\ FinalConfig(v, c).fade_time = 0
                                  /\ FinalConfig(v, c).fade_delay = 0
  <1>1. PICK forever, ignore :
          /\ forever = PlayForever(v, c) /\ ignore = IgnoreFade(v, c)
          /\ forever \in BOOLEAN /\ ignore \in BOOLEAN
    BY DEF PlayForever, IgnoreFade
  <1>2. FinalConfig(v, c) =
          [c EXCEPT !.play_forever = forever,
                    !.ignore_fade = ignore,
                    !.fade_time = IF ignore THEN 0 ELSE c.fade_time,
                    !.fade_delay = IF ignore THEN 0 ELSE c.fade_delay]
    BY <1>1 DEF FinalConfig
  <1>3. /\ (IF ignore THEN 0 ELSE c.fade_time) \in Nat
        /\ (IF ignore THEN 0 ELSE c.fade_delay) \in Nat
    BY DEF ConfigRecord
  <1> QED  BY <1>1, <1>2, <1>3 DEF ConfigRecord

\* A song that was opened and configured, whatever its header says and the
\* config asks for.
LEMMA InitSong == Init => SongOK
  <1> SUFFICES ASSUME Init PROVE SongOK
    OBVIOUS
  <1>1. PICK f \in Files, c \in Configs :
          /\ vgm = SetupVgmstream(SetupStateModifiers(NewVgmstream(f), c))
          /\ config = FinalConfig(NewVgmstream(f), c)
    BY DEF Init
  <1>2. PICK raw : raw = NewVgmstream(f)
    OBVIOUS
  <1>3. Forceable(raw)
    BY <1>2, FilesAssumption, NewIsOpenable DEF Forceable
  <1>4. c \in ConfigRecord /\ c.loop_count \in Nat
    BY ConfigsAssumption DEF ConfigRecord
  <1>5. /\ Startable(vgm)
        /\ vgm.loop_target = IF IgnoreFade(raw, c) /\ vgm.loop_flag
                             THEN c.loop_count \div 2 ELSE 0
    BY <1>1, <1>2, <1>3, <1>4, ModifiersAreOpenable
  <1>6. /\ config \in ConfigRecord
        /\ config.ignore_fade = IgnoreFade(raw, c)
        /\ config.loop_count = c.loop_count
        /\ IgnoreFade(raw, c) => config.fade_time = 0 /\ config.fade_delay = 0
    BY <1>1, <1>2, <1>3, <1>4, FinalConfigIsConfig
  <1>7. start_vgmstream = vgm
        /\ start_pstate = SetupStateProcessing(vgm, config)
    BY DEF Init
  <1> QED  BY <1>5, <1>6, <1>7 DEF SongOK

\* At the start of a song everything is in place.
LEMMA FreshPlays ==
    ASSUME NEW info, InfoOK(info), NEW p, TimesOK(info, p), Fresh(p)
    PROVE  /\ FadeOK(info, p)
           /\ p.pad_begin_left = PadLeft(info, 0)
           /\ DecodePosition(info, 0) - p.trim_begin_left = 0
  <1>1. p \in PlayState
    BY DEF TimesOK
  <1>2. FadeOK(info, p)
    BY <1>1 DEF InfoOK, TimesOK, Fresh, FadeOK, PlayState
  <1>3. p.pad_begin_left = PadLeft(info, 0)
    BY <1>1 DEF InfoOK, TimesOK, Fresh, PadLeft, NotNegative, PlayState
  <1>4. DecodePosition(info, 0) - p.trim_begin_left = 0
    BY <1>1 DEF InfoOK, TimesOK, Fresh, DecodePosition, NotNegative, PlayState
  <1> QED  BY <1>2, <1>3, <1>4

\* Nothing is heard of a buffer that was not filled.
LEMMA NothingHeardIsOK == heard = NothingHeard => HeardOK
  <1>1. <<>> \in Seq(CellRecord) /\ DOMAIN <<>> = {}
    BY EmptySeq
  <1> QED  BY <1>1 DEF HeardOK, NothingHeard

\* A stream nothing was decoded from, at the start of its song, with no call in
\* progress.
LEMMA FreshStart ==
    ASSUME SongOK, HeadOK(start_vgmstream, vgm),
           HeadAt(start_vgmstream, vgm, 0), ps = start_pstate,
           task = Idle, buf = <<>>, heard = NothingHeard
    PROVE  PlayerInv
  <1>1. PICK info : info = Info
    OBVIOUS
  <1>2. InfoOK(info) /\ TimesOK(info, ps) /\ Fresh(ps)
    BY <1>1, SongInfo
  <1>3. /\ FadeOK(info, ps)
        /\ ps.pad_begin_left = PadLeft(info, 0)
        /\ DecodePosition(info, 0) - ps.trim_begin_left = 0
    BY <1>2, FreshPlays
  <1>4. ps.play_position = 0 /\ Len(buf) = 0 /\ ~At("body") /\ ~At("trim")
        /\ task.step = "idle"
    BY <1>2 DEF Fresh, At, Idle
  <1>5. PlayingOK
    BY <1>1, <1>3, <1>4 DEF PlayingOK
  <1>6. TaskOK
    BY <1>4 DEF TaskOK, Idle
  <1> QED
    BY <1>1, <1>2, <1>4, <1>5, <1>6, NothingHeardIsOK
       DEF PlayerInv, HeadSomewhere

\* Any file opened with any config starts in the invariant: the durations of
\* setup_state_processing fit together and the head is at the start.
THEOREM PlayerInit == Init => PlayerInv
  <1> SUFFICES ASSUME Init PROVE PlayerInv
    OBVIOUS
  <1>1. SongOK
    BY InitSong
  <1>2. /\ vgm = start_vgmstream /\ ps = start_pstate /\ task = Idle
        /\ buf = <<>> /\ heard = NothingHeard
    BY DEF Init
  <1>3. /\ Startable(start_vgmstream)
        /\ vgm \in VgmRecord /\ Unplayed(vgm)
        /\ SameStream(start_vgmstream, vgm)
    BY <1>1, <1>2 DEF SongOK, Startable, Openable, SameStream
  <1>4. HeadOK(start_vgmstream, vgm) /\ HeadAt(start_vgmstream, vgm, 0)
    BY <1>2, <1>3, UnplayedHead
  <1> QED  BY <1>1, <1>2, <1>4, FreshStart

-----------------------------------------------------------------------------
(* ... and every step keeps it *)

\* Nothing but opening changes the song.
LEMMA SongKept ==
    ASSUME SongOK, UNCHANGED <<config, start_vgmstream, start_pstate>>
    PROVE  SongOK' /\ Info' = Info
  BY DEF SongOK, Info

\* A step that delivers nothing new leaves what is heard right.
LEMMA HeardKept ==
    ASSUME HeardOK, Info' = Info, heard' = heard \/ heard' = NothingHeard
    PROVE  HeardOK'
  <1>1. CASE heard' = heard
    BY <1>1 DEF HeardOK, Promise!Sounds, Promise!SourceAt, Promise!FadeAt,
                Promise!InFade, Promise!StreamPosition
  <1>2. CASE heard' = NothingHeard
    <2>1. <<>> \in Seq(CellRecord) /\ DOMAIN <<>> = {}
      BY EmptySeq
    <2> QED  BY <1>2, <2>1 DEF HeardOK, NothingHeard
  <1> QED  BY <1>1, <1>2

\* reset_vgmstream, at any time between calls.
LEMMA ResetKeepsInv ==
    ASSUME PlayerInv, Reset
    PROVE  PlayerInv'
  <1>1. /\ vgm' = ResetVgmstream(vgm, start_vgmstream)
        /\ ps' = start_pstate /\ heard' = NothingHeard
        /\ UNCHANGED <<config, start_vgmstream, start_pstate, task, seek, buf>>
        /\ task.step = "idle"
    BY DEF Reset, ResetAll, At
  <1>2. SongOK' /\ Info' = Info /\ HeardOK'
    BY <1>1, SongKept, HeardKept DEF PlayerInv
  <1>3. PICK v : v = ResetVgmstream(vgm, start_vgmstream)
    OBVIOUS
  <1>4. Startable(start_vgmstream) /\ vgm.loop_ch \in Nat
    BY DEF PlayerInv, SongOK, HeadSomewhere, HeadOK, Parked, VgmRecord
  <1>5. HeadOK(start_vgmstream, v) /\ HeadAt(start_vgmstream, v, 0)
    BY <1>3, <1>4, ResetHead
  <1>6. PICK info : info = Info
    OBVIOUS
  <1>7. InfoOK(info) /\ TimesOK(info, start_pstate) /\ Fresh(start_pstate)
    BY <1>6, SongInfo DEF PlayerInv
  <1>8. /\ FadeOK(info, start_pstate)
        /\ start_pstate.pad_begin_left = PadLeft(info, 0)
        /\ DecodePosition(info, 0) - start_pstate.trim_begin_left = 0
    BY <1>7, FreshPlays
  <1>9. buf = <<>> /\ ~At("body") /\ ~At("trim") /\ Len(buf) = 0
    BY <1>1 DEF PlayerInv, TaskOK, At
  <1>10. PlayingOK'
    BY <1>1, <1>2, <1>3, <1>5, <1>6, <1>7, <1>8, <1>9
       DEF PlayingOK, At, Fresh
  <1>11. TaskOK'
    BY <1>1 DEF PlayerInv, TaskOK, At
  <1>12. TimesOK(Info, ps)' /\ HeadSomewhere(start_vgmstream, vgm)'
    BY <1>1, <1>2, <1>3, <1>5, <1>6, <1>7 DEF HeadSomewhere
  <1> QED  BY <1>1, <1>2, <1>10, <1>11, <1>12 DEF PlayerInv
\* What the invariant says of the song while any step is taken.
LEMMA InvSong ==
    ASSUME PlayerInv
    PROVE  /\ SongOK
           /\ Startable(start_vgmstream)
           /\ InfoOK(Info)
           /\ SameTimeline(Info, start_vgmstream)
           /\ Info.play_forever = config.play_forever
           /\ TimesOK(Info, ps)
           /\ HeadSomewhere(start_vgmstream, vgm)
  BY SongInfo DEF PlayerInv, SongOK

\* Entering render_main, with any buffer size.
LEMMA StartRenderKeepsInv ==
    ASSUME PlayerInv, NEW n \in 1 .. MaxBuf, StartRender(n)
    PROVE  PlayerInv'
  <1>1. /\ task' = [step |-> "trim", samples |-> n, left |-> 0]
        /\ task.step = "idle"
        /\ UNCHANGED <<config, vgm, start_vgmstream, ps, start_pstate, seek,
                       buf, heard>>
    BY DEF StartRender, At
  <1>2. SongOK' /\ Info' = Info /\ HeardOK'
    BY <1>1, SongKept, HeardKept DEF PlayerInv
  <1>3. n \in Nat
    BY MaxBufAssumption
  <1>4. TaskOK'
    BY <1>1, <1>3 DEF PlayerInv, TaskOK, At
  <1>5. PlayingOK'
    BY <1>1, <1>2 DEF PlayerInv, PlayingOK, At
  <1>6. TimesOK(Info, ps)' /\ HeadSomewhere(start_vgmstream, vgm)'
    BY <1>1, <1>2 DEF PlayerInv
  <1> QED  BY <1>1, <1>2, <1>4, <1>5, <1>6 DEF PlayerInv

\* A seek to where the song is does nothing.
LEMMA SeekToCurrentKeepsInv ==
    ASSUME PlayerInv, NEW t \in Seeks, SeekToCurrent(t)
    PROVE  PlayerInv'
  <1>1. /\ heard' = NothingHeard
        /\ task.step = "idle"
        /\ UNCHANGED <<config, vgm, start_vgmstream, ps, start_pstate, task,
                       seek, buf>>
    BY DEF SeekToCurrent, At
  <1>2. SongOK' /\ Info' = Info /\ HeardOK'
    BY <1>1, SongKept, HeardKept DEF PlayerInv
  <1>3. TaskOK'
    BY <1>1 DEF PlayerInv, TaskOK, At
  <1>4. PlayingOK'
    BY <1>1, <1>2 DEF PlayerInv, PlayingOK, At
  <1>5. TimesOK(Info, ps)' /\ HeadSomewhere(start_vgmstream, vgm)'
    BY <1>1, <1>2 DEF PlayerInv
  <1> QED  BY <1>1, <1>2, <1>3, <1>4, <1>5 DEF PlayerInv

\* A step that changes nothing.
LEMMA StutterKeepsInv ==
    ASSUME PlayerInv, UNCHANGED vars
    PROVE  PlayerInv'
  <1>1. UNCHANGED <<config, vgm, start_vgmstream, ps, start_pstate, task, seek,
                    buf, heard>>
    BY DEF vars
  <1>2. SongOK' /\ Info' = Info /\ HeardOK'
    BY <1>1, SongKept, HeardKept DEF PlayerInv
  <1>3. TaskOK'
    BY <1>1 DEF PlayerInv, TaskOK, At
  <1>4. PlayingOK => PlayingOK'
    BY <1>1, <1>2 DEF PlayingOK, At
  <1>5. SeekingOK => SeekingOK'
    BY <1>1, <1>2 DEF SeekingOK, SeekTargetOK, At, Promise!Clamped
  <1>6. TimesOK(Info, ps)' /\ HeadSomewhere(start_vgmstream, vgm)'
    BY <1>1, <1>2 DEF PlayerInv
  <1> QED  BY <1>1, <1>2, <1>3, <1>4, <1>5, <1>6 DEF PlayerInv

-----------------------------------------------------------------------------
(* render_layout: what it delivers, and where it leaves the head *)

\* These cells are what the unrolled stream has from position t on.
CellsFrom(start, cells, t) ==
    \A i \in 1 .. Len(cells) :
        /\ cells[i].fade = 0
        /\ IF cells[i].src = Silence THEN IsOver(start, t + (i - 1))
           ELSE IsSource(start, t + (i - 1), cells[i].src)

\* It jumps back, or delivers some of the cells that are wanted.
LayoutDelivers(cells) ==
    /\ cells \in Seq(CellRecord)
    /\ Len(cells) \in 1 .. Wanted
    /\ Deliver(cells)
    /\ HeadSomewhere(start_vgmstream, vgm')
    /\ \A i \in 1 .. Len(cells) : cells[i].fade = 0
    /\ \A t \in Nat : HeadAt(start_vgmstream, vgm, t) =>
          /\ HeadAt(start_vgmstream, vgm', t + Len(cells))
          /\ CellsFrom(start_vgmstream, cells, t)

\* Silence is what the unrolled stream has once it is over.
LEMMA SilenceIsOver ==
    ASSUME NEW start, NEW n \in Nat, NEW t \in Nat,
           \A u \in Nat : u >= t => IsOver(start, u)
    PROVE  CellsFrom(start, Silent(n), t)
  <1>1. Len(Silent(n)) = n /\ \A i \in 1 .. n : Silent(n)[i] = Cell(Silence, 0)
    BY SilentCells
  <1>2. ASSUME NEW i \in 1 .. n PROVE IsOver(start, t + (i - 1))
    OBVIOUS
  <1>3. Cell(Silence, 0).src = Silence /\ Cell(Silence, 0).fade = 0
    BY DEF Cell
  <1> QED  BY <1>1, <1>2, <1>3 DEF CellsFrom

\* "decode past stream samples": the head of a song without loop was parked.
LEMMA BlankDelivers ==
    ASSUME PlayerInv, Wanted \in Nat, BlankPastEnd
    PROVE  LayoutDelivers(Silent(Wanted))
  <1>1. /\ Wanted > 0 /\ PastEnd(vgm) /\ vgm' = vgm
        /\ Deliver(Silent(Wanted))
    BY DEF BlankPastEnd
  <1>2. PICK n : n = Wanted
    OBVIOUS
  <1>3. Parked(start_vgmstream, vgm)
    BY <1>1 DEF PlayerInv, HeadSomewhere, HeadOK, HeadsAgree, PastEnd, VgmRecord
  <1>4. /\ start_vgmstream.num_samples \in Nat
        /\ vgm.current_sample = start_vgmstream.num_samples + 1
        /\ ~start_vgmstream.loop_flag /\ ~vgm.loop_flag
    BY <1>3 DEF Parked, SameStream, VgmRecord
  <1>5. ASSUME NEW t \in Nat, HeadAt(start_vgmstream, vgm, t),
               NEW u \in Nat, u >= t
        PROVE  IsOver(start_vgmstream, u) /\ HeadAt(start_vgmstream, vgm, u)
    <2>1. t >= start_vgmstream.num_samples
      <3>1. CASE IsOver(start_vgmstream, t)
        BY <1>4, <3>1 DEF IsOver
      <3>2. CASE ~IsOver(start_vgmstream, t)
        <4>1. PICK k \in 0 .. t :
                /\ t = vgm.current_sample + k * LoopBody(start_vgmstream)
                /\ k > 0 => start_vgmstream.loop_flag
          BY <1>5, <3>2 DEF HeadAt
        <4>2. k = 0 /\ LoopBody(start_vgmstream) \in Int
          BY <1>4, <4>1, InvSong DEF Startable, Openable, VgmRecord, LoopBody
        <4>3. k * LoopBody(start_vgmstream) = 0
          BY <4>2
        <4> QED  BY <1>4, <4>1, <4>3
      <3> QED  BY <3>1, <3>2
    <2>2. u >= start_vgmstream.num_samples
      BY <1>4, <1>5, <2>1
    <2> QED  BY <1>4, <2>2 DEF IsOver, HeadAt
  <1>6. ASSUME NEW t \in Nat, HeadAt(start_vgmstream, vgm, t)
        PROVE  /\ HeadAt(start_vgmstream, vgm, t + n)
               /\ CellsFrom(start_vgmstream, Silent(n), t)
    <2>1. \A u \in Nat : u >= t => /\ IsOver(start_vgmstream, u)
                                   /\ HeadAt(start_vgmstream, vgm, u)
      BY <1>5, <1>6
    <2>2. n \in Nat /\ t + n \in Nat /\ t + n >= t
      BY <1>2
    <2> QED  BY <2>1, <2>2, SilenceIsOver
  <1>7. /\ Silent(n) \in Seq(CellRecord) /\ Len(Silent(n)) = n /\ n \in 1 .. n
        /\ \A i \in 1 .. n : Silent(n)[i].fade = 0
    BY <1>1, <1>2, SilentCells DEF Cell
  <1> QED
    BY <1>1, <1>2, <1>3, <1>6, <1>7 DEF LayoutDelivers, HeadSomewhere

\* The other iterations only happen with the head in the stream.
LEMMA NotParked ==
    ASSUME NEW start, NEW v, HeadSomewhere(start, v), ~PastEnd(v)
    PROVE  HeadOK(start, v)
  BY DEF HeadSomewhere, Parked, PastEnd, VgmRecord

\* An iteration that decodes delivers the next samples of the stream.
LEMMA DecodeDelivers ==
    ASSUME PlayerInv, Wanted \in Nat, DecodeIteration
    PROVE  LayoutDelivers(Decoded(vgm.ch, FlatSamplesToDo(vgm, Wanted)))
  <1>1. PICK room, n, w, src :
          /\ room = Wanted
          /\ n = FlatSamplesToDo(vgm, room)
          /\ w = DecodeVgmstream(LoopCheck(vgm), n)
          /\ src = vgm.ch
    OBVIOUS
  <1>2. /\ room > 0 /\ ~PastEnd(vgm) /\ ~Looped(vgm) /\ n > 0
        /\ vgm' = w
        /\ Deliver(Decoded(src, n))
    BY <1>1 DEF DecodeIteration
  <1>3. HeadOK(start_vgmstream, vgm) /\ Startable(start_vgmstream)
    BY <1>2, InvSong, NotParked
  <1>4. /\ n \in 1 .. room
        /\ HeadOK(start_vgmstream, w)
        /\ src \in Nat
        /\ \A t \in Nat : HeadAt(start_vgmstream, vgm, t) =>
              /\ HeadAt(start_vgmstream, w, t + n)
              /\ \A j \in 0 .. n - 1 :
                    IsSource(start_vgmstream, t + j, src + j)
    BY <1>1, <1>2, <1>3, IterationDecodes
  <1>5. /\ Decoded(src, n) \in Seq(CellRecord)
        /\ Len(Decoded(src, n)) = n
        /\ \A i \in 1 .. n : Decoded(src, n)[i] = Cell(src + i - 1, 0)
    <2>1. n \in Nat /\ src \in Nat
      BY <1>4
    <2> QED  BY <2>1, DecodedCells
  <1>6. ASSUME NEW t \in Nat, HeadAt(start_vgmstream, vgm, t)
        PROVE  CellsFrom(start_vgmstream, Decoded(src, n), t)
    <2>1. \A j \in 0 .. n - 1 : IsSource(start_vgmstream, t + j, src + j)
      BY <1>4, <1>6
    <2>2. ASSUME NEW i \in 1 .. n
          PROVE  /\ Decoded(src, n)[i].fade = 0
                 /\ Decoded(src, n)[i].src # Silence
                 /\ IsSource(start_vgmstream, t + (i - 1),
                             Decoded(src, n)[i].src)
      <3>1. PICK j \in 0 .. n - 1 : j = i - 1
        BY <1>4
      <3>2. src + i - 1 = src + j /\ src + j \in Nat
        BY <1>4, <3>1
      <3>3. Decoded(src, n)[i] = Cell(src + j, 0)
        BY <1>5, <3>2
      <3>4. Decoded(src, n)[i].src = src + j /\ Decoded(src, n)[i].fade = 0
        BY <3>3 DEF Cell
      <3>5. IsSource(start_vgmstream, t + j, src + j)
        BY <2>1
      <3> QED  BY <3>1, <3>2, <3>4, <3>5 DEF Silence
    <2> QED  BY <1>5, <2>2 DEF CellsFrom
  <1>7. \A t \in Nat : HeadAt(start_vgmstream, vgm, t) =>
           HeadAt(start_vgmstream, w, t + n)
    BY <1>4
  <1>8. \A i \in 1 .. n : Decoded(src, n)[i].fade = 0
    BY <1>5 DEF Cell
  <1>9. LayoutDelivers(Decoded(src, n))
    BY <1>1, <1>2, <1>4, <1>5, <1>6, <1>7, <1>8
       DEF LayoutDelivers, HeadSomewhere
  <1> QED  BY <1>1, <1>9

\* The error path delivers silence, and only when the stream is over.
LEMMA ErrorDelivers ==
    ASSUME PlayerInv, Wanted \in Nat, ErrorIteration
    PROVE  LayoutDelivers(Silent(Wanted))
  <1>1. PICK room, v : room = Wanted /\ v = LoopCheck(vgm)
    OBVIOUS
  <1>2. /\ room > 0 /\ room \in Nat /\ ~PastEnd(vgm) /\ ~Looped(vgm)
        /\ FlatSamplesToDo(vgm, room) <= 0
        /\ vgm' = v
        /\ Deliver(Silent(room))
    BY <1>1 DEF ErrorIteration
  <1>3. HeadOK(start_vgmstream, vgm) /\ Startable(start_vgmstream)
    BY <1>2, InvSong, NotParked
  <1>4. /\ HeadOK(start_vgmstream, v)
        /\ \A t \in Nat : HeadAt(start_vgmstream, vgm, t) =>
              \A u \in Nat : u >= t => /\ IsOver(start_vgmstream, u)
                                       /\ HeadAt(start_vgmstream, v, u)
    BY <1>1, <1>2, <1>3, IterationFails
  <1>5. /\ Silent(room) \in Seq(CellRecord) /\ Len(Silent(room)) = room
        /\ room \in 1 .. room
        /\ \A i \in 1 .. room : Silent(room)[i].fade = 0
    BY <1>2, SilentCells DEF Cell
  <1>6. ASSUME NEW t \in Nat, HeadAt(start_vgmstream, vgm, t)
        PROVE  /\ HeadAt(start_vgmstream, v, t + room)
               /\ CellsFrom(start_vgmstream, Silent(room), t)
    <2>1. t + room \in Nat /\ t + room >= t
      BY <1>2
    <2> QED  BY <1>2, <1>4, <1>6, <2>1, SilenceIsOver
  <1>7. LayoutDelivers(Silent(room))
    BY <1>1, <1>2, <1>4, <1>5, <1>6 DEF LayoutDelivers, HeadSomewhere
  <1> QED  BY <1>1, <1>7

\* An iteration that jumps back stays at its place of the unrolled stream.
LEMMA LoopKeepsPlace ==
    ASSUME PlayerInv, LoopIteration
    PROVE  /\ HeadOK(start_vgmstream, vgm')
           /\ \A t \in Nat : HeadAt(start_vgmstream, vgm, t) =>
                 HeadAt(start_vgmstream, vgm', t)
  <1>1. vgm' = LoopCheck(vgm) /\ ~PastEnd(vgm) /\ Looped(vgm)
    BY DEF LoopIteration
  <1>2. HeadOK(start_vgmstream, vgm) /\ Startable(start_vgmstream)
    BY <1>1, InvSong, NotParked
  <1>3. PICK v : v = LoopCheck(vgm)
    OBVIOUS
  <1> QED  BY <1>1, <1>2, <1>3, JumpKeepsPlace
\* The samples still wanted, by the phase of the call.
LEMMA WantedByPhase ==
    /\ At("trim") => Wanted = ps.trim_begin_left
    /\ At("body") => Wanted = task.samples - Len(buf)
    /\ At("skip_intro") \/ At("skip") => Wanted = task.left
    /\ At("idle") \/ At("seek") => Wanted = 0
  BY DEF Wanted, At

\* No phase of a call wants a negative number of samples.
LEMMA WantedIsNat ==
    ASSUME PlayerInv
    PROVE  Wanted \in Nat
  <1>1. /\ ps.trim_begin_left \in Nat /\ task.left \in Nat
        /\ task.samples \in Nat
        /\ Len(buf) \in Nat
    BY LenProperties DEF PlayerInv, TaskOK, TimesOK, PlayState
  <1>2. task.step \in {"idle", "trim", "body", "seek", "skip_intro", "skip"}
    BY DEF PlayerInv, TaskOK
  <1>3. CASE At("body")
    <2>1. Len(buf) <= task.samples
      BY <1>3 DEF PlayerInv, PlayingOK, At
    <2> QED  BY <1>1, <1>3, <2>1, WantedByPhase
  <1> QED  BY <1>1, <1>2, <1>3, WantedByPhase DEF At

\* Every iteration of the layout jumps back or delivers samples.
LEMMA LayoutSteps ==
    ASSUME PlayerInv, RenderLayout
    PROVE  LoopIteration \/ \E cells : LayoutDelivers(cells)
  BY WantedIsNat, BlankDelivers, DecodeDelivers, ErrorDelivers DEF RenderLayout

\* Before the loop start was reached there is nothing to jump back to.
LEMMA NoJumpInIntro ==
    ASSUME PlayerInv, At("skip_intro"), Wanted > 0
    PROVE  /\ vgm.loop_flag /\ ~vgm.hit_loop
           /\ vgm.current_sample < vgm.loop_start_sample
           /\ HeadOK(start_vgmstream, vgm)
           /\ ~Looped(vgm) /\ ~PastEnd(vgm)
           /\ LoopCheck(vgm) = vgm
  <1>1. SeekingOK /\ HeadOK(start_vgmstream, vgm) /\ start_vgmstream.loop_flag
    BY DEF PlayerInv, SeekingOK, At
  <1>2. Wanted = task.left /\ task.left \in Nat
    BY WantedByPhase DEF PlayerInv, TaskOK
  <1>3. ~vgm.hit_loop
        /\ vgm.current_sample + task.left = vgm.loop_start_sample
    BY <1>1, <1>2 DEF SeekingOK
  <1>4. vgm.current_sample < vgm.loop_start_sample
        /\ vgm.current_sample \in Nat
    BY <1>1, <1>2, <1>3 DEF HeadOK, VgmRecord
  <1>5. vgm.loop_flag
    BY <1>1, <1>3 DEF HeadOK, HeadInLoop
  <1>6. /\ vgm.loop_start_sample < vgm.loop_end_sample
        /\ vgm.loop_end_sample <= vgm.num_samples
    BY <1>1, InvSong, LoopIsSane
  <1>7. ~AtLoopEnd(vgm) /\ ~AtLoopStart(vgm) /\ ~PastEnd(vgm)
    BY <1>1, <1>4, <1>6 DEF AtLoopEnd, AtLoopStart, PastEnd, HeadOK, VgmRecord
  <1> QED
    BY <1>1, <1>3, <1>4, <1>5, <1>7 DEF Looped, LoopCheck, DecodeDoLoop

\* A jump back to the loop start, whoever renders.
LEMMA LoopKeepsInv ==
    ASSUME PlayerInv, LoopIteration
    PROVE  PlayerInv'
  <1>1. /\ UNCHANGED <<config, start_vgmstream, ps, start_pstate, task, seek,
                       buf, heard>>
        /\ Wanted > 0 /\ Looped(vgm)
    BY DEF LoopIteration
  <1>2. /\ HeadOK(start_vgmstream, vgm')
        /\ \A t \in Nat : HeadAt(start_vgmstream, vgm, t) =>
              HeadAt(start_vgmstream, vgm', t)
    BY LoopKeepsPlace
  <1>3. SongOK' /\ Info' = Info /\ HeardOK'
    BY <1>1, SongKept, HeardKept DEF PlayerInv
  <1>4. TaskOK'
    BY <1>1 DEF PlayerInv, TaskOK, At
  <1>5. ~At("seek") /\ ~At("skip_intro")
    BY <1>1, NoJumpInIntro, WantedByPhase
  <1>6. ASSUME PlayingOK PROVE PlayingOK'
    <2>1. PICK info, t :
            /\ info = Info
            /\ t = DecodePosition(info, ps.play_position + Len(buf))
                     - ps.trim_begin_left
      OBVIOUS
    <2>2. t \in Nat
      <3>1. /\ ps.play_position \in Nat /\ Len(buf) \in Nat
            /\ ps.trim_begin_left \in Nat
            /\ ps.trim_begin_left <= info.trim_begin_duration
        BY <2>1, LenProperties DEF PlayerInv, TimesOK, TaskOK, PlayState
      <3>2. InfoOK(info)
        BY <2>1, InvSong
      <3>3. PICK q \in Nat : q = ps.play_position + Len(buf)
        BY <3>1
      <3>4. DecodePosition(info, q) \in Nat
            /\ DecodePosition(info, q) >= info.trim_begin_duration
        BY <3>2 DEF DecodePosition, InfoOK, NotNegative
      <3>5. t = DecodePosition(info, q) - ps.trim_begin_left
        BY <2>1, <3>3
      <3>6. info.trim_begin_duration \in Nat
        BY <3>2 DEF InfoOK
      <3> QED  BY <3>1, <3>4, <3>5, <3>6
    <2>3. HeadMatters(info, ps.play_position) =>
            HeadAt(start_vgmstream, vgm', t)
      BY <1>2, <1>6, <2>1, <2>2 DEF PlayingOK
    <2> QED  BY <1>1, <1>3, <1>6, <2>1, <2>3 DEF PlayingOK, At
  <1>7. ASSUME SeekingOK, At("skip") PROVE SeekingOK'
    <2>1. seek.sample - task.left \in Nat
      <3>1. /\ task.left \in Nat /\ task.left <= seek.sample
            /\ seek.sample = DecodePosition(Info, seek.target)
            /\ seek.target \in Nat
        BY <1>7 DEF PlayerInv, TaskOK, SeekingOK, SeekTargetOK
      <3>2. seek.sample \in Nat
        BY <3>1, InvSong DEF DecodePosition, InfoOK, NotNegative
      <3> QED  BY <3>1, <3>2
    <2>2. HeadAt(start_vgmstream, vgm', seek.sample - task.left)
      BY <1>2, <1>7, <2>1 DEF SeekingOK
    <2> QED
      BY <1>1, <1>3, <1>5, <1>7, <2>2 DEF SeekingOK, SeekTargetOK, At, Promise!Clamped
  <1>8. TimesOK(Info, ps)' /\ HeadSomewhere(start_vgmstream, vgm)'
    BY <1>1, <1>2, <1>3 DEF PlayerInv, HeadSomewhere
  <1> QED
    BY <1>1, <1>3, <1>4, <1>5, <1>6, <1>7, <1>8 DEF PlayerInv, TaskOK, At

-----------------------------------------------------------------------------
(* Positions *)

\* Stream positions are numbers, and after the begin padding they advance with
\* the output.
LEMMA DecodePositions ==
    ASSUME NEW info, InfoOK(info), NEW q \in Nat
    PROVE  /\ DecodePosition(info, q) \in Nat
           /\ DecodePosition(info, q) >= info.trim_begin_duration
           /\ q <= info.pad_begin_duration =>
                  DecodePosition(info, q) = info.trim_begin_duration
           /\ q >= info.pad_begin_duration => \A n \in Nat :
                  DecodePosition(info, q + n) = DecodePosition(info, q) + n
           /\ \A u \in Nat : q <= u =>
                  DecodePosition(info, q) <= DecodePosition(info, u)
  BY DEF DecodePosition, InfoOK, NotNegative

\* play_op_pad_begin adds what is left of the padding and the buffer has room
\* for.
LEMMA Padding ==
    ASSUME NEW info, InfoOK(info), NEW q \in Nat, NEW n \in Nat,
           NEW d, d = SmallerOf(PadLeft(info, q), n)
    PROVE  /\ d \in Nat /\ d <= n
           /\ PadLeft(info, q) - d = PadLeft(info, q + n)
           /\ DecodePosition(info, q + d) = DecodePosition(info, q)
           /\ \A i \in 1 .. d : q + i - 1 < info.pad_begin_duration
  BY DEF SmallerOf, PadLeft, NotNegative, DecodePosition, InfoOK

\* Less padding left is still within the times of the song.
LEMMA PadLeftOK ==
    ASSUME NEW info, NEW p, TimesOK(info, p),
           NEW n \in Nat, n <= p.pad_begin_left,
           NEW r, r = [p EXCEPT !.pad_begin_left = n]
    PROVE  /\ TimesOK(info, r)
           /\ r.pad_begin_left = n
           /\ r.play_position = p.play_position
           /\ r.trim_begin_left = p.trim_begin_left
           /\ FadeOK(info, p) => FadeOK(info, r)
  BY DEF TimesOK, PlayState, FadeOK

\* Taking from the trim leaves the other times as they are.
LEMMA TrimLeftOK ==
    ASSUME NEW info, NEW p, TimesOK(info, p),
           NEW n \in Nat, n <= p.trim_begin_left,
           NEW r, r = [p EXCEPT !.trim_begin_left = n]
    PROVE  /\ TimesOK(info, r)
           /\ r.trim_begin_left = n
           /\ r.play_position = p.play_position
           /\ r.pad_begin_left = p.pad_begin_left
           /\ FadeOK(info, p) => FadeOK(info, r)
  BY DEF TimesOK, PlayState, FadeOK
-----------------------------------------------------------------------------
(* Rendering: the trim, the padding and the body *)

\* What a delivery of n cells changes, by who asked for them.
LEMMA Delivery ==
    ASSUME PlayerInv, NEW cells, LayoutDelivers(cells)
    PROVE  /\ SongOK' /\ Info' = Info /\ HeardOK'
           /\ UNCHANGED <<start_vgmstream, seek>>
           /\ HeadSomewhere(start_vgmstream, vgm)'
           /\ cells \in Seq(CellRecord) /\ Len(cells) \in Nat
           /\ Len(cells) > 0 /\ Len(cells) <= Wanted
           /\ At("trim") =>
                 /\ ps' = [ps EXCEPT !.trim_begin_left = @ - Len(cells)]
                 /\ task' = task /\ buf' = buf
           /\ At("body") => ps' = ps /\ task' = task /\ buf' = buf \o cells
           /\ At("skip_intro") \/ At("skip") =>
                 /\ ps' = ps /\ buf' = buf
                 /\ task' = [task EXCEPT !.left = @ - Len(cells)]
  <1>1. Deliver(cells) /\ cells \in Seq(CellRecord) /\ Len(cells) \in 1 .. Wanted
    BY DEF LayoutDelivers
  <1>2. UNCHANGED <<config, start_vgmstream, start_pstate, seek, heard>>
    BY <1>1 DEF Deliver
  <1>3. SongOK' /\ Info' = Info /\ HeardOK'
    BY <1>2, SongKept, HeardKept DEF PlayerInv
  <1>4. HeadSomewhere(start_vgmstream, vgm)'
    BY <1>2 DEF LayoutDelivers
  <1>5. Len(cells) \in Nat /\ Len(cells) > 0 /\ Len(cells) <= Wanted
    BY <1>1, WantedIsNat
  <1> QED  BY <1>1, <1>2, <1>3, <1>4, <1>5 DEF Deliver, At

\* play_op_trim throws the first samples away.
LEMMA TrimKeepsInv ==
    ASSUME PlayerInv, At("trim"), NEW cells, LayoutDelivers(cells)
    PROVE  PlayerInv'
  <1>1. PICK info, n, r :
          /\ info = Info /\ n = Len(cells)
          /\ r = [ps EXCEPT !.trim_begin_left = ps.trim_begin_left - n]
    OBVIOUS
  <1>2. /\ n \in Nat /\ n > 0 /\ n <= ps.trim_begin_left
        /\ ps' = r /\ task' = task /\ buf' = buf
        /\ UNCHANGED <<start_vgmstream, seek>>
        /\ SongOK' /\ Info' = Info /\ HeardOK'
        /\ HeadSomewhere(start_vgmstream, vgm)'
    BY <1>1, Delivery, WantedByPhase
  <1>3. InfoOK(info) /\ TimesOK(info, ps) /\ PlayingOK
    BY <1>1, InvSong DEF PlayerInv, At
  <1>4. ps.trim_begin_left \in Nat /\ ps.play_position = 0
    BY <1>2, <1>3 DEF TimesOK, PlayState, PlayingOK
  <1>5. PICK left : left = ps.trim_begin_left - n /\ left \in Nat
    BY <1>2, <1>4
  <1>6. /\ TimesOK(info, r)
        /\ r.trim_begin_left = left
        /\ r.play_position = 0
        /\ r.pad_begin_left = ps.pad_begin_left
        /\ FadeOK(info, r)
    BY <1>1, <1>2, <1>3, <1>4, <1>5, TrimLeftOK DEF PlayingOK
  <1>7. buf = <<>> /\ Len(buf) = 0
    BY DEF PlayerInv, TaskOK, At
  <1>8. HeadMatters(info, 0) =>
          HeadAt(start_vgmstream, vgm', DecodePosition(info, 0) - left)
    <2>1. SUFFICES ASSUME HeadMatters(info, 0)
                   PROVE  HeadAt(start_vgmstream, vgm',
                                 DecodePosition(info, 0) - left)
      OBVIOUS
    <2>2. PICK t : t = DecodePosition(info, 0) - ps.trim_begin_left
      OBVIOUS
    <2>3. HeadAt(start_vgmstream, vgm, t)
      BY <1>1, <1>3, <1>4, <1>7, <2>1, <2>2 DEF PlayingOK
    <2>4. DecodePosition(info, 0) \in Nat /\ t \in Nat
      <3>1. ps.trim_begin_left <= info.trim_begin_duration
            /\ info.trim_begin_duration \in Nat
        BY <1>3 DEF TimesOK, InfoOK
      <3> QED  BY <1>3, <1>4, <2>2, <3>1, DecodePositions
    <2>5. t + n = DecodePosition(info, 0) - left
      BY <1>2, <1>4, <1>5, <2>2, <2>4
    <2>6. HeadAt(start_vgmstream, vgm', t + n)
      BY <1>1, <2>3, <2>4 DEF LayoutDelivers
    <2> QED  BY <2>5, <2>6
  <1>9. PlayingOK'
    <2>1. left > 0 => ps.trim_begin_left > 0
      BY <1>2, <1>4, <1>5
    <2> QED
      BY <1>1, <1>2, <1>3, <1>4, <1>6, <1>7, <1>8, <2>1 DEF PlayingOK, At
  <1>10. TaskOK'
    BY <1>2 DEF PlayerInv, TaskOK, At
  <1> QED  BY <1>1, <1>2, <1>6, <1>9, <1>10 DEF PlayerInv, At

\* play_op_pad_begin puts silence in the buffer before anything is decoded.
LEMMA PadBeginKeepsInv ==
    ASSUME PlayerInv, PadBegin
    PROVE  PlayerInv'
  <1>1. PICK info, p, n, d, r :
          /\ info = Info /\ p = ps.play_position /\ n = task.samples
          /\ d = SmallerOf(ps.pad_begin_left, task.samples)
          /\ r = [ps EXCEPT !.pad_begin_left = ps.pad_begin_left - d]
    OBVIOUS
  <1>2. /\ At("trim") /\ ps.trim_begin_left = 0
        /\ buf' = Silent(d) /\ ps' = r
        /\ task' = [task EXCEPT !.step = "body"]
        /\ UNCHANGED <<config, vgm, start_vgmstream, start_pstate, seek, heard>>
    BY <1>1, WantedByPhase DEF PadBegin
  <1>3. SongOK' /\ Info' = Info /\ HeardOK'
    BY <1>2, SongKept, HeardKept DEF PlayerInv
  <1>4. InfoOK(info) /\ TimesOK(info, ps) /\ PlayingOK
    BY <1>1, <1>2, InvSong DEF PlayerInv, At
  <1>5. /\ n \in Nat /\ n \in 1 .. MaxBuf /\ p \in Nat
        /\ ps.pad_begin_left \in Nat
    BY <1>1, <1>2, <1>4 DEF PlayerInv, TaskOK, TimesOK, PlayState
  <1>6. /\ d \in Nat /\ d <= n
        /\ ps.pad_begin_left - d \in Nat
        /\ ps.pad_begin_left - d <= ps.pad_begin_left
    BY <1>1, <1>5 DEF SmallerOf
  <1>7. /\ TimesOK(info, r)
        /\ r.pad_begin_left = ps.pad_begin_left - d
        /\ r.play_position = p
        /\ r.trim_begin_left = 0
        /\ FadeOK(info, r)
    BY <1>1, <1>2, <1>4, <1>6, PadLeftOK DEF PlayingOK
  <1>8. /\ task' \in [step : {"idle", "trim", "body", "seek", "skip_intro", "skip"},
                      samples : Nat, left : Nat]
        /\ task'.step = "body" /\ task'.samples = n
    BY <1>1, <1>2 DEF PlayerInv, TaskOK
  <1>9. /\ buf' \in Seq(CellRecord) /\ Len(buf') = d
        /\ \A i \in 1 .. d : buf'[i] = Cell(Silence, 0)
    BY <1>2, <1>6, SilentCells
  <1>10. TaskOK'
    BY <1>5, <1>8, <1>9 DEF TaskOK, At
  <1>11. buf = <<>> /\ Len(buf) = 0
    BY <1>2 DEF PlayerInv, TaskOK, At
  <1>12. Live(info, p) =>
          /\ ps.pad_begin_left = PadLeft(info, p)
          /\ d = SmallerOf(PadLeft(info, p), n)
          /\ ps.pad_begin_left - d = PadLeft(info, p + n)
          /\ DecodePosition(info, p + d) = DecodePosition(info, p)
          /\ \A i \in 1 .. d : p + i - 1 < info.pad_begin_duration
    <2>1. Live(info, p) => ps.pad_begin_left = PadLeft(info, p)
      BY <1>1, <1>2, <1>4 DEF PlayingOK, At
    <2> QED  BY <1>1, <1>4, <1>5, <2>1, Padding
  <1>13. HeadMatters(info, p) =>
          HeadAt(start_vgmstream, vgm, DecodePosition(info, p + d) - 0)
    <2>1. p + Len(buf) = p
      BY <1>5, <1>11
    <2>2. HeadMatters(info, p) =>
            HeadAt(start_vgmstream, vgm, DecodePosition(info, p) - 0)
      BY <1>1, <1>2, <1>4, <2>1 DEF PlayingOK
    <2> QED  BY <1>12, <2>2 DEF HeadMatters
  <1>14. Live(info, p) => \A i \in 1 .. d : CellOK(info, p + i - 1, buf'[i])
    <2>1. SUFFICES ASSUME Live(info, p), NEW i \in 1 .. d
                   PROVE  CellOK(info, p + i - 1, buf'[i])
      OBVIOUS
    <2>2. PICK q : q = p + i - 1 /\ q \in Int /\ q < info.pad_begin_duration
      BY <1>5, <1>6, <1>12, <2>1
    <2>3. buf'[i].src = Silence /\ buf'[i].fade = 0
      BY <1>9 DEF Cell
    <2>4. ~(q >= info.pad_begin_duration)
      BY <1>4, <2>2 DEF InfoOK
    <2> QED  BY <2>2, <2>3, <2>4 DEF CellOK
  <1>15. PlayingOK'
    <2>1. SmallerOf(PadLeft(info, p), n) = d => d <= d
      BY <1>6
    <2> QED
      BY <1>1, <1>2, <1>3, <1>6, <1>7, <1>8, <1>9, <1>12, <1>13, <1>14, <2>1
         DEF PlayingOK, At
  <1> QED
    BY <1>1, <1>2, <1>3, <1>7, <1>8, <1>10, <1>15 DEF PlayerInv, At

\* The cells a layout delivers at stream position t are right for the output
\* position they are for.
LEMMA CellsInPlace ==
    ASSUME NEW info, InfoOK(info), NEW start, SameTimeline(info, start),
           NEW q \in Nat, q >= info.pad_begin_duration,
           NEW cells, CellsFrom(start, cells, DecodePosition(info, q)),
           NEW j \in 1 .. Len(cells), Len(cells) \in Nat
    PROVE  CellOK(info, q + (j - 1), cells[j])
  <1>1. PICK k : k = j - 1 /\ k \in Nat
    OBVIOUS
  <1>2. DecodePosition(info, q + k) = DecodePosition(info, q) + k
    BY <1>1, DecodePositions
  <1>3. /\ cells[j].fade = 0
        /\ IF cells[j].src = Silence
           THEN IsOver(info, DecodePosition(info, q) + k)
           ELSE IsSource(info, DecodePosition(info, q) + k, cells[j].src)
    BY <1>1, TimelineOf DEF CellsFrom
  <1>4. q + k >= info.pad_begin_duration /\ ~(q + k < info.pad_begin_duration)
    BY <1>1 DEF InfoOK
  <1> QED  BY <1>1, <1>2, <1>3, <1>4 DEF CellOK

\* render_layout fills the rest of the buffer.
LEMMA BodyKeepsInv ==
    ASSUME PlayerInv, At("body"), NEW cells, LayoutDelivers(cells)
    PROVE  PlayerInv'
  <1>1. PICK info, p, n, len :
          /\ info = Info /\ p = ps.play_position /\ n = Len(cells)
          /\ len = Len(buf)
    OBVIOUS
  <1>2. /\ n \in Nat /\ n > 0 /\ n <= task.samples - len
        /\ cells \in Seq(CellRecord)
        /\ ps' = ps /\ task' = task /\ buf' = buf \o cells
        /\ UNCHANGED <<start_vgmstream, seek>>
        /\ SongOK' /\ Info' = Info /\ HeardOK'
        /\ HeadSomewhere(start_vgmstream, vgm)'
    BY <1>1, Delivery, WantedByPhase
  <1>3. /\ InfoOK(info) /\ TimesOK(info, ps) /\ PlayingOK
        /\ SameTimeline(info, start_vgmstream)
    BY <1>1, InvSong DEF PlayerInv, At
  <1>4. /\ p \in Nat /\ task.samples \in Nat /\ buf \in Seq(CellRecord)
        /\ len \in Nat /\ ps.trim_begin_left = 0
    <2>1. ps.trim_begin_left \in Nat /\ ~(ps.trim_begin_left > 0)
      BY <1>3 DEF TimesOK, PlayState, PlayingOK
    <2>2. ps.play_position \in Nat
      BY <1>3 DEF TimesOK, PlayState
    <2>3. task.samples \in Nat /\ buf \in Seq(CellRecord)
      BY DEF PlayerInv, TaskOK
    <2>4. Len(buf) \in Nat
      BY <2>3, LenProperties
    <2> QED  BY <1>1, <2>1, <2>2, <2>3, <2>4
  <1>5. /\ buf' \in Seq(CellRecord) /\ Len(buf') = len + n
        /\ \A i \in 1 .. len + n :
              buf'[i] = IF i <= len THEN buf[i] ELSE cells[i - len]
    BY <1>1, <1>2, <1>4, ConcatProperties
  <1>6. TaskOK'
    BY <1>2, <1>5 DEF PlayerInv, TaskOK, At
  <1>7. Live(info, p) => p + len >= info.pad_begin_duration
    <2>1. Live(info, p) => SmallerOf(PadLeft(info, p), task.samples) <= len
      BY <1>1, <1>3 DEF PlayingOK
    <2> QED
      BY <1>2, <1>3, <1>4, <2>1 DEF SmallerOf, PadLeft, NotNegative, InfoOK
  <1>8. PICK t : t = DecodePosition(info, p + len) /\ t \in Nat /\ t - 0 = t
    <2>1. p + len \in Nat
      BY <1>4
    <2> QED  BY <1>3, <2>1, DecodePositions
  <1>9. HeadMatters(info, p) =>
          /\ HeadAt(start_vgmstream, vgm', t + n)
          /\ CellsFrom(start_vgmstream, cells, t)
    <2>1. HeadMatters(info, p) => HeadAt(start_vgmstream, vgm, t)
      BY <1>1, <1>3, <1>4, <1>8 DEF PlayingOK
    <2> QED  BY <1>1, <1>8, <2>1 DEF LayoutDelivers
  <1>10. HeadMatters(info, p) =>
          HeadAt(start_vgmstream, vgm',
                 DecodePosition(info, p + (len + n)) - 0)
    <2>1. Live(info, p) => DecodePosition(info, (p + len) + n) = t + n
      <3>1. PICK q \in Nat : q = p + len
        BY <1>4
      <3>2. q >= info.pad_begin_duration =>
              DecodePosition(info, q + n) = DecodePosition(info, q) + n
        BY <1>2, <1>3, DecodePositions
      <3> QED  BY <1>7, <1>8, <3>1, <3>2
    <2>2. (p + len) + n = p + (len + n) /\ (t + n) - 0 = t + n
      BY <1>2, <1>4, <1>8
    <2> QED  BY <1>9, <2>1, <2>2 DEF HeadMatters
  <1>11. Live(info, p) =>
          \A i \in 1 .. len + n : CellOK(info, p + i - 1, buf'[i])
    <2>1. SUFFICES ASSUME Live(info, p), NEW i \in 1 .. len + n
                   PROVE  CellOK(info, p + i - 1, buf'[i])
      OBVIOUS
    <2>2. CASE i <= len
      <3>1. i \in 1 .. len
        BY <1>4, <2>2
      <3> QED  BY <1>1, <1>3, <1>5, <2>1, <2>2, <3>1 DEF PlayingOK
    <2>3. CASE i > len
      <3>1. PICK j \in 1 .. n : j = i - len
        BY <1>2, <1>4, <2>3
      <3>2. buf'[i] = cells[j]
        BY <1>4, <1>5, <2>3, <3>1
      <3>3. PICK q \in Nat : q = p + len /\ q >= info.pad_begin_duration
        BY <1>4, <1>7, <2>1
      <3>4. q + (j - 1) = p + i - 1 /\ j - 1 \in Nat /\ q + (j - 1) >= p
        BY <1>2, <1>4, <2>3, <3>1, <3>3
      <3>5. CASE HeadMatters(info, p)
        <4>1. CellsFrom(start_vgmstream, cells, DecodePosition(info, q))
          BY <1>8, <1>9, <3>3, <3>5
        <4>2. CellOK(info, q + (j - 1), cells[j])
          BY <1>1, <1>2, <1>3, <3>3, <4>1, CellsInPlace
        <4> QED  BY <3>2, <3>4, <4>2
      <3>6. CASE ~HeadMatters(info, p)
        <4>1. ~info.play_forever /\ p >= info.pad_end_start
          BY <1>3, <1>4, <2>1, <3>6 DEF HeadMatters, InfoOK
        <4>2. PICK u : u = p + i - 1 /\ u \in Int /\ u >= p
          BY <1>4, <3>4
        <4>3. ~(u < info.pad_end_start) /\ ~(u < info.pad_begin_duration)
          BY <1>3, <1>4, <4>1, <4>2 DEF InfoOK
        <4>4. cells[j].fade = 0
          BY <1>1 DEF LayoutDelivers
        <4> QED  BY <3>2, <4>1, <4>2, <4>3, <4>4 DEF CellOK
      <3> QED  BY <3>5, <3>6
    <2>4. i \in Int
      BY <1>2, <1>4
    <2> QED  BY <1>4, <2>2, <2>3, <2>4
  <1>12. PlayingOK'
    <2>1. /\ len + n <= task.samples
          /\ \A x \in Int : x <= len => x <= len + n
      BY <1>2, <1>4
    <2>2. Live(info, p) => SmallerOf(PadLeft(info, p), task.samples) <= len + n
      <3>1. PadLeft(info, p) \in Nat
        BY <1>3, <1>4 DEF PadLeft, NotNegative, InfoOK
      <3>2. SmallerOf(PadLeft(info, p), task.samples) \in Int
        BY <1>4, <3>1 DEF SmallerOf
      <3> QED  BY <1>1, <1>3, <2>1, <3>2 DEF PlayingOK
    <2> QED
      BY <1>1, <1>2, <1>3, <1>4, <1>5, <1>10, <1>11, <2>1, <2>2
         DEF PlayingOK, At
  <1> QED  BY <1>1, <1>2, <1>3, <1>6, <1>12 DEF PlayerInv, At
-----------------------------------------------------------------------------
(* Rendering: the fade, the end padding and the totals *)

\* What Playback lets sound at q, said of the song only.
SoundsAt(info, q, cell) ==
    /\ IF cell.src = Silence
       THEN \/ q < info.pad_begin_duration
            \/ ~info.play_forever /\ q >= info.pad_end_start
            \/ IsOver(info, q - info.pad_begin_duration
                              + info.trim_begin_duration)
       ELSE /\ q >= info.pad_begin_duration
            /\ info.play_forever \/ q < info.pad_end_start
            /\ IsSource(info, q - info.pad_begin_duration
                                + info.trim_begin_duration, cell.src)
    /\ cell.src # Silence =>
           cell.fade = IF /\ ~info.play_forever
                          /\ q >= info.fade_start
                          /\ q < info.fade_start + info.fade_duration
                       THEN q - info.fade_start ELSE 0

\* It is what Playback says with Info for the song.
LEMMA SoundsIsSoundsAt ==
    ASSUME NEW q, NEW cell
    PROVE  Promise!Sounds(q, cell) <=> SoundsAt(Info, q, cell)
  BY DEF SoundsAt, Promise!Sounds, Promise!SourceAt, Promise!FadeAt,
         Promise!InFade, Promise!StreamPosition, Promise!Silence, Silence,
         Promise!IsOver, Promise!IsSource, Promise!LoopBody, Promise!LastCopy,
         IsOver, IsSource, LoopBody, LastCopy

\* The first k cells of a buffer.
LEMMA FirstCells ==
    ASSUME NEW S, NEW f \in Seq(S), NEW k \in 0 .. Len(f)
    PROVE  /\ SubSeq(f, 1, k) \in Seq(S)
           /\ Len(SubSeq(f, 1, k)) = k
           /\ DOMAIN SubSeq(f, 1, k) = 1 .. k
           /\ \A i \in 1 .. k : SubSeq(f, 1, k)[i] = f[i]
  <1>1. Len(f) \in Nat /\ \A i \in 1 .. Len(f) : f[i] \in S
    BY LenProperties, ElementOfSeq
  <1>2. k \in Nat /\ \A i \in 1 .. k : f[i] \in S
    BY <1>1
  <1>3. /\ SubSeq(f, 1, k) \in Seq(S)
        /\ Len(SubSeq(f, 1, k)) = IF 1 <= k THEN k - 1 + 1 ELSE 0
        /\ \A i \in 1 .. k - 1 + 1 : SubSeq(f, 1, k)[i] = f[1 + i - 1]
    BY <1>2, SubSeqProperties
  <1>4. k - 1 + 1 = k /\ \A i \in 1 .. k : 1 + i - 1 = i
    BY <1>2
  <1>5. DOMAIN SubSeq(f, 1, k) = 1 .. k
    BY <1>2, <1>3, <1>4, LenProperties
  <1> QED  BY <1>2, <1>3, <1>4, <1>5

\* The fade and the end padding leave a buffer of as many samples.
LEMMA FadeIsBuffer ==
    ASSUME NEW info, NEW p, TimesOK(info, p), InfoOK(info),
           NEW c, NEW cells \in Seq(CellRecord), NEW n, n = Len(cells),
           NEW out, out = PlayOpFade(c, p, cells)
    PROVE  out \in Seq(CellRecord) /\ Len(out) = n /\ DOMAIN out = 1 .. n
  <1>1. n \in Nat /\ DOMAIN cells = 1 .. n
        /\ \A i \in 1 .. n : cells[i] \in CellRecord
    BY LenProperties, ElementOfSeq
  <1>2. CASE out = cells
    BY <1>1, <1>2
  <1>3. CASE out # cells
    <2>1. PICK start, to_do, fade_pos :
            /\ start = FadeOffset(p) /\ to_do = FadeToDo(p, n)
            /\ fade_pos = NotNegative(p.play_position - p.fade_start)
      OBVIOUS
    <2>2. start \in Nat /\ fade_pos \in Nat
      <3>1. PICK pos \in Nat, from \in Nat :
              pos = p.play_position /\ from = p.fade_start
        BY DEF TimesOK, PlayState
      <3>2. /\ fade_pos = IF pos - from < 0 THEN 0 ELSE pos - from
            /\ start = IF pos >= from THEN 0 ELSE from - pos
        BY <2>1, <3>1 DEF FadeOffset, NotNegative
      <3> QED  BY <3>1, <3>2
    <2>3. out = [i \in 1 .. n |->
                   IF i <= start THEN cells[i]
                   ELSE IF i <= start + to_do
                   THEN [cells[i] EXCEPT !.fade = fade_pos + i - start - 1]
                   ELSE Cell(Silence, 0)]
      BY <1>1, <1>3, <2>1 DEF PlayOpFade
    <2>4. ASSUME NEW i \in 1 .. n, ~(i <= start)
          PROVE  [cells[i] EXCEPT !.fade = fade_pos + i - start - 1]
                     \in CellRecord
      <3>1. fade_pos + i - start - 1 \in Nat
        BY <1>1, <2>2, <2>4
      <3> QED  BY <1>1, <3>1 DEF CellRecord
    <2>5. Cell(Silence, 0) \in CellRecord
      BY DEF Cell, CellRecord
    <2>6. out \in [1 .. n -> CellRecord]
      BY <1>1, <2>3, <2>4, <2>5
    <2> QED  BY <1>1, <2>6, FunctionIsSeq
  <1> QED  BY <1>2, <1>3

\* The end padding leaves a buffer of as many samples.
LEMMA PadEndIsBuffer ==
    ASSUME NEW c, NEW p, NEW cells \in Seq(CellRecord),
           NEW n, n = Len(cells), NEW out, out = PlayOpPadEnd(c, p, cells)
    PROVE  out \in Seq(CellRecord) /\ Len(out) = n /\ DOMAIN out = 1 .. n
  <1>1. n \in Nat /\ DOMAIN cells = 1 .. n
        /\ \A i \in 1 .. n : cells[i] \in CellRecord
    BY LenProperties, ElementOfSeq
  <1>2. CASE out = cells
    BY <1>1, <1>2
  <1>3. CASE \E start, to_do : out = Blank(cells, start, to_do)
    <2>1. PICK start, to_do : out = Blank(cells, start, to_do)
      BY <1>3
    <2>2. Cell(Silence, 0) \in CellRecord
      BY DEF Cell, CellRecord
    <2>3. out \in [1 .. n -> CellRecord]
      BY <1>1, <2>1, <2>2 DEF Blank
    <2> QED  BY <1>1, <2>3, FunctionIsSeq
  <1> QED  BY <1>2, <1>3 DEF PlayOpPadEnd

\* play_op_fade leaves the samples, and fades those of the fade by their place
\* in it.
LEMMA FadedCells ==
    ASSUME NEW info, InfoOK(info), NEW p, TimesOK(info, p), FadeOK(info, p),
           NEW c, c.play_forever = info.play_forever,
           NEW cells \in Seq(CellRecord), Live(info, p.play_position),
           NEW n, n = Len(cells),
           \A i \in 1 .. n : cells[i].fade = 0,
           NEW out, out = PlayOpFade(c, p, cells)
    PROVE  \A i \in 1 .. n :
              LET q == p.play_position + i - 1
              IN  info.play_forever \/ q < info.pad_end_start =>
                    /\ out[i].src = cells[i].src
                    /\ out[i].fade =
                         IF ~info.play_forever /\ q >= info.fade_start
                         THEN q - info.fade_start ELSE 0
  <1>1. n \in Nat /\ DOMAIN cells = 1 .. n
        /\ \A i \in 1 .. n : cells[i] \in CellRecord
    BY LenProperties, ElementOfSeq
  <1>2. PICK pos, left : /\ pos = p.play_position /\ left = p.fade_left
                         /\ pos \in Nat /\ left \in Nat
    BY DEF TimesOK, PlayState
  <1>3. p.fade_start = info.fade_start
    BY DEF TimesOK
  <1>4. PICK applies \in BOOLEAN :
          applies <=> /\ ~info.play_forever
                      /\ left # 0
                      /\ pos + n >= info.fade_start
    OBVIOUS
  <1>5. FadeApplies(c, p, n) <=> applies
    BY <1>2, <1>3, <1>4 DEF FadeApplies
  <1>6. CASE ~applies
    <2>1. out = cells
      BY <1>5, <1>6 DEF PlayOpFade
    <2>2. ASSUME NEW i \in 1 .. n, NEW q, q = pos + i - 1,
                 info.play_forever \/ q < info.pad_end_start
          PROVE  ~(~info.play_forever /\ q >= info.fade_start)
      <3>1. SUFFICES ASSUME ~info.play_forever, q >= info.fade_start
                     PROVE  FALSE
        OBVIOUS
      <3>2. i \in Nat /\ i > 0 /\ i <= n /\ q \in Int /\ pos <= q
            /\ pos + n >= info.fade_start
        <4>1. PICK start \in Nat : start = info.fade_start
          BY DEF InfoOK
        <4>2. i \in Nat /\ i > 0 /\ i <= n
          BY <1>1
        <4>3. q \in Int /\ pos <= q /\ q < pos + n
          BY <1>1, <1>2, <2>2, <4>2
        <4>4. q >= start
          BY <3>1, <4>1
        <4>5. pos + n >= start
          BY <1>1, <1>2, <4>1, <4>3, <4>4
        <4> QED  BY <4>1, <4>2, <4>3, <4>5
      <3>3. left = 0
        BY <1>4, <1>6, <3>1, <3>2
      <3>4. CASE pos <= info.fade_start
        BY <1>2, <2>2, <3>1, <3>2, <3>3, <3>4 DEF FadeOK, InfoOK
      <3>5. CASE pos > info.fade_start
        <4>1. pos < info.pad_end_start
          BY <1>2, <2>2, <3>1, <3>2 DEF InfoOK
        <4> QED
          BY <1>2, <2>2, <3>1, <3>2, <3>3, <3>5, <4>1 DEF FadeOK, InfoOK
      <3> QED  BY <1>2, <3>4, <3>5 DEF InfoOK
    <2> QED  BY <1>1, <1>2, <2>1, <2>2
  <1>7. CASE applies
    <2>1. PICK start, fade_pos :
            /\ start = NotNegative(info.fade_start - pos)
            /\ fade_pos = NotNegative(pos - info.fade_start)
      OBVIOUS
    <2>2. PICK to_do : to_do = SmallerOf(left, n - start)
      OBVIOUS
    <2>3. out = [i \in 1 .. n |->
                   IF i <= start THEN cells[i]
                   ELSE IF i <= start + to_do
                   THEN [cells[i] EXCEPT !.fade = fade_pos + i - start - 1]
                   ELSE Cell(Silence, 0)]
      BY <1>1, <1>2, <1>3, <1>5, <1>7, <2>1, <2>2
         DEF PlayOpFade, FadeOffset, FadeToDo
    <2>6. /\ ~info.play_forever /\ left # 0 /\ pos + n >= info.fade_start
          /\ info.fade_start \in Nat /\ info.pad_end_start \in Nat
          /\ info.fade_duration \in Nat
          /\ info.pad_end_start = info.fade_start + info.fade_duration
      BY <1>4, <1>7 DEF InfoOK
    <2>7. /\ start \in Nat /\ start <= n /\ fade_pos \in Nat
          /\ pos < info.fade_start =>
                start = info.fade_start - pos /\ fade_pos = 0
          /\ pos >= info.fade_start =>
                start = 0 /\ fade_pos = pos - info.fade_start
      <3>1. PICK begin \in Nat : begin = info.fade_start
        BY <2>6
      <3>2. n \in Nat /\ pos \in Nat /\ pos + n >= begin
        BY <1>1, <1>2, <2>6, <3>1
      <3>3. start = NotNegative(begin - pos) /\ fade_pos = NotNegative(pos - begin)
        BY <2>1, <3>1
      <3>4. CASE pos < begin
        <4>1. start = begin - pos /\ fade_pos = 0
          BY <3>2, <3>3, <3>4 DEF NotNegative
        <4> QED  BY <3>1, <3>2, <3>4, <4>1
      <3>5. CASE pos >= begin
        <4>1. start = 0 /\ fade_pos = pos - begin
          BY <3>2, <3>3, <3>5 DEF NotNegative
        <4> QED  BY <3>1, <3>2, <3>5, <4>1
      <3> QED  BY <3>2, <3>4, <3>5
    <2>8. to_do \in Nat /\ (to_do = left \/ to_do = n - start)
      BY <1>1, <1>2, <2>2, <2>7 DEF SmallerOf
    <2>9. /\ pos <= info.fade_start => left = info.fade_duration
          /\ info.fade_start <= pos /\ pos < info.pad_end_start =>
                left = info.pad_end_start - pos
      BY <1>2, <2>6 DEF FadeOK
    <2>10. ASSUME NEW i \in 1 .. n, NEW q, q = pos + i - 1,
                  q < info.pad_end_start
           PROVE  /\ out[i].src = cells[i].src
                  /\ out[i].fade = IF q >= info.fade_start
                                   THEN q - info.fade_start ELSE 0
      <3>1. i \in Nat /\ i > 0 /\ i <= n /\ q \in Int /\ pos <= q
        BY <1>1, <1>2, <2>10
      <3>2. CASE q < info.fade_start
        <4>1. i <= start
          BY <1>2, <2>6, <2>7, <2>10, <3>1, <3>2
        <4> QED  BY <2>3, <2>6, <3>1, <3>2, <4>1
      <3>3. CASE q >= info.fade_start
        <4>0. PICK fs \in Nat, fd \in Nat :
                fs = info.fade_start /\ fd = info.fade_duration
          BY <2>6
        <4>1. ~(i <= start) /\ fade_pos + i - start - 1 = q - fs
          <5>1. CASE pos < fs
            <6>1. start = fs - pos /\ fade_pos = 0 /\ start \in Nat
              BY <2>7, <4>0, <5>1
            <6>2. q >= fs /\ q = pos + i - 1 /\ q \in Nat
              BY <1>2, <2>10, <3>1, <3>3, <4>0
            <6>3. pos \in Nat /\ i \in Nat
              BY <1>2, <3>1
            <6>4. ~(i <= start)
              BY <6>1, <6>2, <6>3
            <6>5. fade_pos + i - start - 1 = i - (fs - pos) - 1
              BY <6>1, <6>3
            <6>6. i - (fs - pos) - 1 = q - fs
              BY <6>2, <6>3
            <6> QED  BY <6>4, <6>5, <6>6
          <5>2. CASE pos >= fs
            <6>1. start = 0 /\ fade_pos = pos - fs
              BY <2>7, <4>0, <5>2
            <6> QED  BY <1>2, <2>10, <3>1, <3>3, <4>0, <6>1
          <5> QED  BY <1>2, <5>1, <5>2
        <4>2. i <= start + to_do
          <5>1. q < fs + fd
            BY <2>6, <2>10, <4>0
          <5>2. to_do = n - start => i <= start + to_do
            BY <1>1, <2>7, <3>1
          <5>3. CASE pos < fs
            <6>1. start = fs - pos /\ left = fd
              BY <1>2, <2>7, <2>9, <4>0, <5>3
            <6> QED  BY <1>2, <2>8, <2>10, <3>1, <5>1, <5>2, <6>1
          <5>4. CASE pos >= fs
            <6>1. pos < fs + fd /\ info.pad_end_start = fs + fd
              BY <1>2, <2>6, <3>1, <4>0, <5>1
            <6>2. start = 0 /\ left = fs + fd - pos
              <7>1. start = 0
                BY <2>7, <4>0, <5>4
              <7>2. info.fade_start <= pos /\ pos < info.pad_end_start
                BY <1>2, <4>0, <5>4, <6>1
              <7>3. left = info.pad_end_start - pos
                BY <2>9, <7>2
              <7>4. left = (fs + fd) - pos
                BY <6>1, <7>3
              <7> QED  BY <1>2, <4>0, <7>1, <7>4
            <6> QED
              BY <1>2, <2>8, <2>10, <3>1, <5>1, <5>2, <6>2
          <5> QED  BY <1>2, <5>3, <5>4
        <4>3. out[i] = [cells[i] EXCEPT !.fade = fade_pos + i - start - 1]
          BY <2>3, <4>1, <4>2
        <4>4. out[i].src = cells[i].src
              /\ out[i].fade = fade_pos + i - start - 1
          BY <1>1, <4>3 DEF CellRecord
        <4> QED  BY <3>3, <4>1, <4>4, <4>0
      <3> QED  BY <2>6, <3>1, <3>2, <3>3
    <2> QED  BY <1>2, <2>6, <2>10
  <1> QED  BY <1>6, <1>7

\* play_op_pad_end blanks what the song has after its fade, and nothing else.
LEMMA PaddedCells ==
    ASSUME NEW info, InfoOK(info), NEW p, TimesOK(info, p),
           NEW c, c.play_forever = info.play_forever,
           NEW n \in Nat, NEW cells, Len(cells) = n, DOMAIN cells = 1 .. n,
           NEW out, out = PlayOpPadEnd(c, p, cells)
    PROVE  \A i \in 1 .. n :
              LET q == p.play_position + i - 1
              IN  /\ info.play_forever \/ q < info.pad_end_start =>
                        out[i] = cells[i]
                  /\ /\ ~info.play_forever
                     /\ q >= info.pad_end_start
                     /\ q < info.play_duration
                     => out[i] = Cell(Silence, 0)
  <1>1. PICK pos, end, pad :
          /\ pos = p.play_position /\ end = info.pad_end_start
          /\ pad = p.pad_end_duration
          /\ pos \in Nat /\ end \in Nat /\ pad \in Nat
          /\ p.pad_end_start = end
          /\ info.play_duration <= end + pad
          /\ info.play_duration \in Nat
    BY DEF TimesOK, PlayState, InfoOK
  <1>2. PICK start, to_do :
          /\ start = NotNegative(end - pos)
          /\ to_do = IF pos < end THEN pad ELSE end + pad - pos
    OBVIOUS
  <1>3. out = IF info.play_forever \/ pos + n < end THEN cells
              ELSE Blank(cells, start, to_do)
    BY <1>1, <1>2 DEF PlayOpPadEnd
  <1>4. CASE info.play_forever \/ pos + n < end
    BY <1>1, <1>3, <1>4
  <1>5. CASE ~(info.play_forever \/ pos + n < end)
    <2>1. ~info.play_forever /\ pos + n >= end
      BY <1>1, <1>5
    <2>2. \A i \in 1 .. n :
            out[i] = IF i > start /\ i <= start + to_do
                     THEN Cell(Silence, 0) ELSE cells[i]
      BY <1>3, <1>5 DEF Blank
    <2>3. ASSUME NEW i \in 1 .. n, NEW q, q = pos + i - 1
          PROVE  /\ q < end => ~(i > start)
                 /\ q >= end /\ q < info.play_duration =>
                       i > start /\ i <= start + to_do
      <3>1. i \in Nat /\ i > 0 /\ q \in Nat
        BY <1>1, <2>3
      <3>4. PICK total \in Nat : total = info.play_duration
        BY <1>1
      <3>2. CASE pos < end
        <4>1. start = end - pos /\ to_do = pad
          BY <1>1, <1>2, <3>2 DEF NotNegative
        <4> QED  BY <1>1, <2>3, <3>1, <3>2, <3>4, <4>1
      <3>3. CASE pos >= end
        <4>1. start = 0 /\ to_do = end + pad - pos
          BY <1>1, <1>2, <3>3 DEF NotNegative
        <4>2. i > start
          BY <3>1, <4>1
        <4>3. q < total => i <= start + to_do
          <5>1. total <= end + pad
            BY <1>1, <3>4
          <5>2. start + to_do = (end + pad) - pos /\ start + to_do \in Int
            BY <1>1, <4>1
          <5>3. PICK last : last = start + to_do
            OBVIOUS
          <5>4. last \in Int /\ last = (end + pad) - pos
            BY <5>2, <5>3
          <5>5. pos \in Int /\ end \in Int /\ pad \in Int /\ q = pos + i - 1
            BY <1>1, <2>3
          <5>6. q < total => i <= last
            BY <3>1, <3>4, <5>1, <5>4, <5>5
          <5> QED  BY <5>3, <5>6
        <4>4. ~(q < end)
          BY <1>1, <2>3, <3>1, <3>3
        <4> QED  BY <3>4, <4>2, <4>3, <4>4
      <3> QED  BY <1>1, <3>2, <3>3
    <2> QED  BY <1>1, <2>1, <2>2, <2>3
  <1> QED  BY <1>4, <1>5

\* A sample right before the fade and the padding sounds right after them.
LEMMA FinishedCells ==
    ASSUME NEW info, InfoOK(info), NEW p, TimesOK(info, p), FadeOK(info, p),
           NEW c, c.play_forever = info.play_forever,
           NEW cells \in Seq(CellRecord), Live(info, p.play_position),
           NEW n, n = Len(cells),
           \A i \in 1 .. n : CellOK(info, p.play_position + i - 1, cells[i]),
           NEW out, out = PlayOpPadEnd(c, p, PlayOpFade(c, p, cells))
    PROVE  /\ out \in Seq(CellRecord) /\ Len(out) = n
           /\ \A i \in 1 .. n :
                 Live(info, p.play_position + i - 1) =>
                     SoundsAt(info, p.play_position + i - 1, out[i])
  <1>1. PICK faded : faded = PlayOpFade(c, p, cells)
    OBVIOUS
  <1>2. n \in Nat
    BY LenProperties
  <1>3. \A i \in 1 .. n : cells[i].fade = 0
    BY DEF CellOK
  <1>4. faded \in Seq(CellRecord) /\ Len(faded) = n /\ DOMAIN faded = 1 .. n
    BY <1>1, FadeIsBuffer
  <1>9. out \in Seq(CellRecord) /\ Len(out) = n
    <2>1. out = PlayOpPadEnd(c, p, faded)
      BY <1>1
    <2> QED  BY <1>4, <2>1, PadEndIsBuffer
  <1>5. SUFFICES ASSUME NEW i \in 1 .. n, NEW q, q = p.play_position + i - 1,
                        Live(info, q)
                 PROVE  SoundsAt(info, q, out[i])
    BY <1>9
  <1>6. q \in Nat
    <2>1. i \in Nat /\ i > 0
      BY <1>2
    <2>2. p.play_position \in Nat
      BY DEF TimesOK, PlayState
    <2> QED  BY <1>5, <2>1, <2>2
  <1>7. CASE info.play_forever \/ q < info.pad_end_start
    <2>1. /\ faded[i].src = cells[i].src
          /\ faded[i].fade = IF ~info.play_forever /\ q >= info.fade_start
                             THEN q - info.fade_start ELSE 0
      BY <1>1, <1>3, <1>5, <1>7, FadedCells
    <2>2. out[i] = faded[i]
      BY <1>1, <1>2, <1>4, <1>5, <1>7, PaddedCells
    <2>3. CellOK(info, q, cells[i])
      BY <1>5
    <2>4. q >= info.pad_begin_duration =>
            DecodePosition(info, q)
              = q - info.pad_begin_duration + info.trim_begin_duration
      BY <1>6 DEF DecodePosition, NotNegative, InfoOK
    <2>5. q < info.pad_begin_duration \/ q >= info.pad_begin_duration
      BY <1>6 DEF InfoOK
    <2>6. ~info.play_forever => q < info.fade_start + info.fade_duration
      BY <1>7 DEF InfoOK
    <2> QED
      BY <1>7, <2>1, <2>2, <2>3, <2>4, <2>5, <2>6 DEF CellOK, SoundsAt
  <1>8. CASE ~(info.play_forever \/ q < info.pad_end_start)
    <2>1. ~info.play_forever /\ q >= info.pad_end_start
          /\ q < info.play_duration
      BY <1>5, <1>6, <1>8 DEF Live, InfoOK
    <2>2. out[i] = Cell(Silence, 0)
      BY <1>1, <1>2, <1>4, <1>5, <2>1, PaddedCells
    <2>3. out[i].src = Silence
      BY <2>2 DEF Cell
    <2> QED  BY <2>1, <2>3 DEF SoundsAt
  <1> QED  BY <1>7, <1>8
\* Where a render of that many samples ends: at the end of the song at last.
EndOf(info, q) ==
    IF ~info.play_forever /\ q > info.play_duration
    THEN info.play_duration ELSE q

\* Playback clamps a position as seek_vgmstream does.
LEMMA ClampedIsEndOf ==
    ASSUME NEW q \in Nat
    PROVE  Promise!Clamped(q) = EndOf(Info, q)
  <1>1. ~(q < 0)
    OBVIOUS
  <1> QED  BY <1>1 DEF Promise!Clamped, EndOf

\* play_adjust_totals keeps the samples of the song, and no others.
LEMMA KeptCells ==
    ASSUME NEW info, InfoOK(info), NEW p, TimesOK(info, p),
           NEW c, c.play_forever = info.play_forever,
           NEW n \in Nat, NEW kept, kept = n - Excess(c, p, n)
    PROVE  /\ kept \in 0 .. n
           /\ kept = EndOf(info, p.play_position + n) - p.play_position
           /\ \A i \in 1 .. kept : /\ Live(info, p.play_position)
                                   /\ Live(info, p.play_position + i - 1)
  <1>1. PICK pos \in Nat, total \in Nat :
          /\ pos = p.play_position /\ total = info.play_duration
          /\ p.play_duration = total
          /\ info.play_forever \/ pos <= total
          /\ info.play_forever \in BOOLEAN
    BY DEF TimesOK, PlayState, InfoOK
  <1>2. CASE info.play_forever
    <2>1. kept = n
      BY <1>2 DEF Excess
    <2> QED  BY <1>1, <1>2, <2>1 DEF EndOf, Live
  <1>3. CASE ~info.play_forever /\ pos + n > total
    <2>1. Excess(c, p, n) = pos + n - total
      BY <1>1, <1>3 DEF Excess, NotNegative, SmallerOf
    <2>2. kept = total - pos /\ kept \in Nat /\ kept <= n
      BY <1>1, <1>3, <2>1
    <2>3. EndOf(info, pos + n) = total
      BY <1>1, <1>3 DEF EndOf
    <2>4. ASSUME NEW i \in 1 .. kept
          PROVE  pos < total /\ pos + i - 1 < total
      BY <1>1, <2>2
    <2> QED  BY <1>1, <2>2, <2>3, <2>4 DEF Live
  <1>4. CASE ~info.play_forever /\ ~(pos + n > total)
    <2>1. Excess(c, p, n) = 0
      BY <1>1, <1>4 DEF Excess, NotNegative, SmallerOf
    <2>2. kept = n
      BY <2>1
    <2>3. EndOf(info, pos + n) = pos + n
      BY <1>1, <1>4 DEF EndOf
    <2>4. ASSUME NEW i \in 1 .. kept
          PROVE  pos < total /\ pos + i - 1 < total
      BY <1>1, <1>4, <2>2
    <2> QED  BY <1>1, <2>2, <2>3, <2>4 DEF Live
  <1> QED  BY <1>1, <1>2, <1>3, <1>4

\* What is left of the fade after a render of n samples.
LEMMA FadeGoesOn ==
    ASSUME NEW info, InfoOK(info), NEW p, TimesOK(info, p), FadeOK(info, p),
           NEW c, c.play_forever = info.play_forever,
           NEW n \in Nat, NEW left, left = FadeLeft(c, p, n)
    PROVE  /\ left \in Nat /\ left <= p.fade_left
           /\ LET q == p.play_position + n
              IN  ~info.play_forever /\ Live(info, p.play_position) =>
                    /\ q <= info.fade_start => left = info.fade_duration
                    /\ info.fade_start <= q /\ q < info.pad_end_start =>
                           left = info.pad_end_start - q
  <1>1. PICK pos \in Nat, was \in Nat, fs \in Nat, fd \in Nat :
          /\ pos = p.play_position /\ was = p.fade_left
          /\ fs = info.fade_start /\ fd = info.fade_duration
          /\ p.fade_start = fs /\ info.pad_end_start = fs + fd
          /\ was <= fd
    BY DEF TimesOK, PlayState, InfoOK
  <1>2. PICK q \in Nat : q = pos + n
    BY <1>1
  <1>3. PICK before \in Nat :
          /\ before = NotNegative(fs - pos)
          /\ pos <= fs => before = fs - pos
          /\ pos >= fs => before = 0
    BY <1>1 DEF NotNegative
  <1>4. /\ ~info.play_forever /\ was # 0 /\ q >= fs =>
             left = was - SmallerOf(was, n - before)
        /\ ~(~info.play_forever /\ was # 0 /\ q >= fs) => left = was
    BY <1>1, <1>2, <1>3 DEF FadeLeft, FadeApplies, FadeToDo, FadeOffset
  <1>5. q >= fs => n - before \in Nat
    BY <1>1, <1>2, <1>3
  <1>6. PICK to_do : to_do = SmallerOf(was, n - before)
    OBVIOUS
  <1>7. q >= fs => /\ to_do \in Nat /\ to_do <= was
                   /\ was <= n - before => to_do = was
                   /\ n - before <= was => to_do = n - before
    BY <1>1, <1>5, <1>6 DEF SmallerOf
  <1>8. left \in Nat /\ left <= was
    BY <1>1, <1>4, <1>6, <1>7
  <1>9. ASSUME ~info.play_forever, Live(info, pos)
        PROVE  /\ q <= fs => left = fd
               /\ fs <= q /\ q < fs + fd => left = (fs + fd) - q
    <2>1. /\ pos <= fs => was = fd
          /\ fs <= pos /\ pos < fs + fd => was = (fs + fd) - pos
      BY <1>1, <1>9 DEF FadeOK
    <2>2. ASSUME q < fs PROVE left = fd
      BY <1>1, <1>2, <1>4, <2>1, <2>2
    <2>3. ASSUME q = fs PROVE left = fd
      <3>1. was = fd /\ n - before = 0
        BY <1>1, <1>2, <1>3, <2>1, <2>3
      <3>2. to_do = 0
        BY <1>1, <1>2, <1>7, <2>3, <3>1
      <3> QED  BY <1>1, <1>4, <1>6, <3>1, <3>2
    <2>4. ASSUME fs < q, q < fs + fd PROVE left = (fs + fd) - q
      <3>1. CASE pos <= fs
        <4>1. was = fd /\ n - before = q - fs
          BY <1>1, <1>2, <1>3, <2>1, <3>1
        <4>2. to_do = q - fs
          BY <1>1, <1>2, <1>7, <2>4, <4>1
        <4> QED  BY <1>1, <1>2, <1>4, <1>6, <1>9, <2>4, <4>1, <4>2
      <3>2. CASE pos > fs
        <4>1. was = (fs + fd) - pos /\ n - before = n
          BY <1>1, <1>2, <1>3, <2>1, <2>4, <3>2
        <4>2. to_do = n
          BY <1>1, <1>2, <1>7, <2>4, <4>1
        <4> QED  BY <1>1, <1>2, <1>4, <1>6, <1>9, <2>4, <4>1, <4>2
      <3> QED  BY <1>1, <3>1, <3>2
    <2> QED  BY <1>1, <1>2, <2>2, <2>3, <2>4
  <1> QED  BY <1>1, <1>2, <1>8, <1>9

\* The play state after a render of n samples.
AfterRender(c, p, n) ==
    [p EXCEPT !.fade_left = FadeLeft(c, p, n),
              !.play_position =
                  IF c.play_forever THEN p.play_position + n
                  ELSE SmallerOf(p.play_position + n, p.play_duration)]

\* It has the times of the song, and what is left of its fade.
LEMMA FinishTimes ==
    ASSUME NEW info, InfoOK(info), NEW p, TimesOK(info, p), FadeOK(info, p),
           NEW c, c.play_forever = info.play_forever, NEW n \in Nat,
           NEW r, r = AfterRender(c, p, n)
    PROVE  /\ TimesOK(info, r)
           /\ r.play_position = EndOf(info, p.play_position + n)
           /\ r.trim_begin_left = p.trim_begin_left
           /\ r.pad_begin_left = p.pad_begin_left
           /\ Live(info, r.play_position) =>
                  /\ r.play_position = p.play_position + n
                  /\ Live(info, p.play_position)
           /\ FadeOK(info, r)
  <1>1. PICK pos \in Nat, total \in Nat :
          /\ pos = p.play_position /\ total = info.play_duration
          /\ p.play_duration = total
          /\ info.play_forever \in BOOLEAN
          /\ info.play_forever \/ pos <= total
    BY DEF TimesOK, PlayState, InfoOK
  <1>2. PICK to : to = EndOf(info, pos + n)
    OBVIOUS
  <1>3. PICK left : left = FadeLeft(c, p, n)
    OBVIOUS
  <1>4. /\ to \in Nat
        /\ to = IF c.play_forever THEN pos + n ELSE SmallerOf(pos + n, total)
        /\ info.play_forever \/ to <= total
        /\ Live(info, to) => to = pos + n /\ Live(info, pos)
    BY <1>1, <1>2 DEF EndOf, SmallerOf, Live
  <1>5. /\ left \in Nat /\ left <= p.fade_left
        /\ ~info.play_forever /\ Live(info, pos) =>
              /\ pos + n <= info.fade_start => left = info.fade_duration
              /\ info.fade_start <= pos + n /\ pos + n < info.pad_end_start =>
                     left = info.pad_end_start - (pos + n)
    BY <1>1, <1>3, FadeGoesOn
  <1>6. r = [p EXCEPT !.fade_left = left, !.play_position = to]
    BY <1>1, <1>3, <1>4 DEF AfterRender
  <1>7. r \in PlayState /\ r.fade_left = left /\ r.play_position = to
    BY <1>4, <1>5, <1>6 DEF TimesOK, PlayState
  <1>8. TimesOK(info, r)
    <2>1. p.fade_left \in Nat /\ p.fade_duration \in Nat
          /\ p.fade_left <= p.fade_duration
      BY DEF TimesOK, PlayState
    <2>2. left <= p.fade_duration
      BY <1>5, <2>1
    <2> QED  BY <1>1, <1>4, <1>5, <1>6, <1>7, <2>2 DEF TimesOK, PlayState
  <1>9. FadeOK(info, r)
    BY <1>4, <1>5, <1>7 DEF FadeOK
  <1>10. r.trim_begin_left = p.trim_begin_left
         /\ r.pad_begin_left = p.pad_begin_left
    BY <1>6 DEF TimesOK, PlayState
  <1> QED  BY <1>1, <1>2, <1>4, <1>7, <1>8, <1>9, <1>10
\* What render_main returns: the samples of its position, as many as the song
\* has left, and the position that follows them.
LEMMA FinishDelivers ==
    ASSUME PlayerInv, FinishRender
    PROVE  /\ SongOK' /\ Info' = Info
           /\ TimesOK(Info, ps)'
           /\ task.samples \in 1 .. MaxBuf
           /\ ps'.play_position = EndOf(Info, ps.play_position + task.samples)
           /\ heard'.at = ps.play_position
           /\ Len(heard'.cells) = ps'.play_position - ps.play_position
           /\ heard' \in [at : Nat, cells : Seq(CellRecord)]
           /\ DOMAIN heard'.cells = 1 .. Len(heard'.cells)
           /\ \A i \in 1 .. Len(heard'.cells) :
                 SoundsAt(Info, ps.play_position + i - 1, heard'.cells[i])
           /\ FadeOK(Info, ps')
           /\ ps'.trim_begin_left = ps.trim_begin_left
           /\ ps'.pad_begin_left = ps.pad_begin_left
           /\ Live(Info, ps'.play_position) =>
                 /\ ps'.play_position = ps.play_position + task.samples
                 /\ Live(Info, ps.play_position)
           /\ Len(buf) = task.samples
  <1>1. PICK info, p, c, n :
          /\ info = Info /\ p = ps /\ c = config /\ n = Len(buf)
    OBVIOUS
  <1>2. PICK cells, kept :
          /\ cells = PlayOpPadEnd(c, p, PlayOpFade(c, p, buf))
          /\ kept = n - Excess(c, p, n)
    OBVIOUS
  <1>3. PICK r : r = AfterRender(c, p, n)
    OBVIOUS
  <1>4. /\ At("body") /\ Wanted = 0
        /\ heard' = [at |-> p.play_position, cells |-> SubSeq(cells, 1, kept)]
        /\ ps' = r
        /\ UNCHANGED <<config, start_vgmstream, start_pstate>>
    BY <1>1, <1>2, <1>3 DEF FinishRender, AfterRender
  <1>5. SongOK' /\ Info' = Info
    BY <1>4, SongKept DEF PlayerInv
  <1>6. /\ InfoOK(info) /\ TimesOK(info, p) /\ PlayingOK
        /\ c.play_forever = info.play_forever
    BY <1>1, <1>4, InvSong DEF PlayerInv, At
  <1>7. /\ buf \in Seq(CellRecord) /\ n \in Nat
        /\ task.samples \in 1 .. MaxBuf /\ task.samples \in Nat
        /\ n = task.samples
    <2>1. buf \in Seq(CellRecord) /\ task.samples \in 1 .. MaxBuf
          /\ task.samples \in Nat
      BY <1>4 DEF PlayerInv, TaskOK
    <2>2. n \in Nat /\ task.samples - n = 0
      BY <1>1, <1>4, <2>1, LenProperties, WantedByPhase
    <2> QED  BY <2>1, <2>2
  <1>8. FadeOK(info, p)
    BY <1>1, <1>6 DEF PlayingOK
  <1>9. Live(info, p.play_position) =>
          \A i \in 1 .. n : CellOK(info, p.play_position + i - 1, buf[i])
    BY <1>1, <1>4, <1>6 DEF PlayingOK
  <1>10. /\ kept \in 0 .. n
         /\ kept = EndOf(info, p.play_position + n) - p.play_position
         /\ \A i \in 1 .. kept : /\ Live(info, p.play_position)
                                 /\ Live(info, p.play_position + i - 1)
    BY <1>2, <1>6, <1>7, KeptCells
  <1>11. /\ TimesOK(info, r)
         /\ r.play_position = EndOf(info, p.play_position + n)
         /\ r.trim_begin_left = p.trim_begin_left
         /\ r.pad_begin_left = p.pad_begin_left
         /\ Live(info, r.play_position) =>
                /\ r.play_position = p.play_position + n
                /\ Live(info, p.play_position)
         /\ FadeOK(info, r)
    <2>1. InfoOK(info) /\ TimesOK(info, p) /\ FadeOK(info, p)
          /\ c.play_forever = info.play_forever
      BY <1>6, <1>8
    <2>2. n \in Nat
      BY <1>7
    <2>3. r = AfterRender(c, p, n)
      BY <1>3
    <2> QED  BY <2>1, <2>2, <2>3, FinishTimes
  <1>12. PICK out : out = SubSeq(cells, 1, kept)
    OBVIOUS
  <1>15. p.play_position \in Nat
    BY <1>6 DEF TimesOK, PlayState
  <1>13. CASE Live(info, p.play_position)
    <2>1. /\ cells \in Seq(CellRecord) /\ Len(cells) = n
          /\ \A i \in 1 .. n :
                Live(info, p.play_position + i - 1) =>
                    SoundsAt(info, p.play_position + i - 1, cells[i])
      <3>1. cells = PlayOpPadEnd(c, p, PlayOpFade(c, p, buf)) /\ n = Len(buf)
        BY <1>1, <1>2
      <3>2. \A i \in 1 .. n : CellOK(info, p.play_position + i - 1, buf[i])
        BY <1>9, <1>13
      <3>3. buf \in Seq(CellRecord)
        BY <1>7
      <3>4. InfoOK(info) /\ TimesOK(info, p) /\ FadeOK(info, p)
            /\ c.play_forever = info.play_forever
        BY <1>6, <1>8
      <3> QED  BY <1>13, <3>1, <3>2, <3>3, <3>4, FinishedCells
    <2>2. /\ out \in Seq(CellRecord)
          /\ Len(out) = kept /\ DOMAIN out = 1 .. kept
          /\ \A i \in 1 .. kept : out[i] = cells[i]
      BY <1>7, <1>10, <1>12, <2>1, FirstCells
    <2>3. \A i \in 1 .. kept : i \in 1 .. n
      BY <1>7, <1>10
    <2>4. \A i \in 1 .. kept :
            SoundsAt(info, p.play_position + i - 1, out[i])
      BY <1>10, <2>1, <2>2, <2>3
    <2> QED
      BY <1>1, <1>4, <1>5, <1>7, <1>10, <1>11, <1>12, <1>15, <2>2, <2>4
  <1>14. CASE ~Live(info, p.play_position)
    <2>1. kept = 0
      BY <1>7, <1>10, <1>14
    <2>2. out = <<>>
      BY <1>12, <2>1, SubSeqEmpty
    <2>3. /\ out \in Seq(CellRecord)
          /\ Len(out) = kept /\ DOMAIN out = 1 .. kept /\ 1 .. kept = {}
      BY <2>1, <2>2
    <2> QED
      BY <1>1, <1>4, <1>5, <1>7, <1>10, <1>11, <1>12, <1>15, <2>3
  <1> QED  BY <1>13, <1>14

\* Returning from render_main.
LEMMA FinishRenderKeepsInv ==
    ASSUME PlayerInv, FinishRender
    PROVE  PlayerInv'
  <1>1. PICK info, p, n, q :
          /\ info = Info /\ p = ps.play_position /\ n = task.samples
          /\ q = ps'.play_position
    OBVIOUS
  <1>2. /\ At("body") /\ task' = Idle /\ buf' = <<>>
        /\ UNCHANGED <<vgm, start_vgmstream>>
    BY DEF FinishRender
  <1>3. /\ SongOK' /\ Info' = Info /\ TimesOK(Info, ps)'
        /\ n \in 1 .. MaxBuf
        /\ q = EndOf(info, p + n)
        /\ heard'.at = p
        /\ heard' \in [at : Nat, cells : Seq(CellRecord)]
        /\ DOMAIN heard'.cells = 1 .. Len(heard'.cells)
        /\ \A i \in 1 .. Len(heard'.cells) :
              SoundsAt(info, p + i - 1, heard'.cells[i])
        /\ FadeOK(info, ps')
        /\ ps'.trim_begin_left = ps.trim_begin_left
        /\ ps'.pad_begin_left = ps.pad_begin_left
        /\ Live(info, q) => q = p + n /\ Live(info, p)
        /\ Len(buf) = n
    BY <1>1, FinishDelivers
  <1>4. InfoOK(info) /\ TimesOK(info, ps) /\ PlayingOK
    BY <1>1, <1>2, InvSong DEF PlayerInv, At
  <1>5. p \in Nat /\ n \in Nat /\ ps.trim_begin_left = 0
    <2>1. ps.trim_begin_left \in Nat /\ ~(ps.trim_begin_left > 0)
      BY <1>2, <1>4 DEF TimesOK, PlayState, PlayingOK
    <2>2. n \in Nat
      BY <1>3, MaxBufAssumption
    <2>3. p \in Nat
      BY <1>1, <1>4 DEF TimesOK, PlayState
    <2> QED  BY <2>1, <2>2, <2>3
  <1>6. HeadMatters(info, q) =>
          HeadAt(start_vgmstream, vgm, DecodePosition(info, q + 0) - 0)
    <2>1. SUFFICES ASSUME HeadMatters(info, q)
                   PROVE  HeadAt(start_vgmstream, vgm,
                                 DecodePosition(info, q + 0) - 0)
      OBVIOUS
    <2>2. q = p + n /\ Live(info, p) /\ q + 0 = q
      BY <1>3, <1>5, <2>1 DEF HeadMatters
    <2>3. p < info.pad_end_start \/ ~(q < info.pad_end_start)
      BY <1>4, <1>5, <2>2 DEF InfoOK
    <2>4. HeadMatters(info, p)
      BY <2>1, <2>2, <2>3 DEF HeadMatters
    <2> QED  BY <1>1, <1>3, <1>4, <1>5, <2>2, <2>4 DEF PlayingOK
  <1>7. Live(info, q) => ps.pad_begin_left = PadLeft(info, q)
    BY <1>1, <1>2, <1>3, <1>4 DEF PlayingOK
  <1>8. Len(buf') = 0 /\ ~At("body")' /\ ~At("trim")' /\ task'.step = "idle"
    BY <1>2 DEF Idle, At
  <1>9. PlayingOK'
    BY <1>1, <1>2, <1>3, <1>5, <1>6, <1>7, <1>8 DEF PlayingOK
  <1>10. TaskOK'
    BY <1>2, <1>8 DEF TaskOK, Idle
  <1>11. HeardOK'
    <2>1. SUFFICES ASSUME NEW i \in DOMAIN heard'.cells
                   PROVE  Promise!Sounds(heard.at + i - 1, heard.cells[i])'
      BY <1>3 DEF HeardOK
    <2>2. SoundsAt(info, p + i - 1, heard'.cells[i])
      BY <1>3, <2>1
    <2> QED
      BY <1>1, <1>3, <2>2
         DEF SoundsAt, Promise!Sounds, Promise!SourceAt, Promise!FadeAt,
             Promise!InFade, Promise!StreamPosition, Promise!Silence, Silence,
             Promise!IsOver, Promise!IsSource, Promise!LoopBody,
             Promise!LastCopy, IsOver, IsSource, LoopBody, LastCopy
  <1>12. HeadSomewhere(start_vgmstream, vgm)'
    BY <1>2 DEF PlayerInv
  <1> QED  BY <1>3, <1>8, <1>9, <1>10, <1>11, <1>12 DEF PlayerInv

-----------------------------------------------------------------------------
(* Seeking: what is skipped on the way *)

\* Nothing in seek_decode changes what seek_render worked out.
LEMMA SeekTargetKept ==
    ASSUME SeekTargetOK, Info' = Info, seek' = seek
    PROVE  SeekTargetOK'
  BY DEF SeekTargetOK, Promise!Clamped

\* Positions of a seek are positions.
LEMMA SeekSample ==
    ASSUME PlayerInv, SeekTargetOK
    PROVE  seek.sample \in Nat /\ seek.target \in Nat
  <1>1. seek.target \in Nat /\ seek.sample = DecodePosition(Info, seek.target)
    BY DEF SeekTargetOK
  <1>2. InfoOK(Info)
    BY InvSong
  <1> QED  BY <1>1, <1>2, DecodePositions

\* seek_force_render throws away what lies before the target.
LEMMA SkipKeepsInv ==
    ASSUME PlayerInv, At("skip"), NEW cells, LayoutDelivers(cells)
    PROVE  PlayerInv'
  <1>1. PICK n, left, sample :
          n = Len(cells) /\ left = task.left /\ sample = seek.sample
    OBVIOUS
  <1>2. /\ n \in Nat /\ n > 0 /\ n <= left
        /\ ps' = ps /\ buf' = buf
        /\ task' = [task EXCEPT !.left = left - n]
        /\ UNCHANGED <<start_vgmstream, seek>>
        /\ SongOK' /\ Info' = Info /\ HeardOK'
        /\ HeadSomewhere(start_vgmstream, vgm)'
    BY <1>1, Delivery, WantedByPhase DEF Deliver, LayoutDelivers, At
  <1>3. SeekingOK /\ left \in Nat /\ SeekTargetOK
    BY <1>1 DEF PlayerInv, TaskOK, SeekingOK, At
  <1>4. sample \in Nat /\ left <= sample
        /\ HeadAt(start_vgmstream, vgm, sample - left)
    BY <1>1, <1>3, SeekSample DEF SeekingOK
  <1>5. PICK t \in Nat, less \in Nat :
          t = sample - left /\ less = left - n /\ t + n = sample - less
          /\ less <= sample
    BY <1>2, <1>3, <1>4
  <1>6. HeadAt(start_vgmstream, vgm', t + n)
    BY <1>1, <1>4, <1>5 DEF LayoutDelivers
  <1>7. /\ task' \in [step : {"idle", "trim", "body", "seek", "skip_intro", "skip"},
                      samples : Nat, left : Nat]
        /\ task'.step = "skip" /\ task'.left = less
    BY <1>2, <1>5 DEF PlayerInv, TaskOK, At
  <1>8. TaskOK'
    BY <1>2, <1>7 DEF PlayerInv, TaskOK, At
  <1>9. SeekTargetOK'
    BY <1>2, <1>3, SeekTargetKept
  <1>10. SeekingOK'
    BY <1>1, <1>2, <1>5, <1>6, <1>7, <1>9 DEF SeekingOK, At
  <1>11. TimesOK(Info, ps)'
    BY <1>2 DEF PlayerInv
  <1> QED  BY <1>2, <1>7, <1>8, <1>10, <1>11 DEF PlayerInv

\* "current must have reached loop start at some point": the intro is decoded up
\* to the loop start, and not a sample further.
LEMMA SkipIntroKeepsInv ==
    ASSUME PlayerInv, At("skip_intro"), RenderLayout
    PROVE  PlayerInv'
  <1>1. PICK left, sample :
          left = task.left /\ sample = seek.sample
    OBVIOUS
  <1>2. Wanted > 0 /\ Wanted = left /\ left \in Nat
    <2>1. Wanted > 0
      BY DEF RenderLayout, BlankPastEnd, LoopIteration, DecodeIteration,
             ErrorIteration
    <2> QED  BY <1>1, <2>1, WantedByPhase DEF PlayerInv, TaskOK
  <1>3. /\ vgm.loop_flag /\ ~vgm.hit_loop
        /\ vgm.current_sample < vgm.loop_start_sample
        /\ HeadOK(start_vgmstream, vgm)
        /\ ~Looped(vgm) /\ ~PastEnd(vgm)
        /\ LoopCheck(vgm) = vgm
    BY <1>2, NoJumpInIntro
  <1>4. Startable(start_vgmstream)
    BY InvSong
  <1>5. FlatSamplesToDo(vgm, left) > 0 /\ DecodeIteration
    <2>1. CASE DecodeIteration
      BY <1>2, <2>1 DEF DecodeIteration
    <2>2. CASE ErrorIteration
      <3>1. FlatSamplesToDo(vgm, left) <= 0
        BY <1>2, <2>2 DEF ErrorIteration
      <3>2. PICK v : v = LoopCheck(vgm)
        OBVIOUS
      <3>3. ~v.loop_flag
        BY <1>2, <1>3, <1>4, <3>1, <3>2, IterationFails
      <3> QED  BY <1>3, <3>2, <3>3
    <2> QED
      BY <1>3, <2>1, <2>2 DEF RenderLayout, BlankPastEnd, LoopIteration
  <1>6. PICK n, w :
          n = FlatSamplesToDo(vgm, left)
          /\ w = DecodeVgmstream(LoopCheck(vgm), n)
    OBVIOUS
  <1>7. /\ n \in 1 .. left
        /\ HeadOK(start_vgmstream, w)
        /\ w.current_sample = vgm.current_sample + n
    BY <1>2, <1>3, <1>4, <1>5, <1>6, IterationDecodes
  <1>8. /\ w.loop_flag = vgm.loop_flag /\ w.hit_loop = vgm.hit_loop
        /\ w.loop_count = vgm.loop_count
        /\ w.loop_start_sample = vgm.loop_start_sample
    BY <1>3, <1>6 DEF DecodeVgmstream, HeadOK, VgmRecord
  <1>9. vgm' = w /\ Deliver(Decoded(vgm.ch, n))
    BY <1>2, <1>5, <1>6 DEF DecodeIteration
  <1>10. Len(Decoded(vgm.ch, n)) = n
    <2>1. n \in Nat /\ vgm.ch \in Nat
      BY <1>2, <1>3, <1>7 DEF HeadOK, VgmRecord
    <2> QED  BY <2>1, DecodedCells
  <1>11. /\ ps' = ps /\ buf' = buf
         /\ task' = [task EXCEPT !.left = left - n]
         /\ UNCHANGED <<config, start_vgmstream, start_pstate, seek, heard>>
    BY <1>1, <1>9, <1>10 DEF Deliver, At
  <1>12. SongOK' /\ Info' = Info /\ HeardOK'
    BY <1>11, SongKept, HeardKept DEF PlayerInv
  <1>13. SeekingOK /\ SeekTargetOK /\ start_vgmstream.loop_flag
    BY DEF PlayerInv, SeekingOK, At
  <1>14. /\ sample \in Nat /\ sample >= vgm.loop_start_sample
         /\ vgm.current_sample + left = vgm.loop_start_sample
    BY <1>1, <1>3, <1>13, SeekSample DEF SeekingOK
  <1>15. /\ vgm.current_sample \in Nat /\ vgm.loop_start_sample \in Nat
         /\ vgm.loop_count \in Nat
    BY <1>3 DEF HeadOK, VgmRecord
  <1>16. PICK less \in Nat : less = left - n
    BY <1>2, <1>7
  <1>17. /\ w.current_sample + less = w.loop_start_sample
         /\ w.current_sample <= sample
    BY <1>2, <1>7, <1>8, <1>14, <1>15, <1>16
  <1>18. NotPast(start_vgmstream, w, sample)
    <2>1. vgm.loop_count = 0
      BY <1>3, <1>15 DEF HeadOK, HeadInLoop
    <2>2. JumpsBack(start_vgmstream, w) = 0
      BY <1>3, <1>8, <2>1 DEF JumpsBack
    <2>3. LoopBody(start_vgmstream) \in Nat
      BY <1>3, <1>4, <1>13, LoopIsSane
    <2>4. 0 * LoopBody(start_vgmstream) = 0
      BY <2>3
    <2>5. w.current_sample + 0 = w.current_sample
      BY <1>2, <1>7, <1>15
    <2> QED  BY <1>17, <2>2, <2>4, <2>5 DEF NotPast
  <1>19. /\ task' \in [step : {"idle", "trim", "body", "seek", "skip_intro", "skip"},
                       samples : Nat, left : Nat]
         /\ task'.step = "skip_intro" /\ task'.left = less
    BY <1>11, <1>16 DEF PlayerInv, TaskOK, At
  <1>20. TaskOK'
    BY <1>11, <1>19 DEF PlayerInv, TaskOK, At
  <1>21. SeekTargetOK'
    BY <1>11, <1>12, <1>13, SeekTargetKept
  <1>22. SeekingOK'
    BY <1>1, <1>3, <1>7, <1>8, <1>9, <1>11, <1>13, <1>14, <1>17, <1>18, <1>19,
       <1>21 DEF SeekingOK, At
  <1>23. TimesOK(Info, ps)' /\ HeadSomewhere(start_vgmstream, vgm)'
    BY <1>7, <1>9, <1>11, <1>12 DEF PlayerInv, HeadSomewhere
  <1> QED  BY <1>12, <1>19, <1>20, <1>22, <1>23 DEF PlayerInv

\* render_layout, whoever called it.
LEMMA RenderLayoutKeepsInv ==
    ASSUME PlayerInv, RenderLayout
    PROVE  PlayerInv'
  <1>1. CASE At("skip_intro")
    BY <1>1, SkipIntroKeepsInv
  <1>2. CASE LoopIteration
    BY <1>2, LoopKeepsInv
  <1>3. CASE ~At("skip_intro") /\ \E cells : LayoutDelivers(cells)
    <2>1. PICK cells : LayoutDelivers(cells)
      BY <1>3
    <2>2. Wanted > 0
      BY DEF RenderLayout, BlankPastEnd, LoopIteration, DecodeIteration,
             ErrorIteration
    <2>3. At("trim") \/ At("body") \/ At("skip")
      BY <1>3, <2>2, WantedByPhase DEF PlayerInv, TaskOK, At
    <2> QED  BY <2>1, <2>3, TrimKeepsInv, BodyKeepsInv, SkipKeepsInv
  <1> QED  BY <1>1, <1>2, <1>3, LayoutSteps

-----------------------------------------------------------------------------
(* Seeking: seek_render before and after seek_decode *)

\* What seek_render_trim_begin and seek_render_pad_begin leave to a target.
AtTarget(p, target) ==
    [p EXCEPT
       !.trim_begin_left = IF p.trim_begin_duration > 0 THEN 0 ELSE @,
       !.pad_begin_left =
           IF p.pad_begin_duration > 0
           THEN p.pad_begin_duration - SmallerOf(p.pad_begin_duration, target)
           ELSE @]

\* Where the target is in the stream, and what is left before it.
LEMMA TargetTimes ==
    ASSUME NEW info, InfoOK(info), NEW p, TimesOK(info, p),
           NEW target \in Nat, NEW r, r = AtTarget(p, target)
    PROVE  /\ TimesOK(info, r)
           /\ r.trim_begin_left = 0
           /\ r.pad_begin_left = PadLeft(info, target)
           /\ r.fade_left = p.fade_left /\ r.fade_duration = p.fade_duration
           /\ target + p.trim_begin_duration
                - SmallerOf(p.pad_begin_duration, target)
                = DecodePosition(info, target)
  <1>1. p \in PlayState
    BY DEF TimesOK
  <1>2. PICK pad \in Nat, was \in Nat, trim \in Nat :
          /\ pad = p.pad_begin_duration /\ was = p.pad_begin_left
          /\ trim = p.trim_begin_duration
          /\ was <= pad /\ p.trim_begin_left <= trim /\ p.trim_begin_left \in Nat
          /\ info.pad_begin_duration = pad /\ info.trim_begin_duration = trim
    BY <1>1 DEF TimesOK, PlayState
  <1>3. PICK pad_left, trim_left :
          /\ pad_left = IF pad > 0 THEN pad - SmallerOf(pad, target) ELSE was
          /\ trim_left = IF trim > 0 THEN 0 ELSE p.trim_begin_left
    OBVIOUS
  <1>4. pad_left \in Nat /\ pad_left <= pad /\ trim_left = 0
        /\ pad_left = PadLeft(info, target)
    <2>1. trim_left = 0
      BY <1>2, <1>3
    <2>2. PadLeft(info, target) = NotNegative(pad - target)
      BY <1>2 DEF PadLeft
    <2>3. pad_left = NotNegative(pad - target)
      <3>1. pad_left = IF pad > 0 THEN pad - SmallerOf(pad, target) ELSE was
        BY <1>3
      <3>2. pad = 0 => was = 0
        BY <1>2
      <3> QED  BY <3>1, <3>2 DEF SmallerOf, NotNegative
    <2>4. NotNegative(pad - target) \in Nat /\ NotNegative(pad - target) <= pad
      BY DEF NotNegative
    <2> QED  BY <2>1, <2>2, <2>3, <2>4
  <1>5. r = [p EXCEPT !.trim_begin_left = trim_left,
                      !.pad_begin_left = pad_left]
    BY <1>2, <1>3 DEF AtTarget
  <1>6. TimesOK(info, r)
    <2>1. r \in PlayState
      <3>1. pad_left \in Nat /\ trim_left \in Nat
        BY <1>4
      <3> QED  BY <1>1, <1>5, <3>1 DEF PlayState
    <2>2. /\ r.trim_begin_left = 0 /\ r.pad_begin_left = pad_left
          /\ r.trim_begin_duration = trim /\ r.pad_begin_duration = pad
          /\ r.body_duration = p.body_duration
          /\ r.fade_duration = p.fade_duration
          /\ r.fade_start = p.fade_start /\ r.pad_end_start = p.pad_end_start
          /\ r.pad_end_duration = p.pad_end_duration
          /\ r.play_duration = p.play_duration
          /\ r.play_position = p.play_position /\ r.fade_left = p.fade_left
      BY <1>1, <1>2, <1>4, <1>5 DEF PlayState
    <2>3. r.trim_begin_left <= r.trim_begin_duration
          /\ r.pad_begin_left <= r.pad_begin_duration
      BY <1>2, <1>4, <2>2
    <2> QED  BY <1>2, <2>1, <2>2, <2>3 DEF TimesOK
  <1>7. /\ r.trim_begin_left = 0 /\ r.pad_begin_left = pad_left
        /\ r.fade_left = p.fade_left /\ r.fade_duration = p.fade_duration
    BY <1>1, <1>4, <1>5 DEF PlayState
  <1>8. target + trim - SmallerOf(pad, target) = DecodePosition(info, target)
    BY <1>2 DEF SmallerOf, DecodePosition, NotNegative
  <1> QED  BY <1>2, <1>4, <1>6, <1>7, <1>8

\* A head that is where an earlier position comes next made no jumps that a later
\* one has not.
LEMMA HeadIsNotPast ==
    ASSUME NEW start, Startable(start), NEW v, HeadSomewhere(start, v),
           NEW t \in Nat, HeadAt(start, v, t),
           NEW sample \in Nat, t <= sample
    PROVE  NotPast(start, v, sample)
  <1>1. SUFFICES ASSUME start.loop_target > 0
                 PROVE  v.current_sample + JumpsBack(start, v) * LoopBody(start)
                            <= sample
    BY DEF NotPast
  <1>2. start.loop_flag /\ HeadOK(start, v)
    BY <1>1 DEF Startable, HeadSomewhere, Parked
  <1>3. LoopBody(start) \in Nat /\ JumpsBack(start, v) \in Nat
        /\ v.current_sample \in Nat
    BY <1>2, LoopIsSane, JumpsBackIsNat DEF HeadOK, VgmRecord
  <1>4. PICK jumped \in Nat : jumped = JumpsBack(start, v) * LoopBody(start)
    BY <1>3
  <1>5. CASE t = v.current_sample + jumped
    BY <1>3, <1>4, <1>5
  <1>6. CASE ~v.loop_flag /\ v.current_sample >= start.num_samples
             /\ IsOver(start, t)
    <2>1. JumpsBack(start, v) = start.loop_target - 1
      BY <1>2, <1>6 DEF JumpsBack
    <2>2. t >= start.num_samples + jumped
      BY <1>2, <1>4, <1>6, <2>1 DEF IsOver
    <2>3. v.current_sample <= start.num_samples /\ start.num_samples \in Nat
      BY <1>2 DEF HeadOK, HeadsAgree, SameStream, VgmRecord
    <2> QED  BY <1>3, <1>4, <2>2, <2>3
  <1> QED
    BY <1>1, <1>4, <1>5, <1>6 DEF HeadAt

\* Entering seek_vgmstream, with any position and without the two habits.
LEMMA StartSeekKeepsInv ==
    ASSUME PlayerInv, NEW t \in Seeks, StartSeek(t),
           ps.fade_left < ps.fade_duration => ClampSeek(t) >= ps.fade_start,
           start_vgmstream.loop_target > 0 => ClampSeek(t) >= ps.play_position
    PROVE  PlayerInv'
  <1>1. PICK info, target, copy :
          /\ info = Info /\ target = ClampSeek(t)
          /\ copy = AtTarget(ps, target)
    OBVIOUS
  <1>2. /\ task.step = "idle"
        /\ target # ps.play_position
        /\ seek' = [target |-> target,
                    sample |-> target + ps.trim_begin_duration
                                 - SmallerOf(ps.pad_begin_duration, target),
                    ps_copy |-> copy]
        /\ ps' = copy
        /\ task' = [step |-> "seek", samples |-> 0, left |-> 0]
        /\ UNCHANGED <<config, vgm, start_vgmstream, start_pstate, buf, heard>>
    BY <1>1 DEF StartSeek, At, AtTarget
  <1>3. SongOK' /\ Info' = Info /\ HeardOK'
    BY <1>2, SongKept, HeardKept DEF PlayerInv
  <1>4. InfoOK(info) /\ TimesOK(info, ps) /\ PlayingOK /\ Startable(start_vgmstream)
        /\ HeadSomewhere(start_vgmstream, vgm)
        /\ config.play_forever = info.play_forever
    BY <1>1, <1>2, InvSong DEF PlayerInv
  <1>5. PICK p \in Nat, total \in Nat :
          /\ p = ps.play_position /\ total = info.play_duration
          /\ ps.play_duration = total
    BY <1>4 DEF TimesOK, PlayState
  <1>6. /\ target = Promise!Clamped(t) /\ target \in Nat
        /\ info.play_forever \/ target <= total
    <2>1. t \in Int
      BY SeeksAssumption
    <2> QED  BY <1>1, <1>4, <1>5, <2>1 DEF ClampSeek, Promise!Clamped
  <1>7. /\ TimesOK(info, copy)
        /\ copy.trim_begin_left = 0
        /\ copy.pad_begin_left = PadLeft(info, target)
        /\ copy.fade_left = ps.fade_left
        /\ copy.fade_duration = ps.fade_duration
        /\ target + ps.trim_begin_duration
             - SmallerOf(ps.pad_begin_duration, target)
             = DecodePosition(info, target)
    BY <1>1, <1>4, <1>6, TargetTimes
  <1>8. target < info.fade_start => copy.fade_left = copy.fade_duration
    <2>1. /\ ps.fade_left \in Nat /\ ps.fade_duration \in Nat
          /\ ps.fade_left <= ps.fade_duration
          /\ ps.fade_start = info.fade_start /\ ps.fade_start \in Nat
      BY <1>4 DEF TimesOK, PlayState
    <2>2. ps.fade_left < ps.fade_duration => target >= ps.fade_start
      BY <1>1
    <2> QED  BY <1>6, <1>7, <2>1, <2>2
  <1>9. PICK sample : sample = DecodePosition(info, target)
    OBVIOUS
  <1>10. seek'.target = target /\ seek'.sample = sample /\ seek'.ps_copy = copy
    BY <1>2, <1>7, <1>9
  <1>11. SeekTargetOK'
    <2>1. Promise!Clamped(t)' = Promise!Clamped(t)
      BY <1>3 DEF Promise!Clamped
    <2> QED
      BY <1>1, <1>3, <1>6, <1>7, <1>8, <1>9, <1>10, <2>1 DEF SeekTargetOK
  <1>12. NotPast(start_vgmstream, vgm, sample)
    <2>1. SUFFICES ASSUME start_vgmstream.loop_target > 0
                   PROVE  NotPast(start_vgmstream, vgm, sample)
      BY DEF NotPast
    <2>2. target >= p /\ target > p
      BY <1>1, <1>2, <1>5, <1>6, <2>1
    <2>3. HeadMatters(info, p)
      <3>1. Live(info, p)
        BY <1>5, <1>6, <2>2 DEF Live
      <3>2. start_vgmstream.loop_flag /\ info.loop_flag
        BY <1>1, <1>4, <2>1 DEF Startable, Info
      <3> QED  BY <3>1, <3>2 DEF HeadMatters
    <2>4. buf = <<>> /\ Len(buf) = 0 /\ p + Len(buf) = p
      BY <1>2, <1>5 DEF PlayerInv, TaskOK, At
    <2>5. PICK u : u = DecodePosition(info, p) - ps.trim_begin_left
      OBVIOUS
    <2>6. HeadAt(start_vgmstream, vgm, u)
      BY <1>1, <1>4, <1>5, <2>3, <2>4, <2>5 DEF PlayingOK
    <2>7. /\ ps.trim_begin_left \in Nat
          /\ ps.trim_begin_left <= info.trim_begin_duration
          /\ info.trim_begin_duration \in Nat
      BY <1>4 DEF TimesOK, PlayState, InfoOK
    <2>8. /\ DecodePosition(info, p) \in Nat
          /\ DecodePosition(info, p) >= info.trim_begin_duration
          /\ sample \in Nat
          /\ DecodePosition(info, p) <= sample
      BY <1>4, <1>5, <1>6, <1>9, <2>2, DecodePositions
    <2>9. u \in Nat /\ u <= sample
      BY <2>5, <2>7, <2>8
    <2> QED  BY <1>4, <2>6, <2>8, <2>9, HeadIsNotPast
  <1>13. task'.step = "seek" /\ task'.left = 0 /\ task'.samples = 0
         /\ ~At("body")' /\ ~At("trim")' /\ At("seek")' /\ ~At("skip")'
         /\ ~At("skip_intro")'
    BY <1>2 DEF At
  <1>14. SeekingOK'
    BY <1>2, <1>10, <1>11, <1>12, <1>13 DEF SeekingOK
  <1>15. TaskOK'
    BY <1>2, <1>13 DEF PlayerInv, TaskOK, At
  <1>16. TimesOK(Info, ps)' /\ HeadSomewhere(start_vgmstream, vgm)'
    BY <1>1, <1>2, <1>3, <1>4, <1>7
  <1> QED  BY <1>3, <1>13, <1>14, <1>15, <1>16 DEF PlayerInv

-----------------------------------------------------------------------------
(* Seeking: the cases of seek_decode *)

\* loop_flag is off in the outro, but a song that loops still is looped.
LEMMA LoopedSong ==
    ASSUME PlayerInv
    PROVE  /\ IsLooped(vgm) <=> start_vgmstream.loop_flag
           /\ vgm.loop_target = start_vgmstream.loop_target
           /\ start_vgmstream.loop_flag => HeadOK(start_vgmstream, vgm)
  BY InvSong DEF IsLooped, HeadSomewhere, HeadOK, HeadInLoop, Parked,
                 SameStream, Startable, Openable, VgmRecord

\* Every case of seek_decode but SeekLoop ends up skipping: what it has to show.
LEMMA SkipStarts ==
    ASSUME PlayerInv, At("seek") \/ At("skip_intro"), SeekOther,
           NEW n \in Nat, Skip(n), n <= seek.sample,
           HeadSomewhere(start_vgmstream, vgm'),
           HeadAt(start_vgmstream, vgm', seek.sample - n),
           ps' = ps \/ ps' = start_pstate
    PROVE  PlayerInv'
  <1>1. /\ UNCHANGED <<config, start_vgmstream, start_pstate, seek, buf, heard>>
        /\ task' = [step |-> "skip", samples |-> 0, left |-> n]
    BY DEF SeekOther, Skip
  <1>2. SongOK' /\ Info' = Info /\ HeardOK'
    BY <1>1, SongKept, HeardKept DEF PlayerInv
  <1>3. SeekTargetOK /\ buf = <<>>
    BY DEF PlayerInv, SeekingOK, TaskOK, At
  <1>4. SeekTargetOK'
    BY <1>1, <1>2, <1>3, SeekTargetKept
  <1>5. task'.step = "skip" /\ task'.left = n
        /\ ~At("body")' /\ ~At("trim")' /\ ~At("seek")' /\ At("skip")'
        /\ ~At("skip_intro")'
    BY <1>1 DEF At
  <1>6. SeekingOK'
    BY <1>1, <1>4, <1>5 DEF SeekingOK
  <1>7. TaskOK'
    BY <1>1, <1>3, <1>5 DEF TaskOK
  <1>8. TimesOK(Info, start_pstate) /\ TimesOK(Info, ps)
    BY SongInfo DEF PlayerInv
  <1>9. TimesOK(Info, ps)' /\ HeadSomewhere(start_vgmstream, vgm)'
    BY <1>1, <1>2, <1>8
  <1> QED  BY <1>2, <1>5, <1>6, <1>7, <1>9 DEF PlayerInv

\* A head that made no jumps is at its own sample.
LEMMA HeadAtCurrent ==
    ASSUME NEW start, Startable(start), NEW v, v.current_sample \in Nat,
           start.loop_target > 0 => JumpsBack(start, v) = 0
    PROVE  HeadAt(start, v, v.current_sample)
  <1>1. LoopBody(start) \in Int
    BY DEF Startable, Openable, VgmRecord, LoopBody
  <1>2. 0 * LoopBody(start) = 0
    BY <1>1
  <1>3. v.current_sample = v.current_sample + 0 * LoopBody(start)
    BY <1>2
  <1>4. 0 \in 0 .. v.current_sample
    OBVIOUS
  <1> QED  BY <1>3, <1>4 DEF HeadAt

\* "seek to current".
LEMMA SeekDecodeToCurrentKeepsInv ==
    ASSUME PlayerInv, SeekDecodeToCurrent
    PROVE  PlayerInv'
  <1>1. /\ At("seek") /\ seek.sample = vgm.current_sample /\ Skip(0)
        /\ vgm' = vgm /\ ps' = ps /\ SeekOther
    BY DEF SeekDecodeToCurrent
  <1>2. Startable(start_vgmstream) /\ HeadSomewhere(start_vgmstream, vgm)
    BY InvSong
  <1>3. seek.sample \in Nat /\ NotPast(start_vgmstream, vgm, seek.sample)
    BY <1>1, SeekSample DEF PlayerInv, SeekingOK, At
  <1>4. start_vgmstream.loop_target > 0 => JumpsBack(start_vgmstream, vgm) = 0
    <2>1. SUFFICES ASSUME start_vgmstream.loop_target > 0
                   PROVE  JumpsBack(start_vgmstream, vgm) = 0
      OBVIOUS
    <2>2. start_vgmstream.loop_flag /\ HeadOK(start_vgmstream, vgm)
      BY <1>2, <2>1, LoopedSong DEF Startable
    <2>3. PICK k \in Nat, body \in Nat :
            /\ k = JumpsBack(start_vgmstream, vgm)
            /\ body = LoopBody(start_vgmstream) /\ body > 0
      BY <1>2, <2>2, LoopIsSane, JumpsBackIsNat
    <2>4. seek.sample + k * body <= seek.sample
      BY <1>1, <1>3, <2>1, <2>3 DEF NotPast
    <2>5. PICK jumped \in Nat : jumped = k * body
      BY <2>3
    <2>6. jumped = 0
      BY <1>3, <2>4, <2>5
    <2>7. k > 0 => k * body > 0
      BY <2>3
    <2> QED  BY <2>3, <2>5, <2>6, <2>7
  <1>5. HeadAt(start_vgmstream, vgm, seek.sample)
    BY <1>1, <1>2, <1>3, <1>4, HeadAtCurrent
  <1>6. seek.sample - 0 = seek.sample /\ 0 \in Nat /\ 0 <= seek.sample
    BY <1>3
  <1> QED  BY <1>1, <1>2, <1>5, <1>6, SkipStarts

\* Seeks back, by reset: all that comes before is decoded again.
LEMMA SeekByResetKeepsInv ==
    ASSUME PlayerInv, At("seek"), ResetAll, Skip(seek.sample), SeekOther
    PROVE  PlayerInv'
  <1>1. PICK v : v = ResetVgmstream(vgm, start_vgmstream)
    OBVIOUS
  <1>2. vgm' = v /\ ps' = start_pstate
    BY <1>1 DEF ResetAll
  <1>3. Startable(start_vgmstream) /\ vgm.loop_ch \in Nat
    BY InvSong DEF HeadSomewhere, HeadOK, Parked, VgmRecord
  <1>4. HeadOK(start_vgmstream, v) /\ HeadAt(start_vgmstream, v, 0)
    BY <1>1, <1>3, ResetHead
  <1>5. seek.sample \in Nat
    BY SeekSample DEF PlayerInv, SeekingOK, At
  <1>6. seek.sample - seek.sample = 0 /\ seek.sample <= seek.sample
    BY <1>5
  <1> QED  BY <1>2, <1>4, <1>5, <1>6, SkipStarts DEF HeadSomewhere

\* Seeks forward by decoding, where the head made no jumps.
LEMMA SeekByDecodingKeepsInv ==
    ASSUME PlayerInv, At("seek"), seek.sample > vgm.current_sample,
           Skip(seek.sample - vgm.current_sample),
           UNCHANGED <<vgm, ps>>, SeekOther,
           start_vgmstream.loop_target > 0 =>
               JumpsBack(start_vgmstream, vgm) = 0
    PROVE  PlayerInv'
  <1>1. Startable(start_vgmstream) /\ vgm.current_sample \in Nat
        /\ HeadSomewhere(start_vgmstream, vgm)
    BY InvSong DEF HeadSomewhere, HeadOK, Parked, VgmRecord
  <1>2. seek.sample \in Nat
    BY SeekSample DEF PlayerInv, SeekingOK, At
  <1>3. PICK n \in Nat :
          /\ n = seek.sample - vgm.current_sample /\ n <= seek.sample
          /\ seek.sample - n = vgm.current_sample
    BY <1>1, <1>2
  <1>4. HeadAt(start_vgmstream, vgm, seek.sample - n)
    BY <1>1, <1>3, HeadAtCurrent
  <1> QED  BY <1>1, <1>3, <1>4, SkipStarts

\* Back and forth in a song without loop.
LEMMA SeekPlainKeepsInv ==
    ASSUME PlayerInv, SeekBack \/ SeekForward
    PROVE  PlayerInv'
  <1>1. CASE SeekBack
    BY <1>1, SeekByResetKeepsInv DEF SeekBack
  <1>2. CASE SeekForward
    <2>1. ~(start_vgmstream.loop_target > 0)
      BY <1>2, LoopedSong, InvSong DEF SeekForward, Startable
    <2> QED  BY <1>2, <2>1, SeekByDecodingKeepsInv DEF SeekForward
  <1> QED  BY <1>1, <1>2

\* Past the end of a song without loop: the head is parked, nothing is decoded.
LEMMA SeekPastEndKeepsInv ==
    ASSUME PlayerInv, SeekPastEnd
    PROVE  PlayerInv'
  <1>1. /\ At("seek") /\ ~IsLooped(vgm)
        /\ seek.sample >= vgm.num_samples
        /\ vgm' = [vgm EXCEPT !.current_sample = vgm.num_samples + 1]
        /\ Skip(0) /\ ps' = ps /\ SeekOther
    BY DEF SeekPastEnd
  <1>2. /\ ~start_vgmstream.loop_flag /\ ~vgm.loop_flag
        /\ vgm \in VgmRecord /\ SameStream(start_vgmstream, vgm)
    BY <1>1, LoopedSong, InvSong DEF HeadSomewhere, HeadOK, HeadInLoop, Parked
  <1>3. PICK v : v = vgm'
    OBVIOUS
  <1>4. /\ v \in VgmRecord /\ SameStream(start_vgmstream, v) /\ ~v.loop_flag
        /\ v.current_sample = v.num_samples + 1
        /\ v.num_samples = start_vgmstream.num_samples
        /\ v.num_samples \in Nat
    BY <1>1, <1>2, <1>3 DEF VgmRecord, SameStream
  <1>5. Parked(start_vgmstream, v)
    BY <1>2, <1>4 DEF Parked
  <1>6. seek.sample \in Nat /\ seek.sample >= v.num_samples
    BY <1>1, <1>2, <1>4, SeekSample DEF PlayerInv, SeekingOK, At, SameStream
  <1>7. HeadAt(start_vgmstream, v, seek.sample)
    BY <1>2, <1>4, <1>6 DEF HeadAt, IsOver
  <1>8. seek.sample - 0 = seek.sample /\ 0 \in Nat /\ 0 <= seek.sample
    BY <1>6
  <1> QED
    BY <1>1, <1>3, <1>5, <1>7, <1>8, SkipStarts DEF HeadSomewhere

\* Back and forth before the loop start.
LEMMA SeekIntroKeepsInv ==
    ASSUME PlayerInv, SeekIntroBack \/ SeekIntroForward
    PROVE  PlayerInv'
  <1>1. CASE SeekIntroBack
    BY <1>1, SeekByResetKeepsInv DEF SeekIntroBack
  <1>2. CASE SeekIntroForward
    <2>1. /\ At("seek") /\ IsLooped(vgm)
          /\ seek.sample < vgm.loop_start_sample
          /\ seek.sample > vgm.current_sample
      BY <1>2 DEF SeekIntroForward
    <2>2. start_vgmstream.loop_flag /\ HeadOK(start_vgmstream, vgm)
          /\ Startable(start_vgmstream) /\ seek.sample \in Nat
      BY <2>1, LoopedSong, InvSong, SeekSample DEF PlayerInv, SeekingOK, At
    <2>3. /\ vgm.current_sample \in Nat /\ vgm.loop_start_sample \in Nat
          /\ vgm.loop_end_sample \in Nat /\ vgm.loop_count \in Nat
          /\ vgm.current_sample < vgm.loop_start_sample
          /\ vgm.loop_start_sample < vgm.loop_end_sample
      BY <2>1, <2>2, LoopIsSane DEF HeadOK, VgmRecord
    <2>4. vgm.loop_flag /\ ~vgm.hit_loop /\ vgm.loop_count = 0
      BY <2>2, <2>3 DEF HeadOK, HeadInLoop
    <2>5. JumpsBack(start_vgmstream, vgm) = 0
      BY <2>4 DEF JumpsBack
    <2> QED  BY <1>2, <2>5, SeekByDecodingKeepsInv DEF SeekIntroForward
  <1> QED  BY <1>1, <1>2
\* A song with a loop: the head goes to the loop start first, unless it was there.
LEMMA SeekLoopKeepsInv ==
    ASSUME PlayerInv, SeekLoop
    PROVE  PlayerInv'
  <1>1. /\ At("seek") /\ IsLooped(vgm)
        /\ seek.sample >= vgm.loop_start_sample
        /\ SeekOther
    BY DEF SeekLoop
  <1>2. start_vgmstream.loop_flag /\ HeadOK(start_vgmstream, vgm)
        /\ Startable(start_vgmstream)
    BY <1>1, LoopedSong, InvSong
  <1>3. /\ vgm.current_sample \in Nat /\ vgm.loop_start_sample \in Nat
        /\ vgm.loop_start_sample < vgm.loop_end_sample
        /\ vgm.loop_end_sample \in Nat
    BY <1>2, LoopIsSane DEF HeadOK, VgmRecord
  <1>4. ~vgm.hit_loop => vgm.current_sample <= vgm.loop_start_sample
    BY <1>2 DEF HeadOK, HeadInLoop
  <1>5. PICK n : n = IF vgm.hit_loop THEN 0
                     ELSE vgm.loop_start_sample - vgm.current_sample
    OBVIOUS
  <1>6. n \in Nat
        /\ IF vgm.hit_loop THEN n = 0
           ELSE vgm.current_sample + n = vgm.loop_start_sample
    BY <1>3, <1>4, <1>5
  <1>7. vgm' = vgm /\ ps' = ps
    BY <1>3, <1>4 DEF SeekLoop
  <1>8. /\ UNCHANGED <<config, start_vgmstream, start_pstate, seek, buf, heard>>
        /\ task' = [step |-> "skip_intro", samples |-> 0, left |-> n]
    BY <1>5, <1>7 DEF SeekLoop, SeekOther, SkipIntro
  <1>9. SongOK' /\ Info' = Info /\ HeardOK'
    BY <1>8, SongKept, HeardKept DEF PlayerInv
  <1>10. SeekTargetOK /\ buf = <<>>
         /\ NotPast(start_vgmstream, vgm, seek.sample)
    BY <1>1 DEF PlayerInv, SeekingOK, TaskOK, At
  <1>11. SeekTargetOK'
    BY <1>8, <1>9, <1>10, SeekTargetKept
  <1>12. task'.step = "skip_intro" /\ task'.left = n
         /\ ~At("body")' /\ ~At("trim")' /\ ~At("seek")' /\ At("skip_intro")'
         /\ ~At("skip")'
    BY <1>8 DEF At
  <1>13. SeekingOK'
    BY <1>1, <1>2, <1>6, <1>7, <1>8, <1>10, <1>11, <1>12 DEF SeekingOK
  <1>14. TaskOK'
    BY <1>6, <1>8, <1>10, <1>12 DEF TaskOK
  <1>15. TimesOK(Info, ps)' /\ HeadSomewhere(start_vgmstream, vgm)'
    BY <1>7, <1>8, <1>9 DEF PlayerInv
  <1> QED  BY <1>9, <1>12, <1>13, <1>14, <1>15 DEF PlayerInv

\* A sample sought after the loop start is a place in the loop and a number of
\* whole loops before it, fewer than the loop target: in the outro the place is
\* past the loop end.
LEMMA LoopPlace ==
    ASSUME NEW start, Startable(start), start.loop_flag,
           NEW v, HeadOK(start, v),
           NEW sample \in Nat, sample >= v.loop_start_sample,
           NEW count, count = LoopCount(v, sample),
           NEW place, place = LoopSeek(v, sample)
    PROVE  /\ count \in Nat /\ place \in Nat
           /\ sample = (v.loop_start_sample + place) + count * LoopBody(start)
           /\ v.loop_target > 0 => count < v.loop_target
           /\ place >= LoopBody(start) =>
                 v.loop_target > 0 /\ count = v.loop_target - 1
           /\ v.loop_target > 0 => \A n \in Nat :
                 sample >= (v.loop_start_sample + LoopBody(start) + n)
                             + (v.loop_target - 1) * LoopBody(start)
                 => count = v.loop_target - 1 /\ place >= LoopBody(start) + n
  <1>1. PICK body \in Nat, from \in Nat, target \in Nat :
          /\ body = LoopBody(start) /\ body > 0 /\ LoopBody(v) = body
          /\ from = v.loop_start_sample
          /\ target = v.loop_target
    BY LoopIsSane DEF HeadOK, VgmRecord, LoopBody
  <1>2. PICK past \in Nat : past = sample - from /\ sample = from + past
    BY <1>1
  <1>3. PICK loops \in Nat, rest \in Nat :
          /\ loops = past \div body
          /\ past = loops * body + rest /\ rest < body
    <2>1. past \div body \in Nat
      BY <1>1, <1>2
    <2>2. body * (past \div body) <= past /\ past < body * (past \div body) + body
      BY <1>1, <1>2
    <2>3. PICK loops \in Nat : loops = past \div body
      BY <2>1
    <2>4. PICK all \in Nat : all = loops * body /\ all = body * loops
      BY <1>1
    <2>5. past - all \in Nat /\ past - all < body /\ past = all + (past - all)
      <3>1. all <= past /\ past < all + body
        BY <2>2, <2>3, <2>4
      <3> QED  BY <1>1, <1>2, <3>1
    <2>6. PICK rest \in Nat : rest = past - all
      BY <2>5
    <2> QED  BY <2>3, <2>4, <2>5, <2>6
  <1>4. count = IF target # 0 /\ loops >= target THEN target - 1 ELSE loops
    BY <1>1, <1>2, <1>3 DEF LoopCount
  <1>5. place = past - count * body
    BY <1>1, <1>2 DEF LoopSeek
  <1>6. count \in Nat /\ count <= loops /\ (target > 0 => count < target)
    BY <1>1, <1>3, <1>4
  <1>7. PICK before \in Nat : before = count * body
    BY <1>1, <1>6
  <1>8. PICK more \in Nat : loops = count + more
    <2>1. loops - count \in Nat /\ loops = count + (loops - count)
      BY <1>3, <1>6
    <2> QED  BY <2>1
  <1>9. PICK extra \in Nat : extra = more * body
    BY <1>1, <1>8
  <1>10. loops * body = before + extra
    BY <1>1, <1>6, <1>7, <1>8, <1>9
  <1>11. place = extra + rest /\ place \in Nat /\ past = place + before
    BY <1>3, <1>5, <1>7, <1>9, <1>10
  <1>12. sample = (from + place) + count * body
    BY <1>1, <1>2, <1>7, <1>11
  <1>13. place >= body => target > 0 /\ count = target - 1
    <2>1. place >= body => more # 0
      <3>1. more = 0 => extra = 0
        BY <1>1, <1>9
      <3> QED  BY <1>1, <1>3, <1>9, <1>11, <3>1
    <2> QED  BY <1>1, <1>3, <1>4, <1>8, <2>1
  <1>14. ASSUME target > 0, NEW n \in Nat,
                sample >= (from + body + n) + (target - 1) * body
         PROVE  count = target - 1 /\ place >= body + n
    <2>1. PICK all \in Nat : all = (target - 1) * body
      BY <1>1, <1>14
    <2>2. past >= body + n + all
      BY <1>1, <1>2, <1>14, <2>1
    <2>3. count = target - 1
      <3>1. SUFFICES ASSUME loops < target PROVE FALSE
        BY <1>1, <1>3, <1>4, <1>14
      <3>2. PICK gap \in Nat : target - 1 = loops + gap
        <4>1. (target - 1) - loops \in Nat
              /\ target - 1 = loops + ((target - 1) - loops)
          BY <1>1, <1>3, <3>1
        <4> QED  BY <4>1
      <3>3. PICK a \in Nat, b \in Nat : a = loops * body /\ b = gap * body
        BY <1>1, <1>3, <3>2
      <3>4. all = a + b
        BY <1>1, <1>3, <2>1, <3>2, <3>3
      <3> QED  BY <1>1, <1>3, <2>1, <2>2, <3>3, <3>4
    <2>4. before = all
      BY <1>7, <2>1, <2>3
    <2> QED  BY <1>1, <1>2, <1>11, <2>1, <2>2, <2>3, <2>4
  <1> QED  BY <1>1, <1>6, <1>11, <1>12, <1>13, <1>14
\* Another count of loops, fewer than the target, leaves the head where it is.
LEMMA CountedHead ==
    ASSUME NEW start, NEW u, HeadOK(start, u), start.loop_flag,
           u.hit_loop \/ u.current_sample = u.loop_start_sample,
           NEW count \in Nat, u.loop_target > 0 => count < u.loop_target,
           NEW w, w = [u EXCEPT !.loop_count = count]
    PROVE  /\ HeadOK(start, w)
           /\ w.current_sample = u.current_sample
           /\ w.loop_flag = u.loop_flag
           /\ w.loop_count = count
  <1>1. u \in VgmRecord
    BY DEF HeadOK
  <1>2. /\ w \in VgmRecord
        /\ w.current_sample = u.current_sample
        /\ w.loop_flag = u.loop_flag /\ w.hit_loop = u.hit_loop
        /\ w.loop_count = count
        /\ w.loop_target = u.loop_target
        /\ w.loop_start_sample = u.loop_start_sample
        /\ w.loop_end_sample = u.loop_end_sample
    BY <1>1 DEF VgmRecord
  <1>3. SameStream(start, w) /\ HeadsAgree(w) /\ SavedLoop(w)
    BY <1>1 DEF VgmRecord, HeadOK, SameStream, HeadsAgree, SavedLoop
  <1>4. HeadInLoop(start, w)
    <2>1. HeadInLoop(start, u)
      BY DEF HeadOK
    <2> QED  BY <1>2, <2>1 DEF HeadInLoop
  <1> QED  BY <1>2, <1>3, <1>4 DEF HeadOK

\* seek_decode_force_loop_end takes the head to the loop start, whatever it did,
\* and the loops to the count.
LEMMA ForcedLoopEnd ==
    ASSUME NEW start, NEW u, HeadOK(start, u), start.loop_flag,
           u.loop_flag, u.hit_loop,
           NEW count \in Nat, u.loop_target > 0 => count < u.loop_target,
           NEW w, w = ForceLoopEnd(u, count), Startable(start)
    PROVE  /\ HeadOK(start, w)
           /\ w.current_sample = u.loop_start_sample
           /\ w.loop_start_sample = u.loop_start_sample
           /\ w.loop_flag /\ w.hit_loop
           /\ w.loop_count = count
  <1>1. u \in VgmRecord
    BY DEF HeadOK
  <1>2. PICK from \in Nat, end \in Nat :
          /\ from = u.loop_start_sample /\ end = u.loop_end_sample
          /\ from < end /\ end <= u.num_samples /\ u.num_samples \in Nat
          /\ u.loop_ch = from /\ u.loop_current_sample = from
          /\ u.loop_samples_into_block = from
    BY <1>1, LoopIsSane DEF VgmRecord, HeadOK, SavedLoop
  <1>3. PICK x : x = [u EXCEPT !.loop_count = count - 1,
                               !.current_sample = u.loop_end_sample]
    OBVIOUS
  <1>4. w = DecodeDoLoop(x)
    BY <1>3 DEF ForceLoopEnd
  <1>5. AtLoopEnd(x)
    BY <1>1, <1>3 DEF AtLoopEnd, VgmRecord
  <1>6. ~TargetReached(x)
    <2>1. x.loop_target = u.loop_target /\ x.loop_count + 1 = count
          /\ u.loop_target \in Nat
      BY <1>1, <1>3 DEF VgmRecord
    <2> QED  BY <2>1 DEF TargetReached
  <1>7. w = RestoreLoop(x)
    BY <1>4, <1>5, <1>6 DEF DecodeDoLoop
  <1>8. w = [u EXCEPT !.loop_count = count, !.ch = from,
                      !.current_sample = from, !.samples_into_block = from]
    <2>1. x.loop_count = count - 1 /\ x.loop_count + 1 = count
      BY <1>1, <1>3 DEF VgmRecord
    <2>2. x.loop_current_sample = from /\ x.loop_ch = from
          /\ x.loop_samples_into_block = from
      BY <1>1, <1>2, <1>3 DEF VgmRecord
    <2>3. w = [x EXCEPT !.loop_count = count, !.ch = from,
                        !.current_sample = from, !.samples_into_block = from]
      BY <1>7, <2>1, <2>2 DEF RestoreLoop
    <2> QED  BY <1>1, <1>3, <2>3 DEF VgmRecord
  <1>9. /\ w \in VgmRecord
        /\ w.current_sample = from /\ w.ch = from /\ w.samples_into_block = from
        /\ w.loop_flag /\ w.hit_loop /\ w.loop_count = count
        /\ w.loop_target = u.loop_target
        /\ w.loop_start_sample = from /\ w.loop_end_sample = end
        /\ w.num_samples = u.num_samples
    BY <1>1, <1>2, <1>8 DEF VgmRecord
  <1>10. SameStream(start, w)
    BY <1>1, <1>8 DEF VgmRecord, HeadOK, SameStream
  <1>11. HeadsAgree(w)
    BY <1>2, <1>9 DEF HeadsAgree
  <1>12. SavedLoop(w)
    BY <1>1, <1>2, <1>8, <1>9 DEF SavedLoop, VgmRecord
  <1>13. HeadInLoop(start, w)
    BY <1>2, <1>9 DEF HeadInLoop
  <1> QED  BY <1>2, <1>9, <1>10, <1>11, <1>12, <1>13 DEF HeadOK

\* Where a head in the loop is, by the jumps it made or is said to have made.
LEMMA HeadInLoopAt ==
    ASSUME NEW start, Startable(start), start.loop_flag,
           NEW v, HeadOK(start, v), NEW k \in Nat,
           k > 0 => v.current_sample >= start.loop_start_sample,
           start.loop_target > 0 => k = JumpsBack(start, v),
           NEW t \in Nat, t = v.current_sample + k * LoopBody(start)
    PROVE  HeadAt(start, v, t)
  <1>1. PICK body \in Nat, cur \in Nat :
          /\ body = LoopBody(start) /\ body > 0
          /\ cur = v.current_sample
    BY LoopIsSane DEF HeadOK, VgmRecord
  <1>2. PICK jumped \in Nat : jumped = k * body /\ k <= jumped
    BY <1>1
  <1>3. k \in 0 .. t
    BY <1>1, <1>2
  <1> QED  BY <1>3 DEF HeadAt

\* The loop region part of seek_decode.
LEMMA SeekInLoopKeepsInv ==
    ASSUME PlayerInv, SeekInLoop
    PROVE  PlayerInv'
  <1>1. PICK start, v, u, sample, count, place :
          /\ start = start_vgmstream /\ v = vgm /\ sample = seek.sample
          /\ u = IF v.current_sample < v.loop_end_sample
                 THEN ForceLoopEnd(v, 0) ELSE v
          /\ count = LoopCount(v, sample) /\ place = LoopSeek(v, sample)
    OBVIOUS
  <1>2. /\ At("skip_intro") /\ Wanted = 0 /\ ps' = ps /\ SeekOther
        /\ IF place < u.current_sample - u.loop_start_sample
           THEN vgm' = ForceLoopEnd(u, count) /\ Skip(place)
           ELSE /\ vgm' = [u EXCEPT !.loop_count = count]
                /\ Skip(place - (u.current_sample - u.loop_start_sample))
    BY <1>1 DEF SeekInLoop
  <1>3. /\ SeekTargetOK /\ HeadOK(start, v) /\ start.loop_flag
        /\ sample >= v.loop_start_sample
        /\ NotPast(start, v, sample)
        /\ v.hit_loop \/ v.current_sample = v.loop_start_sample
        /\ Startable(start) /\ sample \in Nat
    <2>1. SeekingOK /\ task.left = 0
      BY <1>2, WantedByPhase DEF PlayerInv, At
    <2>2. v.current_sample \in Nat
      BY <1>1, <1>2, <2>1 DEF SeekingOK, HeadOK, VgmRecord
    <2> QED
      BY <1>1, <1>2, <2>1, <2>2, InvSong, SeekSample DEF SeekingOK
  <1>4. PICK body \in Nat, from \in Nat, end \in Nat, cur \in Nat, target \in Nat :
          /\ body = LoopBody(start) /\ body > 0
          /\ from = v.loop_start_sample /\ end = v.loop_end_sample
          /\ end = from + body /\ cur = v.current_sample
          /\ target = v.loop_target
          /\ start.loop_start_sample = from /\ start.loop_target = target
    <2>1. /\ LoopBody(start) \in Nat /\ LoopBody(start) > 0
          /\ LoopBody(start) = v.loop_end_sample - v.loop_start_sample
      BY <1>3, LoopIsSane
    <2>2. /\ v.loop_start_sample \in Nat /\ v.loop_end_sample \in Nat
          /\ v.current_sample \in Nat /\ v.loop_target \in Nat
          /\ start.loop_start_sample = v.loop_start_sample
          /\ start.loop_target = v.loop_target
      BY <1>3 DEF HeadOK, VgmRecord, SameStream
    <2>3. v.loop_end_sample = v.loop_start_sample + LoopBody(start)
      BY <2>1, <2>2
    <2> QED  BY <2>1, <2>2, <2>3
  <1>5. /\ count \in Nat /\ place \in Nat
        /\ sample = (from + place) + count * body
        /\ target > 0 => count < target
        /\ place >= body => target > 0 /\ count = target - 1
        /\ target > 0 => \A n \in Nat :
              sample >= (from + body + n) + (target - 1) * body
              => count = target - 1 /\ place >= body + n
    BY <1>1, <1>3, <1>4, LoopPlace
  <1>6. PICK all \in Nat : all = count * body
    BY <1>4, <1>5
  <1>7. ASSUME NEW w, vgm' = w, HeadOK(start, w), w.loop_flag,
               w.current_sample = from, w.loop_count = count, Skip(place)
        PROVE  PlayerInv'
    <2>1. JumpsBack(start, w) = count
      BY <1>7 DEF JumpsBack
    <2>2. PICK t \in Nat : t = sample - place /\ t = from + all
      BY <1>3, <1>4, <1>5, <1>6
    <2>3. HeadAt(start, w, t)
      BY <1>3, <1>4, <1>5, <1>6, <1>7, <2>1, <2>2, HeadInLoopAt
    <2>4. place <= sample
      BY <1>4, <1>5, <1>6
    <2> QED
      BY <1>1, <1>2, <1>5, <1>7, <2>2, <2>3, <2>4, SkipStarts DEF HeadSomewhere
  <1>8. ASSUME HeadOK(start, u), u.loop_flag, u.current_sample = from,
               u.loop_start_sample = from, u.loop_target = target
        PROVE  PlayerInv'
    <2>1. ~(place < u.current_sample - u.loop_start_sample)
          /\ place - (u.current_sample - u.loop_start_sample) = place
      BY <1>4, <1>5, <1>8
    <2>2. PICK w : w = [u EXCEPT !.loop_count = count]
      OBVIOUS
    <2>3. vgm' = w /\ Skip(place)
      BY <1>2, <2>1, <2>2
    <2>4. /\ HeadOK(start, w) /\ w.current_sample = from
          /\ w.loop_flag /\ w.loop_count = count
      BY <1>3, <1>5, <1>8, <2>2, CountedHead
    <2> QED  BY <1>7, <2>3, <2>4
  <1>9. CASE ~v.hit_loop
    <2>1. cur = from /\ u = v
      BY <1>1, <1>3, <1>4, <1>9 DEF ForceLoopEnd
    <2>2. v.loop_flag
      BY <1>3, <1>9 DEF HeadOK, HeadInLoop
    <2> QED  BY <1>3, <1>4, <1>8, <2>1, <2>2
  <1>10. CASE v.hit_loop /\ cur < end
    <2>1. v.loop_flag
      BY <1>3, <1>4, <1>10 DEF HeadOK, HeadInLoop
    <2>2. u = ForceLoopEnd(v, 0)
      BY <1>1, <1>4, <1>10
    <2>3. /\ HeadOK(start, u) /\ u.loop_flag /\ u.current_sample = from
          /\ u.loop_start_sample = from
      BY <1>3, <1>4, <1>10, <2>1, <2>2, ForcedLoopEnd
    <2>4. u.loop_target = target
      BY <1>3, <1>4, <2>3 DEF HeadOK, SameStream
    <2> QED  BY <1>8, <2>3, <2>4
  <1>11. CASE v.hit_loop /\ ~(cur < end)
    <2>1. u = v
      BY <1>1, <1>4, <1>11
    <2>2. PICK w : w = [v EXCEPT !.loop_count = count]
      OBVIOUS
    <2>3. /\ HeadOK(start, w) /\ w.current_sample = cur
          /\ w.loop_flag = v.loop_flag /\ w.loop_count = count
      BY <1>3, <1>4, <1>5, <1>11, <2>2, CountedHead
    <2>4. PICK n \in Nat : cur = (from + body) + n
      <3>1. cur - (from + body) \in Nat
            /\ cur = (from + body) + (cur - (from + body))
        BY <1>4, <1>11
      <3> QED  BY <3>1
    <2>5. cur - from = body + n
      BY <1>4, <2>4
    <2>6. ASSUME place >= body + n, target > 0 => count = JumpsBack(start, w)
          PROVE  PlayerInv'
      <3>1. PICK left \in Nat : left = place - (body + n)
        BY <1>4, <1>5, <2>4, <2>6
      <3>2. ~(place < body + n)
        BY <1>4, <1>5, <2>4, <2>6
      <3>3. vgm' = w /\ Skip(left)
        BY <1>2, <1>4, <2>1, <2>2, <2>5, <3>1, <3>2
      <3>4. PICK t \in Nat : t = sample - left /\ t = cur + all
        BY <1>3, <1>4, <1>5, <1>6, <2>4, <3>1
      <3>5. cur >= from
        BY <1>4, <1>11
      <3>6. HeadAt(start, w, t)
        BY <1>3, <1>4, <1>5, <1>6, <2>3, <2>6, <3>4, <3>5, HeadInLoopAt
      <3>7. left <= sample
        BY <1>3, <1>4, <1>6, <3>1, <3>4
      <3> QED
        BY <1>1, <1>2, <2>3, <3>1, <3>3, <3>4, <3>6, <3>7, SkipStarts
           DEF HeadSomewhere
    <2>7. CASE v.loop_flag
      <3>1. n = 0
        BY <1>3, <1>4, <1>11, <2>4, <2>7 DEF HeadOK, HeadInLoop
      <3>2. CASE place < body
        <4>1. PICK x : x = ForceLoopEnd(v, count)
          OBVIOUS
        <4>2. place < cur - from
          BY <1>4, <1>5, <2>5, <3>1, <3>2
        <4>3. vgm' = x /\ Skip(place)
          BY <1>2, <1>4, <2>1, <4>1, <4>2
        <4>4. /\ HeadOK(start, x) /\ x.loop_flag /\ x.current_sample = from
              /\ x.loop_count = count
          BY <1>3, <1>4, <1>5, <1>11, <2>7, <4>1, ForcedLoopEnd
        <4> QED  BY <1>7, <4>3, <4>4
      <3>3. CASE ~(place < body)
        <4>1. place >= body + n
          BY <1>4, <1>5, <3>1, <3>3
        <4>2. JumpsBack(start, w) = count
          BY <2>3, <2>7 DEF JumpsBack
        <4> QED  BY <2>6, <4>1, <4>2
      <3> QED  BY <3>2, <3>3
    <2>8. CASE ~v.loop_flag
      <3>1. target > 0
        BY <1>3, <1>4, <2>8 DEF HeadOK, HeadInLoop
      <3>2. JumpsBack(start, v) = target - 1 /\ JumpsBack(start, w) = target - 1
        BY <1>3, <1>4, <2>3, <2>8 DEF JumpsBack
      <3>3. cur + (target - 1) * body <= sample
        BY <1>3, <1>4, <3>1, <3>2 DEF NotPast
      <3>4. sample >= (from + body + n) + (target - 1) * body
        <4>1. PICK back \in Nat : back = (target - 1) * body
          BY <1>4, <3>1
        <4> QED  BY <1>3, <1>4, <2>4, <3>3, <4>1
      <3>5. count = target - 1 /\ place >= body + n
        BY <1>5, <3>1, <3>4
      <3> QED  BY <2>6, <3>2, <3>5
    <2> QED  BY <2>7, <2>8
  <1> QED  BY <1>9, <1>10, <1>11
\* Back in seek_render: the play state is that of the target, and the head is
\* where it says.
LEMMA FinishSeekKeepsInv ==
    ASSUME PlayerInv, FinishSeek
    PROVE  PlayerInv' /\ ps'.play_position = seek.target
  <1>1. PICK info, p, target, fade_end :
          /\ info = Info /\ p = seek.ps_copy /\ target = seek.target
          /\ fade_end = p.pad_begin_duration + p.body_duration + p.fade_duration
    OBVIOUS
  <1>2. PICK in_fade \in BOOLEAN, in_pad \in BOOLEAN :
          /\ in_fade <=>
                /\ ~config.play_forever
                /\ vgm.loop_target = 0
                /\ target >= p.pad_begin_duration + p.body_duration
                /\ target < fade_end
          /\ in_pad <=>
                /\ ~config.play_forever
                /\ p.pad_end_duration > 0
                /\ target >= fade_end
    OBVIOUS
  <1>3. PICK r, fade_left :
          /\ fade_left = IF in_fade THEN fade_end - target ELSE p.fade_left
          /\ r = [p EXCEPT !.fade_left = fade_left, !.play_position = target]
    OBVIOUS
  <1>4. /\ At("skip") /\ Wanted = 0
        /\ vgm' = IF in_pad /\ ~IsLooped(vgm)
                  THEN [vgm EXCEPT !.current_sample = vgm.num_samples + 1]
                  ELSE vgm
        /\ ps' = r
        /\ task' = Idle
        /\ heard' = NothingHeard
        /\ UNCHANGED <<config, start_vgmstream, start_pstate, buf>>
    BY <1>1, <1>2, <1>3 DEF FinishSeek
  <1>5. SongOK' /\ Info' = Info /\ HeardOK'
    BY <1>4, SongKept, HeardKept DEF PlayerInv
  <1>6. /\ SeekTargetOK /\ InfoOK(info)
        /\ HeadSomewhere(start_vgmstream, vgm)
        /\ config.play_forever = info.play_forever
        /\ info.loop_flag = start_vgmstream.loop_flag
        /\ info.loop_target = start_vgmstream.loop_target
        /\ info.loop_target > 0 => info.fade_duration = 0
    BY <1>1, <1>4, InvSong, SongInfo DEF PlayerInv, SeekingOK, At, Info
  <1>7. /\ TimesOK(info, p) /\ target \in Nat
        /\ p.trim_begin_left = 0
        /\ p.pad_begin_left = PadLeft(info, target)
        /\ target < info.fade_start => p.fade_left = p.fade_duration
        /\ seek.sample = DecodePosition(info, target)
    BY <1>1, <1>6 DEF SeekTargetOK
  <1>8. PICK fs \in Nat, fd \in Nat, total \in Nat, left \in Nat :
          /\ fs = info.fade_start /\ fd = info.fade_duration
          /\ total = info.play_duration /\ left = p.fade_left
          /\ info.pad_end_start = fs + fd
          /\ p.fade_duration = fd /\ left <= fd
          /\ p.pad_begin_duration + p.body_duration = fs
          /\ fade_end = fs + fd
    <2>1. p.pad_begin_duration + p.body_duration = info.fade_start
          /\ p.fade_duration = info.fade_duration
          /\ p.fade_left <= p.fade_duration /\ p.fade_left \in Nat
      BY <1>7 DEF TimesOK, PlayState
    <2>2. /\ info.fade_start \in Nat /\ info.fade_duration \in Nat
          /\ info.play_duration \in Nat
          /\ info.pad_end_start = info.fade_start + info.fade_duration
      BY <1>6 DEF InfoOK
    <2>3. fade_end = info.fade_start + info.fade_duration
      BY <1>1, <2>1
    <2> QED  BY <2>1, <2>2, <2>3
  <1>9. info.play_forever \/ target <= total
    <2>1. PICK t \in Seeks : target = Promise!Clamped(t)
      BY <1>1, <1>6 DEF SeekTargetOK
    <2>2. t \in Int
      BY SeeksAssumption
    <2> QED  BY <1>1, <1>6, <1>8, <2>1, <2>2 DEF Promise!Clamped
  <1>10. vgm.loop_target = info.loop_target /\ info.loop_target \in Nat
    BY <1>6, LoopedSong, InvSong DEF Startable, Openable, VgmRecord
  <1>11. in_fade <=> /\ ~info.play_forever /\ info.loop_target = 0
                     /\ target >= fs /\ target < fs + fd
    BY <1>2, <1>6, <1>8, <1>10
  <1>12. fade_left \in Nat /\ fade_left <= fd
    BY <1>3, <1>7, <1>8, <1>11
  <1>13. /\ ~info.play_forever /\ target <= fs => fade_left = fd
         /\ ~info.play_forever /\ fs <= target /\ target < fs + fd =>
                fade_left = (fs + fd) - target
    <2>1. CASE in_fade
      <3>1. fade_left = (fs + fd) - target /\ target >= fs
        BY <1>3, <1>8, <1>11, <2>1
      <3> QED  BY <1>7, <1>8, <3>1
    <2>2. CASE ~in_fade
      <3>1. fade_left = left
        BY <1>3, <1>8, <2>2
      <3>2. ~info.play_forever /\ fs <= target /\ target < fs + fd => FALSE
        <4>1. SUFFICES ASSUME ~info.play_forever, fs <= target,
                              target < fs + fd
                       PROVE  FALSE
          OBVIOUS
        <4>2. info.loop_target > 0
          BY <1>7, <1>8, <1>10, <1>11, <2>2, <4>1
        <4>3. fd = 0
          BY <1>6, <1>8, <4>2
        <4> QED  BY <1>7, <1>8, <4>1, <4>3
      <3>3. ~info.play_forever /\ target = fs => fd = 0 /\ left = 0
        BY <1>7, <1>8, <3>2
      <3>4. target < fs => left = fd
        BY <1>7, <1>8
      <3> QED  BY <1>7, <1>8, <3>1, <3>2, <3>3, <3>4
    <2> QED  BY <1>2, <2>1, <2>2
  <1>14. /\ r \in PlayState
         /\ r.fade_left = fade_left /\ r.play_position = target
         /\ r.trim_begin_left = 0
         /\ r.pad_begin_left = PadLeft(info, target)
         /\ TimesOK(info, r)
    <2>1. p \in PlayState
      BY <1>7 DEF TimesOK
    <2>2. r \in PlayState
      BY <1>3, <1>7, <1>12, <2>1 DEF PlayState
    <2>3. /\ r.fade_left = fade_left /\ r.play_position = target
          /\ r.trim_begin_left = p.trim_begin_left
          /\ r.pad_begin_left = p.pad_begin_left
          /\ r.trim_begin_duration = p.trim_begin_duration
          /\ r.pad_begin_duration = p.pad_begin_duration
          /\ r.body_duration = p.body_duration
          /\ r.fade_duration = p.fade_duration
          /\ r.fade_start = p.fade_start /\ r.pad_end_start = p.pad_end_start
          /\ r.pad_end_duration = p.pad_end_duration
          /\ r.play_duration = p.play_duration
      BY <1>3, <2>1 DEF PlayState
    <2>4. info.play_forever \/ target <= p.play_duration
      BY <1>7, <1>8, <1>9 DEF TimesOK
    <2>5. fade_left <= p.fade_duration
      BY <1>8, <1>12
    <2>6. TimesOK(info, r)
      BY <1>7, <2>2, <2>3, <2>4, <2>5 DEF TimesOK
    <2> QED  BY <1>7, <2>2, <2>3, <2>6
  <1>15. FadeOK(info, r)
    BY <1>8, <1>13, <1>14 DEF FadeOK
  <1>16. HeadAt(start_vgmstream, vgm, DecodePosition(info, target))
    <2>1. task.left = 0 /\ SeekingOK
      BY <1>4, WantedByPhase DEF PlayerInv, At
    <2>2. seek.sample \in Nat /\ seek.sample - 0 = seek.sample
      BY <1>6, SeekSample
    <2> QED  BY <1>4, <1>7, <2>1, <2>2 DEF SeekingOK
  <1>17. HeadSomewhere(start_vgmstream, vgm')
    <2>1. CASE in_pad /\ ~IsLooped(vgm)
      <3>1. /\ ~start_vgmstream.loop_flag /\ ~vgm.loop_flag
            /\ vgm \in VgmRecord /\ SameStream(start_vgmstream, vgm)
        BY <2>1, LoopedSong, InvSong
           DEF HeadSomewhere, HeadOK, HeadInLoop, Parked
      <3>2. PICK w : w = [vgm EXCEPT !.current_sample = vgm.num_samples + 1]
        OBVIOUS
      <3>3. Parked(start_vgmstream, w)
        BY <3>1, <3>2 DEF Parked, VgmRecord, SameStream
      <3> QED  BY <1>4, <2>1, <3>2, <3>3 DEF HeadSomewhere
    <2>2. CASE ~(in_pad /\ ~IsLooped(vgm))
      BY <1>4, <1>6, <2>2
    <2> QED  BY <2>1, <2>2
  <1>18. HeadMatters(info, target) =>
           HeadAt(start_vgmstream, vgm', DecodePosition(info, target + 0) - 0)
    <2>1. target + 0 = target
          /\ DecodePosition(info, target) - 0 = DecodePosition(info, target)
      BY <1>6, <1>7, DecodePositions
    <2>2. CASE in_pad /\ ~IsLooped(vgm)
      <3>1. ~info.play_forever /\ ~info.loop_flag /\ target >= fs + fd
        BY <1>2, <1>6, <1>8, <2>2, LoopedSong
      <3>2. ~(target < info.pad_end_start)
        BY <1>7, <1>8, <3>1
      <3> QED  BY <3>1, <3>2 DEF HeadMatters
    <2>3. CASE ~(in_pad /\ ~IsLooped(vgm))
      BY <1>4, <1>16, <2>1, <2>3
    <2> QED  BY <2>2, <2>3
  <1>19. buf = <<>> /\ Len(buf) = 0
    BY <1>4 DEF PlayerInv, TaskOK, At
  <1>20. task'.step = "idle" /\ ~At("body")' /\ ~At("trim")' /\ ~(0 > 0)
    BY <1>4 DEF Idle, At
  <1>21. PlayingOK'
    BY <1>1, <1>4, <1>5, <1>14, <1>15, <1>18, <1>19, <1>20 DEF PlayingOK
  <1>22. TaskOK'
    BY <1>4, <1>19, <1>20 DEF TaskOK, Idle
  <1>23. TimesOK(Info, ps)' /\ HeadSomewhere(start_vgmstream, vgm)'
    BY <1>1, <1>4, <1>5, <1>14, <1>17
  <1> QED
    BY <1>1, <1>4, <1>5, <1>14, <1>20, <1>21, <1>22, <1>23 DEF PlayerInv

\* Every case of seek_decode.
LEMMA SeekDecodeKeepsInv ==
    ASSUME PlayerInv, SeekDecode
    PROVE  PlayerInv'
  BY SeekDecodeToCurrentKeepsInv, SeekPlainKeepsInv, SeekPastEndKeepsInv,
     SeekIntroKeepsInv, SeekLoopKeepsInv, SeekInLoopKeepsInv DEF SeekDecode

-----------------------------------------------------------------------------
(* The theorems *)

\* Callers without the habits seek_vgmstream gets wrong.
GoodCallers ==
    /\ "seek before a spent fade" \notin Habits
    /\ "seek back with an outro" \notin Habits

\* What that says of a seek.
LEMMA GoodSeek ==
    ASSUME GoodCallers, TimesOK(Info, ps), NEW target \in Nat,
           CallerSeeks(target),
           start_vgmstream.loop_target \in Nat
    PROVE  /\ ps.fade_left < ps.fade_duration => target >= ps.fade_start
           /\ start_vgmstream.loop_target > 0 => target >= ps.play_position
  <1>1. ps.fade_start \in Nat /\ ps.play_position \in Nat
    BY DEF TimesOK, PlayState
  <1>2. ~(ps.fade_left < ps.fade_duration /\ target < ps.fade_start)
        /\ ~(start_vgmstream.loop_target > 0 /\ target < ps.play_position)
    BY Zenon DEF GoodCallers, CallerSeeks
  <1> QED  BY <1>1, <1>2

\* Every step of a call, a seek, a reset: the invariant is inductive.
LEMMA NextKeepsInv ==
    ASSUME PlayerInv, GoodCallers, [Next]_vars
    PROVE  PlayerInv'
  <1>1. ASSUME NEW t \in Seeks, StartSeek(t) PROVE PlayerInv'
    <2>1. PICK target : target = ClampSeek(t)
      OBVIOUS
    <2>2. CallerSeeks(target)
      BY <1>1, <2>1 DEF StartSeek
    <2>3. TimesOK(Info, ps) /\ start_vgmstream.loop_target \in Nat
      BY InvSong DEF Startable, Openable, VgmRecord
    <2>4. target \in Nat
      <3>1. t \in Int /\ ps.play_duration \in Nat
        BY <2>3, SeeksAssumption DEF TimesOK, PlayState
      <3> QED  BY <2>1, <3>1 DEF ClampSeek
    <2>5. /\ ps.fade_left < ps.fade_duration => target >= ps.fade_start
          /\ start_vgmstream.loop_target > 0 => target >= ps.play_position
      BY <2>2, <2>3, <2>4, GoodSeek
    <2> QED  BY <1>1, <2>1, <2>5, StartSeekKeepsInv
  <1>2. ASSUME NEW n \in 1 .. MaxBuf, StartRender(n) PROVE PlayerInv'
    BY <1>2, StartRenderKeepsInv
  <1>3. ASSUME NEW t \in Seeks, SeekToCurrent(t) PROVE PlayerInv'
    BY <1>3, SeekToCurrentKeepsInv
  <1>4. CASE Reset
    BY <1>4, ResetKeepsInv
  <1>5. CASE RenderLayout
    BY <1>5, RenderLayoutKeepsInv
  <1>6. CASE PadBegin
    BY <1>6, PadBeginKeepsInv
  <1>7. CASE FinishRender
    BY <1>7, FinishRenderKeepsInv
  <1>8. CASE SeekDecode
    BY <1>8, SeekDecodeKeepsInv
  <1>9. CASE FinishSeek
    BY <1>9, FinishSeekKeepsInv
  <1>10. CASE UNCHANGED vars
    BY <1>10, StutterKeepsInv
  <1> QED
    BY <1>1, <1>2, <1>3, <1>4, <1>5, <1>6, <1>7, <1>8, <1>9, <1>10
       DEF Next, CallStep
\* PlayerInv holds in every state of every song, whatever is rendered, sought
\* and reset: the types, the play head, the play state and what was heard.
THEOREM PlayerInvariant ==
    ASSUME GoodCallers
    PROVE  Spec => []PlayerInv
  <1>1. PlayerInv /\ [Next]_vars => PlayerInv'
    BY NextKeepsInv
  <1> QED  BY PlayerInit, <1>1, PTL DEF Spec

\* Steps within a call change nothing a caller can see.
LEMMA CallIsSilent ==
    ASSUME PlayerInv,
           \/ \E n \in 1 .. MaxBuf : StartRender(n)
           \/ \E t \in Seeks : StartSeek(t)
           \/ RenderLayout \/ PadBegin \/ SeekDecode
           \/ UNCHANGED vars
    PROVE  UNCHANGED <<Info, Position, heard>>
  <1>1. ps \in PlayState /\ task.step \in
          {"idle", "trim", "body", "seek", "skip_intro", "skip"}
    BY DEF PlayerInv, TimesOK, TaskOK
  <1>2. ASSUME NEW n \in 1 .. MaxBuf, StartRender(n)
        PROVE  UNCHANGED <<Info, Position, heard>>
    BY <1>2 DEF StartRender, At, Info, Position
  <1>3. ASSUME NEW t \in Seeks, StartSeek(t)
        PROVE  UNCHANGED <<Info, Position, heard>>
    <2>1. PICK copy : copy = AtTarget(ps, ClampSeek(t))
      OBVIOUS
    <2>2. /\ At("idle") /\ seek'.ps_copy = copy /\ task'.step = "seek"
          /\ UNCHANGED <<config, start_vgmstream, start_pstate, heard>>
      BY <1>3, <2>1 DEF StartSeek, AtTarget
    <2>3. copy.play_position = ps.play_position
      BY <1>1, <2>1 DEF AtTarget, PlayState
    <2> QED  BY <2>2, <2>3 DEF At, Info, Position
  <1>4. CASE RenderLayout
    <2>1. CASE LoopIteration
      BY <2>1 DEF LoopIteration, Info, Position
    <2>2. ASSUME NEW cells, Deliver(cells)
          PROVE  UNCHANGED <<Info, Position, heard>>
      <3>1. UNCHANGED <<config, start_vgmstream, start_pstate, seek, heard>>
        BY <2>2 DEF Deliver
      <3>2. ps'.play_position = ps.play_position
        BY <1>1, <2>2 DEF Deliver, PlayState
      <3>3. task \in [step : {"idle", "trim", "body", "seek", "skip_intro",
                              "skip"},
                      samples : Nat, left : Nat]
        BY DEF PlayerInv, TaskOK
      <3>4. task'.step = task.step
        BY <2>2, <3>3 DEF Deliver
      <3> QED  BY <3>1, <3>2, <3>4 DEF Info, Position
    <2> QED
      BY <1>4, <2>1, <2>2
         DEF RenderLayout, BlankPastEnd, DecodeIteration, ErrorIteration
  <1>5. CASE PadBegin
    <2>1. /\ At("trim") /\ ps'.play_position = ps.play_position
          /\ UNCHANGED <<config, start_vgmstream, start_pstate, heard>>
      BY <1>1, <1>5 DEF PadBegin, PlayState
    <2>2. task \in [step : {"idle", "trim", "body", "seek", "skip_intro", "skip"},
                    samples : Nat, left : Nat]
      BY DEF PlayerInv, TaskOK
    <2>3. task'.step = "body"
      BY <1>5, <2>2 DEF PadBegin
    <2> QED  BY <2>1, <2>3 DEF At, Info, Position
  <1>6. CASE SeekDecode
    <2>1. At("seek") \/ At("skip_intro")
      BY <1>6 DEF SeekDecode, SeekDecodeToCurrent, SeekBack, SeekForward,
           SeekPastEnd, SeekIntroBack, SeekIntroForward, SeekLoop, SeekInLoop
    <2>2. task'.step = "skip" \/ task'.step = "skip_intro"
      BY <1>6 DEF SeekDecode, SeekDecodeToCurrent, SeekBack, SeekForward,
           SeekPastEnd, SeekIntroBack, SeekIntroForward, SeekLoop, SeekInLoop,
           Skip, SkipIntro
    <2>3. SeekOther
      BY <1>6 DEF SeekDecode, SeekDecodeToCurrent, SeekBack, SeekForward,
           SeekPastEnd, SeekIntroBack, SeekIntroForward, SeekLoop, SeekInLoop
    <2> QED  BY <2>1, <2>2, <2>3 DEF SeekOther, At, Info, Position
  <1>7. CASE UNCHANGED vars
    BY <1>7 DEF vars, Info, Position
  <1> QED  BY <1>2, <1>3, <1>4, <1>5, <1>6, <1>7

\* Returning from render_main is a step of Playback.
LEMMA FinishIsPlay ==
    ASSUME PlayerInv, FinishRender
    PROVE  Promise!Next
  <1>1. PICK n, p : n = task.samples /\ p = ps.play_position
    OBVIOUS
  <1>2. At("body") /\ task'.step = "idle"
    BY DEF FinishRender, Idle
  <1>3. Position = p /\ Position' = ps'.play_position
    BY <1>1, <1>2 DEF At, Position
  <1>4. /\ Info' = Info
        /\ n \in 1 .. MaxBuf
        /\ ps'.play_position = EndOf(Info, p + n)
        /\ heard'.at = p
        /\ Len(heard'.cells) = ps'.play_position - p
        /\ \A i \in 1 .. Len(heard'.cells) :
              SoundsAt(Info, p + i - 1, heard'.cells[i])
    BY <1>1, FinishDelivers
  <1>5. p \in Nat /\ n \in Nat /\ p + n \in Nat
    <2>1. p \in Nat
      BY <1>1 DEF PlayerInv, TimesOK, PlayState
    <2>2. n \in Nat
      BY <1>4, MaxBufAssumption
    <2> QED  BY <2>1, <2>2
  <1>6. Promise!Clamped(p + n) = EndOf(Info, p + n)
    BY <1>5, ClampedIsEndOf
  <1>7. \A i \in 1 .. Len(heard'.cells) :
           Promise!Sounds(p + i - 1, heard'.cells[i])
    BY <1>4, SoundsIsSoundsAt
  <1>8. Promise!Play(n)
    BY <1>3, <1>4, <1>6, <1>7 DEF Promise!Play
  <1> QED  BY <1>4, <1>8 DEF Promise!Next

\* Returning from seek_vgmstream is one, and so is reset_vgmstream.
LEMMA SeekIsSeek ==
    ASSUME PlayerInv,
           FinishSeek \/ Reset \/ \E t \in Seeks : SeekToCurrent(t)
    PROVE  Promise!Next
  <1>1. CASE FinishSeek
    <2>1. /\ At("skip") /\ task'.step = "idle" /\ heard' = NothingHeard
          /\ UNCHANGED <<config, start_vgmstream, start_pstate>>
      BY <1>1 DEF FinishSeek, Idle
    <2>2. PICK t \in Seeks : seek.target = Promise!Clamped(t)
      BY <2>1 DEF PlayerInv, SeekingOK, SeekTargetOK, At
    <2>3. ps'.play_position = seek.target
      BY <1>1, FinishSeekKeepsInv
    <2>4. Promise!Seek(t)
      BY <2>1, <2>2, <2>3
         DEF Promise!Seek, Promise!NothingHeard, NothingHeard, Position, Info
    <2> QED  BY <2>2, <2>4 DEF Promise!Next
  <1>2. CASE Reset
    <2>1. /\ At("idle") /\ task' = task /\ heard' = NothingHeard
          /\ ps' = start_pstate
          /\ UNCHANGED <<config, start_vgmstream, start_pstate>>
      BY <1>2 DEF Reset, ResetAll
    <2>2. start_pstate.play_position = 0
      BY SongInfo DEF PlayerInv, Fresh
    <2>3. Promise!Rewind
      BY <2>1, <2>2
         DEF Promise!Rewind, Promise!NothingHeard, NothingHeard, Position, Info,
             At
    <2> QED  BY <2>3 DEF Promise!Next
  <1>3. ASSUME NEW t \in Seeks, SeekToCurrent(t) PROVE Promise!Next
    <2>1. /\ At("idle") /\ ClampSeek(t) = ps.play_position
          /\ heard' = NothingHeard
          /\ UNCHANGED <<config, start_vgmstream, ps, start_pstate, task>>
      BY <1>3 DEF SeekToCurrent
    <2>2. Info.play_forever = config.play_forever
          /\ Info.play_duration = ps.play_duration
      BY InvSong DEF TimesOK
    <2>3. Promise!Clamped(t) = ClampSeek(t)
      BY <2>2 DEF Promise!Clamped, ClampSeek
    <2>4. Promise!Seek(t)
      BY <2>1, <2>3
         DEF Promise!Seek, Promise!NothingHeard, NothingHeard, Position, Info,
             At
    <2> QED  BY <2>4 DEF Promise!Next
  <1> QED  BY <1>1, <1>2, <1>3

\* Player implements Playback: every call of render_main delivers the samples
\* that the configured song has at its position, after any calls before it.
THEOREM PlayerKeepsPromise ==
    ASSUME GoodCallers
    PROVE  Spec => KeepsPromise
  <1>1. Init => Promise!Init
    <2>1. SUFFICES ASSUME Init PROVE Promise!Init
      OBVIOUS
    <2>2. ps = start_pstate /\ task.step = "idle" /\ heard = NothingHeard
      BY <2>1 DEF Init, Idle
    <2>3. Position = 0
      BY <2>1, <2>2, InitSong, SongInfo DEF Fresh, Position
    <2> QED  BY <2>2, <2>3 DEF Promise!Init, Promise!NothingHeard, NothingHeard
  <1>2. PlayerInv /\ [Next]_vars => [Promise!Next]_(Promise!vars)
    <2>1. SUFFICES ASSUME PlayerInv, [Next]_vars
                   PROVE  Promise!Next \/ UNCHANGED <<Info, Position, heard>>
      BY DEF Promise!vars
    <2> QED
      BY <2>1, CallIsSilent, FinishIsPlay, SeekIsSeek DEF Next, CallStep
  <1> QED
    BY PlayerInvariant, <1>1, <1>2, PTL DEF Spec, KeepsPromise, Promise!Spec

\* decode_do_loop turns the loop off in the outro only, and seeks and resets
\* leave it on everywhere else.
THEOREM PlayerLoopOff ==
    ASSUME GoodCallers
    PROVE  Spec => []LoopOffOnlyInOutro
  <1>1. PlayerInv => LoopOffOnlyInOutro
    <2>1. SUFFICES ASSUME PlayerInv, start_vgmstream.loop_flag, ~vgm.loop_flag
                   PROVE  vgm.current_sample >= vgm.loop_end_sample
      BY DEF LoopOffOnlyInOutro
    <2>2. HeadOK(start_vgmstream, vgm)
      BY <2>1, LoopedSong
    <2>3. /\ vgm.current_sample \in Nat /\ vgm.loop_end_sample \in Nat
          /\ vgm.loop_end_sample <= vgm.current_sample
      BY <2>1, <2>2 DEF HeadOK, HeadInLoop, VgmRecord
    <2> QED  BY <2>3
  <1> QED  BY PlayerInvariant, <1>1, PTL
-----------------------------------------------------------------------------
(* Durations and the decoder agree on the last sample *)

\* What is added on both sides does not matter.
LEMMA Cancelled ==
    ASSUME NEW a \in Int, NEW b \in Int, NEW c \in Int, a + b = c + b
    PROVE  a = c
  OBVIOUS

\* The last position of the stream, where the loops and the outro are not cut,
\* has the last sample of the file and is not over.
LEMMA LastSample ==
    ASSUME NEW start, Startable(start),
           start.loop_flag => start.loop_target > 0,
           NEW t, t = start.num_samples - 1
                        + (IF start.loop_flag
                           THEN (start.loop_target - 1) * LoopBody(start)
                           ELSE 0)
    PROVE  /\ ~IsOver(start, t)
           /\ \A s \in Nat : IsSource(start, t, s) => s = start.num_samples - 1
  <1>1. PICK num \in Nat, body \in Int, target \in Nat :
          /\ num = start.num_samples /\ num > 0
          /\ body = LoopBody(start)
          /\ target = start.loop_target
    BY DEF Startable, Openable, VgmRecord, LoopBody
  <1>2. CASE ~start.loop_flag
    BY <1>1, <1>2 DEF IsOver, IsSource
  <1>3. CASE start.loop_flag
    <2>1. PICK end \in Nat :
            end = start.loop_end_sample /\ end <= num /\ body > 0
      BY <1>1, <1>3 DEF Startable, Openable, SaneLoop, VgmRecord, LoopBody
    <2>2. PICK last \in Nat : last = target - 1
      BY <1>1, <1>3
    <2>3. PICK all \in Nat : all = last * body
      BY <1>1, <2>1, <2>2
    <2>4. t = (num - 1) + all
      BY <1>1, <1>3, <2>2, <2>3
    <2>5. ~IsOver(start, t)
      BY <1>1, <1>3, <2>2, <2>3, <2>4 DEF IsOver
    <2>6. ASSUME NEW s \in Nat, IsSource(start, t, s)
          PROVE  s = num - 1
      <3>1. PICK k \in 0 .. t :
              /\ t = s + k * body
              /\ target > 0 => k < target
              /\ s < end \/ k = last
        BY <1>1, <1>3, <2>1, <2>2, <2>6 DEF IsSource, LastCopy
      <3>2. k \in Nat /\ k <= last
        BY <1>1, <1>3, <2>2, <2>4, <3>1
      <3>3. CASE k = last
        <4>1. k * body = all
          BY <2>3, <3>3
        <4>2. s + all = (num - 1) + all
          BY <2>4, <3>1, <4>1
        <4>3. s \in Int /\ all \in Int /\ num - 1 \in Int
          BY <1>1
        <4> QED  BY <4>2, <4>3, Cancelled
      <3>4. CASE k # last
        <4>1. PICK m \in Nat : last = k + (m + 1)
          <5>1. (last - k) - 1 \in Nat /\ last = k + (((last - k) - 1) + 1)
            BY <2>2, <3>2, <3>4
          <5> QED  BY <5>1
        <4>2. PICK a \in Nat, b \in Nat : a = k * body /\ b = m * body
          BY <1>1, <2>1, <3>2
        <4>3. all = a + b + body
          BY <1>1, <2>3, <3>2, <4>1, <4>2
        <4>4. s = (num - 1) + b + body
          <5>1. PICK rest \in Int : rest = (num - 1) + b + body
            BY <1>1, <4>2
          <5>2. s + a = (num - 1) + all
            BY <2>4, <3>1, <4>2
          <5>3. (num - 1) + all = rest + a
            BY <4>3, <5>1
          <5>4. s \in Int /\ a \in Int
            BY <4>2
          <5> QED  BY <5>1, <5>2, <5>3, <5>4, Cancelled
        <4>5. s < end
          BY <3>1, <3>4
        <4> QED  BY <1>1, <2>1, <4>2, <4>4, <4>5
      <3> QED  BY <3>3, <3>4
    <2> QED  BY <1>1, <2>5, <2>6
  <1> QED  BY <1>2, <1>3

\* Where the main part of such a song ends in the stream.
LEMMA BodyEnds ==
    ASSUME SongOK, config.body_time = 0, config.trim_end = 0,
           ~start_vgmstream.loop_flag \/ config.ignore_fade,
           config.ignore_fade => config.loop_count >= 2,
           start_pstate.body_duration > 0
    PROVE  /\ start_vgmstream.loop_flag => start_vgmstream.loop_target > 0
           /\ start_pstate.trim_begin_duration + start_pstate.body_duration - 1
                = start_vgmstream.num_samples - 1
                    + (IF start_vgmstream.loop_flag
                       THEN (start_vgmstream.loop_target - 1)
                              * LoopBody(start_vgmstream)
                       ELSE 0)
  <1>1. PICK v, c : v = start_vgmstream /\ c = config
    OBVIOUS
  <1>2. v \in VgmRecord /\ c \in ConfigRecord
    BY <1>1 DEF SongOK, Startable, Openable
  <1>3. PICK num \in Nat, from \in Nat, end \in Nat, body \in Int, trim \in Nat,
             count \in Nat, target \in Nat :
          /\ num = v.num_samples /\ from = v.loop_start_sample
          /\ end = v.loop_end_sample /\ body = LoopBody(v) /\ body = end - from
          /\ trim = c.trim_begin /\ count = c.loop_count
          /\ target = v.loop_target
    <2>1. /\ v.num_samples \in Nat /\ v.loop_start_sample \in Nat
          /\ v.loop_end_sample \in Nat /\ v.loop_target \in Nat
      BY <1>2 DEF VgmRecord
    <2>2. c.trim_begin \in Nat /\ c.loop_count \in Nat
      BY <1>2 DEF ConfigRecord
    <2>3. LoopBody(v) = v.loop_end_sample - v.loop_start_sample
          /\ LoopBody(v) \in Int
      BY <2>1 DEF LoopBody
    <2> QED  BY <2>1, <2>2, <2>3
  <1>4. v.loop_flag \in BOOLEAN /\ c.ignore_fade \in BOOLEAN
    BY <1>2 DEF VgmRecord, ConfigRecord
  <1>5. start_pstate.trim_begin_duration = trim
    BY <1>1, <1>3 DEF SongOK, SetupStateProcessing
  <1>6. WholeBody(v, c) \in Int
    BY <1>2, WholeBodyIsInt
  <1>7. start_pstate.body_duration = WholeBody(v, c) - trim
    <2>1. v.loop_flag => c.fade_delay = 0
      BY <1>1 DEF SongOK
    <2>2. start_pstate.body_duration
            = NotNegative(WholeBody(v, c) - c.trim_begin - c.trim_end
                            + (IF v.loop_flag THEN c.fade_delay ELSE 0))
      BY <1>1 DEF SongOK, SetupStateProcessing
    <2>3. WholeBody(v, c) - c.trim_begin - c.trim_end
            + (IF v.loop_flag THEN c.fade_delay ELSE 0)
            = WholeBody(v, c) - trim
      BY <1>1, <1>3, <1>6, <2>1
    <2>4. start_pstate.body_duration = NotNegative(WholeBody(v, c) - trim)
      BY <2>2, <2>3
    <2> QED  BY <1>3, <1>6, <2>4 DEF NotNegative
  <1>8. CASE ~v.loop_flag
    <2>1. WholeBody(v, c) = num
      BY <1>1, <1>3, <1>8 DEF WholeBody
    <2> QED  BY <1>1, <1>3, <1>5, <1>7, <1>8, <2>1
  <1>9. CASE v.loop_flag
    <2>1. PICK half : half = c.loop_count \div 2
      OBVIOUS
    <2>2. half \in Nat /\ half > 0
      BY <1>1, <1>3, <1>9, <2>1
    <2>3. target = half
      BY <1>1, <1>3, <1>9, <2>1 DEF SongOK
    <2>4. PICK last \in Nat : last = half - 1 /\ half = last + 1
      BY <2>2
    <2>5. PICK all \in Int : all = last * body
      BY <1>3
    <2>6. body * half = all + body
      BY <1>3, <2>4, <2>5
    <2>7. WholeBody(v, c) = from + body * half + (num - end)
      BY <1>1, <1>3, <1>9, <2>1 DEF WholeBody
    <2>8. WholeBody(v, c) = num + all
      <3>1. PICK prod \in Int : prod = body * half
        BY <1>3, <2>2
      <3>2. prod = all + body /\ WholeBody(v, c) = from + prod + (num - end)
        BY <2>6, <2>7, <3>1
      <3>3. from + prod + (num - end) = num + all
        BY <1>3, <3>2
      <3> QED  BY <3>2, <3>3
    <2>9. trim + start_pstate.body_duration - 1 = (num - 1) + all
      BY <1>3, <1>7, <2>5, <2>8
    <2> QED  BY <1>1, <1>3, <1>5, <1>9, <2>2, <2>3, <2>4, <2>5, <2>9
  <1> QED  BY <1>1, <1>8, <1>9

\* A config keeps its loops: setup_state_modifiers and no call changes them.
OutroOK == config.ignore_fade => config.loop_count >= 2

\* Songs that are not cut or faded end with the last sample of the file, where
\* an outro is asked for with at least one whole loop before it (loop_count is in
\* half loops).
THEOREM PlayerPlaysToTheEnd ==
    ASSUME GoodCallers, \A c \in Configs : c.ignore_fade => c.loop_count >= 2
    PROVE  Spec => []PlaysToTheEnd
  <1>1. Init => OutroOK
    <2>1. SUFFICES ASSUME Init PROVE OutroOK
      OBVIOUS
    <2>2. PICK f \in Files, c \in Configs :
            config = FinalConfig(NewVgmstream(f), c)
      BY <2>1 DEF Init
    <2>3. PICK raw : raw = NewVgmstream(f)
      OBVIOUS
    <2>4. Forceable(raw) /\ c \in ConfigRecord
      BY <2>3, FilesAssumption, ConfigsAssumption, NewIsOpenable DEF Forceable
    <2>5. config.ignore_fade = IgnoreFade(raw, c)
          /\ config.loop_count = c.loop_count
      BY <2>2, <2>3, <2>4, FinalConfigIsConfig
    <2> QED  BY <2>5 DEF OutroOK, IgnoreFade
  <1>2. OutroOK /\ [Next]_vars => OutroOK'
    <2>1. [Next]_vars => config' = config
      BY DEF Next, vars, StartRender, StartSeek, SeekToCurrent, Reset, CallStep,
             RenderLayout, BlankPastEnd, LoopIteration, DecodeIteration,
             ErrorIteration, Deliver, PadBegin, FinishRender, SeekDecode,
             SeekDecodeToCurrent, SeekBack, SeekForward, SeekPastEnd,
             SeekIntroBack, SeekIntroForward, SeekLoop, SeekInLoop, SeekOther,
             FinishSeek
    <2> QED  BY <2>1 DEF OutroOK
  <1>3. PlayerInv /\ OutroOK => PlaysToTheEnd
    <2>1. SUFFICES ASSUME PlayerInv, OutroOK,
                          ~config.play_forever, config.body_time = 0,
                          config.trim_end = 0,
                          ~start_vgmstream.loop_flag \/ config.ignore_fade,
                          NEW i \in DOMAIN heard.cells,
                          heard.at + i = start_pstate.pad_begin_duration
                                           + start_pstate.body_duration,
                          start_pstate.body_duration > 0
                   PROVE  heard.cells[i].src = vgm.num_samples - 1
      BY DEF PlaysToTheEnd
    <2>2. PICK info, cell, pad, body, trim, q :
            /\ info = Info /\ cell = heard.cells[i]
            /\ pad = info.pad_begin_duration
            /\ body = start_pstate.body_duration
            /\ trim = info.trim_begin_duration
            /\ q = heard.at + i - 1
      OBVIOUS
    <2>3. /\ SongOK /\ InfoOK(info) /\ TimesOK(info, start_pstate)
          /\ SameTimeline(info, start_vgmstream)
      BY <2>1, <2>2, SongInfo DEF PlayerInv
    <2>4. /\ pad \in Nat /\ body \in Nat /\ trim \in Nat
          /\ pad = start_pstate.pad_begin_duration
          /\ trim = start_pstate.trim_begin_duration
          /\ info.fade_start = pad + body
          /\ info.pad_end_start >= pad + body
      BY <2>2, <2>3 DEF InfoOK, TimesOK, PlayState
    <2>5. SoundsAt(info, q, cell)
      BY <2>1, <2>2, SoundsIsSoundsAt DEF PlayerInv, HeardOK
    <2>11. heard.at \in Nat /\ i \in Nat /\ cell \in CellRecord
      BY <2>1, <2>2, LenProperties, ElementOfSeq DEF PlayerInv, HeardOK
    <2>6. q = (pad + body) - 1
      BY <2>1, <2>2, <2>4, <2>11
    <2>7. PICK t : t = trim + body - 1 /\ t = q - pad + trim
      BY <2>4, <2>6
    <2>8. q >= pad /\ ~(q < pad) /\ ~(q >= info.pad_end_start)
          /\ info.pad_end_start \in Nat
      BY <2>1, <2>2, <2>3, <2>4, <2>6 DEF InfoOK
    <2>9. IF cell.src = Silence THEN IsOver(start_vgmstream, t)
          ELSE IsSource(start_vgmstream, t, cell.src)
      BY <2>2, <2>3, <2>5, <2>7, <2>8, TimelineOf DEF SoundsAt
    <2>10. /\ ~IsOver(start_vgmstream, t)
           /\ \A s \in Nat : IsSource(start_vgmstream, t, s) =>
                 s = start_vgmstream.num_samples - 1
      <3>1. Startable(start_vgmstream)
        BY <2>3 DEF SongOK
      <3> QED  BY <2>1, <2>2, <2>3, <2>4, <2>7, <3>1, BodyEnds, LastSample
                  DEF OutroOK
    <2>12. cell.src # Silence /\ cell.src \in Nat
      BY <2>9, <2>10, <2>11 DEF CellRecord
    <2>13. vgm.num_samples = start_vgmstream.num_samples
      BY <2>1, InvSong DEF HeadSomewhere, HeadOK, Parked, SameStream
    <2> QED  BY <2>2, <2>9, <2>10, <2>12, <2>13
  <1> QED  BY PlayerInvariant, PlayerInit, <1>1, <1>2, <1>3, PTL DEF Spec
=============================================================================
