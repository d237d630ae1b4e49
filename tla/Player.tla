-------------------------------- MODULE Player --------------------------------
(***************************************************************************)
(* One configured VGMSTREAM as plugins play it: render_main with its trim,  *)
(* padding, fade and totals around render_layout, seek_vgmstream with every *)
(* case of seek_decode, and reset_vgmstream.                                *)
(*                                                                          *)
(* A call runs as a task of several steps; the iterations of the flat       *)
(* layout's loop serve three callers: the trim, the body of a render, and   *)
(* the skipping of a seek (seek_force_render).  Trim and skip go through    *)
(* buffers (of the caller's size, of 1024 samples) that are thrown away:    *)
(* they are one long buffer here, FlatRender shows sizes make no difference.*)
(*                                                                          *)
(* The sample rate is 1, so times of the config are samples.                *)
(***************************************************************************)
EXTENDS LoopHead, Sequences

CONSTANTS
    Files,        \* what parsers may hand to prepare_vgmstream
    Configs,      \* play configs
    MaxBuf,       \* largest buffer a caller asks for
    Seeks,        \* positions a caller seeks to
    MaxPosition,  \* bound on the play position when playing forever
    MaxLoops,     \* bound on loops: rendering goes on past the end of a song
    Habits        \* what callers do that seek_vgmstream gets wrong

\* play_config_t, of times that are not negative; loop_count is a number of half
\* loops.
ConfigRecord ==
    [play_forever : BOOLEAN, really_force_loop : BOOLEAN, force_loop : BOOLEAN,
     ignore_loop : BOOLEAN, ignore_fade : BOOLEAN, loop_count : Nat,
     body_time : Nat, trim_begin : Nat, trim_end : Nat, pad_begin : Nat,
     pad_end : Nat, fade_delay : Nat, fade_time : Nat]

ASSUME FilesAssumption       == \A f \in Files : f \in FileRecord
ASSUME ConfigsAssumption     == \A c \in Configs : c \in ConfigRecord
ASSUME MaxBufAssumption      == MaxBuf \in Nat \ {0}
ASSUME SeeksAssumption       == Seeks \subseteq Int
ASSUME MaxPositionAssumption == MaxPosition \in Nat
ASSUME MaxLoopsAssumption    == MaxLoops \in Nat
ASSUME HabitsAssumption ==
    Habits \subseteq {"seek before a spent fade", "seek back with an outro"}

VARIABLES
    config,           \* play_config_t after setup_state_modifiers
    vgm,              \* the VGMSTREAM
    start_vgmstream,  \* its snapshot
    ps,               \* pstate
    start_pstate,     \* pstate in the snapshot
    task,             \* the call in progress and how far it is
    seek,             \* seek_vgmstream's locals
    buf,              \* samples of the render in progress
    heard             \* history: what the last render delivered

vars == <<config, vgm, start_vgmstream, ps, start_pstate, task, seek, buf, heard>>

-----------------------------------------------------------------------------
(* Samples, as in Playback *)

Silence == -1
Cell(src, fade) == [src |-> src, fade |-> fade]
Silent(n) == [i \in 1 .. n |-> Cell(Silence, 0)]
Decoded(src, n) == [i \in 1 .. n |-> Cell(src + i - 1, 0)]
NothingHeard == [at |-> 0, cells |-> <<>>]

-----------------------------------------------------------------------------
(* play_state.c *)

\* setup_state_modifiers, what it does to the config.
FinalConfig(v, c) ==
    [c EXCEPT !.play_forever = PlayForever(v, c),
              !.ignore_fade = IgnoreFade(v, c),
              !.fade_time = IF IgnoreFade(v, c) THEN 0 ELSE @,
              !.fade_delay = IF IgnoreFade(v, c) THEN 0 ELSE @]

NotNegative(n) == IF n < 0 THEN 0 ELSE n

WholeBody_NoOutro(v, c) ==                                        \* mutant
    IF c.body_time # 0 THEN c.body_time
    ELSE IF ~v.loop_flag THEN v.num_samples
    ELSE v.loop_start_sample + (LoopBody(v) * c.loop_count) \div 2

\* Length of the main part, before trims: loop_count is in half loops, and the
\* product is truncated when it is added to the int.
WholeBody(v, c) ==
    IF c.body_time # 0 THEN c.body_time
    ELSE IF ~v.loop_flag THEN v.num_samples
    ELSE IF c.ignore_fade
    THEN v.loop_start_sample + LoopBody(v) * (c.loop_count \div 2)
           + (v.num_samples - v.loop_end_sample)
    ELSE v.loop_start_sample + (LoopBody(v) * c.loop_count) \div 2

\* setup_state_processing
SetupStateProcessing(v, c) ==
    LET body == WholeBody(v, c) - c.trim_begin - c.trim_end
                  + (IF v.loop_flag THEN c.fade_delay ELSE 0)
        fade == IF v.loop_flag THEN c.fade_time ELSE 0
        fade_start == c.pad_begin + NotNegative(body)
    IN  [pad_begin_duration |-> c.pad_begin,
         trim_begin_duration |-> c.trim_begin,
         body_duration |-> NotNegative(body),
         fade_duration |-> fade,
         pad_end_duration |-> c.pad_end,
         play_duration |-> NotNegative(c.pad_begin + body + fade + c.pad_end),
         play_position |-> 0,
         pad_begin_left |-> c.pad_begin,
         trim_begin_left |-> c.trim_begin,
         fade_left |-> fade,
         fade_start |-> fade_start,
         pad_end_start |-> fade_start + fade]

-----------------------------------------------------------------------------
Idle == [step |-> "idle", samples |-> 0, left |-> 0]
NoSeek == [target |-> 0, sample |-> 0, ps_copy |-> start_pstate]

\* A stream that was opened and configured, ready to play.
Init ==
    /\ \E f \in Files, c \in Configs :
          LET raw == NewVgmstream(f)
          IN  /\ vgm = SetupVgmstream(SetupStateModifiers(raw, c))
              /\ config = FinalConfig(raw, c)
    /\ start_vgmstream = vgm
    /\ ps = SetupStateProcessing(vgm, config)
    /\ start_pstate = ps
    /\ task = Idle
    /\ seek = NoSeek
    /\ buf = <<>>
    /\ heard = NothingHeard

At(step) == task.step = step

-----------------------------------------------------------------------------
(* render_layout_flat, for whoever called it *)

\* Samples the caller still wants.
Wanted ==
    CASE At("trim") -> ps.trim_begin_left
      [] At("body") -> task.samples - Len(buf)
      [] At("skip_intro") \/ At("skip") -> task.left
      [] OTHER -> 0

\* Cells go to the caller; only the body of a render keeps them.
Deliver(cells) ==
    /\ ps' = IF At("trim")
             THEN [ps EXCEPT !.trim_begin_left = @ - Len(cells)] ELSE ps
    /\ buf' = IF At("body") THEN buf \o cells ELSE buf
    /\ task' = IF At("skip_intro") \/ At("skip")
               THEN [task EXCEPT !.left = @ - Len(cells)] ELSE task
    /\ UNCHANGED <<config, start_vgmstream, start_pstate, seek, heard>>

BlankPastEnd ==
    /\ Wanted > 0
    /\ PastEnd(vgm)
    /\ Deliver(Silent(Wanted))
    /\ UNCHANGED vgm

LoopIteration ==
    /\ Wanted > 0
    /\ ~PastEnd(vgm)
    /\ Looped(vgm)
    /\ vgm' = LoopCheck(vgm)
    /\ UNCHANGED <<config, start_vgmstream, ps, start_pstate, task, seek, buf, heard>>

DecodeIteration ==
    /\ Wanted > 0
    /\ ~PastEnd(vgm)
    /\ ~Looped(vgm)
    /\ LET n == FlatSamplesToDo(vgm, Wanted)
       IN  /\ n > 0
           /\ vgm' = DecodeVgmstream(LoopCheck(vgm), n)
           /\ Deliver(Decoded(vgm.ch, n))

ErrorIteration_Retried ==                                         \* mutant
    /\ Wanted > 0
    /\ ~PastEnd(vgm)
    /\ ~Looped(vgm)
    /\ FlatSamplesToDo(vgm, Wanted) <= 0
    /\ vgm' = LoopCheck(vgm)
    /\ Deliver(<<>>)

\* RC_LAYOUT_ERROR: the rest is blank
ErrorIteration ==
    /\ Wanted > 0
    /\ ~PastEnd(vgm)
    /\ ~Looped(vgm)
    /\ FlatSamplesToDo(vgm, Wanted) <= 0
    /\ vgm' = LoopCheck(vgm)
    /\ Deliver(Silent(Wanted))

RenderLayout ==
    BlankPastEnd \/ LoopIteration \/ DecodeIteration \/ ErrorIteration

-----------------------------------------------------------------------------
(* render_main *)

StartRender(n) ==
    /\ At("idle")
    /\ config.play_forever => ps.play_position + n <= MaxPosition
    /\ vgm.loop_count <= MaxLoops
    /\ task' = [step |-> "trim", samples |-> n, left |-> 0]
    /\ UNCHANGED <<config, vgm, start_vgmstream, ps, start_pstate, seek, buf, heard>>

\* play_op_pad_begin, once play_op_trim is done
PadBegin ==
    /\ At("trim")
    /\ Wanted = 0
    /\ LET to_do == SmallerOf(ps.pad_begin_left, task.samples)
       IN  /\ buf' = Silent(to_do)
           /\ ps' = [ps EXCEPT !.pad_begin_left = @ - to_do]
    /\ task' = [task EXCEPT !.step = "body"]
    /\ UNCHANGED <<config, vgm, start_vgmstream, start_pstate, seek, heard>>

Blank(cells, from, to_do) ==
    [i \in DOMAIN cells |->
        IF i > from /\ i <= from + to_do THEN Cell(Silence, 0) ELSE cells[i]]

\* Samples before the fade, in a buffer that starts at the play position.
FadeOffset_None(p) == 0                                           \* mutant
FadeOffset(p) == NotNegative(p.fade_start - p.play_position)
FadeToDo(p, filled) == SmallerOf(p.fade_left, filled - FadeOffset(p))

FadeApplies(c, p, filled) ==
    /\ ~c.play_forever
    /\ p.fade_left # 0
    /\ p.play_position + filled >= p.fade_start

\* play_op_fade with sbuf_fadeout, which blanks what follows the fade.
PlayOpFade(c, p, cells) ==
    LET start == FadeOffset(p)
        to_do == FadeToDo(p, Len(cells))
        fade_pos == NotNegative(p.play_position - p.fade_start)
    IN  IF FadeApplies(c, p, Len(cells))
        THEN [i \in DOMAIN cells |->
                IF i <= start THEN cells[i]
                ELSE IF i <= start + to_do
                THEN [cells[i] EXCEPT !.fade = fade_pos + i - start - 1]
                ELSE Cell(Silence, 0)]
        ELSE cells

FadeLeft(c, p, filled) ==
    IF FadeApplies(c, p, filled)
    THEN p.fade_left - FadeToDo(p, filled) ELSE p.fade_left

\* play_op_pad_end
PlayOpPadEnd(c, p, cells) ==
    LET start == NotNegative(p.pad_end_start - p.play_position)
        to_do == IF p.play_position < p.pad_end_start
                 THEN p.pad_end_duration
                 ELSE p.pad_end_start + p.pad_end_duration - p.play_position
    IN  IF c.play_forever \/ p.play_position + Len(cells) < p.pad_end_start
        THEN cells
        ELSE Blank(cells, start, to_do)

\* play_adjust_totals: what is left of the buffer at the end of the song
Excess(c, p, filled) ==
    IF c.play_forever THEN 0
    ELSE SmallerOf(NotNegative(p.play_position + filled - p.play_duration),
                   filled)

FinishRender ==
    /\ At("body")
    /\ Wanted = 0
    /\ LET filled == Len(buf)
           cells == PlayOpPadEnd(config, ps, PlayOpFade(config, ps, buf))
           kept == filled - Excess(config, ps, filled)
           done == ps.play_position + filled
       IN  /\ heard' = [at |-> ps.play_position,
                        cells |-> SubSeq(cells, 1, kept)]
           /\ ps' = [ps EXCEPT
                       !.fade_left = FadeLeft(config, ps, filled),
                       !.play_position =
                           IF config.play_forever THEN done
                           ELSE SmallerOf(done, ps.play_duration)]
    /\ task' = Idle
    /\ buf' = <<>>
    /\ UNCHANGED <<config, vgm, start_vgmstream, start_pstate, seek>>

-----------------------------------------------------------------------------
(* seek_vgmstream *)

IsLooped(v) == v.loop_flag \/ v.loop_target > 0

ClampSeek(t) ==
    IF t < 0 THEN 0
    ELSE IF ~config.play_forever /\ t > ps.play_duration
    THEN ps.play_duration ELSE t

\* seek_render's "ignore seek to current"
SeekToCurrent(t) ==
    /\ At("idle")
    /\ ClampSeek(t) = ps.play_position
    /\ heard' = NothingHeard
    /\ UNCHANGED <<config, vgm, start_vgmstream, ps, start_pstate, task, seek, buf>>

\* Seeks that only callers with a habit do (KeepsPromise fails with them): back
\* to before a fade that was heard, and back in a song with a loop target.
CallerSeeks(target) ==
    /\ ps.fade_left < ps.fade_duration /\ target < ps.fade_start
           => "seek before a spent fade" \in Habits
    /\ start_vgmstream.loop_target > 0 /\ target < ps.play_position
           => "seek back with an outro" \in Habits

\* seek_render_trim_begin and seek_render_pad_begin
StartSeek(t) ==
    LET target == ClampSeek(t)
        pad == SmallerOf(ps.pad_begin_duration, target)
        copy == [ps EXCEPT
                   !.trim_begin_left =
                       IF ps.trim_begin_duration > 0 THEN 0 ELSE @,
                   !.pad_begin_left =
                       IF ps.pad_begin_duration > 0
                       THEN ps.pad_begin_duration - pad ELSE @]
    IN  /\ At("idle")
        /\ target # ps.play_position
        /\ CallerSeeks(target)
        /\ config.play_forever => target <= MaxPosition
        /\ seek' = [target |-> target,
                    sample |-> target + ps.trim_begin_duration - pad,
                    ps_copy |-> copy]
        /\ ps' = copy
        /\ task' = [step |-> "seek", samples |-> 0, left |-> 0]
        /\ UNCHANGED <<config, vgm, start_vgmstream, start_pstate, buf, heard>>

\* Where seek_decode's cases go on: seek_force_render(n), then the end or
\* seek_decode's loop region part.
Skip(n) == task' = [step |-> "skip", samples |-> 0, left |-> n]
SkipIntro(n) == task' = [step |-> "skip_intro", samples |-> 0, left |-> n]

\* reset_vgmstream restores pstate too
ResetAll ==
    /\ vgm' = ResetVgmstream(vgm, start_vgmstream)
    /\ ps' = start_pstate

SeekOther == UNCHANGED <<config, start_vgmstream, start_pstate, seek, buf, heard>>

SeekDecodeToCurrent ==
    /\ At("seek")
    /\ seek.sample = vgm.current_sample
    /\ Skip(0)
    /\ UNCHANGED <<vgm, ps>>
    /\ SeekOther

SeekBack ==
    /\ At("seek")
    /\ ~IsLooped(vgm)
    /\ seek.sample < vgm.current_sample
    /\ ResetAll
    /\ Skip(seek.sample)
    /\ SeekOther

SeekForward ==
    /\ At("seek")
    /\ ~IsLooped(vgm)
    /\ seek.sample > vgm.current_sample
    /\ seek.sample < vgm.num_samples
    /\ Skip(seek.sample - vgm.current_sample)
    /\ UNCHANGED <<vgm, ps>>
    /\ SeekOther

SeekPastEnd ==
    /\ At("seek")
    /\ ~IsLooped(vgm)
    /\ seek.sample > vgm.current_sample
    /\ seek.sample >= vgm.num_samples
    /\ vgm' = [vgm EXCEPT !.current_sample = vgm.num_samples + 1]
    /\ Skip(0)
    /\ UNCHANGED ps
    /\ SeekOther

SeekIntroBack ==
    /\ At("seek")
    /\ IsLooped(vgm)
    /\ seek.sample < vgm.loop_start_sample
    /\ seek.sample < vgm.current_sample
    /\ ResetAll
    /\ Skip(seek.sample)
    /\ SeekOther

SeekIntroForward ==
    /\ At("seek")
    /\ IsLooped(vgm)
    /\ seek.sample < vgm.loop_start_sample
    /\ seek.sample > vgm.current_sample
    /\ Skip(seek.sample - vgm.current_sample)
    /\ UNCHANGED <<vgm, ps>>
    /\ SeekOther

\* "current must have reached loop start at some point, otherwise force it"
SeekLoop ==
    /\ At("seek")
    /\ IsLooped(vgm)
    /\ seek.sample >= vgm.loop_start_sample
    /\ seek.sample # vgm.current_sample
    /\ IF ~vgm.hit_loop /\ vgm.current_sample > vgm.loop_start_sample
       THEN ResetAll ELSE UNCHANGED <<vgm, ps>>
    /\ SkipIntro(IF vgm.hit_loop THEN 0
                 ELSE vgm.loop_start_sample - vgm'.current_sample)
    /\ SeekOther

ForceLoopEnd_Unsaved(v, loop_count) ==                            \* mutant
    DecodeDoLoop([v EXCEPT !.loop_count = loop_count - 1,
                           !.current_sample = v.loop_end_sample])
\* seek_decode_force_loop_end
ForceLoopEnd(v, loop_count) ==
    IF v.hit_loop
    THEN DecodeDoLoop([v EXCEPT !.loop_count = loop_count - 1,
                                !.current_sample = v.loop_end_sample])
    ELSE v

LoopCount_NoTarget(v, sample) ==                                  \* mutant
    (sample - v.loop_start_sample) \div LoopBody(v)
\* Place in the loop and number of loops of a decode sample; in the outro the
\* place counts from the start of the last loop.
LoopCount(v, sample) ==
    LET loops == (sample - v.loop_start_sample) \div LoopBody(v)
    IN  IF v.loop_target # 0 /\ loops >= v.loop_target
        THEN v.loop_target - 1 ELSE loops

LoopSeek(v, sample) ==
    (sample - v.loop_start_sample) - LoopCount(v, sample) * LoopBody(v)

SeekInLoop ==
    /\ At("skip_intro")
    /\ Wanted = 0
    /\ LET v == IF vgm.current_sample < vgm.loop_end_sample
                THEN ForceLoopEnd(vgm, 0) ELSE vgm
           loop_seek == LoopSeek(vgm, seek.sample)
           loop_count == LoopCount(vgm, seek.sample)
           loop_current == v.current_sample - v.loop_start_sample
       IN  IF loop_seek < loop_current
           THEN /\ vgm' = ForceLoopEnd(v, loop_count)
                /\ Skip(loop_seek)
           ELSE /\ vgm' = [v EXCEPT !.loop_count = loop_count]
                /\ Skip(loop_seek - loop_current)
    /\ UNCHANGED ps
    /\ SeekOther

\* Back in seek_render: the play state undone by resets, seek_render_pad_end,
\* seek_render_fade, and the new play position.  is_looped and is_body_end are
\* read before the seek, where loop_flag may differ but IsLooped does not.
FinishSeek ==
    LET p == seek.ps_copy
        fade_end == p.pad_begin_duration + p.body_duration + p.fade_duration
        in_fade == /\ ~config.play_forever
                   /\ vgm.loop_target = 0
                   /\ seek.target >= p.pad_begin_duration + p.body_duration
                   /\ seek.target < fade_end
        in_pad == /\ ~config.play_forever
                  /\ p.pad_end_duration > 0
                  /\ seek.target >= fade_end
    IN  /\ At("skip")
        /\ Wanted = 0
        /\ vgm' = IF in_pad /\ ~IsLooped(vgm)
                  THEN [vgm EXCEPT !.current_sample = vgm.num_samples + 1]
                  ELSE vgm
        /\ ps' = [p EXCEPT
                    !.fade_left = IF in_fade THEN fade_end - seek.target ELSE @,
                    !.play_position = seek.target]
        /\ task' = Idle
        /\ seek' = NoSeek
        /\ heard' = NothingHeard
        /\ UNCHANGED <<config, start_vgmstream, start_pstate, buf>>

-----------------------------------------------------------------------------
Reset ==
    /\ At("idle")
    /\ ResetAll
    /\ heard' = NothingHeard
    /\ UNCHANGED <<config, start_vgmstream, start_pstate, task, seek, buf>>

SeekDecode ==
    \/ SeekDecodeToCurrent
    \/ SeekBack
    \/ SeekForward
    \/ SeekPastEnd
    \/ SeekIntroBack
    \/ SeekIntroForward
    \/ SeekLoop
    \/ SeekInLoop

CallStep ==
    RenderLayout \/ PadBegin \/ FinishRender \/ SeekDecode \/ FinishSeek

Next ==
    \/ \E n \in 1 .. MaxBuf : StartRender(n)
    \/ \E t \in Seeks : StartSeek(t) \/ SeekToCurrent(t)
    \/ Reset
    \/ CallStep

\* A thread inside a call keeps running.
Spec == Init /\ [][Next]_vars /\ WF_vars(CallStep)

-----------------------------------------------------------------------------
PlayState ==
    [pad_begin_duration : Nat, trim_begin_duration : Nat, body_duration : Nat,
     fade_duration : Nat, pad_end_duration : Nat, play_duration : Nat,
     play_position : Nat, pad_begin_left : Nat, trim_begin_left : Nat,
     fade_left : Nat, fade_start : Nat, pad_end_start : Nat]

\* The configured stream, as Playback describes it.
Info ==
    [num_samples |-> start_vgmstream.num_samples,
     loop_flag |-> start_vgmstream.loop_flag,
     loop_start_sample |-> start_vgmstream.loop_start_sample,
     loop_end_sample |-> start_vgmstream.loop_end_sample,
     loop_target |-> start_vgmstream.loop_target,
     play_forever |-> config.play_forever,
     pad_begin_duration |-> start_pstate.pad_begin_duration,
     trim_begin_duration |-> start_pstate.trim_begin_duration,
     fade_start |-> start_pstate.fade_start,
     fade_duration |-> start_pstate.fade_duration,
     pad_end_start |-> start_pstate.pad_end_start,
     play_duration |-> start_pstate.play_duration]

\* The caller's position: a seek in progress may have reset pstate.
Position ==
    IF task.step \in {"idle", "trim", "body"}
    THEN ps.play_position ELSE seek.ps_copy.play_position

Promise == INSTANCE Playback WITH info <- Info, position <- Position

\* Whatever was rendered, sought and reset before, a call delivers the samples
\* of its position: silence, trims, loops, outro and fade where configured.
KeepsPromise == Promise!Spec

\* Songs that do not end in a fade, and have no trim or time of their own, end
\* with the last sample of the file: durations agree with what the decoder does
\* with loops and outro.
PlaysToTheEnd ==
    (/\ ~config.play_forever
     /\ config.body_time = 0
     /\ config.trim_end = 0
     /\ ~start_vgmstream.loop_flag \/ config.ignore_fade)
    =>
    \A i \in DOMAIN heard.cells :
        heard.at + i = start_pstate.pad_begin_duration
                         + start_pstate.body_duration
        /\ start_pstate.body_duration > 0
        => heard.cells[i].src = vgm.num_samples - 1

\* "will be restored on resets" (decode_do_loop): the loop is off in the outro
\* and nowhere else.
LoopOffOnlyInOutro ==
    start_vgmstream.loop_flag /\ ~vgm.loop_flag =>
        vgm.current_sample >= vgm.loop_end_sample

\* Every call returns: no loop, trim or seek target makes it spin.
CallsReturn == task.step # "idle" ~> task.step = "idle"
-----------------------------------------------------------------------------
(* Why the properties hold: the inductive invariant that Player_proofs      *)
(* proves.  What depends on the song only takes Info as a parameter.        *)

\* What was opened and configured, and the times that follow from it.
SongOK ==
    /\ Startable(start_vgmstream)
    /\ config \in ConfigRecord
    /\ start_pstate = SetupStateProcessing(start_vgmstream, config)
    /\ config.ignore_fade => config.fade_time = 0 /\ config.fade_delay = 0
    /\ start_vgmstream.loop_target =
           IF config.ignore_fade /\ start_vgmstream.loop_flag
           THEN config.loop_count \div 2 ELSE 0

\* A pstate has the song's times, and never more left of them.
TimesOK(info, p) ==
    /\ p \in PlayState
    /\ p.pad_begin_duration = info.pad_begin_duration
    /\ p.trim_begin_duration = info.trim_begin_duration
    /\ p.pad_begin_duration + p.body_duration = info.fade_start
    /\ p.fade_duration = info.fade_duration
    /\ p.fade_start = info.fade_start
    /\ p.pad_end_start = info.pad_end_start
    /\ p.play_duration = info.play_duration
    /\ info.play_duration <= p.pad_end_start + p.pad_end_duration
    /\ p.pad_begin_left <= p.pad_begin_duration
    /\ p.trim_begin_left <= p.trim_begin_duration
    /\ p.fade_left <= p.fade_duration
    /\ info.play_forever \/ p.play_position <= p.play_duration

CellRecord == [src : Nat \cup {Silence}, fade : Nat]

\* Something sounds at q, and it is not the end padding of a song without loop,
\* where a seek parks the head past the end.
Live(info, q) == info.play_forever \/ q < info.play_duration
HeadMatters(info, q) ==
    /\ Live(info, q)
    /\ info.play_forever \/ q < info.pad_end_start \/ info.loop_flag

PadLeft(info, q) == NotNegative(info.pad_begin_duration - q)

\* Where in the unrolled stream the output position q is.
DecodePosition(info, q) ==
    info.trim_begin_duration + NotNegative(q - info.pad_begin_duration)

\* What is left of the fade at a position is known there and later.
FadeOK(info, p) ==
    ~info.play_forever /\ Live(info, p.play_position) =>
        /\ p.play_position <= info.fade_start => p.fade_left = info.fade_duration
        /\ info.fade_start <= p.play_position /\ p.play_position < info.pad_end_start
             => p.fade_left = info.pad_end_start - p.play_position

\* A sample in the buffer before the fade and the end padding are applied.
CellOK(info, q, cell) ==
    /\ cell.fade = 0
    /\ q < info.pad_begin_duration => cell.src = Silence
    /\ q >= info.pad_begin_duration /\ (info.play_forever \/ q < info.pad_end_start) =>
           IF cell.src = Silence
           THEN IsOver(info, DecodePosition(info, q))
           ELSE IsSource(info, DecodePosition(info, q), cell.src)

\* seek_vgmstream moved the head of a song without loop past the end.
Parked(start, v) ==
    /\ v \in VgmRecord
    /\ SameStream(start, v)
    /\ ~start.loop_flag
    /\ ~v.loop_flag
    /\ v.current_sample = v.num_samples + 1

HeadSomewhere(start, v) == HeadOK(start, v) \/ Parked(start, v)

TaskOK ==
    /\ task \in [step : {"idle", "trim", "body", "seek", "skip_intro", "skip"},
                 samples : Nat, left : Nat]
    /\ At("trim") \/ At("body") => task.samples \in 1 .. MaxBuf
    /\ buf \in Seq(CellRecord)
    /\ ~At("body") => buf = <<>>

\* Between and within renders the head, the play state and the samples of the
\* buffer are where the position says.
PlayingOK ==
    LET p == ps.play_position
        padded == IF At("body") THEN p + task.samples ELSE p
    IN  /\ FadeOK(Info, ps)
        /\ ps.trim_begin_left > 0 => p = 0 /\ ~At("body")
        /\ HeadMatters(Info, p) =>
               HeadAt(start_vgmstream, vgm,
                      DecodePosition(Info, p + Len(buf)) - ps.trim_begin_left)
        /\ Live(Info, p) => ps.pad_begin_left = PadLeft(Info, padded)
        /\ At("body") => Len(buf) <= task.samples
        /\ At("body") /\ Live(Info, p) =>
               /\ SmallerOf(PadLeft(Info, p), task.samples) <= Len(buf)
               /\ \A i \in 1 .. Len(buf) : CellOK(Info, p + i - 1, buf[i])

\* Jumps back so far fit in the sample that is sought, if they are limited.
NotPast(start, v, sample) ==
    start.loop_target > 0 =>
        v.current_sample + JumpsBack(start, v) * LoopBody(start) <= sample

\* What seek_render worked out, the same until the seek returns.
SeekTargetOK ==
    /\ \E t \in Seeks : seek.target = Promise!Clamped(t)
    /\ seek.target \in Nat
    /\ seek.sample = DecodePosition(Info, seek.target)
    /\ TimesOK(Info, seek.ps_copy)
    /\ seek.ps_copy.trim_begin_left = 0
    /\ seek.ps_copy.pad_begin_left = PadLeft(Info, seek.target)
    /\ seek.target < Info.fade_start =>
           seek.ps_copy.fade_left = seek.ps_copy.fade_duration

\* Within a seek the head is at the target, less what is still to skip.
SeekingOK ==
    /\ SeekTargetOK
    /\ At("seek") \/ At("skip_intro") =>
           NotPast(start_vgmstream, vgm, seek.sample)
    /\ At("skip_intro") =>
           /\ HeadOK(start_vgmstream, vgm)
           /\ start_vgmstream.loop_flag
           /\ seek.sample >= vgm.loop_start_sample
           /\ IF vgm.hit_loop THEN task.left = 0
              ELSE vgm.current_sample + task.left = vgm.loop_start_sample
    /\ At("skip") =>
           /\ task.left <= seek.sample
           /\ HeadAt(start_vgmstream, vgm, seek.sample - task.left)

HeardOK ==
    /\ heard \in [at : Nat, cells : Seq(CellRecord)]
    /\ \A i \in DOMAIN heard.cells :
          Promise!Sounds(heard.at + i - 1, heard.cells[i])

PlayerInv ==
    /\ SongOK
    /\ TimesOK(Info, ps)
    /\ HeadSomewhere(start_vgmstream, vgm)
    /\ TaskOK
    /\ IF task.step \in {"idle", "trim", "body"} THEN PlayingOK ELSE SeekingOK
    /\ HeardOK
=============================================================================
