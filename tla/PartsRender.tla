------------------------------ MODULE PartsRender ------------------------------
(***************************************************************************)
(* A VGMSTREAM made of others: segments that follow each other, or layers   *)
(* that sound together.  The whole has a play head and a loop machine of    *)
(* its own, and so has each part.  Segments do not loop (the whole does     *)
(* it); layers loop by themselves, in step with the whole; and a seek sets  *)
(* all heads by hand instead of decoding up to the place.  The heads must   *)
(* agree after any mix of calls.                                            *)
(*                                                                          *)
(* The parts have the flat layout and no play config; FlatRender is about   *)
(* what goes on inside of one.  The whole is what render_main and           *)
(* seek_render (in Player) call the layout part of.                         *)
(***************************************************************************)
EXTENDS VgmDecode, Timeline, Sequences, SequencesExt

CONSTANTS
    Files,        \* segmented and layered files
    LoopTargets,  \* 0 for none
    Sizes,        \* buffer sizes a caller asks for
    Seeks,        \* positions a caller seeks to
    MaxPosition,  \* bound on the position in the unrolled song
    Habits        \* seeks that the code gets wrong

\* order: which part each segment is (one part may be there more than once);
\* loop: first and last segment of the loop, <<>> for none;
\* forced: loop points set from outside, <<>> for none.
FilesAssumption ==
    \A f \in Files :
        /\ f.layout \in {"segmented", "layered"}
        /\ f.order \in Seq(DOMAIN f.parts)
        /\ f.layout = "layered" => f.order = [i \in DOMAIN f.parts |-> i]
ASSUME FilesAssumption
ASSUME SizesAssumption == Sizes \subseteq Nat \ {0}
ASSUME SeeksAssumption == Seeks \subseteq Nat
ASSUME HabitsAssumption ==
    Habits \subseteq {"seek into looping layers", "seek with a loop target"}

VARIABLES
    file,       \* what does not change after opening
    stream,     \* the whole: vgm, the parts' VGMSTREAMs, current_segment
    start,      \* snapshots of the whole and the parts
    rendering,  \* inside render_layout
    sbuf,       \* buffer being filled
    position,   \* history: where in the unrolled song the next sample is
    heard       \* history: what the last call delivered

vars == <<file, stream, start, rendering, sbuf, position, heard>>

Segmented(f) == f.layout = "segmented"

-----------------------------------------------------------------------------
(* Opening: setup_layout_* and allocate_*_vgmstream (layout_utils.c)         *)

\* loop_ch of a part that never was at its loop start: nothing of use
Unsaved == -100

OpenPart(f, p) ==
    LET v == [NewVgmstream(p) EXCEPT !.loop_ch = Unsaved]
    IN  IF Segmented(f) THEN [v EXCEPT !.loop_flag = FALSE] ELSE v

\* vgmstream_get_samples of what is without config
Samples(f, i) == f.parts[f.order[i]].num_samples

Before(f, i) ==
    FoldSeq(LAMBDA p, sum : sum + f.parts[p].num_samples, 0,
            SubSeq(f.order, 1, i - 1))

LargestOf(S) == CHOOSE n \in S : \A m \in S : m <= n

Whole(num_samples, loop_flag, loop_start, loop_end) ==
    [NewVgmstream(
        [num_samples |-> num_samples, loop_flag |-> loop_flag,
         loop_start_sample |-> loop_start, loop_end_sample |-> loop_end,
         frame |-> 1, codec_data |-> FALSE]) EXCEPT !.loop_ch = Unsaved]

AllocateSegmented(f) ==
    LET n == Len(f.order)
    IN  Whole(Before(f, n + 1), f.loop # <<>>,
              IF f.loop # <<>> THEN Before(f, f.loop[1]) ELSE 0,
              IF f.loop # <<>> THEN Before(f, f.loop[2] + 1) ELSE 0)

\* Layers loop together or not at all (the points may differ by 1024 samples in
\* the code, and are equal here).
AllocateLayered(f, parts) ==
    LET loops == \A i \in DOMAIN parts :
                    /\ parts[i].loop_flag
                    /\ parts[i].loop_start_sample = parts[1].loop_start_sample
                    /\ parts[i].loop_end_sample = parts[1].loop_end_sample
    IN  Whole(LargestOf({parts[i].num_samples : i \in DOMAIN parts}), loops,
              parts[1].loop_start_sample, parts[1].loop_end_sample)

\* vgmstream_force_loop and vgmstream_set_loop_target do the same to layers.
ForceLoops(f, s) ==
    LET Forced(v) == ForceLoop(v, TRUE, f.forced[1], f.forced[2])
    IN  IF f.forced = <<>> THEN s
        ELSE [s EXCEPT !.vgm = Forced(@),
                       !.parts = IF Segmented(f) THEN @
                                 ELSE [i \in DOMAIN @ |-> Forced(@[i])]]

SetTargets(f, s, target) ==
    IF ~s.vgm.loop_flag THEN s
    ELSE [s EXCEPT !.vgm = SetLoopTarget(@, target),
                   !.parts = IF Segmented(f) THEN @
                             ELSE [i \in DOMAIN @ |-> SetLoopTarget(@[i], target)]]

OpenStream(f, target) ==
    LET parts == [i \in DOMAIN f.parts |-> OpenPart(f, f.parts[i])]
        whole == IF Segmented(f) THEN AllocateSegmented(f)
                 ELSE AllocateLayered(f, parts)
    IN  SetTargets(f, ForceLoops(f, [vgm |-> whole, parts |-> parts,
                                     current_segment |-> 1]), target)

-----------------------------------------------------------------------------
(* A part's calls run to their end: render_main without config, seek_simple. *)

Silence == -1
Silent(n) == [i \in 1 .. n |-> Silence]
Decoded(src, n) == [i \in 1 .. n |-> src + i - 1]

RECURSIVE RenderPart(_, _)
RenderPart(v, n) ==
    IF n = 0 THEN [v |-> v, cells |-> <<>>]
    ELSE IF PastEnd(v) THEN [v |-> v, cells |-> Silent(n)]
    ELSE IF Looped(v) THEN RenderPart(LoopCheck(v), n)
    ELSE LET u == LoopCheck(v)
             to_do == FlatSamplesToDo(v, n)
             rest == RenderPart(DecodeVgmstream(u, to_do), n - to_do)
         IN  IF to_do <= 0 THEN [v |-> u, cells |-> Silent(n)]
             ELSE [rest EXCEPT !.cells = Decoded(u.ch, to_do) \o @]

SeekPart(v, first, t) ==
    IF t < v.current_sample
    THEN RenderPart(ResetVgmstream(v, first), t).v
    ELSE RenderPart(v, t - v.current_sample).v

-----------------------------------------------------------------------------
(* layered.c, segmented.c: seeks and loops of all heads *)

ResetParts(s) ==
    [s EXCEPT !.parts = [i \in DOMAIN @ |->
                            ResetVgmstream(@[i], start.parts[i])]]

ResetSegments_KeepsCurrent(s) == ResetParts(s)                    \* mutant
ResetSegments(s) == [ResetParts(s) EXCEPT !.current_segment = 1]

\* reset_vgmstream of the whole
ResetAll(s) ==
    LET r == [s EXCEPT !.vgm = ResetVgmstream(@, start.vgm)]
    IN  IF Segmented(file) THEN ResetSegments(r) ELSE ResetParts(r)

AtPlace(s, sample, into) ==
    [s EXCEPT !.vgm.current_sample = sample, !.vgm.samples_into_block = into]

SeekLayoutSegmented(s, t) ==
    LET found == {i \in DOMAIN file.order :
                    /\ t >= Before(file, i)
                    /\ t < Before(file, i) + Samples(file, i)}
        i == CHOOSE j \in found : TRUE
        p == file.order[i]
        into == t - Before(file, i)
    IN  IF found = {} THEN s
        ELSE AtPlace([s EXCEPT !.current_segment = i,
                               !.parts[p] = SeekPart(@, start.parts[p], into)],
                     t, into)

SeekLayoutLayered(s, t) ==
    AtPlace([s EXCEPT !.parts = [i \in DOMAIN @ |->
                                   SeekPart(@[i], start.parts[i], t)]],
            t, t)

\* Layers that loop are made to, at the place the whole does; "guaranteed to work
\* should loop_layout be called".
LoopLayer(v, first, t) ==
    IF v.loop_flag
    THEN DecodeDoLoop([v EXCEPT !.current_sample = v.loop_end_sample])
    ELSE SeekPart(v, first, t)

LoopLayoutLayered(s, t) ==
    AtPlace([s EXCEPT !.parts = [i \in DOMAIN @ |->
                                   LoopLayer(@[i], start.parts[i], t)]],
            t, t)

SeekParts(s, t) ==
    IF Segmented(file) THEN SeekLayoutSegmented(s, t) ELSE SeekLayoutLayered(s, t)

LoopParts(s, t) ==
    IF Segmented(file) THEN SeekLayoutSegmented(s, t) ELSE LoopLayoutLayered(s, t)

-----------------------------------------------------------------------------
(* One iteration of the loops of render_layout_segmented and _layered, with   *)
(* `room` samples left of a buffer of `size`                                  *)

Blank == <<>>
Blanks(n) == [i \in 1 .. n |-> Blank]

More(s, cells) == [s |-> s, cells |-> cells, failed |-> FALSE]
LayoutError(s) == [s |-> s, cells |-> <<>>, failed |-> TRUE]

LoopAll(s) ==
    LET looped == [s EXCEPT !.vgm = LoopCheck(@)]
    IN  More(LoopParts(looped, looped.vgm.loop_current_sample), <<>>)

Advanced(s, n) ==
    [s EXCEPT !.vgm.current_sample = @ + n, !.vgm.samples_into_block = @ + n]

NextSegment_NoReset(s) ==                                         \* mutant
    [s EXCEPT !.current_segment = @ + 1, !.vgm.samples_into_block = 0]

\* "in case of looping spanning multiple segments"
NextSegment(s) ==
    LET p == file.order[s.current_segment + 1]
    IN  [s EXCEPT !.current_segment = @ + 1,
                  !.parts[p] = ResetVgmstream(@, start.parts[p]),
                  !.vgm.samples_into_block = 0]

\* (Both take a stream whose loop was checked, and did not go back.)
SegmentIteration(s, room, size) ==
    LET here == s.current_segment
        p == file.order[here]
        to_do == SmallerOf(DecodeGetSamplesToDo(s.vgm, Samples(file, here), size),
                           room)
        part == RenderPart(s.parts[p], to_do)
    IN  IF s.vgm.samples_into_block >= Samples(file, here)
        THEN IF here = Len(file.order)
             THEN LayoutError([s EXCEPT !.current_segment = @ + 1])
             ELSE More(NextSegment(s), <<>>)
        ELSE IF to_do < 0 THEN LayoutError(s)
        ELSE More(Advanced([s EXCEPT !.parts[p] = part.v], to_do),
                  [j \in 1 .. to_do |-> <<here, part.cells[j]>>])

LayersIteration_ZeroIsOk(s, room) ==                              \* mutant
    LET to_do == SmallerOf(DecodeGetSamplesToDo(s.vgm, s.vgm.num_samples, 1), room)
    IN  IF to_do < 0 THEN LayoutError(s)
        ELSE More(Advanced(s, to_do), Blanks(to_do))

LayersIteration(s, room) ==
    LET to_do == SmallerOf(DecodeGetSamplesToDo(s.vgm, s.vgm.num_samples, 1), room)
        parts == [i \in DOMAIN s.parts |-> RenderPart(s.parts[i], to_do)]
    IN  IF to_do <= 0 THEN LayoutError(s)
        ELSE More(Advanced([s EXCEPT !.parts =
                                      [i \in DOMAIN @ |-> parts[i].v]], to_do),
                  [j \in 1 .. to_do |->
                      [i \in DOMAIN s.parts |-> parts[i].cells[j]]])

NoSegment(s) == Segmented(file) /\ s.current_segment > Len(file.order)

Iteration(s, room, size) ==
    LET checked == [s EXCEPT !.vgm = LoopCheck(@)]
    IN  IF Looped(s.vgm) THEN LoopAll(s)
        ELSE IF Segmented(file) THEN SegmentIteration(checked, room, size)
        ELSE LayersIteration(checked, room)

\* seek_force_render: all of a call's iterations, and what they decode is dropped.
RECURSIVE ForceRender(_, _, _)
ForceRender(s, left, size) ==
    IF left = 0 \/ PastEnd(s.vgm) \/ NoSegment(s) THEN s
    ELSE LET it == Iteration(s, left, size)
         IN  IF it.failed THEN it.s
             ELSE ForceRender(it.s, left - Len(it.cells), size)

-----------------------------------------------------------------------------
(* seek.c: seek_layout_custom *)

IsLooped(v) == v.loop_flag \/ v.loop_target > 0

LoopsTo(v, t) == (t - v.loop_start_sample) \div LoopBody(v)
InOutro(v, t) == v.loop_target # 0 /\ LoopsTo(v, t) >= v.loop_target

\* In the outro the place counts from the start of the last loop.
LoopCount(v, t) == IF InOutro(v, t) THEN v.loop_target - 1 ELSE LoopsTo(v, t)
LoopSeek(v, t) == (t - v.loop_start_sample) - LoopCount(v, t) * LoopBody(v)

\* seek_decode right after the reset, to a place after the loop start: up to the
\* loop start and on (hit_loop is for the next iteration to set, so nothing is
\* forced).
SeekDecodeOutro(s, t) ==
    LET v == s.vgm
        up_to_loop == ForceRender(s, v.loop_start_sample, v.loop_start_sample)
        counted == [up_to_loop EXCEPT !.vgm.loop_count = LoopCount(v, t)]
    IN  ForceRender(counted, LoopSeek(v, t), LoopSeek(v, t))

SeekLoop_Unsaved(s, t) ==                                         \* mutant
    LET loop_start == s.vgm.loop_start_sample
        looped == LoopParts(SeekParts(s, loop_start), loop_start)
        sought == SeekParts(looped, loop_start + LoopSeek(s.vgm, t))
    IN  [sought EXCEPT !.vgm.loop_count = LoopCount(s.vgm, t)]

\* decode_do_loop: "ugly but needed to loop after seeking due to how layout works"
SeekLoop(s, t) ==
    LET loop_start == s.vgm.loop_start_sample
        at_loop == SeekParts(s, loop_start)
        saved == [at_loop EXCEPT !.vgm = DecodeDoLoop(@)]
        looped == LoopParts(saved, loop_start)
        sought == SeekParts(looped, loop_start + LoopSeek(s.vgm, t))
    IN  [sought EXCEPT !.vgm.loop_count = LoopCount(s.vgm, t)]

SeekLayoutCustom(s, t) ==
    LET v == s.vgm
        reset == ResetAll(s)
    IN  IF ~IsLooped(v) /\ t >= v.num_samples
        THEN [s EXCEPT !.vgm.current_sample = v.num_samples + 1]
        ELSE IF ~IsLooped(v) \/ t < v.loop_start_sample
        THEN SeekParts(reset, t)
        ELSE IF InOutro(v, t) /\ Segmented(file)
        THEN SeekDecodeOutro(reset, t)
        ELSE SeekLoop(reset, t)

-----------------------------------------------------------------------------
NoBuffer == [samples |-> 0, cells |-> <<>>]
Room == sbuf.samples - Len(sbuf.cells)
NothingHeard == [at |-> 0, cells |-> <<>>]

Init ==
    /\ file \in Files
    /\ \E target \in LoopTargets : stream = OpenStream(file, target)
    /\ start = [vgm |-> stream.vgm, parts |-> stream.parts]
    /\ rendering = FALSE
    /\ sbuf = NoBuffer
    /\ position = 0
    /\ heard = NothingHeard

StartRender(n) ==
    /\ ~rendering
    /\ position + n <= MaxPosition
    /\ rendering' = TRUE
    /\ sbuf' = [samples |-> n, cells |-> <<>>]
    /\ heard' = NothingHeard
    /\ UNCHANGED <<file, stream, start, position>>

Return(cells) ==
    /\ heard' = [at |-> position, cells |-> cells]
    /\ position' = position + sbuf.samples
    /\ rendering' = FALSE
    /\ sbuf' = NoBuffer
    /\ UNCHANGED <<file, start>>

\* Nothing to decode, or no segment: found at the start of a call.
RenderNothing ==
    /\ rendering
    /\ sbuf.cells = <<>>
    /\ PastEnd(stream.vgm) \/ NoSegment(stream)
    /\ Return(Blanks(sbuf.samples))
    /\ UNCHANGED stream

RenderIteration ==
    /\ rendering
    /\ Room > 0
    /\ ~PastEnd(stream.vgm)
    /\ ~NoSegment(stream)
    /\ LET it == Iteration(stream, Room, sbuf.samples)
       IN  /\ stream' = it.s
           /\ IF it.failed
              THEN Return(sbuf.cells \o Blanks(Room))
              ELSE /\ sbuf' = [sbuf EXCEPT !.cells = @ \o it.cells]
                   /\ UNCHANGED <<file, start, rendering, position, heard>>

EndRender ==
    /\ rendering
    /\ Room = 0
    /\ Return(BlankExcess(stream.vgm, sbuf.cells, sbuf.samples, Blank))
    /\ UNCHANGED stream

\* Layers that loop and keep their codec's state in the channels, which the loop
\* start saves.
LoopsSavedState(v) == v.loop_flag /\ ~v.codec_data

\* Seeks that only callers with a habit do (PlaysTheParts tells what goes wrong).
CallerSeeks(t) ==
    LET v == stream.vgm
        into_loop == IsLooped(v) /\ t >= v.loop_start_sample
        saved == \E i \in DOMAIN start.parts : LoopsSavedState(start.parts[i])
        targeted == ~Segmented(file) /\ v.loop_target > 0
    IN  /\ (into_loop /\ saved) => "seek into looping layers" \in Habits
        /\ (into_loop /\ targeted) => "seek with a loop target" \in Habits

Seek(t) ==
    /\ ~rendering
    /\ CallerSeeks(t)
    /\ stream' = SeekLayoutCustom(stream, t)
    /\ position' = t
    /\ heard' = NothingHeard
    /\ UNCHANGED <<file, start, rendering, sbuf>>

Reset ==
    /\ ~rendering
    /\ stream' = ResetAll(stream)
    /\ position' = 0
    /\ heard' = NothingHeard
    /\ UNCHANGED <<file, start, rendering, sbuf>>

RenderStep == RenderNothing \/ RenderIteration \/ EndRender

Next ==
    \/ \E n \in Sizes : StartRender(n)
    \/ RenderNothing
    \/ RenderIteration
    \/ EndRender
    \/ \E t \in Seeks : Seek(t)
    \/ Reset

\* A thread that is inside render_layout keeps running.
Spec == Init /\ [][Next]_vars /\ WF_vars(RenderStep)

-----------------------------------------------------------------------------
Song == start.vgm

\* What the file has at sample s: of the segment that is there, or of each layer.
CellAt(f, s) ==
    IF Segmented(f)
    THEN LET i == CHOOSE j \in DOMAIN f.order :
                     s >= Before(f, j) /\ s < Before(f, j) + Samples(f, j)
         IN  <<i, s - Before(f, i)>>
    ELSE [i \in DOMAIN f.parts |->
            IF s < f.parts[i].num_samples THEN s ELSE Silence]

SoundsAt(t, cell) ==
    IF cell = Blank THEN IsOver(Song, t)
    ELSE \E s \in 0 .. Song.num_samples - 1 :
            IsSource(Song, t, s) /\ cell = CellAt(file, s)

\* What a call hands over at position t of the unrolled song is what the segments,
\* one after the other, or all layers at once, have there: however the position
\* was reached (rendering in any sizes, loops of the whole and of the layers,
\* loops over several segments, seeks into intro, loops, outro and past the end).
PlaysTheParts ==
    \A i \in DOMAIN heard.cells : SoundsAt(heard.at + i - 1, heard.cells[i])

\* Every call returns: no iteration renders nothing and changes nothing ("0 is
\* ok?" asks segmented.c).
RenderReturns == rendering ~> ~rendering
=============================================================================
