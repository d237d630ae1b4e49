------------------------------ MODULE VgmDecode ------------------------------
(***************************************************************************)
(* The decode part of a VGMSTREAM, as operators on a record whose fields    *)
(* keep the names of the C struct:                                          *)
(*                                                                          *)
(*   num_samples, loop_start_sample, loop_end_sample, frame, codec_data     *)
(*       what the format's parser read from the file                        *)
(*   loop_flag, loop_target    what the play config made of it              *)
(*   current_sample, samples_into_block, loop_count, hit_loop               *)
(*       the play head                                                      *)
(*   ch        the decoder itself (channels or codec), abstracted to the    *)
(*             index of the sample it would decode next                     *)
(*   loop_ch, loop_current_sample, loop_samples_into_block                  *)
(*       what was saved when the loop start was reached                     *)
(*                                                                          *)
(* `frame` is the codec's samples per frame.  `codec_data` tells codecs     *)
(* that are moved with decode_seek from those whose whole state is in ch.   *)
(* The module declares no variables: FlatRender and Player both use it.     *)
(*                                                                          *)
(* Here and in the other modules, Op_Mistake marked `mutant` is Op with a   *)
(* plausible bug, which some property must tell from Op; nothing uses it.   *)
(***************************************************************************)
EXTENDS Integers

-----------------------------------------------------------------------------
(* vgmstream.c: setup, forced loops, reset *)

BadLoop_NegativeAllowed(v) ==                                     \* mutant
    \/ v.loop_end_sample <= v.loop_start_sample
    \/ v.loop_end_sample > v.num_samples

BadLoop(v) ==
    \/ v.loop_end_sample <= v.loop_start_sample
    \/ v.loop_end_sample > v.num_samples
    \/ v.loop_start_sample < 0

\* The sanitising part of setup_vgmstream; the caller keeps the result as the
\* start_vgmstream snapshot.
SetupVgmstream(v) ==
    IF v.loop_flag /\ BadLoop(v)
    THEN [v EXCEPT !.loop_flag = FALSE,
                   !.loop_start_sample = 0,
                   !.loop_end_sample = 0]
    ELSE v

ForceLoop(v, flag, loop_start, loop_end) ==
    IF flag /\ \/ loop_start < 0
               \/ loop_start > loop_end
               \/ loop_end > v.num_samples
    THEN v
    ELSE SetupVgmstream(
           [v EXCEPT
              !.loop_flag = flag,
              !.loop_start_sample = IF flag THEN loop_start ELSE @,
              !.loop_end_sample = IF flag THEN loop_end ELSE @])

SetLoopTarget(v, target) ==
    IF v.loop_flag
    THEN SetupVgmstream([v EXCEPT !.loop_target = target])
    ELSE v

\* calloc'ed VGMSTREAM after the parser filled it and prepare_vgmstream ran.
\* prepare_vgmstream also clears the loop points of streams that do not loop.
NewVgmstream(file) ==
    LET v == SetupVgmstream(
               [num_samples |-> file.num_samples,
                loop_start_sample |-> file.loop_start_sample,
                loop_end_sample |-> file.loop_end_sample,
                loop_flag |-> file.loop_flag,
                frame |-> file.frame,
                codec_data |-> file.codec_data,
                loop_target |-> 0,
                current_sample |-> 0,
                samples_into_block |-> 0,
                loop_count |-> 0,
                hit_loop |-> FALSE,
                ch |-> 0,
                loop_ch |-> 0,
                loop_current_sample |-> 0,
                loop_samples_into_block |-> 0])
    IN  IF v.loop_flag
        THEN v
        ELSE [v EXCEPT !.loop_start_sample = 0, !.loop_end_sample = 0]

ResetVgmstream_LoopStaysOff(v, start) ==                          \* mutant
    [start EXCEPT !.loop_ch = v.loop_ch, !.loop_flag = v.loop_flag]

\* reset_vgmstream copies the snapshot back; loop_ch is a pointer, so what it
\* points to survives the copy.
ResetVgmstream(v, start) == [start EXCEPT !.loop_ch = v.loop_ch]

\* setup_state_modifiers: which loop the play config c asks for.
ForcedLoops(v, c) ==
    LET really  == IF c.really_force_loop
                   THEN ForceLoop(v, TRUE, 0, v.num_samples) ELSE v
        forced  == IF c.force_loop /\ ~really.loop_flag
                   THEN ForceLoop(really, TRUE, 0, v.num_samples) ELSE really
    IN  IF c.ignore_loop THEN ForceLoop(forced, FALSE, 0, 0) ELSE forced

\* play_forever needs a loop, and cancels ignore_fade.
PlayForever(v, c) == c.play_forever /\ ForcedLoops(v, c).loop_flag
IgnoreFade(v, c)  == c.ignore_fade /\ ~PlayForever(v, c)

SetupStateModifiers(v, c) ==
    IF IgnoreFade(v, c)
    THEN SetLoopTarget(ForcedLoops(v, c), c.loop_count \div 2)
    ELSE ForcedLoops(v, c)

-----------------------------------------------------------------------------
(* decode.c: the loop machine *)

AtLoopEnd(v)   == v.current_sample = v.loop_end_sample
AtLoopStart(v) == v.current_sample = v.loop_start_sample

TargetReached_Late(v) ==                                          \* mutant
    v.loop_target # 0 /\ v.loop_target = v.loop_count
TargetReached(v) == v.loop_target # 0 /\ v.loop_target = v.loop_count + 1

EndLooping(v) == [v EXCEPT !.loop_count = @ + 1, !.loop_flag = FALSE]

RestoreLoop(v) ==
    [v EXCEPT
       !.loop_count = @ + 1,
       !.ch = IF v.codec_data THEN v.loop_current_sample ELSE v.loop_ch,
       !.current_sample = v.loop_current_sample,
       !.samples_into_block = v.loop_samples_into_block]

SaveLoop_NotBlock(v) ==                                           \* mutant
    [v EXCEPT
       !.loop_ch = v.ch,
       !.loop_current_sample = v.current_sample,
       !.hit_loop = TRUE]

SaveLoop(v) ==
    [v EXCEPT
       !.loop_ch = v.ch,
       !.loop_current_sample = v.current_sample,
       !.loop_samples_into_block = v.samples_into_block,
       !.hit_loop = TRUE]

DecodeDoLoop(v) ==
    IF AtLoopEnd(v) THEN
        IF TargetReached(v) THEN EndLooping(v) ELSE RestoreLoop(v)
    ELSE
        IF ~v.hit_loop /\ AtLoopStart(v) THEN SaveLoop(v) ELSE v

\* decode_do_loop returned true
Looped(v) == v.loop_flag /\ AtLoopEnd(v) /\ ~TargetReached(v)

\* The check at the head of every layout's loop.
LoopCheck(v) == IF v.loop_flag THEN DecodeDoLoop(v) ELSE v

SamplesUpToLoopPoint_Again(v, this_block) ==                      \* mutant
    LET left  == this_block - v.samples_into_block
        after == v.current_sample + left
    IN  IF v.loop_flag /\ after > v.loop_start_sample
        THEN v.loop_start_sample - v.current_sample
        ELSE IF v.loop_flag /\ after > v.loop_end_sample
        THEN v.loop_end_sample - v.current_sample
        ELSE left

\* this_block: samples of the layout's current block (flat: the whole stream)
SamplesUpToLoopPoint(v, this_block) ==
    LET left  == this_block - v.samples_into_block
        after == v.current_sample + left
    IN  IF v.loop_flag /\ after > v.loop_start_sample /\ ~v.hit_loop
        THEN v.loop_start_sample - v.current_sample
        ELSE IF v.loop_flag /\ after > v.loop_end_sample
        THEN v.loop_end_sample - v.current_sample
        ELSE left

DecodeGetSamplesToDo_AnyFrame(v, this_block, per_frame) ==        \* mutant
    SamplesUpToLoopPoint(v, this_block)

\* per_frame: samples of the codec's frame
DecodeGetSamplesToDo(v, this_block, per_frame) ==
    LET into  == v.samples_into_block % per_frame
        to_do == SamplesUpToLoopPoint(v, this_block)
    IN  IF per_frame > 1 /\ into + to_do > per_frame
        THEN per_frame - into
        ELSE to_do

\* decode_vgmstream always produces what it was asked for, from where the
\* decoder stands.
DecodeVgmstream(v, n) ==
    [v EXCEPT !.ch = @ + n,
              !.current_sample = @ + n,
              !.samples_into_block = @ + n]

SmallerOf(a, b) == IF a <= b THEN a ELSE b

FlatSamplesToDo_NoRoom(v, room) ==                                \* mutant
    DecodeGetSamplesToDo(LoopCheck(v), v.num_samples, v.frame)

\* samples_to_do of one iteration of render_layout_flat with `room` samples
\* left in the buffer
FlatSamplesToDo(v, room) ==
    LET u == LoopCheck(v)
    IN  SmallerOf(DecodeGetSamplesToDo(u, u.num_samples, u.frame), room)

-----------------------------------------------------------------------------
(* render.c: what render_layout adds to every layout *)

PastEnd(v) == v.current_sample > v.num_samples

\* "decode past stream samples: blank rest of buf", of which the layout filled
\* sample_count; the place is counted from the start of the buffer.
BlankExcess(v, cells, sample_count, blank) ==
    LET excess == SmallerOf(v.current_sample - v.num_samples, sample_count)
        decoded == sample_count - excess
    IN  IF PastEnd(v)
        THEN [i \in DOMAIN cells |->
                IF i > decoded /\ i <= sample_count THEN blank ELSE cells[i]]
        ELSE cells
=============================================================================
