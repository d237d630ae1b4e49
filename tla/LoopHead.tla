------------------------------- MODULE LoopHead -------------------------------
(***************************************************************************)
(* Where the play head of a VGMSTREAM may be, and where that is in the      *)
(* unrolled stream: what the inductive invariants of FlatRender, Player and *)
(* InterleaveRender say of the loop machine.                                *)
(*                                                                          *)
(* Everything takes the snapshot start_vgmstream and the VGMSTREAM as       *)
(* parameters, since it also holds half way through a step.                 *)
(***************************************************************************)
EXTENDS VgmDecode, Timeline

\* What parsers may hand to prepare_vgmstream.
FileRecord ==
    [num_samples : Nat \ {0}, loop_start_sample : Int, loop_end_sample : Int,
     loop_flag : BOOLEAN, frame : Nat \ {0}, codec_data : BOOLEAN]

VgmRecord ==
    [num_samples : Nat \ {0}, loop_start_sample : Nat, loop_end_sample : Nat,
     loop_flag : BOOLEAN, frame : Nat \ {0}, codec_data : BOOLEAN,
     loop_target : Nat, current_sample : Nat, samples_into_block : Nat,
     loop_count : Nat, hit_loop : BOOLEAN, ch : Nat, loop_ch : Nat,
     loop_current_sample : Nat, loop_samples_into_block : Nat]

SaneLoop(v) ==
    v.loop_flag =>
        /\ v.loop_start_sample < v.loop_end_sample
        /\ v.loop_end_sample <= v.num_samples

\* A VGMSTREAM nothing was decoded from.
Unplayed(v) ==
    /\ v.current_sample = 0
    /\ v.samples_into_block = 0
    /\ v.ch = 0
    /\ v.loop_count = 0
    /\ v.hit_loop = FALSE

\* What setup_vgmstream leaves: safe to snapshot.
Openable(v) ==
    /\ v \in VgmRecord
    /\ SaneLoop(v)
    /\ Unplayed(v)

\* What is snapshot: only streams that loop have a loop target.
Startable(start) ==
    /\ Openable(start)
    /\ start.loop_target > 0 => start.loop_flag

\* Decoding leaves the stream's description alone.
SameStream(start, v) ==
    /\ v.num_samples = start.num_samples
    /\ v.loop_start_sample = start.loop_start_sample
    /\ v.loop_end_sample = start.loop_end_sample
    /\ v.frame = start.frame
    /\ v.loop_target = start.loop_target

\* The decoder, the block and the play head agree on where they are.
HeadsAgree(v) ==
    /\ v.ch = v.current_sample
    /\ v.samples_into_block = v.current_sample
    /\ v.current_sample <= v.num_samples

SavedLoop(v) ==
    v.hit_loop =>
        /\ v.loop_ch = v.loop_start_sample
        /\ v.loop_current_sample = v.loop_start_sample
        /\ v.loop_samples_into_block = v.loop_start_sample

\* Where the head may be before the loop start, in the loop, and after it.  A
\* seek may count loops before the loop start was saved, but only right there.
HeadInLoop(start, v) ==
    /\ v.loop_flag \/ v.hit_loop \/ v.loop_count > 0 => start.loop_flag
    /\ ~v.hit_loop /\ v.loop_count > 0 => v.current_sample = v.loop_start_sample
    /\ v.loop_flag /\ v.loop_target > 0 => v.loop_count < v.loop_target
    /\ v.loop_flag /\ ~v.hit_loop => v.current_sample <= v.loop_start_sample
    /\ v.loop_flag /\ v.hit_loop =>
           /\ v.loop_start_sample <= v.current_sample
           /\ v.current_sample <= v.loop_end_sample
    /\ start.loop_flag /\ ~v.loop_flag =>
           /\ v.hit_loop
           /\ v.loop_target > 0
           /\ v.loop_end_sample <= v.current_sample

HeadOK(start, v) ==
    /\ v \in VgmRecord
    /\ SameStream(start, v)
    /\ HeadsAgree(v)
    /\ SavedLoop(v)
    /\ HeadInLoop(start, v)

\* Jumps back to the loop start made so far.
JumpsBack(start, v) ==
    IF v.loop_flag THEN v.loop_count
    ELSE IF start.loop_flag THEN start.loop_target - 1
    ELSE 0

\* The head is where position t of the unrolled stream comes next.  How often
\* it jumped back matters only if that is limited.
HeadAt(start, v, t) ==
    \/ \E k \in 0 .. t :
          /\ t = v.current_sample + k * LoopBody(start)
          /\ k > 0 => start.loop_flag /\ v.current_sample >= start.loop_start_sample
          /\ start.loop_target > 0 => k = JumpsBack(start, v)
    \/ /\ ~v.loop_flag
       /\ v.current_sample >= start.num_samples
       /\ IsOver(start, t)
=============================================================================
