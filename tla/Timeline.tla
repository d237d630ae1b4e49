------------------------------- MODULE Timeline -------------------------------
(***************************************************************************)
(* What a listener is promised: the stream with its loops unrolled.         *)
(*                                                                          *)
(* A file of num_samples that loops over [loop_start, loop_end) plays as    *)
(* intro, then the body again and again; when a loop target N is set the    *)
(* body is played N times and the outro [loop_end, num_samples) follows.    *)
(* Nothing here mentions play heads, saved state or buffers.                *)
(***************************************************************************)
EXTENDS Integers

LoopBody(info) == info.loop_end_sample - info.loop_start_sample

\* After k jumps back the listener is in the last copy of the body.
LastCopy(info, k) == info.loop_target > 0 /\ k = info.loop_target - 1

\* s is the sample of the file heard at position t of the unrolled stream.
IsSource(info, t, s) ==
    IF info.loop_flag
    THEN \E k \in 0 .. t :
            /\ t = s + k * LoopBody(info)
            /\ k > 0 => s >= info.loop_start_sample
            /\ info.loop_target > 0 => k < info.loop_target
            /\ \/ s < info.loop_end_sample
               \/ LastCopy(info, k) /\ s < info.num_samples
    ELSE s = t /\ s < info.num_samples

\* The unrolled stream is over at position t: what follows is silence.
IsOver(info, t) ==
    IF info.loop_flag
    THEN /\ info.loop_target > 0
         /\ t >= info.num_samples + (info.loop_target - 1) * LoopBody(info)
    ELSE t >= info.num_samples
=============================================================================
