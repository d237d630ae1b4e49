------------------------------- MODULE Playback -------------------------------
(***************************************************************************)
(* What a caller of render_main, seek_vgmstream and reset_vgmstream is      *)
(* promised: a position in the configured song, and samples that depend on  *)
(* that position only, however it was reached.                              *)
(*                                                                          *)
(*   [ pad-begin ]( trim )[    decoded data * N loops   ][ pad-end ]        *)
(*                                           \ end-fade |                   *)
(*                                                                          *)
(* Player has the play state, the loop machine and the seek cases that are  *)
(* to keep the promise, and is checked to implement this module.            *)
(***************************************************************************)
EXTENDS Timeline, Sequences

CONSTANTS
    MaxBuf,     \* largest buffer a caller asks for
    Seeks       \* positions a caller seeks to, negative and far ones too

VARIABLES
    info,       \* the configured stream: loops, trims, pads, fade
    position,   \* where the next sample is, in samples of output
    heard       \* samples the last render delivered

vars == <<info, position, heard>>

\* A sample of output: the sample of the file it is, and how far down the fade.
Silence == -1
Cell(src, fade) == [src |-> src, fade |-> fade]
NothingHeard == [at |-> 0, cells |-> <<>>]

InFade(p) ==
    /\ ~info.play_forever
    /\ p >= info.fade_start
    /\ p < info.fade_start + info.fade_duration

\* Output position p, as a position of the unrolled stream.
StreamPosition(p) == p - info.pad_begin_duration + info.trim_begin_duration

SourceAt(p, src) ==
    IF src = Silence
    THEN \/ p < info.pad_begin_duration
         \/ ~info.play_forever /\ p >= info.pad_end_start
         \/ IsOver(info, StreamPosition(p))
    ELSE /\ p >= info.pad_begin_duration
         /\ info.play_forever \/ p < info.pad_end_start
         /\ IsSource(info, StreamPosition(p), src)

FadeAt(p, fade) == fade = IF InFade(p) THEN p - info.fade_start ELSE 0

\* What may sound at p; the fade of silence makes no difference.
Sounds(p, cell) ==
    /\ SourceAt(p, cell.src)
    /\ cell.src # Silence => FadeAt(p, cell.fade)

Clamped(t) ==
    IF t < 0 THEN 0
    ELSE IF ~info.play_forever /\ t > info.play_duration
    THEN info.play_duration ELSE t

Init ==
    /\ position = 0
    /\ heard = NothingHeard

Play(n) ==
    /\ heard'.at = position
    /\ Len(heard'.cells) = Clamped(position + n) - position
    /\ \A i \in 1 .. Len(heard'.cells) :
            Sounds(position + i - 1, heard'.cells[i])
    /\ position' = Clamped(position + n)
    /\ UNCHANGED info

Seek(t) ==
    /\ position' = Clamped(t)
    /\ heard' = NothingHeard
    /\ UNCHANGED info

Rewind ==
    /\ position' = 0
    /\ heard' = NothingHeard
    /\ UNCHANGED info

Next ==
    \/ \E n \in 1 .. MaxBuf : Play(n)
    \/ \E t \in Seeks : Seek(t)
    \/ Rewind

Spec == Init /\ [][Next]_vars
=============================================================================
