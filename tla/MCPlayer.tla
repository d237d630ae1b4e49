------------------------------- MODULE MCPlayer -------------------------------
(* Small songs and configs for TLC. *)
EXTENDS Player

File(num, flag, start, end) ==
    [num_samples |-> num, loop_flag |-> flag, loop_start_sample |-> start,
     loop_end_sample |-> end, frame |-> 1, codec_data |-> FALSE]

\* No loop, full loop, intro and outro, and intro without outro.
MCFiles == {File(4, FALSE, 0, 0), File(4, TRUE, 0, 4),
            File(5, TRUE, 1, 3), File(5, TRUE, 2, 5)}

Plain ==
    [play_forever |-> FALSE, really_force_loop |-> FALSE, force_loop |-> FALSE,
     ignore_loop |-> FALSE, ignore_fade |-> FALSE, loop_count |-> 4,
     body_time |-> 0, trim_begin |-> 0, trim_end |-> 0,
     pad_begin |-> 0, pad_end |-> 0, fade_delay |-> 0, fade_time |-> 0]

Padded == [Plain EXCEPT !.pad_begin = 2, !.pad_end = 2]
Trimmed == [Plain EXCEPT !.trim_begin = 3, !.trim_end = 1]
PaddedAndTrimmed == [Padded EXCEPT !.trim_begin = 3, !.trim_end = 1]
Forever == [Plain EXCEPT !.play_forever = TRUE, !.pad_begin = 1]
LongBody == [Plain EXCEPT !.body_time = 7, !.pad_end = 1]
HalfLoops == [Plain EXCEPT !.loop_count = 3]
Forced == [Plain EXCEPT !.force_loop = TRUE, !.pad_end = 1]
NoLoops == [Plain EXCEPT !.ignore_loop = TRUE]

WithFade(c) == [c EXCEPT !.fade_time = 3, !.fade_delay = 1]
WithOutro(c) == [c EXCEPT !.ignore_fade = TRUE]

Unfaded == {Plain, Padded, Trimmed, PaddedAndTrimmed, Forever, LongBody,
            HalfLoops, Forced, NoLoops}

Faded == {WithFade(c) : c \in Unfaded}
Outros == {WithOutro(c) : c \in Unfaded}
MCConfigs == Unfaded \cup Faded \cup Outros

\* What goes wrong: an outro with a loop count below one.
ZeroLoops == {[Plain EXCEPT !.loop_count = 1, !.ignore_fade = TRUE]}

MCSeeks == {-1, 0, 1, 2, 4, 5, 6, 8, 9, 30}

NoHabits == {}
SeekBeforeFade == {"seek before a spent fade"}
SeekBackFromOutro == {"seek back with an outro"}
=============================================================================
