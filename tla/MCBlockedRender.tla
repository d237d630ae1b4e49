---------------------------- MODULE MCBlockedRender ----------------------------
(* Small blocked files for TLC, some of each layout. *)
EXTENDS BlockedRender

Audio(samples) ==
    [kind |-> "audio", size |-> 1 + samples, head |-> 1, samples |-> samples]
Padded(samples) == [Audio(samples) EXCEPT !.size = @ + 1]
Other == [kind |-> "other", size |-> 2, head |-> 1, samples |-> 0]
\* of frames, which follow
BlockOf(frames) ==
    [kind |-> "head", size |-> 1, head |-> 1, samples |-> frames]
First(samples) == [Audio(samples) EXCEPT !.size = @ + 1]
Second(samples) == [First(samples) EXCEPT !.size = @ - 1, !.head = 0]
Chunk(samples) == [Audio(samples) EXCEPT !.size = 1, !.head = 0]

\* num_samples 0: to be counted
Stream(layout, blocks, frame, num_samples) ==
    [layout |-> layout, blocks |-> blocks, frame |-> frame,
     num_samples |-> num_samples, codec_data |-> FALSE,
     loop_flag |-> FALSE, loop_start_sample |-> 0, loop_end_sample |-> 0,
     loop_start_block |-> -2, loop_end_block |-> -2]

\* A header may say less than there is, or more.
Headered ==
    {Stream("ast", <<Audio(2), Audio(3), Audio(1)>>, 1, num) : num \in {5, 6}}
    \cup {Stream("ast", <<Audio(2), Audio(4)>>, 2, 5),
          Stream("str_snds", <<Other, Audio(2), Other, Other, Audio(3)>>, 1, 5),
          Stream("str_snds", <<Audio(2), Other, Audio(2), Other>>, 1, 6),
          Stream("thp", <<Padded(2), Audio(1), Audio(3)>>, 2, 6),
          Stream("cf_df", <<Chunk(2), Chunk(0), Chunk(0), Chunk(2)>>, 1, 5),
          Stream("cf_df", <<Chunk(1), Chunk(4)>>, 1, 4)}

HalvedFrames ==
    Stream("ubi_sce", <<First(2), Second(2), First(2), Second(2)>>, 2, 8)

\* These loop to the end.
HalvesFrom(starts) ==
    {[HalvedFrames EXCEPT !.loop_flag = TRUE, !.loop_start_sample = start,
                          !.loop_end_sample = 8] : start \in starts}

Loops(f) ==
    {[f EXCEPT !.loop_flag = TRUE, !.loop_start_sample = loop[1],
               !.loop_end_sample = loop[2]] :
        loop \in {<<0, f.num_samples>>, <<1, f.num_samples - 1>>, <<2, 4>>,
                 <<3, f.num_samples>>}}

Counting ==
    {Stream("vid1", <<Audio(2), Audio(1), Audio(2), Other>>, 1, 0),
     Stream("hvqm4", <<BlockOf(5), Audio(2), Other, BlockOf(6), Other, Audio(3)>>, 1, 0),
     Stream("ast", <<Audio(2), Audio(0), Audio(0), Audio(1)>>, 1, 0),
     [Stream("ast", <<Audio(2), Audio(1), Audio(2), Audio(1)>>, 1, 0)
        EXCEPT !.loop_flag = TRUE, !.loop_start_block = 1, !.loop_end_block = 3],
     [Stream("ast", <<Audio(1), Audio(0), Audio(3)>>, 1, 0)
        EXCEPT !.loop_flag = TRUE, !.loop_start_block = 2, !.loop_end_block = -1]}

MCFiles ==
    Headered \cup UNION {Loops(f) : f \in Headered} \cup Counting
    \cup {HalvedFrames} \cup HalvesFrom({0, 1, 4, 5})

HalvedLoops == HalvesFrom({2, 3})
MCSizes == {1, 2, 5}
=============================================================================
