-------------------------- MODULE MCInterleaveRender --------------------------
(* Small interleaved files for TLC: every kind of first and last block. *)
EXTENDS InterleaveRender

\* num samples after the `rows` whole rows (or the row before when negative)
File(channels, rows, codec, block, first, skip, last, extra) ==
    [frame |-> codec.frame, frame_size |-> codec.frame_size,
     shortframe |-> codec.shortframe, shortframe_size |-> codec.shortframe_size,
     codec_internal_updates |-> codec.internal, codec_data |-> FALSE,
     channels |-> channels, start_offset |-> skip, rows |-> rows,
     interleave_block_size |-> block, interleave_first_block_size |-> first,
     interleave_first_skip |-> skip, interleave_last_block_size |-> last,
     num_samples |->
        IF block = 0 THEN 5
        ELSE ((first + rows * block) \div codec.frame_size) * codec.frame + extra,
     loop_flag |-> FALSE, loop_start_sample |-> 0, loop_end_sample |-> 0]

Codec(frame, size, shortframe, shortsize, internal) ==
    [frame |-> frame, frame_size |-> size, shortframe |-> shortframe,
     shortframe_size |-> shortsize, internal |-> internal]

Pcm == Codec(1, 1, 1, 1, FALSE)
Adpcm == Codec(2, 1, 2, 1, FALSE)
MsIma == Codec(2, 1, 2, 1, TRUE)
\* the block is the frame: 4 samples in 2 units, 2 samples in a last block of 1
NdsIma == Codec(4, 2, 2, 1, FALSE)

\* With a last block the end is in it, without one it is in the last row.
Unlooped ==
    UNION {{File(2, 2, codec, 2, first, skip, 0, -extra) :
                codec \in {Pcm, Adpcm}, first \in {1, 2}, skip \in {0, 1},
                extra \in {0, 1}},
           {File(2, 2, codec, 2, 1, 1, 1, 1) : codec \in {Pcm, Adpcm}},
           {File(2, 2, codec, 2, 0, 0, last, extra) :
                codec \in {Pcm, Adpcm}, last \in {1, 2}, extra \in {0, 1}},
           {File(3, 1, Adpcm, 2, 0, 0, 1, 2), File(2, 2, NdsIma, 2, 0, 0, 1, 2)},
           {File(2, 2, codec, 2, 0, 0, 0, -1) : codec \in {Pcm, MsIma}},
           {File(1, 2, codec, block, 0, 0, 0, 0) :
                codec \in {Pcm, Adpcm}, block \in {0, 2}},
           {File(2, 1, Pcm, 0, 0, 0, 0, 0)}}

\* Loops in and out of the first block, across rows, and to the end.
Loops(f) ==
    {[f EXCEPT !.loop_flag = TRUE, !.loop_start_sample = loop[1],
               !.loop_end_sample = loop[2]] :
        loop \in {<<0, f.num_samples>>, <<1, 4>>, <<3, f.num_samples - 1>>,
                 <<f.num_samples - 1, f.num_samples>>}}

MCFiles == Unlooped \cup UNION {Loops(f) : f \in Unlooped}
MCSizes == {1, 2, 5}
NoPads == {0}
MCPads == {0, 1}

ASSUME FilesAreSound == \A f \in MCFiles : SoundFile(f)
=============================================================================
