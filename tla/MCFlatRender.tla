----------------------------- MODULE MCFlatRender -----------------------------
(* Small files and configs for TLC, with every kind of loop metadata. *)
EXTENDS FlatRender

File(num, flag, start, end, frame, codec) ==
    [num_samples |-> num, loop_flag |-> flag, loop_start_sample |-> start,
     loop_end_sample |-> end, frame |-> frame, codec_data |-> codec]

\* Every loop region of a short file, the invalid ones too.
MCFiles ==
    {File(4, flag, start, end, frame, codec) :
        flag \in BOOLEAN, start \in -1 .. 4, end \in {0, 2, 3, 4, 5},
        frame \in {1, 3}, codec \in BOOLEAN}

Config(forever, really, force, ignore, nofade, count) ==
    [play_forever |-> forever, really_force_loop |-> really,
     force_loop |-> force, ignore_loop |-> ignore, ignore_fade |-> nofade,
     loop_count |-> count]

MCConfigs ==
    {Config(forever, really, force, ignore, nofade, count) :
        forever \in {FALSE}, really \in BOOLEAN, force \in BOOLEAN,
        ignore \in BOOLEAN, nofade \in BOOLEAN, count \in {0, 2, 5}}
    \cup {Config(TRUE, FALSE, FALSE, FALSE, TRUE, 4)}
=============================================================================
