----------------------------- MODULE MCPartsRender -----------------------------
(* Small segmented and layered files for TLC. *)
EXTENDS PartsRender

Part(num_samples, codec_data) ==
    [num_samples |-> num_samples, loop_flag |-> FALSE, loop_start_sample |-> 0,
     loop_end_sample |-> 0, frame |-> 1, codec_data |-> codec_data]

Looping(num_samples, codec_data, from, to) ==
    [Part(num_samples, codec_data) EXCEPT !.loop_flag = TRUE,
        !.loop_start_sample = from, !.loop_end_sample = to]

Segments(parts, order, loop, forced) ==
    [layout |-> "segmented", parts |-> parts, order |-> order, loop |-> loop,
     forced |-> forced]

Layers(parts, forced) ==
    [layout |-> "layered", parts |-> parts, order |-> [i \in DOMAIN parts |-> i],
     loop |-> <<>>, forced |-> forced]

\* Intro, loop and outro; a part that is there twice; loops set from outside, in
\* the middle of segments; a part with a loop of its own.
SegmentedFiles ==
    {Segments(<<Part(2, FALSE), Part(3, TRUE), Part(1, FALSE)>>, <<1, 2, 3>>,
              loop, <<>>) : loop \in {<<>>, <<2, 2>>, <<1, 2>>, <<2, 3>>}}
    \cup {Segments(<<Part(2, FALSE), Part(1, FALSE)>>, <<1, 1, 2, 1>>, loop, forced) :
              loop \in {<<>>, <<2, 3>>}, forced \in {<<>>, <<1, 4>>, <<3, 7>>}}
    \cup {Segments(<<Looping(4, TRUE, 1, 3), Part(2, TRUE)>>, <<1, 2>>, <<1, 2>>,
                   <<>>)}

\* Layers that loop, that do not, that are shorter than the loop.
LayeredFiles ==
    {Layers(<<Looping(5, codec, 1, 4), Looping(4, codec, 1, 4)>>, <<>>) :
        codec \in BOOLEAN}
    \cup {Layers(<<Looping(4, TRUE, 0, 4), Looping(4, FALSE, 0, 4)>>, <<>>)}
    \cup {Layers(<<Part(5, FALSE), Part(3, TRUE)>>, forced) :
            forced \in {<<>>, <<2, 5>>, <<4, 5>>, <<0, 2>>}}

MCFiles == SegmentedFiles \cup LayeredFiles
MCSizes == {1, 4}
MCSeeks == {0, 1, 3, 5, 8, 10}
NoHabits == {}
AllHabits == {"seek into looping layers", "seek with a loop target"}
OneHabit == {"seek into looping layers"}
=============================================================================
