---------------------------- MODULE MCFrameDecode ----------------------------
(* Small streams for TLC, one or more for each codec. *)
EXTENDS FrameDecode, SequencesExt

\* Packets of the given sizes, one after the other.
Packets(sizes) ==
    LET Sum(k) == FoldLeft(LAMBDA a, b : a + b, 0, SubSeq(sizes, 1, k))
    IN  [k \in DOMAIN sizes |-> [from |-> Sum(k - 1), to |-> Sum(k)]]

Stream(codec_name, num_samples, delay, sizes) ==
    [num_samples |-> num_samples, loop_start_sample |-> 0, loop_end_sample |-> 0,
     loop_flag |-> FALSE, frame |-> 1, codec_data |-> FALSE,
     codec |-> codec_name, delay |-> delay, packets |-> Packets(sizes),
     header_loop |-> 0, table |-> <<>>, table_resets |-> FALSE]

Looping(s, from, to) ==
    [s EXCEPT !.loop_flag = TRUE, !.loop_start_sample = from, !.loop_end_sample = to]

WithHeader(s) == [s EXCEPT !.header_loop = s.loop_start_sample]

WithTable(s, table, resets) == [s EXCEPT !.table = table, !.table_resets = resets]
Entry(sample, packet) == [sample |-> sample, packet |-> packet]

\* Loop points at, before and after frame edges; the loop of a whole file.
Points == {<<0, 7>>, <<1, 4>>, <<3, 7>>, <<5, 6>>, <<6, 7>>}

Framed == <<3, 3, 3>>
Plain(codec_name, delay) == Stream(codec_name, 7, delay, Framed)

DiscardingFiles ==
    {Plain("speex", 2), Plain("atrac9", 2), Plain("atrac9", 1),
            Stream("atrac9", 7, 0, <<2, 2, 2, 2>>),
            Stream("binka", 7, 0, <<3, 0, 3, 0, 3>>), Plain("aac", 2)}

HeaderFiles == {Plain("hca", 2), Plain("tac", 0)}

\* a packet bigger than what a call takes, the first of a restart is lost
VorbisFile == Stream("vorbis", 7, 0, <<0, 1, 2, 4>>)
SmallPackets == Stream("vorbis", 7, 0, <<0, 2, 2, 1, 2>>)

\* What files are: hca's and tac's loop is the one of their header, or one set
\* on a file without; relic's is from the start; old tables have small packets.
RightFiles ==
    {Looping(s, p[1], p[2]) : s \in DiscardingFiles \cup HeaderFiles, p \in Points}
    \cup {WithHeader(Looping(s, p[1], p[2])) : s \in HeaderFiles, p \in Points}
    \cup {Looping(WithTable(s, t, TRUE), p[1], p[2]) :
             s \in {VorbisFile}, t \in {<<>>, <<Entry(1, 1), Entry(3, 2)>>}, p \in Points}
    \cup {Looping(WithTable(SmallPackets, t, FALSE), p[1], p[2]) :
             t \in {<<Entry(0, 0), Entry(2, 2), Entry(5, 4)>>, <<Entry(4, 3)>>},
             p \in Points}
    \cup {Looping(Plain("relic", 0), 0, 7), Plain("speex", 2), VorbisFile}
    \* the data ends before the header says
    \cup {Looping(Stream("atrac9", 7, 2, <<3, 3>>), 1, 7), Stream("binka", 7, 0, <<3, 0>>)}

MCSizes == {1, 3, 8}
AllButAac == {"speex", "binka", "atrac9", "relic", "hca", "tac", "vorbis"}
KeepNoDiscard == {"speex", "binka", "atrac9", "aac", "relic", "hca", "vorbis"}

\* What goes wrong, one at a time: installed loops in files that have their own,
\* or in relic's, old tables with big packets.
OtherLoops == {[Looping(Plain("hca", 2), 1, 4) EXCEPT !.header_loop = 3]}
RelicLoops == {Looping(Plain("relic", 0), 3, 7)}
OldTables == {Looping(WithTable(VorbisFile, <<Entry(1, 2)>>, FALSE), 1, 4)}
JustAac == {Looping(Plain("aac", 2), 1, 4)}
JustTac == {Looping(Plain("tac", 0), 1, 4)}
=============================================================================
