--------------------------- MODULE InterleaveRender ---------------------------
(***************************************************************************)
(* One VGMSTREAM with the interleave layout: the data of the channels       *)
(* alternates in blocks,                                                    *)
(*                                                                          *)
(*   skip first0 skip first1 | d0 d1 | d0 d1 | ... | last0 last1            *)
(*                                                                          *)
(* and the codec reads a channel at its offset, which render_layout_        *)
(* interleave moves when a block of samples is done.  Where the first and   *)
(* the last blocks are is never kept: it is guessed from the play head, at  *)
(* the start of each call, after each loop and at the end of each block.    *)
(* Are the samples that are read those that the file has at that place?     *)
(*                                                                          *)
(* Offsets and sizes are in units of the codec's smallest frame.            *)
(***************************************************************************)
EXTENDS LoopHead, Sequences

CONSTANTS
    Files,        \* interleaved files, as parsers describe them
    LoopTargets,  \* 0 for none
    Sizes,        \* buffer sizes a caller asks for
    Pads,         \* samples that play_op_pad_begin left in the buffer
    MaxPlayed     \* bound on the samples rendered between rewinds

\* frame and frame_size are decode_get_samples_per_frame and
\* decode_get_frame_size, shortframe and shortframe_size those of the last
\* block; rows is the number of whole blocks per channel in the file.
InterleavedFile ==
    [num_samples : Nat \ {0}, loop_start_sample : Int, loop_end_sample : Int,
     loop_flag : BOOLEAN, frame : Nat \ {0}, codec_data : {FALSE},
     frame_size : Nat \ {0}, shortframe : Nat \ {0},
     shortframe_size : Nat \ {0}, codec_internal_updates : BOOLEAN,
     channels : Nat \ {0}, start_offset : Nat, interleave_block_size : Nat,
     interleave_first_block_size : Nat, interleave_first_skip : Nat,
     interleave_last_block_size : Nat, rows : Nat \ {0}]

ASSUME FilesAssumption == \A f \in Files : f \in InterleavedFile
ASSUME SizesAssumption == Sizes \subseteq Nat \ {0}
ASSUME PadsAssumption == Pads \subseteq Nat
ASSUME LoopTargetsAssumption == LoopTargets \subseteq Nat
ASSUME MaxPlayedAssumption == MaxPlayed \in Nat

VARIABLES
    file,             \* what does not change after opening
    vgm,              \* the VGMSTREAM; vgm.ch are the channels' offsets
    start_vgmstream,  \* its snapshot
    cur,              \* samples_per_frame and samples_this_block of a call
    rendering,        \* inside render_layout
    sbuf,             \* buffer being filled
    played,           \* history: samples rendered since open or rewind
    heard             \* history: what the last call delivered

vars == <<file, vgm, start_vgmstream, cur, rendering, sbuf, played, heard>>

-----------------------------------------------------------------------------
(* Opening: vgmstream_open_stream *)

Channels(f) == 0 .. f.channels - 1

ChannelOffset_NoSkip(f, ch) ==                                    \* mutant
    f.start_offset + ch * IF f.interleave_first_block_size # 0
                          THEN f.interleave_first_block_size
                          ELSE f.interleave_block_size

ChannelOffset(f, ch) ==
    f.start_offset +
        ch * IF f.interleave_first_block_size # 0
             THEN f.interleave_first_block_size + f.interleave_first_skip
             ELSE f.interleave_block_size

OpenStream(f, target) ==
    LET offsets == [ch \in Channels(f) |-> ChannelOffset(f, ch)]
    IN  SetLoopTarget([NewVgmstream(f) EXCEPT
                         !.ch = offsets,
                         !.loop_ch = [ch \in Channels(f) |-> 0]],
                      target)

-----------------------------------------------------------------------------
(* interleave.c *)

HasFirst(f) == f.interleave_first_block_size # 0 /\ f.channels > 1
HasLast(f)  == f.interleave_last_block_size # 0 /\ f.channels > 1

\* mono without interleave: "just behave like flat layout"
OrWholeStream(f, samples) ==
    IF samples = 0 /\ f.channels = 1 THEN f.num_samples ELSE samples

Values(f, per_frame, samples) ==
    [samples_per_frame |-> per_frame,
     samples_this_block |-> OrWholeStream(f, samples)]

DefaultSamples(f) == (f.interleave_block_size \div f.frame_size) * f.frame
FirstSamples(f) == (f.interleave_first_block_size \div f.frame_size) * f.frame
LastSamples(f) ==
    (f.interleave_last_block_size \div f.shortframe_size) * f.shortframe

DefaultValues(f) == Values(f, f.frame, DefaultSamples(f))
FirstValues(f)   == Values(f, f.frame, FirstSamples(f))
LastValues(f)    == Values(f, f.shortframe, LastSamples(f))

InFirst(f, v) == HasFirst(f) /\ v.current_sample < FirstSamples(f)

UpdateDefaultValues_Head(f, v) ==                                 \* mutant
    IF InFirst(f, v) THEN FirstValues(f)
    ELSE IF HasLast(f) /\ v.current_sample + DefaultSamples(f) > v.num_samples
    THEN LastValues(f)
    ELSE DefaultValues(f)

\* at the start of a call, which may be in the middle of a block
UpdateDefaultValues(f, v) ==
    IF InFirst(f, v) THEN FirstValues(f)
    ELSE IF /\ HasLast(f)
            /\ v.current_sample - v.samples_into_block + DefaultSamples(f)
                 > v.num_samples
    THEN LastValues(f)
    ELSE DefaultValues(f)

\* after a loop; "assumes that won't loop back into a interleave_last", though
\* doing so is harmless: a default block only ends later.
UpdateLoopValues(f, v) ==
    IF InFirst(f, v) THEN FirstValues(f)
    ELSE IF HasLast(f) THEN DefaultValues(f)
    ELSE cur

Skipped(v, skip) ==
    [v EXCEPT !.ch = [ch \in DOMAIN @ |-> @[ch] + skip[ch]],
              !.samples_into_block = 0]

\* end of a block: where each channel's next block is
SkipFirst(f) ==
    [ch \in Channels(f) |->
        f.interleave_first_skip * (f.channels - 1 - ch)
          + f.interleave_first_block_size * (f.channels - ch)
          + f.interleave_block_size * ch]

SkipToLast(f) ==
    [ch \in Channels(f) |->
        f.interleave_block_size * (f.channels - ch)
          + f.interleave_last_block_size * ch]

\* Codecs with internal updates moved the offset over their own data already.
SkipBlock(f) ==
    [ch \in Channels(f) |->
        f.interleave_block_size *
            (IF f.codec_internal_updates THEN f.channels - 1 ELSE f.channels)]

FirstDone(f, v) == HasFirst(f) /\ v.current_sample = FirstSamples(f)

LastIsNext_Never(f, v, values) == FALSE                            \* mutant
LastIsNext(f, v, values) ==
    /\ ~FirstDone(f, v)
    /\ HasLast(f)
    /\ v.current_sample + values.samples_this_block > v.num_samples

UpdateOffsets(f, v, values) ==
    Skipped(v, IF FirstDone(f, v) THEN SkipFirst(f)
               ELSE IF LastIsNext(f, v, values) THEN SkipToLast(f)
               ELSE SkipBlock(f))

ValuesAfterBlock(f, v, values) ==
    IF FirstDone(f, v) THEN DefaultValues(f)
    ELSE IF LastIsNext(f, v, values) THEN LastValues(f)
    ELSE values

-----------------------------------------------------------------------------
(* The codec: frames are found from the offset and samples_into_block; those *)
(* with internal updates move the offset at the end of each frame.           *)

FrameOf(f, v, j) ==
    IF f.codec_internal_updates THEN 0
    ELSE (v.samples_into_block + j) \div f.frame

\* Where the j-th sample of a decoder call is read.
ReadAt(f, v, j) ==
    [ch \in Channels(f) |->
        <<v.ch[ch] + FrameOf(f, v, j) * f.frame_size,
          (v.samples_into_block + j) % f.frame>>]

DecodeBlock(f, v, n) ==
    LET frame_done == (v.samples_into_block % f.frame) + n = f.frame
    IN  [v EXCEPT
           !.ch = IF f.codec_internal_updates /\ frame_done
                  THEN [ch \in DOMAIN @ |-> @[ch] + f.frame_size] ELSE @,
           !.current_sample = @ + n,
           !.samples_into_block = @ + n]

-----------------------------------------------------------------------------
Blank == <<>>
Blanks(n) == [i \in 1 .. n |-> Blank]
NoBuffer == [samples |-> 0, pad |-> 0, cells |-> <<>>]
Room == sbuf.samples - Len(sbuf.cells)

\* The first `pad` cells are not the layout's.
Heard(pad, cells) == [at |-> played, pad |-> pad, cells |-> cells]
NothingHeard == [at |-> 0, pad |-> 0, cells |-> <<>>]

Init ==
    /\ file \in Files
    /\ \E target \in LoopTargets : vgm = OpenStream(file, target)
    /\ start_vgmstream = vgm
    /\ cur = DefaultValues(file)
    /\ rendering = FALSE
    /\ sbuf = NoBuffer
    /\ played = 0
    /\ heard = NothingHeard

Call(n, pad) ==
    /\ ~rendering
    /\ pad < n
    /\ played + n - pad <= MaxPlayed

\* "Nothing to decode: return blank buf"
RenderPastEnd(n, pad) ==
    /\ Call(n, pad)
    /\ PastEnd(vgm)
    /\ heard' = Heard(pad, Blanks(n))
    /\ played' = played + n - pad
    /\ UNCHANGED <<file, vgm, start_vgmstream, cur, rendering, sbuf>>

StartRender(n, pad) ==
    /\ Call(n, pad)
    /\ ~PastEnd(vgm)
    /\ cur' = UpdateDefaultValues(file, vgm)
    /\ sbuf' = [samples |-> n, pad |-> pad, cells |-> Blanks(pad)]
    /\ rendering' = TRUE
    /\ heard' = NothingHeard
    /\ UNCHANGED <<file, vgm, start_vgmstream, played>>

LoopIteration ==
    /\ rendering
    /\ Room > 0
    /\ Looped(vgm)
    /\ vgm' = LoopCheck(vgm)
    /\ cur' = UpdateLoopValues(file, vgm')
    /\ UNCHANGED <<file, start_vgmstream, rendering, sbuf, played, heard>>

SamplesToDo(v) ==
    SmallerOf(DecodeGetSamplesToDo(v, cur.samples_this_block,
                                   cur.samples_per_frame),
              Room)

DecodeIteration ==
    /\ rendering
    /\ Room > 0
    /\ ~Looped(vgm)
    /\ LET v == LoopCheck(vgm)
           n == SamplesToDo(v)
           decoded == DecodeBlock(file, v, n)
           block_done == decoded.samples_into_block = cur.samples_this_block
       IN  /\ n > 0
           /\ sbuf' = [sbuf EXCEPT
                         !.cells = @ \o [j \in 1 .. n |-> ReadAt(file, v, j - 1)]]
           /\ vgm' = IF block_done
                     THEN UpdateOffsets(file, decoded, cur) ELSE decoded
           /\ cur' = IF block_done
                     THEN ValuesAfterBlock(file, decoded, cur) ELSE cur
    /\ UNCHANGED <<file, start_vgmstream, rendering, played, heard>>

\* Back in render_layout, which handed over `cells`.
Return(cells) ==
    /\ heard' = Heard(sbuf.pad, cells)
    /\ played' = played + sbuf.samples - sbuf.pad
    /\ rendering' = FALSE
    /\ sbuf' = NoBuffer
    /\ UNCHANGED <<file, start_vgmstream, cur>>

ErrorIteration_Retried ==                                         \* mutant
    /\ rendering
    /\ Room > 0
    /\ ~Looped(vgm)
    /\ SamplesToDo(LoopCheck(vgm)) <= 0
    /\ vgm' = LoopCheck(vgm)
    /\ UNCHANGED <<file, start_vgmstream, cur, rendering, sbuf, played, heard>>

\* RC_LAYOUT_ERROR: blocks without samples
ErrorIteration ==
    /\ rendering
    /\ Room > 0
    /\ ~Looped(vgm)
    /\ SamplesToDo(LoopCheck(vgm)) <= 0
    /\ vgm' = LoopCheck(vgm)
    /\ Return(sbuf.cells \o Blanks(Room))

EndRender ==
    /\ rendering
    /\ Room = 0
    /\ Return(BlankExcess(vgm, sbuf.cells, sbuf.samples - sbuf.pad, Blank))
    /\ UNCHANGED vgm

Reset ==
    /\ ~rendering
    /\ vgm' = ResetVgmstream(vgm, start_vgmstream)
    /\ played' = 0
    /\ heard' = NothingHeard
    /\ UNCHANGED <<file, start_vgmstream, cur, rendering, sbuf>>

RenderStep == LoopIteration \/ DecodeIteration \/ ErrorIteration \/ EndRender

Next ==
    \/ \E n \in Sizes, pad \in Pads : RenderPastEnd(n, pad) \/ StartRender(n, pad)
    \/ LoopIteration
    \/ DecodeIteration
    \/ ErrorIteration
    \/ EndRender
    \/ Reset

\* A thread that is inside render_layout keeps running.
Spec == Init /\ [][Next]_vars /\ WF_vars(RenderStep)

-----------------------------------------------------------------------------
(* The file itself, told from its blocks and not from a play head *)

\* Sample s is in the k-th place of a block that starts at unit `block`.
InBlock(f, block, k) == <<block + (k \div f.frame) * f.frame_size, k % f.frame>>

\* The first row starts with channel 0's skip, which start_offset includes.
FileStart(f) == f.start_offset - f.interleave_first_skip
FirstRowSize(f) ==
    IF HasFirst(f)
    THEN (f.interleave_first_skip + f.interleave_first_block_size) * f.channels
    ELSE 0

RowStart(f, row) ==
    FileStart(f) + FirstRowSize(f) + row * f.interleave_block_size * f.channels

\* Where a channel's block of the first row, and of a row after it, starts.
FirstBlock(f, ch) ==
    f.start_offset
        + ch * (f.interleave_first_skip + f.interleave_first_block_size)

BlockOf(f, row, ch) ==
    RowStart(f, row)
        + ch * IF HasLast(f) /\ row = f.rows
               THEN f.interleave_last_block_size
               ELSE f.interleave_block_size

FirstLen(f) == IF HasFirst(f) THEN FirstSamples(f) ELSE 0
BlockLen(f) == OrWholeStream(f, DefaultSamples(f))

PlaceOf(f, ch, s) ==
    IF s < FirstLen(f)
    THEN InBlock(f, FirstBlock(f, ch), s)
    ELSE InBlock(f, BlockOf(f, (s - FirstLen(f)) \div BlockLen(f), ch),
                    (s - FirstLen(f)) % BlockLen(f))

\* What a call hands over at position t of the unrolled stream: the sample each
\* channel has there in the file's rows of blocks, and silence after the end
\* (or all along if blocks hold no samples).  Buffer sizes, block edges, first
\* and last blocks, loops and rewinds make no difference.
SoundsAt(f, start, t, cell) ==
    IF cell = Blank
    THEN IsOver(start, t) \/ BlockLen(f) = 0
    ELSE \E s \in 0 .. f.num_samples - 1 :
            /\ IsSource(start, t, s)
            /\ \A ch \in Channels(f) : cell[ch] = PlaceOf(f, ch, s)

PlaysTheFile ==
    \A i \in heard.pad + 1 .. Len(heard.cells) :
        SoundsAt(file, start_vgmstream, heard.at + i - heard.pad - 1,
                 heard.cells[i])

\* One decoder call reads one frame of one block: codecs find the frame of the
\* first sample only, and do not look at block edges.
CallsStayInFrame ==
    [][rendering /\ rendering' /\ file.frame > 1 =>
         \A i, j \in Len(sbuf.cells) + 1 .. Len(sbuf'.cells) :
            \A ch \in Channels(file) :
                sbuf'.cells[i][ch][1] = sbuf'.cells[j][ch][1]]_vars

\* Every call returns, whatever the blocks and loop points.
RenderReturns == rendering ~> ~rendering
-----------------------------------------------------------------------------
(* Why it plays the file: the inductive invariant *)

\* What the parsers' headers promise.  The blocks that are there hold samples,
\* the last ones are right behind the whole rows and have all that is left, and
\* what is read of them in one go is a frame of the codec or less.  Offsets that
\* codecs move themselves come out at the end of the block, and only with equal
\* blocks.
SoundFile(f) ==
    /\ FirstLen(f) <= f.num_samples
    /\ HasFirst(f) => FirstSamples(f) > 0 /\ BlockLen(f) > 0
    /\ ~HasFirst(f) => f.interleave_first_skip = 0
    /\ HasLast(f) =>
         LET whole == FirstLen(f) + f.rows * BlockLen(f)
         IN  /\ LastSamples(f) > 0
             /\ whole <= f.num_samples
             /\ f.num_samples < whole + BlockLen(f)
             /\ f.num_samples <= whole + LastSamples(f)
             /\ f.shortframe = f.frame \/ LastSamples(f) <= f.frame
    /\ f.codec_internal_updates =>
         /\ ~HasFirst(f)
         /\ ~HasLast(f)
         /\ f.frame > 1
         /\ f.interleave_block_size % f.frame_size = 0

InterleavedVgm(f) ==
    [num_samples : Nat \ {0}, loop_start_sample : Nat, loop_end_sample : Nat,
     loop_flag : BOOLEAN, frame : Nat \ {0}, codec_data : {FALSE},
     loop_target : Nat, current_sample : Nat, samples_into_block : Nat,
     loop_count : Nat, hit_loop : BOOLEAN, ch : [Channels(f) -> Int],
     loop_ch : [Channels(f) -> Int], loop_current_sample : Nat,
     loop_samples_into_block : Nat]

\* The same head in a file without blocks, where sample and place are one.
FlatAt(v, at) ==
    [num_samples |-> v.num_samples,
     loop_start_sample |-> v.loop_start_sample,
     loop_end_sample |-> v.loop_end_sample,
     loop_flag |-> v.loop_flag, frame |-> v.frame, codec_data |-> FALSE,
     loop_target |-> v.loop_target,
     current_sample |-> at, samples_into_block |-> at, ch |-> at,
     loop_count |-> v.loop_count, hit_loop |-> v.hit_loop,
     loop_current_sample |-> v.loop_current_sample,
     loop_samples_into_block |-> v.loop_current_sample,
     loop_ch |-> v.loop_current_sample]

\* A head past the end, which runs on to the end of its block, is at the end there.
Flat(v) == FlatAt(v, SmallerOf(v.current_sample, v.num_samples))

\* How far a codec moved its offset by itself, `into` samples into a block.
Moved(f, into) ==
    IF f.codec_internal_updates THEN (into \div f.frame) * f.frame_size ELSE 0

\* Offsets and samples_into_block are those of sample s.
InRow(f, s, into, ch, row) ==
    /\ s = FirstLen(f) + row * BlockLen(f) + into
    /\ into < BlockLen(f)
    /\ \A c \in Channels(f) : ch[c] = BlockOf(f, row, c) + Moved(f, into)

InPlace(f, s, into, ch) ==
    IF s < FirstLen(f)
    THEN into = s /\ \A c \in Channels(f) : ch[c] = FirstBlock(f, c)
    ELSE \E row \in 0 .. s : InRow(f, s, into, ch, row)

\* Heads and saved loops are in the block that has their sample, unless there are
\* only empty blocks to be in.
HeadInPlace(f, v) ==
    IF BlockLen(f) = 0
    THEN v.current_sample = 0 /\ v.samples_into_block = 0
    ELSE /\ v.current_sample < v.num_samples =>
              InPlace(f, v.current_sample, v.samples_into_block, v.ch)
         /\ v.hit_loop =>
              InPlace(f, v.loop_current_sample, v.loop_samples_into_block,
                      v.loop_ch)

\* The snapshot is the file just opened.
SnapshotOK(f, start) ==
    /\ start \in InterleavedVgm(f)
    /\ Startable(Flat(start))
    /\ start.num_samples = f.num_samples
    /\ start.current_sample = 0
    /\ start.samples_into_block = 0
    /\ start.hit_loop = FALSE
    /\ \A c \in Channels(f) : start.ch[c] = ChannelOffset(f, c)

HeadFine(f, start, v) ==
    /\ v \in InterleavedVgm(f)
    /\ HeadOK(Flat(start), Flat(v))
    /\ PastEnd(v) => ~v.loop_flag
    /\ HeadInPlace(f, v)

\* In a call, the values of the head's block: those of default blocks do for a
\* last block that was jumped to, but not the other way around.
ValuesFine(f, v, values) ==
    /\ IF v.current_sample < FirstLen(f)
       THEN values = FirstValues(f)
       ELSE \/ values = DefaultValues(f)
            \/ /\ HasLast(f)
               /\ v.current_sample >= FirstLen(f) + f.rows * BlockLen(f)
               /\ values = LastValues(f)
    /\ PastEnd(v) => v.samples_into_block < values.samples_this_block

\* The head is where the samples rendered so far end in the unrolled stream.
OnTime(f, start, v, t) == BlockLen(f) = 0 \/ HeadAt(Flat(start), Flat(v), t)

Cells(f) == {Blank} \cup [Channels(f) -> Int \X Int]

BufferFine ==
    /\ played \in Nat
    /\ sbuf \in [samples : Nat, pad : Pads \cup {0}, cells : Seq(Cells(file))]
    /\ IF rendering
       THEN sbuf.pad <= Len(sbuf.cells) /\ Len(sbuf.cells) <= sbuf.samples
       ELSE sbuf = NoBuffer

\* How many of the samples in the buffer were decoded past the end.
Excess(v) == IF PastEnd(v) THEN v.current_sample - v.num_samples ELSE 0

\* The samples in the buffer are right up to those, which will be blanked.
BufferPlaysTheFile ==
    LET kept == Len(sbuf.cells) - Excess(vgm)
    IN  rendering =>
          /\ kept >= sbuf.pad
          /\ \A i \in sbuf.pad + 1 .. Len(sbuf.cells) :
               LET t == played + i - sbuf.pad - 1
               IN  IF i <= kept
                   THEN SoundsAt(file, start_vgmstream, t, sbuf.cells[i])
                   ELSE IsOver(start_vgmstream, t)

PlaceInv ==
    /\ file \in Files
    /\ rendering \in BOOLEAN
    /\ SnapshotOK(file, start_vgmstream)
    /\ HeadFine(file, start_vgmstream, vgm)
    /\ rendering => ValuesFine(file, vgm, cur)
    /\ BufferFine
    /\ OnTime(file, start_vgmstream, vgm,
              played + Len(sbuf.cells) - sbuf.pad)

InterleaveInv == PlaceInv /\ BufferPlaysTheFile /\ PlaysTheFile
=============================================================================
