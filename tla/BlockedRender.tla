----------------------------- MODULE BlockedRender -----------------------------
(***************************************************************************)
(* One VGMSTREAM with a blocked layout: the data is in blocks, each with a  *)
(* header, and render_layout_blocked calls a format's block_update when the *)
(* samples of a block are done.  A block_update reads the header at         *)
(* next_block_offset and leaves in the VGMSTREAM the size of the block,     *)
(* the channels' offsets and where the next header is; some keep more       *)
(* between calls (the size of the next block, what remains of a bigger      *)
(* block, which half of a frame this is).  All that must survive loops,     *)
(* resets, buffer edges, empty blocks and the end of the file.              *)
(*                                                                          *)
(* Seven of the block_update functions are modelled, one of each sort.      *)
(* Offsets count units: a header is one unit, and so is the data of a       *)
(* sample, unless the file says that a block is bigger.  Sizes in bytes are *)
(* in samples, and the channels, whose offsets differ by a constant, are    *)
(* one.                                                                     *)
(***************************************************************************)
EXTENDS VgmDecode, Timeline, Sequences

CONSTANTS
    Files,        \* blocked files: what is in their blocks
    LoopTargets,  \* 0 for none
    Sizes,        \* buffer sizes a caller asks for
    MaxEmpty,     \* max_empty, 1000 in the code
    MaxPlayed     \* bound on the samples rendered between rewinds

\* size: from this header to the next; head: from the start of the block to its
\* data; kind: "audio", "other" (video, padding) or "head" (of a hvqm4 block
\* that has `samples` units of frames behind).
BlockRecord ==
    [kind : {"audio", "other", "head"}, size : Nat \ {0}, head : {0, 1},
     samples : Nat]

FileRecord ==
    [layout : {"ast", "str_snds", "vid1", "thp", "ubi_sce", "hvqm4", "cf_df"},
     blocks : Seq(BlockRecord), frame : Nat \ {0}, codec_data : {FALSE},
     num_samples : Nat, loop_flag : BOOLEAN,
     loop_start_sample : Int, loop_end_sample : Int,
     loop_start_block : Int, loop_end_block : Int]

ASSUME FilesAssumption == \A f \in Files : f \in FileRecord
ASSUME SizesAssumption == Sizes \subseteq Nat \ {0}
ASSUME LoopTargetsAssumption == LoopTargets \subseteq Nat
ASSUME BoundsAssumption == MaxEmpty \in Nat /\ MaxPlayed \in Nat

VARIABLES
    file,             \* what does not change after opening
    vgm,              \* the VGMSTREAM but for the next two; vgm.ch is an offset
    blk,              \* current_block_*, next_block_offset, full_block_size...
    loop_blk,         \* loop_block_*, saved at the loop start
    start_vgmstream,  \* the snapshot of all three
    cur,              \* samples_this_block and num_empty of a call
    rendering,        \* inside render_layout
    sbuf,             \* buffer being filled
    played,           \* history: samples rendered since open or rewind
    heard             \* history: what the last call delivered

vars == <<file, vgm, blk, loop_blk, start_vgmstream, cur, rendering, sbuf,
          played, heard>>

-----------------------------------------------------------------------------
(* The file: blocks one after the other *)

BlockStart(f, i) ==
    LET start[k \in 1 .. i] ==
          IF k = 1 THEN 0 ELSE start[k - 1] + f.blocks[k - 1].size
    IN  start[i]

FileSize(f) == BlockStart(f, Len(f.blocks) + 1)

BlocksAt(f, offset) == {i \in DOMAIN f.blocks : BlockStart(f, i) = offset}

\* Reads beyond the file give ones.
NoBlock == [kind |-> "none", size |-> 1, head |-> 1, samples |-> -1]

HeaderAt(f, offset) ==
    IF BlocksAt(f, offset) = {} THEN NoBlock
    ELSE f.blocks[CHOOSE i \in BlocksAt(f, offset) : TRUE]

-----------------------------------------------------------------------------
(* block_update_*: [blk |-> ..., ch |-> ...] from the state before *)

At(b, ch) == [blk |-> b, ch |-> ch]

UpdateAst(f, offset, header, b, ch) ==
    At([b EXCEPT !.current_block_offset = offset,
                 !.current_block_size = header.samples,
                 !.next_block_offset = offset + header.size],
       offset + 1)

\* Blocks that are not audio have no size; at the end of the file there is no
\* block, and nothing else changes.
UpdateStrSnds(f, offset, header, b, ch) ==
    IF offset >= FileSize(f)
    THEN At([b EXCEPT !.current_block_samples = -1], ch)
    ELSE At([b EXCEPT !.current_block_offset = offset,
                      !.next_block_offset = offset + header.size,
                      !.current_block_size =
                          IF header.kind = "audio" THEN header.samples ELSE 0],
            offset + 1)

\* What is not a block ("files ends with padding") has no next block.
UpdateVid1(f, offset, header, b, ch) ==
    IF header.kind # "audio"
    THEN At([b EXCEPT !.current_block_offset = offset,
                      !.next_block_offset = offset,
                      !.current_block_size = 0,
                      !.current_block_samples = -1],
            ch)
    ELSE At([b EXCEPT !.current_block_offset = offset,
                      !.next_block_offset = offset + header.size,
                      !.current_block_size = header.samples,
                      !.current_block_samples = 0],
            offset + 1)

\* A header has the size of the next block: this block's was kept before.
UpdateThp(f, offset, header, b, ch) ==
    At([b EXCEPT !.current_block_offset = offset,
                 !.next_block_offset = offset + b.full_block_size,
                 !.full_block_size =
                     HeaderAt(f, offset + header.size).size,
                 !.current_block_samples = header.samples],
       offset + 1)

\* Two subframes of a padding unit each, with a header in the first only.  No
\* header says so: codec_config counts, and the sizes are constant.
UpdateUbiSce(offset, b, ch) ==
    LET header_size == 1 - b.codec_config
        subframe_size == b.full_block_size \div 2
    IN  At([b EXCEPT !.codec_config = 1 - @,
                     !.current_block_offset = offset,
                     !.next_block_offset = offset + header_size + subframe_size + 1,
                     !.current_block_samples = subframe_size],
           offset + header_size)

\* Frames of audio and video in blocks; full_block_size is what is left of the
\* block.  The end of the file is an empty block that follows itself.
UpdateHvqm4(f, offset, header, b, ch) ==
    LET in_block == b.full_block_size > 0
        is_audio == in_block /\ header.kind = "audio"
        left == IF in_block THEN b.full_block_size - header.size
                            ELSE header.samples
    IN  At(IF offset + header.size > FileSize(f)
           THEN [b EXCEPT !.full_block_size = 0,
                          !.current_block_samples = 0,
                          !.current_block_offset = FileSize(f),
                          !.next_block_offset = FileSize(f)]
           ELSE [b EXCEPT !.full_block_size = left,
                          !.current_block_samples =
                              IF is_audio THEN header.samples ELSE 0,
                          !.current_block_offset = offset,
                          !.next_block_offset = offset + header.size],
           IF is_audio THEN offset + 1 ELSE ch)

\* Offsets are places in a list of chunks, with a sentinel after the last.
DfBlockEnd == -1
UpdateCfDf(f, offset, header, b, ch) ==
    IF offset = DfBlockEnd
    THEN At([b EXCEPT !.current_block_offset = offset,
                      !.current_block_size = 0,
                      !.current_block_samples = 0,
                      !.next_block_offset = DfBlockEnd],
            ch)
    ELSE At([b EXCEPT !.current_block_offset = offset,
                      !.current_block_size = header.samples,
                      !.current_block_samples = header.samples,
                      !.next_block_offset =
                          IF offset + 1 < FileSize(f) THEN offset + 1
                          ELSE DfBlockEnd],
            offset)

UpdateBlock(f, offset, header, b, ch) ==
    CASE f.layout = "ast"      -> UpdateAst(f, offset, header, b, ch)
      [] f.layout = "str_snds" -> UpdateStrSnds(f, offset, header, b, ch)
      [] f.layout = "vid1"     -> UpdateVid1(f, offset, header, b, ch)
      [] f.layout = "thp"      -> UpdateThp(f, offset, header, b, ch)
      [] f.layout = "ubi_sce"  -> UpdateUbiSce(offset, b, ch)
      [] f.layout = "hvqm4"    -> UpdateHvqm4(f, offset, header, b, ch)
      [] f.layout = "cf_df"    -> UpdateCfDf(f, offset, header, b, ch)

BlockUpdate(f, offset, b, ch) ==
    UpdateBlock(f, offset, HeaderAt(f, offset), b, ch)

-----------------------------------------------------------------------------
(* Opening.  The samples of some formats are only known by walking blocks.   *)

SamplesThisBlock(b) ==
    IF b.current_block_samples # 0 THEN b.current_block_samples
    ELSE b.current_block_size

\* full_block_size is left by the parser: of the first block, or of a frame.
NewBlock(f) ==
    [current_block_offset |-> 0, current_block_size |-> 0,
     current_block_samples |-> 0, next_block_offset |-> 0, codec_config |-> 0,
     full_block_size |-> IF f.layout = "thp" THEN f.blocks[1].size
                         ELSE IF f.layout = "ubi_sce" THEN 2 * f.blocks[1].samples
                         ELSE 0]

FirstBlock(f) == BlockUpdate(f, 0, NewBlock(f), 0)

Counter(at) == [at |-> at, num_samples |-> 0, loop_start |-> 0, loop_end |-> 0,
                block_count |-> 0, num_empty |-> 0]

NextBlock(f, at) == BlockUpdate(f, at.blk.next_block_offset, at.blk, at.ch)

\* blocked_count_samples, with `at` where block_update went; the loop of hvqm4's
\* parser is the same, without max_empty.
RECURSIVE CountBlocks(_, _, _)
CountBlocks(f, c, at) ==
    LET samples == SamplesThisBlock(at.blk)
        counted ==
          [at |-> at,
           num_samples |-> c.num_samples + samples,
           loop_start |-> IF c.block_count = f.loop_start_block
                          THEN c.num_samples ELSE c.loop_start,
           loop_end |-> IF c.block_count = f.loop_end_block
                        THEN c.num_samples ELSE c.loop_end,
           block_count |-> c.block_count + 1,
           num_empty |-> IF samples = 0 THEN c.num_empty + 1 ELSE 0]
    IN  IF samples < 0 THEN [c EXCEPT !.at = at]
        ELSE IF /\ f.layout = "hvqm4" \/ counted.num_empty <= MaxEmpty
                /\ at.blk.next_block_offset < FileSize(f)
        THEN CountBlocks(f, counted, NextBlock(f, at))
        ELSE counted

CountFrom(f, at) == CountBlocks(f, Counter(at), NextBlock(f, at))

Rewound(at) == At([at.blk EXCEPT !.next_block_offset = 0], at.ch)

BlockedCountSamples_NoRewind(f) ==                                \* mutant
    LET c == CountFrom(f, Rewound(FirstBlock(f)))
    IN  [c EXCEPT !.loop_end = IF f.loop_end_block = -1
                               THEN c.num_samples ELSE @]

BlockedCountSamples(f) ==
    LET c == CountFrom(f, Rewound(FirstBlock(f)))
    IN  [c EXCEPT !.loop_end = IF f.loop_end_block = -1
                               THEN c.num_samples ELSE @,
                  !.at = BlockUpdate(f, 0, c.at.blk, c.at.ch)]

\* hvqm4 counts by itself, and clears its counter around it.
Cleared(at) == At([at.blk EXCEPT !.full_block_size = 0], at.ch)

CountHvqm4(f) ==
    LET c == CountFrom(f, Cleared(Rewound(FirstBlock(f))))
        at == Cleared(c.at)
    IN  [c EXCEPT !.at = BlockUpdate(f, 0, at.blk, at.ch)]

Counted(f) == f.num_samples = 0

Opened(f) ==
    IF ~Counted(f) THEN [Counter(FirstBlock(f)) EXCEPT
                           !.num_samples = f.num_samples,
                           !.loop_start = f.loop_start_sample,
                           !.loop_end = f.loop_end_sample]
    ELSE IF f.layout = "hvqm4" THEN CountHvqm4(f)
    ELSE BlockedCountSamples(f)

OpenStream(f, target) ==
    LET opened == Opened(f)
        v == NewVgmstream([f EXCEPT !.num_samples = opened.num_samples,
                                    !.loop_start_sample = opened.loop_start,
                                    !.loop_end_sample = opened.loop_end])
    IN  [vgm |-> SetLoopTarget([v EXCEPT !.ch = opened.at.ch], target),
         blk |-> opened.at.blk,
         loop_blk |-> NewBlock(f)]

-----------------------------------------------------------------------------
(* decode_do_loop's part in this *)

\* What loops save and restore; codec_config is not.
LoopBlock(from, to) == [from EXCEPT !.codec_config = to.codec_config]

RestoredBlock_KeepsFull(b, saved) ==                              \* mutant
    [saved EXCEPT !.codec_config = b.codec_config,
                  !.full_block_size = b.full_block_size]
RestoredBlock(b, saved) == LoopBlock(saved, b)

SavesLoop(v) == v.loop_flag /\ ~v.hit_loop /\ LoopCheck(v).hit_loop

-----------------------------------------------------------------------------
Blank == <<>>
Blanks(n) == [i \in 1 .. n |-> Blank]
NoBuffer == [samples |-> 0, cells |-> <<>>]
Room == sbuf.samples - Len(sbuf.cells)
NewCall(b) == [samples_this_block |-> SamplesThisBlock(b), num_empty |-> 0]

Heard(n, cells, failed) ==
    [at |-> played, samples |-> n, cells |-> cells, failed |-> failed]
NothingHeard == [at |-> 0, samples |-> 0, cells |-> <<>>, failed |-> FALSE]

Init ==
    /\ file \in Files
    /\ \E target \in LoopTargets : start_vgmstream = OpenStream(file, target)
    /\ vgm = start_vgmstream.vgm
    /\ blk = start_vgmstream.blk
    /\ loop_blk = start_vgmstream.loop_blk
    /\ cur = NewCall(blk)
    /\ rendering = FALSE
    /\ sbuf = NoBuffer
    /\ played = 0
    /\ heard = NothingHeard

Call(n) == ~rendering /\ played + n <= MaxPlayed

\* "Nothing to decode: return blank buf"
RenderPastEnd(n) ==
    /\ Call(n)
    /\ PastEnd(vgm)
    /\ heard' = Heard(n, Blanks(n), FALSE)
    /\ played' = played + n
    /\ UNCHANGED <<file, vgm, blk, loop_blk, start_vgmstream, cur, rendering, sbuf>>

StartRender(n) ==
    /\ Call(n)
    /\ ~PastEnd(vgm)
    /\ cur' = NewCall(blk)
    /\ sbuf' = [samples |-> n, cells |-> <<>>]
    /\ rendering' = TRUE
    /\ heard' = NothingHeard
    /\ UNCHANGED <<file, vgm, blk, loop_blk, start_vgmstream, played>>

InLoop == rendering /\ Room > 0

LoopIteration ==
    /\ InLoop
    /\ Looped(vgm)
    /\ vgm' = LoopCheck(vgm)
    /\ blk' = RestoredBlock(blk, loop_blk)
    /\ cur' = [cur EXCEPT !.samples_this_block = SamplesThisBlock(blk')]
    /\ UNCHANGED <<file, loop_blk, start_vgmstream, rendering, sbuf, played, heard>>

\* The head of an iteration that does not go back.
NotLooped ==
    /\ InLoop
    /\ ~Looped(vgm)
    /\ loop_blk' = IF SavesLoop(vgm) THEN LoopBlock(blk, loop_blk) ELSE loop_blk

SamplesToDo(v) ==
    SmallerOf(DecodeGetSamplesToDo(v, cur.samples_this_block, file.frame), Room)

SamplesDone(v) == IF SamplesToDo(v) > 0 THEN SamplesToDo(v) ELSE 0

EmptyCount_NeverZeroed(done) ==                                   \* mutant
    IF done = 0 THEN cur.num_empty + 1 ELSE cur.num_empty
EmptyCount_Forgotten(done) == 0                                   \* mutant
EmptyCount(done) == IF done = 0 THEN cur.num_empty + 1 ELSE 0

Stuck(v) == EmptyCount(SamplesDone(v)) > MaxEmpty

DecodeIteration ==
    /\ NotLooped
    /\ cur.samples_this_block >= 0
    /\ LET v == LoopCheck(vgm)
           n == SamplesDone(v)
           decoded == [v EXCEPT !.current_sample = @ + n,
                                !.samples_into_block = @ + n]
           block_done == decoded.samples_into_block = cur.samples_this_block
           next == BlockUpdate(file, blk.next_block_offset, blk, v.ch)
       IN  /\ ~Stuck(v)
           /\ sbuf' = [sbuf EXCEPT
                         !.cells = @ \o [j \in 1 .. n |->
                                    <<v.ch, v.samples_into_block + j - 1>>]]
           /\ IF block_done
              THEN /\ vgm' = [decoded EXCEPT !.ch = next.ch,
                                             !.samples_into_block = 0]
                   /\ blk' = next.blk
              ELSE vgm' = decoded /\ blk' = blk
           /\ cur' = [samples_this_block |-> SamplesThisBlock(blk'),
                      num_empty |-> EmptyCount(n)]
    /\ UNCHANGED <<file, start_vgmstream, rendering, played, heard>>

\* Back in render_layout, which hands over `cells`: no more than was decoded.
Return(cells, failed) ==
    /\ heard' = Heard(sbuf.samples, cells, failed)
    /\ played' = played + Len(cells)
    /\ rendering' = FALSE
    /\ sbuf' = NoBuffer
    /\ UNCHANGED <<file, start_vgmstream, cur>>

WithoutExcess(v) == BlankExcess(v, sbuf.cells, sbuf.samples, Blank)

\* RC_LAYOUT_ERROR: the last block_update found the end.  The buffer gets silence,
\* but what was decoded past num_samples stays.
ErrorIteration ==
    /\ NotLooped
    /\ cur.samples_this_block < 0
    /\ vgm' = LoopCheck(vgm)
    /\ Return(sbuf.cells \o Blanks(Room), TRUE)
    /\ UNCHANGED blk

\* "BLOCKED: deadlock?"  The buffer stays as it is, though render_layout blanks
\* what is in excess as if it were full.
StuckIteration ==
    /\ NotLooped
    /\ cur.samples_this_block >= 0
    /\ Stuck(LoopCheck(vgm))
    /\ vgm' = LoopCheck(vgm)
    /\ Return(WithoutExcess(vgm'), TRUE)
    /\ UNCHANGED blk

EndRender ==
    /\ rendering
    /\ Room = 0
    /\ Return(WithoutExcess(vgm), FALSE)
    /\ UNCHANGED <<vgm, blk, loop_blk>>

Reset ==
    /\ ~rendering
    /\ vgm' = ResetVgmstream(vgm, start_vgmstream.vgm)
    /\ blk' = start_vgmstream.blk
    /\ loop_blk' = start_vgmstream.loop_blk
    /\ played' = 0
    /\ heard' = NothingHeard
    /\ UNCHANGED <<file, start_vgmstream, cur, rendering, sbuf>>

RenderStep ==
    LoopIteration \/ DecodeIteration \/ ErrorIteration \/ StuckIteration \/ EndRender

Next ==
    \/ \E n \in Sizes : RenderPastEnd(n) \/ StartRender(n)
    \/ LoopIteration
    \/ DecodeIteration
    \/ ErrorIteration
    \/ StuckIteration
    \/ EndRender
    \/ Reset

\* A thread that is inside render_layout keeps running.
Spec == Init /\ [][Next]_vars /\ WF_vars(RenderStep)

-----------------------------------------------------------------------------
(* The file itself, told from its blocks: where each audio sample is *)

AudioOf(f, i) == IF f.blocks[i].kind = "audio" THEN f.blocks[i].samples ELSE 0

AudioBefore(f, i) ==
    LET before[k \in 1 .. i] ==
          IF k = 1 THEN 0 ELSE before[k - 1] + AudioOf(f, k - 1)
    IN  before[i]

AllAudio(f) == AudioBefore(f, Len(f.blocks) + 1)

\* (Only used with s < AllAudio(f).)
PlaceOf(f, s) ==
    LET i == CHOOSE k \in DOMAIN f.blocks :
                /\ AudioBefore(f, k) <= s
                /\ s < AudioBefore(f, k) + AudioOf(f, k)
    IN  <<BlockStart(f, i) + f.blocks[i].head, s - AudioBefore(f, i)>>

Song == start_vgmstream.vgm

\* Position t is heard after the song, or the file has less than its header says.
NoMoreAt(t) ==
    \/ IsOver(Song, t)
    \/ Song.num_samples > AllAudio(file) /\ t >= AllAudio(file)

SoundsAt(t, cell) ==
    IF cell = Blank THEN NoMoreAt(t)
    ELSE \/ \E s \in 0 .. AllAudio(file) - 1 :
               IsSource(Song, t, s) /\ cell = PlaceOf(file, s)
         \/ heard.failed /\ NoMoreAt(t)

\* What a call hands over at position t of the unrolled stream is the sample that
\* the file's audio blocks, one after the other, have there: whatever the buffer
\* sizes, the blocks without audio, the loops (whose points may be inside of
\* blocks), the rewinds, and what counting the samples at opening left behind.
\* After the song there is silence, but for the rest of a last block in a call
\* that could not fill its buffer.
PlaysTheFile ==
    \A i \in DOMAIN heard.cells : SoundsAt(heard.at + i - 1, heard.cells[i])

\* A call that returns less than it was asked for did so at the end: runs of empty
\* blocks in the song never look like a song that is stuck.
FillsBuffers ==
    Len(heard.cells) < heard.samples => NoMoreAt(heard.at + Len(heard.cells))

\* Every call returns, though past the last block some formats have another
\* empty block forever.
RenderReturns == rendering ~> ~rendering
=============================================================================
