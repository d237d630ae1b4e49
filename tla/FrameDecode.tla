----------------------------- MODULE FrameDecode -----------------------------
(***************************************************************************)
(* decode_frames: codecs that decode a whole frame at a time, into a buffer *)
(* of their own, and so stand further in the file than the play head does.  *)
(*                                                                          *)
(* Every jump of the head (loop, rewind, the seek that pretends the loop    *)
(* end was reached) has to drop what is buffered, put the codec on a frame  *)
(* at or before the new place and have the samples in between discarded.    *)
(* Where that frame and that count are kept differs from codec to codec:    *)
(* the eight below stand for the ways there are.  The layout is flat, the   *)
(* loop machine is VgmDecode's with vgm.ch the next packet of the codecs    *)
(* that keep their place in ch[0].offset.                                   *)
(*                                                                          *)
(* Samples are numbered as they come out of the codec, encoder delay and    *)
(* all: "raw" r is sample r - file.delay of the stream.                     *)
(***************************************************************************)
EXTENDS VgmDecode, Sequences

CONSTANTS
    Files,      \* streams, see FileRecord
    Sizes,      \* sizes of the buffers a caller asks for
    CallSamples,\* VORBIS_CALL_SAMPLES
    MaxEmpty,   \* decode_frames' max_empty
    Rewound,    \* codecs whose streams the callers rewind
    Jumped      \* codecs whose streams they seek in, past the loop start

\* Raw samples, without the one at `to`.
Span == [from : Nat, to : Nat]
Left(range) == range.to - range.from

FileRecord ==
    [num_samples : Nat \ {0}, loop_start_sample : Nat, loop_end_sample : Nat,
     loop_flag : BOOLEAN, frame : {1}, codec_data : {FALSE},
     codec : {"speex", "binka", "atrac9", "aac", "relic", "hca", "tac", "vorbis"},
     delay : Nat,             \* encoder delay
     packets : Seq(Span),    \* what each packet decodes to, nothing for headers
     header_loop : Nat,       \* hca, tac: loop start in the codec's own header
     table : Seq([sample : Nat, packet : Nat]),   \* vorbis: seek table
     table_resets : BOOLEAN]  \* and whether its samples are a reset codec's

\* One packet starts where the one before ended.
InSequence(packets) ==
    \A k \in DOMAIN packets :
        /\ packets[k].from = IF k = 1 THEN 0 ELSE packets[k - 1].to
        /\ packets[k].from <= packets[k].to

ASSUME FilesAssumption ==
    \A f \in Files : f \in FileRecord /\ InSequence(f.packets)
ASSUME LimitsAssumption ==
    Sizes \subseteq Nat /\ CallSamples \in Nat \ {0} /\ MaxEmpty \in Nat \ {0}

VARIABLES
    file,
    vgm,              \* the VGMSTREAM
    start_vgmstream,  \* its snapshot
    codec,            \* codec_data
    ds,               \* decode_state: sbuf as a range of raw samples, discard
    sbuf,             \* buffer being filled; limit is stmp.samples
    num_empty,
    pc,
    run               \* history: the last samples written to a buffer

vars == <<file, vgm, start_vgmstream, codec, ds, sbuf, num_empty, pc, run>>

-----------------------------------------------------------------------------
(* The packets of the file *)

\* Packets are counted from 0.
PacketCount == Len(file.packets)
Packet(k) == file.packets[k + 1]

\* Raw samples in the first k packets: where packet k starts.
RawStart(f, k) ==
    LET n == SmallerOf(k, Len(f.packets))
    IN  IF n = 0 THEN 0 ELSE f.packets[n].to

\* Samples of a frame, where all have as many.
FrameSize(f) == f.packets[1].to
FrameSamples == FrameSize(file)

Nothing == [from |-> 0, to |-> 0]
Dropped(range, n) == [range EXCEPT !.from = @ + n]

NoRun == [kind |-> "none", at |-> 0, src |-> 0, count |-> 0, exact |-> TRUE]

-----------------------------------------------------------------------------
(* Codecs *)

\* Where the next packet is read from.
KeepsOwnPlace == file.codec \in {"hca", "tac"}
Place == IF KeepsOwnPlace THEN codec.next ELSE vgm.ch

ResetDecodeState == [samples |-> Nothing, discard |-> 0, exact |-> TRUE]

\* hca: the loop as the header has it, a block and samples into it
LoopBlock(sample, f) == (sample + f.delay) \div FrameSize(f)
LoopDelay(sample, f) == (sample + f.delay) % FrameSize(f)

InitCodec(f) ==
    [next |-> 0,
     discard |-> IF f.codec \in {"speex", "atrac9", "hca", "aac"} THEN f.delay ELSE 0,
     left |-> Nothing,
     primed |-> FALSE,
     last |-> -1,
     loop_block |-> IF f.header_loop > 0 THEN LoopBlock(f.header_loop, f) ELSE 0,
     loop_delay |-> IF f.header_loop > 0 THEN LoopDelay(f.header_loop, f) ELSE 0]

CodecReset_KeepsPrimed ==                                         \* mutant
    CASE file.codec \in {"speex", "atrac9"} -> [codec EXCEPT !.discard = file.delay]
      [] file.codec = "hca"    -> [codec EXCEPT !.next = 0, !.discard = file.delay]
      [] file.codec = "tac"    -> [codec EXCEPT !.next = 0]
      [] file.codec = "relic"  -> [codec EXCEPT !.discard = 0]
      [] file.codec = "vorbis" -> [codec EXCEPT !.discard = 0]
      [] OTHER                 -> codec

\* What each codec's reset does.  aac restarts the decoder but does not ask for
\* the encoder delay again, tac and aac leave a discard they were asked for.
CodecReset ==
    CASE file.codec \in {"speex", "atrac9"} -> [codec EXCEPT !.discard = file.delay]
      [] file.codec = "hca"    -> [codec EXCEPT !.next = 0, !.discard = file.delay]
      [] file.codec = "tac"    -> [codec EXCEPT !.next = 0]
      [] file.codec = "relic"  -> [codec EXCEPT !.discard = 0]
      [] file.codec = "vorbis" -> [codec EXCEPT !.discard = 0, !.left = Nothing,
                                                !.primed = FALSE]
      [] OTHER                 -> codec

\* What a codec's seek leaves: its own data, ds->discard, and the packet in
\* loop_ch[0].offset, which decode_do_loop then copies to ch[0].
Sought(codec_data, discard, loop_ch) ==
    [codec |-> codec_data, discard |-> discard, loop_ch |-> loop_ch]

SeekSpeex(n) == Sought(CodecReset, n, 0)
SeekBinka(n) == Sought(CodecReset, n, 0)
SeekAac(n)   == Sought([CodecReset EXCEPT !.discard = n + file.delay], 0, 0)
SeekRelic(n) == Sought([CodecReset EXCEPT !.discard = n], 0, vgm.loop_ch)

SeekAtrac9_NoneBack(n) ==                                         \* mutant
    Sought([CodecReset EXCEPT !.discard = (n + file.delay) % FrameSamples],
           0, (n + file.delay) \div FrameSamples)

\* One superframe further back than needed: superframes affect each other.
SeekAtrac9(n) ==
    LET superframe == (n + file.delay) \div FrameSamples
        back       == SmallerOf(1, superframe)
    IN  Sought([CodecReset EXCEPT
                  !.discard = ((n + file.delay) % FrameSamples) + back * FrameSamples],
               0, superframe - back)

\* The header's loop, whatever n is; n's own if the header has none.
SeekHca(n) ==
    LET given == codec.loop_block # 0 \/ codec.loop_delay # 0
        block == IF given THEN codec.loop_block ELSE LoopBlock(n, file)
        delay == IF given THEN codec.loop_delay ELSE LoopDelay(n, file)
    IN  Sought([codec EXCEPT !.loop_block = block, !.loop_delay = delay,
                             !.next = block, !.discard = delay],
               0, vgm.loop_ch)

SeekTac(n) ==
    LET direct == n = file.header_loop
    IN  Sought([codec EXCEPT
                  !.next = IF direct THEN n \div FrameSamples ELSE 0,
                  !.discard = IF direct THEN n % FrameSamples ELSE n],
               0, vgm.loop_ch)

\* The entry before the first that is past n, 0 if there is none.
SeekTableEntry(f, n) ==
    LET past == {i \in DOMAIN f.table : f.table[i].sample > n}
    IN  IF past = {} THEN Len(f.table)
        ELSE (CHOOSE i \in past : \A j \in past : i <= j) - 1

SeekVorbis(n) ==
    LET i == SeekTableEntry(file, n)
        entry == file.table[i]
    IN  IF i = 0
        THEN Sought([CodecReset EXCEPT !.discard = n], 0, 0)
        ELSE Sought([(IF file.table_resets \/ entry.sample = 0
                      THEN CodecReset ELSE codec)
                        EXCEPT !.discard = n - entry.sample],
                    0, entry.packet)

DecodeSeek(n) ==
    CASE file.codec = "speex"  -> SeekSpeex(n)
      [] file.codec = "binka"  -> SeekBinka(n)
      [] file.codec = "aac"    -> SeekAac(n)
      [] file.codec = "relic"  -> SeekRelic(n)
      [] file.codec = "atrac9" -> SeekAtrac9(n)
      [] file.codec = "hca"    -> SeekHca(n)
      [] file.codec = "tac"    -> SeekTac(n)
      [] file.codec = "vorbis" -> SeekVorbis(n)

-----------------------------------------------------------------------------
(* The loop machine with a codec *)

\* loop_count is not read when no loop_target is set; it stays 0 to keep the
\* states finite.
Uncounted(v) == [v EXCEPT !.loop_count = 0]

\* decode_do_loop at the loop end: decode_loop, then restore.
LoopBack_KeepsBuffer ==                                           \* mutant
    LET s == DecodeSeek(vgm.loop_current_sample)
    IN  /\ vgm' = Uncounted(RestoreLoop([vgm EXCEPT !.loop_ch = s.loop_ch]))
        /\ codec' = s.codec
        /\ ds' = [ds EXCEPT !.discard = s.discard]

LoopBack ==
    LET s == DecodeSeek(vgm.loop_current_sample)
    IN  /\ vgm' = Uncounted(RestoreLoop([vgm EXCEPT !.loop_ch = s.loop_ch]))
        /\ codec' = s.codec
        /\ ds' = [ResetDecodeState EXCEPT !.discard = s.discard]

Room == sbuf.samples - sbuf.filled
ToDecode == sbuf.limit - sbuf.filled

\* The head does not move until decode_vgmstream returns.
HeadAt == vgm.current_sample + sbuf.filled - sbuf.from

Silence(at, count) ==
    [kind |-> "silent", at |-> at, src |-> 0, count |-> count, exact |-> TRUE]

Init ==
    /\ file \in Files
    /\ vgm = NewVgmstream(file)
    /\ start_vgmstream = vgm
    /\ codec = InitCodec(file)
    /\ ds = ResetDecodeState
    /\ sbuf = [samples |-> 0, filled |-> 0, from |-> 0, limit |-> 0]
    /\ num_empty = 0
    /\ pc = "idle"
    /\ run = NoRun

StartRender(n) ==
    /\ pc = "idle"
    /\ pc' = "layout"
    /\ sbuf' = [samples |-> n, filled |-> 0, from |-> 0, limit |-> 0]
    /\ UNCHANGED <<file, vgm, start_vgmstream, codec, ds, num_empty, run>>

LoopIteration ==
    /\ pc = "layout"
    /\ Room > 0
    /\ Looped(vgm)
    /\ LoopBack
    /\ UNCHANGED <<file, start_vgmstream, sbuf, num_empty, pc, run>>

StartDecode ==
    /\ pc = "layout"
    /\ Room > 0
    /\ ~Looped(vgm)
    /\ FlatSamplesToDo(vgm, Room) > 0
    /\ vgm' = LoopCheck(vgm)
    /\ sbuf' = [sbuf EXCEPT !.from = sbuf.filled,
                            !.limit = sbuf.filled + FlatSamplesToDo(vgm, Room)]
    /\ num_empty' = 0
    /\ pc' = "frames"
    /\ UNCHANGED <<file, start_vgmstream, codec, ds, run>>

ErrorIteration ==
    /\ pc = "layout"
    /\ Room > 0
    /\ ~Looped(vgm)
    /\ FlatSamplesToDo(vgm, Room) <= 0
    /\ vgm' = LoopCheck(vgm)
    /\ sbuf' = [sbuf EXCEPT !.filled = sbuf.samples]
    /\ run' = Silence(vgm.current_sample, Room)
    /\ UNCHANGED <<file, start_vgmstream, codec, ds, num_empty, pc>>

EndRender ==
    /\ pc = "layout"
    /\ Room = 0
    /\ pc' = "idle"
    /\ UNCHANGED <<file, vgm, start_vgmstream, codec, ds, sbuf, num_empty, run>>

-----------------------------------------------------------------------------
(* decode_frames, one call of a codec, one discard or one copy at a time *)

NeedsFrame == pc = "frames" /\ ToDecode > 0 /\ Left(ds.samples) = 0

\* A frame came out: the codec's discard goes with it.
Out(range, exact, codec_data) ==
    LET asked == codec.discard
    IN  /\ ds' = [samples |-> range,
                  discard |-> IF file.codec = "relic" /\ asked > 0
                              THEN asked ELSE ds.discard + asked,
                  exact |-> exact]
        /\ codec' = [codec_data EXCEPT !.discard = 0]

CountEmpty(range) ==
    num_empty' = IF Left(range) = 0 THEN num_empty + 1 ELSE 0

\* Codecs that turn each packet into one frame.
DecodeFrame ==
    /\ NeedsFrame
    /\ num_empty <= MaxEmpty
    /\ file.codec # "vorbis"
    /\ Place < PacketCount
    /\ LET k == Place
           moved == [codec EXCEPT !.next = IF KeepsOwnPlace THEN k + 1 ELSE @,
                                  !.last = IF file.codec = "atrac9" THEN k ELSE @]
       IN  /\ vgm' = [vgm EXCEPT !.ch = IF KeepsOwnPlace THEN @ ELSE k + 1]
           /\ CountEmpty(Packet(k))
           /\ IF Left(Packet(k)) = 0
              THEN codec' = moved /\ UNCHANGED ds
              ELSE Out(Packet(k), file.codec = "atrac9" => k \in {0, codec.last + 1},
                       moved)
    /\ UNCHANGED <<file, start_vgmstream, sbuf, pc, run>>

\* vorbis: what libvorbis still holds of a packet comes first...
TakeLeft ==
    /\ NeedsFrame
    /\ num_empty <= MaxEmpty
    /\ file.codec = "vorbis"
    /\ Left(codec.left) > 0
    /\ LET n == SmallerOf(Left(codec.left), CallSamples)
           part == [codec.left EXCEPT !.to = codec.left.from + n]
       IN  /\ Out(part, TRUE, [codec EXCEPT !.left = Dropped(@, n)])
           /\ CountEmpty(part)
    /\ UNCHANGED <<file, vgm, start_vgmstream, sbuf, pc, run>>

\* ... then a packet is read, whose samples the next call takes.  The first one
\* after a restart gives none.
ReadPacket ==
    /\ NeedsFrame
    /\ num_empty <= MaxEmpty
    /\ file.codec = "vorbis"
    /\ Left(codec.left) = 0
    /\ Place < PacketCount
    /\ vgm' = [vgm EXCEPT !.ch = @ + 1]
    /\ codec' = [codec EXCEPT !.primed = TRUE,
                              !.left = IF codec.primed THEN Packet(Place) ELSE Nothing]
    /\ num_empty' = num_empty + 1
    /\ UNCHANGED <<file, start_vgmstream, ds, sbuf, pc, run>>

DiscardSamples ==
    /\ pc = "frames"
    /\ ToDecode > 0
    /\ Left(ds.samples) > 0
    /\ ds.discard > 0
    /\ LET n == SmallerOf(ds.discard, Left(ds.samples))
       IN  ds' = [ds EXCEPT !.samples = Dropped(@, n), !.discard = @ - n]
    /\ UNCHANGED <<file, vgm, start_vgmstream, codec, sbuf, num_empty, pc, run>>

CopySamples ==
    /\ pc = "frames"
    /\ ToDecode > 0
    /\ Left(ds.samples) > 0
    /\ ds.discard = 0
    /\ LET n == SmallerOf(ToDecode, Left(ds.samples))
       IN  /\ ds' = [ds EXCEPT !.samples = Dropped(@, n)]
           /\ sbuf' = [sbuf EXCEPT !.filled = @ + n]
           /\ run' = [kind |-> "decoded", at |-> HeadAt,
                      src |-> ds.samples.from - file.delay, count |-> n,
                      exact |-> ds.exact]
    /\ UNCHANGED <<file, vgm, start_vgmstream, codec, num_empty, pc>>

NoFrame ==
    \/ num_empty > MaxEmpty
    \/ Place >= PacketCount /\ Left(codec.left) = 0

DecodeFail_Retried ==                                             \* mutant
    /\ NeedsFrame
    /\ NoFrame
    /\ num_empty' = 0
    /\ UNCHANGED <<file, vgm, start_vgmstream, codec, ds, sbuf, pc, run>>

\* decode_fail: silence for the rest of what was asked.
DecodeFail ==
    /\ NeedsFrame
    /\ NoFrame
    /\ sbuf' = [sbuf EXCEPT !.filled = sbuf.limit]
    /\ run' = Silence(HeadAt, ToDecode)
    /\ UNCHANGED <<file, vgm, start_vgmstream, codec, ds, num_empty, pc>>

EndDecode ==
    /\ pc = "frames"
    /\ ToDecode = 0
    /\ LET done == sbuf.filled - sbuf.from
       IN  vgm' = [vgm EXCEPT !.current_sample = @ + done,
                              !.samples_into_block = @ + done]
    /\ pc' = "layout"
    /\ UNCHANGED <<file, start_vgmstream, codec, ds, sbuf, num_empty, run>>

-----------------------------------------------------------------------------
(* What callers do between buffers *)

\* reset_vgmstream
Reset ==
    /\ pc = "idle"
    /\ file.codec \in Rewound
    /\ vgm' = ResetVgmstream(vgm, start_vgmstream)
    /\ ds' = ResetDecodeState
    /\ codec' = CodecReset
    /\ run' = NoRun
    /\ UNCHANGED <<file, start_vgmstream, sbuf, num_empty, pc>>

\* seek_decode_force_loop_end: the head is on the loop start afterwards.
ForceLoopEnd ==
    /\ pc = "idle"
    /\ file.codec \in Jumped
    /\ vgm.hit_loop
    /\ LoopBack
    /\ run' = NoRun
    /\ UNCHANGED <<file, start_vgmstream, sbuf, num_empty, pc>>

RenderStep ==
    \/ LoopIteration
    \/ StartDecode
    \/ ErrorIteration
    \/ EndRender
    \/ DecodeFrame
    \/ TakeLeft
    \/ ReadPacket
    \/ DiscardSamples
    \/ CopySamples
    \/ DecodeFail
    \/ EndDecode

Next ==
    \/ \E n \in Sizes : StartRender(n)
    \/ RenderStep
    \/ Reset
    \/ ForceLoopEnd

\* A thread that is inside render_layout keeps running.
Spec == Init /\ [][Next]_vars /\ WF_vars(RenderStep)

-----------------------------------------------------------------------------
(* Properties *)

\* What the caller gets at the place p of the head is sample p of the stream,
\* decoded after the frame it depends on, however loops, rewinds and seeks
\* followed each other; silence comes only where the file has nothing.  (The
\* codecs' seek and reset, decode_frames and decode_do_loop have to agree on
\* what is buffered, what is to be discarded and where the next frame is.)
PlaysTheStream ==
    /\ run.kind = "decoded" => run.src = run.at /\ run.exact
    /\ run.kind = "silent" =>
          \/ run.at >= file.num_samples
          \/ run.at + file.delay >= RawStart(file, PacketCount)

\* render_layout returns, also when the file ends early or a packet decodes to
\* nothing.
RenderReturns == pc # "idle" ~> pc = "idle"

-----------------------------------------------------------------------------
(* What files are, where no divergence is known *)

DataEnd(f) == RawStart(f, Len(f.packets))

\* The codecs that find a packet by dividing.
CountsFrames(f) == f.codec \in {"atrac9", "hca", "tac"}

EqualFrames(f) ==
    /\ f.packets # <<>>
    /\ FrameSize(f) > 0
    /\ \A k \in DOMAIN f.packets : f.packets[k].to = k * FrameSize(f)

\* Many packets without samples are at the end of the data only.
NoLongGap(f) ==
    \A k \in 0 .. Len(f.packets) :
        k + MaxEmpty - 1 <= Len(f.packets)
            /\ RawStart(f, k + MaxEmpty - 1) = RawStart(f, k)
          => RawStart(f, k) = DataEnd(f)

\* vorbis: entries that restart the decoder, whose first packet gives nothing
Restarts(f, entry) == f.table_resets \/ entry.sample = 0

TableIsRight(f) ==
    \A i \in DOMAIN f.table :
        LET entry == f.table[i]
        IN  /\ entry.sample
                 = RawStart(f, IF Restarts(f, entry)
                               THEN entry.packet + 1 ELSE entry.packet)
            /\ ~Restarts(f, entry) =>
                  \A k \in DOMAIN f.packets : Left(f.packets[k]) <= CallSamples

SoundFile(f) ==
    /\ CountsFrames(f) => EqualFrames(f)
    /\ NoLongGap(f)
    /\ f.codec \notin {"speex", "atrac9", "aac", "hca"} => f.delay = 0
    /\ f.codec = "vorbis" => RawStart(f, 1) = 0 /\ TableIsRight(f)
    /\ f.codec = "relic" => f.loop_start_sample = 0
    /\ f.codec = "hca" => f.header_loop \in {0, f.loop_start_sample}
    /\ f.codec \notin {"hca", "tac"} => f.header_loop = 0
    /\ f.codec = "tac" => f.loop_start_sample < DataEnd(f)

-----------------------------------------------------------------------------
(* The inductive invariant *)

VgmRecord ==
    [num_samples : Nat \ {0}, loop_start_sample : Nat, loop_end_sample : Nat,
     loop_flag : BOOLEAN, frame : {1}, codec_data : {FALSE}, loop_target : {0},
     current_sample : Nat, samples_into_block : Nat, loop_count : {0},
     hit_loop : BOOLEAN, ch : Nat, loop_ch : Nat, loop_current_sample : Nat,
     loop_samples_into_block : Nat]

CodecRecord ==
    [next : Nat, discard : Nat, left : Span, primed : BOOLEAN,
     last : Nat \cup {-1}, loop_block : Nat, loop_delay : Nat]

DecodeState == [samples : Span, discard : Nat, exact : BOOLEAN]

TypeOK ==
    /\ file \in Files
    /\ codec \in CodecRecord
    /\ ds \in DecodeState
    /\ sbuf \in [samples : Nat, filled : Nat, from : Nat, limit : Nat]
    /\ num_empty \in Nat
    /\ pc \in {"idle", "layout", "frames"}

\* The loop machine finds loop points by equality: the head is before the loop
\* start until that was saved, then in the loop.
HeadOK(f, v) ==
    /\ v \in VgmRecord
    /\ v.num_samples = f.num_samples
    /\ v.loop_flag => v.loop_start_sample = f.loop_start_sample
                        /\ v.loop_start_sample < v.loop_end_sample
                        /\ v.loop_end_sample <= v.num_samples
    /\ v.samples_into_block = v.current_sample
    /\ v.current_sample <= v.num_samples
    /\ v.hit_loop =>
          /\ v.loop_flag
          /\ v.loop_current_sample = v.loop_start_sample
          /\ v.loop_samples_into_block = v.loop_start_sample
          /\ v.loop_start_sample <= v.current_sample
          /\ v.current_sample <= v.loop_end_sample
    /\ v.loop_flag /\ ~v.hit_loop => v.current_sample <= v.loop_start_sample

Advanced(v, n) ==
    [v EXCEPT !.current_sample = @ + n, !.samples_into_block = @ + n]

\* A decode stops at the loop points, so that the head is fine after it too.
HeadInv ==
    /\ HeadOK(file, vgm)
    /\ sbuf.filled <= sbuf.samples
    /\ pc = "frames" =>
          /\ sbuf.from <= sbuf.filled
          /\ sbuf.filled <= sbuf.limit
          /\ sbuf.from < sbuf.limit
          /\ sbuf.limit <= sbuf.samples
          /\ HeadOK(file, Advanced(vgm, sbuf.limit - sbuf.from))

\* What comes out next: what is buffered, what vorbis still holds, then packets.
PacketOf(f, v, c) == IF f.codec \in {"hca", "tac"} THEN c.next ELSE v.ch

NextPacket(f, v, c) ==
    IF f.codec = "vorbis" /\ ~c.primed
    THEN PacketOf(f, v, c) + 1 ELSE PacketOf(f, v, c)

NextHeld(f, v, c) ==
    IF Left(c.left) > 0 THEN c.left.from ELSE RawStart(f, NextPacket(f, v, c))

NextOut(f, v, c, d) ==
    IF Left(d.samples) > 0 THEN d.samples.from ELSE NextHeld(f, v, c)

Pending(c, d) == c.discard + d.discard

HeldInOrder(f, v, c, d) ==
    /\ d.samples.from <= d.samples.to
    /\ c.left.from <= c.left.to
    /\ Left(d.samples) > 0 => d.samples.to = NextHeld(f, v, c) /\ c.discard = 0
    /\ Left(c.left) > 0 =>
          f.codec = "vorbis" /\ c.primed /\ c.left.to = RawStart(f, v.ch)

\* After all that is to be discarded comes raw sample `raw`, unless the data is
\* over.
StandsAt(f, v, c, d, raw) ==
    \/ NextOut(f, v, c, d) + Pending(c, d) = raw
    \/ /\ NextOut(f, v, c, d) = DataEnd(f)
       /\ DataEnd(f) + Pending(c, d) <= raw

PlayHead == IF pc = "frames" THEN HeadAt ELSE vgm.current_sample

\* The packets read since the last sample came out were empty, but for the first
\* one that a restarted vorbis decoder reads.
EmptyRun ==
    pc = "frames" /\ num_empty > 0 =>
        LET k == PacketOf(file, vgm, codec)
        IN  IF file.codec = "vorbis"
            THEN /\ codec.primed
                 /\ num_empty <= k /\ k <= PacketCount
                 /\ num_empty > 1 =>
                       /\ codec.left = Packet(k - 1)
                       /\ RawStart(file, k - num_empty + 1) = RawStart(file, k - 1)
            ELSE /\ num_empty <= k
                 /\ RawStart(file, k - num_empty) = RawStart(file, k)

\* atrac9: what was decoded without the superframe before is all discarded.
FrameIsExact(f, v, c, d) ==
    IF f.codec = "atrac9"
    THEN /\ Left(d.samples) > 0 => d.exact \/ d.discard >= Left(d.samples)
         /\ \/ v.ch = 0
            \/ c.last = v.ch - 1
            \/ Left(d.samples) = 0 /\ Pending(c, d) >= FrameSize(f)
    ELSE d.exact

\* hca: the loop sought is the one there is.
HeaderLoopOK(f, c) ==
    f.codec = "hca" =>
        \/ c.loop_block = 0 /\ c.loop_delay = 0
        \/ /\ c.loop_block = LoopBlock(f.loop_start_sample, f)
           /\ c.loop_delay = LoopDelay(f.loop_start_sample, f)

\* relic, binka: nothing to discard; relic's loop start is the start.
NoDiscard(f, v, c, d) ==
    /\ f.codec \in {"relic", "binka"} => c.discard = 0
    /\ f.codec = "relic" =>
          /\ d.discard = 0
          /\ v.loop_flag => IF v.hit_loop THEN v.loop_ch = 0 ELSE v.ch = 0

\* tac: resets keep a discard, so it is used up at once.
DiscardUsed ==
    file.codec = "tac" /\ codec.discard > 0 =>
        /\ codec.next < PacketCount
        /\ vgm.loop_flag
        /\ vgm.current_sample < vgm.loop_end_sample
        /\ pc = "layout" => Room > 0
        /\ pc = "frames" => ToDecode > 0 /\ num_empty = 0 /\ Left(ds.samples) = 0
        /\ pc # "idle"

\* vorbis: seeks that do not restart the decoder find nothing held, and one that
\* gives all packets.
KeepsDecoder(f, n) ==
    LET i == SeekTableEntry(f, n)
    IN  f.codec = "vorbis" /\ i # 0 /\ ~Restarts(f, f.table[i])

NothingHeld ==
    KeepsDecoder(file, vgm.loop_start_sample) =>
        /\ Left(codec.left) > 0 =>
              NeedsFrame /\ num_empty > 0 /\ Left(codec.left) <= CallSamples
        /\ ~codec.primed =>
              /\ vgm.ch = 0
              /\ Left(ds.samples) = 0
              /\ vgm.hit_loop => NeedsFrame /\ num_empty = 0

FrameInv ==
    /\ TypeOK
    /\ SoundFile(file)
    /\ start_vgmstream = NewVgmstream(file)
    /\ HeadInv
    /\ HeldInOrder(file, vgm, codec, ds)
    /\ StandsAt(file, vgm, codec, ds, PlayHead + file.delay)
    /\ EmptyRun
    /\ FrameIsExact(file, vgm, codec, ds)
    /\ HeaderLoopOK(file, codec)
    /\ NoDiscard(file, vgm, codec, ds)
    /\ DiscardUsed
    /\ NothingHeld
    /\ PlaysTheStream
=============================================================================
