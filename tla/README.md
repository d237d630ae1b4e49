# vgmstream in TLA+

TLA+ modules, model-checking runs and proofs for the parts of vgmstream that keep state: the
decoder's loop machine, the layouts that drive it, codecs that decode ahead of it, the play state
around it, seeking, the library handle, the streamfiles, and the threads of the Winamp plugin.
Paths below are relative to the repository (`src/base/render.c` is the file of that name there).

- [The system](#the-system): components, their state, how they interact, what is hard
- [The modules](#the-modules): which module models what, and how it maps to the code
- [The runs](#the-runs): what TLC checks, bounds, fairness
- [The proofs](#the-proofs): what TLAPS checks, from which assumptions, along which argument
- [Divergences](#divergences-between-code-and-documentation): where code and documentation disagree
- [Not modelled](#not-modelled) and [the plan](#the-plan)

## The system

vgmstream opens a game audio file through a *streamfile*, has a *format parser* recognise it and
fill a `VGMSTREAM`, and then decodes it into buffers on demand. Between the decoder and the client
there are four layers of state, each of which believes something about the others' position:

    client  ──  libvgmstream_t handle      done, consumed, decode_done        api_decode_*.c
                  │
                play state (pstate)        play_position, *_left counters     render.c, play_state.c
                  │                                                           seek.c
                VGMSTREAM                  current_sample, loop_count,        decode.c, vgmstream.c
                  │    layout              hit_loop, samples_into_block       layout/*.c
                codec                      history, offsets (ch[])            coding/*
                  │
                streamfiles                buffer, offset, valid_size         streamfile*.c

Everything is single threaded inside one handle. What is hard there is *agreement over long
sequences of calls*: which of these positions a call moves, which it must move with them, and which
it leaves stale. The plugins add threads of their own; Winamp's share plain fields without a lock.

### Inventory

| Component | State | Operations | What makes it correct |
|---|---|---|---|
| Loop machine and setup (`vgmstream.c`, `base/decode.c`) | loop points, `loop_target`, play head, saved loop (`loop_ch`, `loop_*`), `start_vgmstream` snapshot | setup, force loop, set target, reset, do loop, samples to do, decode | the sequence of decoded samples is the unrolled stream; what a loop end restores was saved at the loop start of the same play |
| Flat layout (`layout/flat.c`) | none of its own | one render loop | fills the buffer exactly, always ends |
| Interleave layout (`layout/interleave.c`) | `samples_into_block`, an offset per channel | render, next block, loop back | each channel reads the block that has the sample, though first and last blocks are guessed from the play head |
| Blocked layout (`layout/blocked*.c`, `util/layout_utils.c`) | offset and sizes of this block and the next, formats' own counters | count samples, update block, render, loop back | audio blocks are played in order whatever is between them, and what a format keeps between blocks survives loops |
| Segmented, layered layouts | a VGMSTREAM per part, current segment | render, seek, loop, reset | the heads of the whole and of its parts agree |
| Frame decoding (`decode_frames`, `seek_table.c`) | frame buffer, samples to discard, the codec's place | decode, copy, consume, discard, seek, reset | no sample lost or repeated at frame edges and after a jump |
| Play state (`base/play_state.c`) | durations, `*_left`, `play_position` | setup | durations agree with what the decoder will deliver |
| Render operations (`base/render.c`) | the same play state and one sample buffer | trim, pad, fade, pad end, totals | each sample of output depends on its position only |
| Seeking (`base/seek.c`) | all of the above | clamp, trim, pad, decode (intro, loop, outro, past end), fade | after any history a seek is the same as playing up to there |
| Play config (`base/play_config.c`) | three configs merged | apply | precedence of config sources |
| Library handle (`base/api_decode_*.c`) | `buf`, `sbuf`, `dec`, `setup_done`, `config_loaded` | init, setup, open, close, render, fill, seek, reset | in order, nothing lost, `done` at the end, the config asked for |
| Streamfiles with a buffer (`streamfile_stdio.c`, `streamfile_buffer.c`, `api_libsf_cache.c`) | `buf_offset`, `valid_size`, `offset` | read | the bytes of the file, all there are, whatever was buffered |
| Clamp and multifile streamfiles | `offset`, inner files | read | sections read like one file |
| Mixer, resampler | mixing commands, filter buffers | process | sample arithmetic; channel bookkeeping |
| Parsers (`meta/`), codecs (`coding/`) | header fields; codec state | open; decode a frame | data, abstracted: see below |
| Winamp plugin (`winamp/in_vgmstream.c`) | `seek_sample`, `decode_pos`, `decode_abort`, shared by two threads | play, pause, seek, stop; the decode thread's lines | requests of one thread are served by the other, the time shown is what is heard, songs end and stops return |
| Other players (`cli`, `fb2k`, `xmplay`, `audacious`) | position in the song | play, seek, stop | they call the library in turn |

Interactions: a client call goes down the layers by direct calls; state comes back by shared
structs. `reset_vgmstream` restores the whole struct, play state included, from a snapshot taken
when the config was applied, but what pointers in it point to (`loop_ch`) survives. `seek_vgmstream`
works by throwing away what `render_layout` decodes. `libvgmstream_fill` keeps an internal buffer
between calls that seek, reset and close must drop.

`PROJECT.json` lists the hazards that follow, each at its line with the properties that cover it.

## The modules

| Module | Of | Models |
|---|---|---|
| `Timeline` | abstract | the unrolled stream: which sample of the file is heard at a position, given loops and target. No heads, no saved state |
| `VgmDecode` | `vgmstream.c`, `base/decode.c`, `layout/flat.c`, `base/play_state.c` | operators on a record with the fields of a `VGMSTREAM`: setup, forced loops, snapshot and reset, the loop machine, cutting a decode |
| `FlatRender` | `layout/flat.c`, `render_layout` | one VGMSTREAM, buffers of any size, rewinds; one action per loop iteration |
| `LoopHead` | | where the play head of a VGMSTREAM may be and which place of the unrolled stream that is: what the inductive invariants of `FlatRender`, `Player` and `InterleaveRender` share |
| `LoopHead_proofs` | | lemmas: each operator of the loop machine keeps it, and arithmetic about `Timeline` |
| `FlatRender_proofs` | | its theorems |
| `Playback` | abstract | what the client of `render_main`, `seek_vgmstream` and `reset_vgmstream` is promised: a position, and samples that depend on it only |
| `Player` | `base/render.c`, `base/seek.c`, `base/play_state.c` over `VgmDecode` | trim, pads, fade, totals, every case of a seek, reset; shown to implement `Playback` |
| `Player_proofs` | | its theorems, the refinement among them |
| `InterleaveRender` | `layout/interleave.c` over `VgmDecode` | rows of blocks with first, default and last sizes; one action per loop iteration, one place in the file per channel |
| `InterleaveRender_proofs` | | its theorems |
| `BlockedRender` | `layout/blocked.c`, seven `blocked_*.c`, `util/layout_utils.c` over `VgmDecode` | counting at opening, updating and playing blocks; one action per loop iteration |
| `PartsRender` | `layout/segmented.c`, `layered.c`, custom seeks of `base/seek.c` over `VgmDecode` | a VGMSTREAM of others: rendering, looping, seeking, resetting whole and parts |
| `FrameDecode` | `decode_frames` (`base/decode.c`), `seek_table.c`, eight decoders of `coding/`, over `VgmDecode` | frame buffer, discard and place through loops, rewinds and jumps; one action per turn of the loop |
| `FrameDecode_proofs` | | its theorems |
| `LibApi` | `base/api_decode_*.c`, `seek_simple` | the handle, any order of calls |
| `LibApi_proofs` | | its theorems |
| `StreamfileRead` | | what a read of any streamfile is to its caller; what the next two share |
| `BufferedFile` | the three streamfiles with buffers | their read loop, one action per step, with inner reads that may fall short |
| `JoinedFile` | clamp and multifile streamfiles | reads across sections, one action per inner read |
| `Streamfile_proofs` | | the theorems of `BufferedFile` and `JoinedFile` |
| `WinampPlayer` | `winamp/in_vgmstream.c` | Winamp's thread, the decode thread and the output plugin, one access of a shared field per action |
| `WinampPlayer_proofs` | | its theorems |
| `MC...` | | constants for TLC |

`VgmDecode` is the loop machine once, as operators. `FlatRender`, `Player`, `InterleaveRender`,
`BlockedRender`, `PartsRender` and `FrameDecode` drive it the ways the layouts and codecs do, and all of
them but `Player` and `FrameDecode` are judged by `Timeline`: the sample at position t of what a
caller renders is the one the unrolled stream has there. Each of those modules says in its own
terms where the file has that sample (`PlaceOf`, `CellAt`), from the file's blocks or parts and
without a play head. `PastEnd` and `BlankExcess` of `VgmDecode` are what `render_layout` does around every layout.

**How state maps to code.** Variables and record fields keep the names of the C structs. What a
decoder holds (`ch[]`, `codec_data`) is abstracted to the index of the sample it would decode next:
copying `ch` to `loop_ch` copies that index, `decode_seek` sets it. A sample in a buffer is the index
of the sample of the file it is (`src`), and how far down the fade it was taken; silence is -1. So
"is the right audio heard" becomes a comparison of indices. A byte of a file is its position.

**How actions map to code.** `FlatRender` and `Player` take one iteration of `render_layout_flat` as
an action (`LoopIteration` is the `continue`, `DecodeIteration` the rest, `ErrorIteration` the
`goto decode_fail` with the blanking that `render_layout` does). In `Player` those iterations serve
three callers, told apart by `task.step`: the trim at the beginning, the body of a render, and the
decoding a seek throws away. `Player`'s `Seek...` actions are the cases of `seek_decode` in the order
of its conditions; `StartSeek` is what `seek_render` does before it and `FinishSeek` what it does
after. `LibApi` has one action per call, and `fill` as a loop of three.

**History variables** record what a property needs and the code does not keep: how much was played
(`played`), the last run of samples (`run`, `heard`, `got`, `copied`), what was asked for (`asked`),
whether an inner read fell short (`fell_short`).

**Units.** `InterleaveRender` counts offsets in the codec's smallest frame, `BlockedRender` in units
that hold a header or a sample, `FrameDecode` in packets, `WinampPlayer` in buffers of
`SAMPLE_BUFFER_SIZE`. `FrameDecode`'s eight codecs stand for the ways there are of keeping the place
(`ch[0].offset`, the codec's own counter, nowhere) and of discarding (`ds->discard`, the codec's own,
a frame further back); a packet that fails is at the end of the file only. `exact`
says whether the frame before was decoded too, and is followed for ATRAC9, whose code rewinds for it;
HCA's first block after a loop, which overlaps the one before as well, is taken as right.

**The threads of `WinampPlayer`.** `pc` is the line the decode thread is at. Every read and every
write of `state`'s fields is an action, so both threads can come between any two of them; the library call
in `FillAndWrite` and `SeekStream` touches only what the decode thread owns. `mishaps` records that a
moment the properties except has come.

`Timeline` and `Playback` are the specifications: they say what a listener should get without
mentioning how, and are short enough to be judged by reading. `Playback!Spec`, with `position` as the
play position, is a property of `Player` (`KeepsPromise`), so every render, seek and reset has to be
one step of it or a stutter.

Operators named `Op_Mistake` are plausible bugs. Nothing uses them; they show that each property can
tell the code from a broken version of it, and `PROJECT.json` says which ("mutants").

## The runs

| Run | Shows |
|---|---|
| `flat_render` | for every loop region of a four sample file (negative, inverted, empty and past the end ones too), frames of 1 and 3, codecs with and without seek, and every combination of loop options: samples are those of the unrolled stream (`PlaysTimeline`), silence comes only at its end, renders return; and `FlatInv`, the invariant of the proof. Parts of it, or implied by it, are that the buffer is exactly filled (`BufferExactlyFilled`), that no decode crosses a frame (`RunsStayInFrame`) and that what is saved is the loop start (`SavedLoopIsLoopStart`) |
| `player` | 27 configs (pads, trims, half loops, body time, forced and ignored loops, play forever; each plain, with a fade, with an outro) on four files: all sequences of renders, seeks and resets implement `Playback` (`KeepsPromise`); songs with an outro end on the last sample (`PlaysToTheEnd`); the loop is off only in the outro; calls return; and `PlayerInv`, the invariant of the proof |
| `interleave` | one to three channels, first blocks of other sizes with and without skip, last blocks of one and more frames, files without blocks, codecs whose frame is smaller than, equal to or told apart in the last block, codecs that move offsets themselves, loops in, out of and across all of those: each channel reads where the file has the sample (`PlaysTheFile`), a decoder call reads one frame of one block, renders return; and `InterleaveInv`, the invariant of the proof |
| `blocked` | AST, Sims SNDS, VID1, THP, Ubi SCE, HVQM4 and Cavia DF blocks with empty ones and other data in between, headers that tell too few or too many samples, counted samples, loops by sample and by block: the audio blocks in order (`PlaysTheFile`); a short buffer means the end (`FillsBuffers`); renders return though some formats end in endless empty blocks |
| `parts` | segments (one twice, a loop of one, of several, to the end, set from outside, in the middle of segments) and layers (looping, not, shorter than the loop): after any renders, seeks and resets the parts play what the whole's place says (`PlaysTheParts`); renders return |
| `frames` | eight codecs, encoder delays, empty and uneven packets, files that end early, seek tables of both sorts, loops at, before and after frame edges: after any loops, rewinds and jumps sample p is heard at p (`PlaysTheStream`); renders return; and `FrameInv`, the invariant of the proof |
| `lib_api` | two songs, two configs, fills smaller and larger than the internal buffer, seeks beyond both ends: samples in order, each once, `done` with the last one, the config that was asked for, the right position, fill returns; and `HandleInv`, the invariant of the proofs |
| `lib_done`, `buffered_cache` | see divergences |
| `buffered_file` | files of 0 to 7 bytes, buffers of 1 to 5, reads of 0 to 6 at every offset and beyond, every inner read as short as it likes: no wrong byte is copied, all bytes there are arrive unless a read fell short, reads return; and `FileInv`, the invariant of the proof |
| `joined_file` | one to three sections, overlapping and out of order, reads from every offset but the very end: the joined data, all of it; and `JoinedInv`, the invariant of the proof |
| `winamp` | songs of one and three buffers, two seeks at any moment to the start, the middle and past the end, pauses, stops that time out or not: no seek is lost, the time shown is that of what is heard next, a song that ends was heard to its end, a stop gets its thread back, and a song that is not paused ends; and `PlayerInv`, the invariant of the proof |

**Bounds and why they are enough.** The loop machine compares positions for equality and order, so
what matters is how loop start, loop end, file end, frame edge and buffer edge are ordered; files of
4 and 5 samples with frames of 3 and buffers of 1 to 4 realise every order, and `MaxPlayed = 11`
is past two loops and the outro of most of them. The proof covers all other values. In `Player`,
pads, trims and fades are of different lengths, shorter and longer than a buffer (`MaxBuf = 3`),
so that a buffer can hold several parts and a part several buffers; `Seeks` has a position in
each part and one beyond each end; `MaxPosition = 10` bounds a song that plays forever, and
`MaxLoops = 5` one whose client goes on rendering after its end. `LibApi`'s internal buffer has 2
samples, songs 4 and 5 and fill buffers 1 and 3: the end of a song falls both on an edge of the
internal buffer and inside it. Sample rate is 1, so durations in seconds are samples;
`loop_count` is in half loops to keep counts like 1.5.

The layouts' files have 2 or 3 blocks or rows of 1 to 4 samples, which put block, frame, loop and
buffer edges (`Sizes` 1, 2 and 5) in every order; `MaxPlayed = 14` is past two loops of any of them and
their ends, `MaxPosition = 12` likewise for parts. `LoopTargets` are none and 2. `MaxEmpty`, 1000 in
the code, is 3, with runs of empty blocks and packets of up to two in files that go on, which
must play, and endless ones at their end, which must not; `CallSamples`, 1024 in the code, is 3, less than the
largest packet, as 1024 is of Vorbis' largest. `winamp`'s library decodes 2 buffers at once, the output holds 2, a song has 1 or 3: full,
empty and half full output at every line of the thread. Two seeks (`MaxSeeks`) are what a seek during a
seek takes; the proof is for any number.

**Fairness.** For the library it is weak fairness of the steps of a call that is in progress: a
thread inside `render_layout`, `seek_vgmstream`, `libvgmstream_fill` or a read function runs on, since these
functions do not block on anything. Nothing is assumed of the client, which may stop calling at any time.
The liveness properties say that calls return.

In `WinampPlayer` the decode thread is weakly fair (the system schedules it; its waits are `Sleep`s), so
is the end of `winamp_Stop`'s wait once the thread is gone, and so is the output, which plays what it has unless it is
paused. The user's pauses, seeks and stops, and the time-out that ends in `TerminateThread`, are not fair. `StopEnds` holds without the time-out ever
being taken, and `SongEnds` assumes that from some time on the song is not paused.

**What the passing runs leave out.** Where the code is known to diverge, the passing run keeps the
caller or the file away, by a constant, and the divergence is one edit of the configuration away
(next section). `Habits` of `Player`, `LibApi` and `PartsRender` names what callers may do that the code
gets wrong; none is on. `Readers` has the cache apart; `ReadsAtEnd` has reads at the very end of joined files; `Pads`
has buffers that pad-begin wrote to; `Rewound` and `Jumped` are the codecs whose streams are reset and sought in.
`MCPlayer`, `MCBlockedRender` and `MCFrameDecode` keep the files and configs that go wrong in definitions of their own.

## The proofs

Checked by TLAPS for every value of the constants that the named assumptions and the hypotheses of the theorem
allow. Each invariant was first checked by TLC, in the run of its module.

| Theorems | State |
|---|---|
| `FlatInvariant`, `FlatPlaysTimeline`, `FlatSilenceOnlyWhenOver`, `FlatRunsStayInFrame`, `FlatBufferExactlyFilled`, `FlatSavedLoopIsLoopStart` | the flat layout plays the unrolled stream |
| `PlayerInit`, `PlayerInvariant`, `PlayerKeepsPromise`, `PlayerLoopOff`, `PlayerPlaysToTheEnd` | renders, seeks and resets implement `Playback`; songs end where they should |
| `FrameInvariant`, `FramePlaysTheStream` | codecs that decode ahead stay in step with the head |
| `LibHandleOK`, `LibHandleInv`, `LibDeliversInOrder`, `LibPositionIsKnown`, `LibDoneAtEndOnly`, `LibConfigIsTheOneAsked` | the handle under any order of calls |
| `InterleaveInit`, `InterleavePlace`, `InterleaveInvariant`, `InterleavePlaysTheFile`, `InterleaveCallsStayInFrame` | the interleave layout reads each channel where the file's blocks have the sample |
| `FileInvariant`, `FileCopiesWhatWasAsked`, `FileReadsAllThereIs` | buffered streamfiles |
| `JoinedInvariant`, `FileJoinsInOrder`, `FileReadsAllSegments` | sections read like one file |
| `WinampInvariant`, `WinampSeeksAreTaken`, `WinampShowsWhatIsHeard`, `WinampSongIsHeardOut` | the plugin's two threads |

**LoopHead and LoopHead_proofs.** The code finds loop points by comparing the head for equality, so what has to be
known of a head is where it can be before the loop start was hit, in the loop, and after the last
loop (`HeadInLoop`); that decoder, block and head agree (`HeadsAgree`); that the saved loop is the loop start
(`SavedLoop`); and that its place in the unrolled stream is its sample plus a loop body for each jump back,
until the stream is over (`HeadAt`). A lemma for each operator of `VgmDecode` says what it does to those: half an
iteration (`LoopCheck`), a decode of `FlatSamplesToDo` samples, opening, forced loops and the setup of a config. The
lemmas about `Timeline` are arithmetic: which sample is next, when the stream is over, that loop bodies repeat.

**FlatRender_proofs**, from the assumptions that files and configs are records of the right shape
with any loop points, positive lengths and frames. `FlatInv` is `LoopHead`'s description of the head for the samples played
so far, with `SnapshotOpenable`: the snapshot is sane and unplayed, whichever config made it.
None of the properties is inductive: that the next run comes from the right place depends on where
the decoder is, which depends on what was saved one loop earlier.

**Player_proofs**, for any files, any configs (lengths, pads, trims, fades and loop counts are natural numbers; negative
times, which mean "unset" to the parsers of configs, are not modelled), any buffer size and positions to
seek to. The invariant `PlayerInv` says
- `SongOK`: config, snapshot and durations are those of one song: what `setup_state_processing` computed (`InfoOK`, `PlayerInit`);
- `TimesOK`: each `*_left` counter is what the play position leaves of its duration: the counters are decremented
  in five functions and recomputed in two more;
- `HeadSomewhere`, also for a stream parked past its end by a seek (`Parked`), and, between calls, that the head is at the place of the unrolled stream that the play position means (`PlayingOK`);
- `TaskOK` and `SeekingOK`: half way through a render or a seek, how much is still to be decoded
  or thrown away. A seek forces loops, switches the loop off and rewinds, and at each of its lines head
  plus what is left to skip is the target;
- `HeardOK`: each sample of the last buffer is the one of its position.

There is one lemma per action; the cases of `seek_decode` have a lemma each, on top of `LoopHead_proofs`.
`PlayerKeepsPromise` is the refinement: the initial state maps to `Playback!Init`, and each step to a step of `Playback` or a
stutter, by `HeardOK` and because the position a seek ends on is the one asked for. Hypotheses: `GoodCallers`, that
none of the two habits of the section on divergences is on, since with them the properties are false (TLC shows it).
`PlayerPlaysToTheEnd` also supposes at least one loop when there is an outro, for the same reason.

**FrameDecode_proofs**, for any streams, limits and buffer sizes. The hypotheses are that every stream is a `SoundFile` (`FrameDecode`, near
its end: equal frames where the code divides by their size, seek tables that are right, and what else the
divergences below need), that raw AAC is not rewound and that TAC is not sought in. `FrameInv` relates five things kept in five places:
- `StandsAt`: what comes out next (buffered, then held by libvorbis, then the next packet's start) plus what is to be
  discarded, in the codec and in `decode_state`, is the play head's sample, or the data is over;
- `HeldInOrder`: buffer, held samples and next packet join without a gap;
- `FrameIsExact`: what ATRAC9 decoded without the superframe before is inside of what is to be discarded;
- `EmptyRun`: what was read since `num_empty` was 0, so that giving up is right;
- `NothingHeld`, `DiscardUsed`, `NoDiscard`, `HeaderLoopOK`: what a seek that leaves part of the codec's state alone may
  find there, codec by codec;
- `HeadInv`: the loop machine's part; a decode stops at loop points.

`Landing` is what a seek or a reset must leave; one lemma per kind of seek (`SeekFromStart`, `SeekBySuperframe`,
`SeekByHeader`, `SeekByLoop`, `SeekByTable`) shows it for its codecs, and `LandedStands` that it puts the head right. That later packets start later, and that a seek table's
entry exists, needs induction over numbers: `Induction` and `Smallest` are proved from the well-foundedness of `<` on Nat, over sets instead of
predicates.

**LibApi_proofs**, for any songs, configs and buffer sizes. `HandleOK` holds whatever clients do: what an open, configured or
rendering handle is, and that the head is in its song. On top of it there is one invariant per property, because each needs other habits
to be absent: `LibConfigIsTheOneAsked` that no song is set up twice; `LibDeliversInOrder` and
`LibPositionIsKnown` (`OrderInv`: what `fill` keeps back is right behind what the client got) that nothing is filled after a reopen or
sought before the setup; `LibDoneAtEndOnly` also that there are no seeks when done. `HandleInv` has all of them.

**InterleaveRender_proofs**, for any number of channels, rows and codec frames, first and last blocks of any size, any loops, targets
and buffers. `PlaysTheFile` compares what a buffer holds with `PlaceOf`, which divides a sample by the sizes of
the blocks; the code never divides, it adds to offsets and subtracts from `samples_into_block`, and guesses from the play head
what kind of block a call starts in. `InterleaveInv` is what joins the two:
- `HeadInPlace`: the offsets of all channels, and `samples_into_block`, are those of the row that has the head's sample
  (`InRow`), in the head and in the saved loop. Before the first row it is the first block; where a codec moves
  its offset by itself, the offset is ahead of the block by the frames read (`Moved`);
- `ValuesFine`: inside a call, the block's values in use are those of the head's block. It has a disjunct that
  took a counterexample of TLC to find: after a loop end that jumps back into a last block the values of default blocks are in use there,
  which does no harm because a last block holds all that is left; the other way around never happens;
- `OnTime` and `HeadFine`: the loop machine's part. `Flat(v)` is the same head in a file without blocks, where sample and place are one; each
  operator commutes with it, so that `LoopHead_proofs`' lemmas are cited and not proved again;
- `BufferPlaysTheFile`: a head past the end decodes on to the end of its block, into samples that the blanking of
  `render_layout` replaces when the call returns. Up to there the buffer is right, and what comes after is past the end (`Excess`);
- `BufferFine`, `SnapshotOK`: shapes, and the snapshot of the opened file.

`PlaceInv` is all of it but the buffers' contents, and is proved first, for buffers with and without a pad (`InterleavePlace`); `InterleaveCallsStayInFrame`
needs no more than that. The contents are proved where the layout's samples start the buffer (`Pads` within {0}), because otherwise the
property is false (see the divergences). `FilesSound` is the hypothesis on files, `SoundFile` of each: blocks that are there hold samples, last ones are
right behind the whole rows, hold what is left and are read in one frame or with the frame of the others, and codecs that move offsets
have whole frames in equal blocks. The files of the run satisfy it (`FilesAreSound` of `MCInterleaveRender`); loop points are free. SMT knows division
only for numbers it is given, so places go through lemmas that hand it quotient and rest (`Division`, `OneQuotient`).

**Streamfile_proofs**, the theorems of two modules. *BufferedFile*, for any file and buffer sizes, and the readers "stdio" and "buffer":
`FileInv` adds that the read's offset and length
advance together (`Advances`), that the buffer is a piece of the file, the whole of it once the
file is closed unless reading it fell short (`BufferInFile`), and why a read may stop early
(`GivesUpAtEnd`). That the reader is not the cache is a hypothesis: for the cache the property is false.

*JoinedFile*, for any number of sections of any sizes, in any order and overlapping or not. `JoinedFilesSound` is what opening
checks (no section is empty or goes beyond its archive), and that nobody reads from negative offsets or right at the end, where the property is
false. Two things are behind `JoinedInv`. Where sections start is a sum over the ones before: `StartsExist` shows that such a function exists, by
induction over the set of lengths that have one, and `StartsFollow` and `StartsInFile` are what reads need of it. And a read that
goes on has the bytes up to where the next inner read begins (`ReadsOn`): an inner read returns all that was asked for or else ends its section
(`SectionBytes`), which is why the next one may start at 0, and why one that returns after the last section has all there is.

**WinampPlayer_proofs**, for any songs, seeks, buffer sizes and number of seeks, from the assumptions that
songs and buffers are not empty and seeks natural. TLC interleaves two seeks in short songs; this is for
every interleaving. The properties speak of the moments when no seek is wanted; what makes them inductive is
what holds in between, `PlayerInv`:
- `RequestIsShared`: a request not yet taken is in the shared field, whatever line `do_seek` is at;
- `PlaceIsShown`: `decode_pos`, one step late after a write, is where the library stands;
- `OutputIsUpToPlace`: unless a seek is under way, the output has the places right before that one,
  without a gap. A write appends the next, the output takes the first, the flush starts anew: two lemmas
  about sequences, `WrittenPlaces` and `PlayedPlaces`;
- `DoneIsTheEnd`: `done` means that all was handed out (`FilledStream` is the lemma about
  `libvgmstream_fill`), and the thread asks for the output only when it is done.

There is one lemma per action, one step per conjunct. The exceptions (`mishaps`) are hypotheses of
the conjuncts they spoil.

**Only model-checked:** the blocked layout (`BlockedRender`: seven formats, each with its own idea of what survives a loop) and the parts of
segmented and layered ones (`PartsRender`): both have a recursive operator (the walk over the blocks, parts that are made of parts),
and TLAPS has no SMT backend in a module with one; and all
liveness properties (`RenderReturns`, `CallsReturn`, `FillReturns`, `ReadReturns`, `StopEnds`,
`SongEnds`), which need ENABLED and are out of the prover's reach.

## Divergences between code and documentation

With a run that shows them ("findings" in `PROJECT.json`):

- `lib_done`: `libvgmstream_seek` never clears `decode_done`, so a stream that was done stays done after a seek back.
- `buffered_cache`: `cache_read` starts at the offset of the read before.

Seen while modelling; a change to a configuration makes a property fail:

| In | Change | Fails | Why |
|---|---|---|---|
| `MCPlayer.cfg` | `Habits <- SeekBeforeFade` | `KeepsPromise` | a seek back to before a fade that was heard leaves `fade_left` at 0: the second time the song plays through the fade at full volume (`seek.c:418`) |
| `MCPlayer.cfg` | `Habits <- SeekBackFromOutro` | `LoopOffOnlyInOutro` | `seek_decode` compares a position of the unrolled stream with `current_sample`, which goes back at each loop (`seek.c:117`); the loop, "restored on resets" (`decode.c:1515`), stays off when a seek goes back without one |
| `MCPlayer.cfg` | `Configs <- ZeroLoops` | `PlaysToTheEnd` | "loop N times, but also play stream end" (`play_state.c:57`): with a count below 1 the target is 0, which loops forever |
| `MCLibApi.cfg` | `Habits <- FillAfterReopen` | `DeliversInOrder` | closing zeroes `priv->buf` but not `priv->sbuf`: unread samples of the earlier song count as delivered |
| `MCLibApi.cfg` | `Habits <- SetupAgain` | `ConfigIsTheOneAsked` | setup on a configured song is dropped, though documented to apply to the next one |
| `MCLibApi.cfg` | `Habits <- SeekBeforeSetup` | `PositionIsKnown` | a seek before any config moves the decoder, then the first render takes the snapshot there (`api_decode_play.c:66`) |
| `MCJoinedFile.cfg` | `ReadsAtEnd = TRUE` | `JoinsInOrder` | a read right at the end of joined streamfiles returns data of the second one |
| `MCPartsRender.cfg` | `Habits <- AllHabits` | `PlaysTheParts` | `decode_do_loop` before the loop start was reached restores a `loop_ch` never saved in layers that keep state in channels; with a target, the layers' loops are counted apart from the whole's |
| `MCInterleaveRender.cfg` | `Pads <- MCPads` | `PlaysTheFile` | the blanking past the end counts from the start of a buffer that pad-begin may have written to (`render.c:132`) |
| `MCBlockedRender.cfg` | `Files <- HalvedLoops` | `PlaysTheFile` | `codec_config`, which tells the half of a Ubi SCE frame, is not saved with the loop: loops that start in the second half of a frame get the wrong header size |
| `MCFrameDecode.cfg` | `Files <- OtherLoops` | `PlaysTheStream` | HCA's seek goes to the loop of the header, whatever was asked for |
| `MCFrameDecode.cfg` | `Files <- RelicLoops` | `PlaysTheStream` | Relic's seek does not set the place: right only for loops from the start |
| `MCFrameDecode.cfg` | `Files <- OldTables` | `PlaysTheStream` | a seek by an old table does not restart the decoder, which still holds the rest of a packet |
| `MCFrameDecode.cfg` | `Files <- JustTac`, `Jumped <- AllButAac` | `PlaysTheStream` | TAC keeps its discard when it is rewound after a jump |
| `MCFrameDecode.cfg` | `Files <- JustAac`, `Rewound <- KeepNoDiscard` | `PlaysTheStream` | raw AAC's reset restarts the decoder but does not ask for the encoder delay again, and leaves a discard it was asked for |

What the properties of `WinampPlayer` except, by name: a seek asked for between a comparison of `do_seek` and the
assignment after it (`in_vgmstream.c:675` and `690`) is lost; a seek past the end is "ignored" but moves `decode_pos`; a
seek back while the last buffers play ends the song, because `done` stays (as in `lib_done`).

Without a property here:

- `render_layout_blocked`'s error return and its way out of stuck blocks skip the blanking past the end.
- `layout_utils.c:336` compares `block_count` with the loop end under `loop_audio_only`, where `audio_count` is used for the loop start five lines above (HVQM4).
- `vgmstream.h:221` calls the saved `full_block_size` "probably unnecessary"; THP loops need it (the
  mutant `RestoredBlock_KeepsFull` shows how they break).
- Cavia DF's end of blocks is `UINT32_MAX` and relies on an `off_t` of 64 bits.
- `clamp_read` does not check negative offsets; a short read of one segment shifts the next one's data in `multifile_read`.
- Durations are `int`: long bodies and many loops overflow.
- After `vgmstream_set_play_forever(false)` past the end the length in `play_op_pad_end` would be negative; nothing calls it.
- `libvgmstream_render` on a handle without a song (`api_decode_play.c:83`) uses a vgmstream that is not there.

## Not modelled

By lines most of the repository is not state but data, and stays out for that reason: about 1000
files of header parsers, sample arithmetic of codecs, codebooks and key tables, headers of
FFmpeg, and libraries kept as source (miniz, MAAC, clHCA...). The modules cover the code that decides which sample comes next, which is a
few thousand lines.

- *Format parsers* (`meta/`): pure readers of headers. What they hand over is any `Files`, invalid loops included.
- *Sample values*: codecs, mixing, macros, resampling and fades are followed by index only. The fade's position
  is modelled, its curve is not.
- *ADPCM history kept across loops* for DSP and PSX (`decode_do_loop`), and dual stereo.
- *Codecs with `decode_buf`* and those of external libraries (FFmpeg, mpg123, vorbisfile): they end in the same
  `decode_frames`, with seeks of their library.
- *The other blocked formats*: about thirty more `block_update` functions, most of which read a size and move on
  as AST's does; the seven modelled keep state between blocks or end in ways of their own.
- *Layers with their own play config* ("external looping") and layers whose loop points differ by a few samples.
- *int overflow* of durations; sample rates other than 1; the precedence of external, default and TXTP configs.
- *Other players*: each calls the library as `LibApi`'s client does; the threads are their hosts'.
- *Opening files by name*, shared descriptors, wrappers that pass reads on, path helpers, tags, titles, text.

## The plan

Done, in the order of how much of the program's behaviour depends on the part: `FlatRender`, `Player` and its refinement
of `Playback`, `LibApi`, `FrameDecode`, `BufferedFile`, `WinampPlayer`, `InterleaveRender` and `JoinedFile`, all with their proofs;
`BlockedRender` and `PartsRender`, model-checked.

Left:

1. `BlockedRender`: its count of blocks as a function, then `FillsBuffers` and `PlaysTheFile` for any blocks, one format at a time. As in `InterleaveRender` the loop
   machine's part is `LoopHead`'s; new is what each format has to have kept when a loop goes back.
2. `PartsRender`: its recursion over parts as a function, then that whole and parts agree.
3. `PlayConfig`: precedence of configs as a pure function against a table.
4. Layers with a config of their own; the remaining ways codecs keep their place (`decode_buf`).
