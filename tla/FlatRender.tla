------------------------------ MODULE FlatRender ------------------------------
(***************************************************************************)
(* One VGMSTREAM with the flat layout, rendered by a caller that asks for   *)
(* buffers of any size and may rewind it at any time.                       *)
(*                                                                          *)
(* render_layout and render_layout_flat are taken one loop iteration at a   *)
(* time, so that the loop itself is what is checked and proved: does it end,*)
(* does it fill the buffer, and is every sample it puts there the one the   *)
(* unrolled stream (module Timeline) has at that place?                     *)
(***************************************************************************)
EXTENDS LoopHead

CONSTANTS
    Files,        \* what parsers may hand to prepare_vgmstream
    Configs,      \* play configs
    MaxBuf,       \* largest buffer a caller asks for
    MaxPlayed     \* bound on the samples rendered between rewinds

\* loop_count is a number of half loops: configs like 1.5 loops are common.
ConfigRecord ==
    [play_forever : BOOLEAN, really_force_loop : BOOLEAN, force_loop : BOOLEAN,
     ignore_loop : BOOLEAN, ignore_fade : BOOLEAN, loop_count : Nat]

ASSUME FilesAssumption     == \A f \in Files : f \in FileRecord
ASSUME ConfigsAssumption   == \A c \in Configs : c \in ConfigRecord
ASSUME MaxBufAssumption    == MaxBuf \in Nat \ {0}
ASSUME MaxPlayedAssumption == MaxPlayed \in Nat

VARIABLES
    vgm,              \* the VGMSTREAM
    start_vgmstream,  \* its snapshot, restored by reset_vgmstream
    configured,       \* vgmstream_apply_config was called
    sbuf,             \* buffer being filled
    rendering,        \* inside render_layout
    played,           \* history: samples rendered since open or rewind
    run               \* history: the last samples written to a buffer

vars == <<vgm, start_vgmstream, configured, sbuf, rendering, played, run>>

-----------------------------------------------------------------------------
NoRun == [kind |-> "none", at |-> 0, src |-> 0, count |-> 0]

Decoded(at, src, count) ==
    [kind |-> "decoded", at |-> at, src |-> src, count |-> count]

Silent(at, count) ==
    [kind |-> "silent", at |-> at, src |-> 0, count |-> count]

Room == sbuf.samples - sbuf.filled

Init ==
    /\ vgm \in {NewVgmstream(f) : f \in Files}
    /\ start_vgmstream = vgm
    /\ configured = FALSE
    /\ sbuf = [samples |-> 0, filled |-> 0]
    /\ rendering = FALSE
    /\ played = 0
    /\ run = NoRun

\* vgmstream_apply_config, called between opening and playing.
ApplyConfig(c) ==
    /\ ~configured
    /\ ~rendering
    /\ played = 0
    /\ vgm' = SetupVgmstream(SetupStateModifiers(vgm, c))
    /\ start_vgmstream' = vgm'
    /\ configured' = TRUE
    /\ run' = NoRun
    /\ UNCHANGED <<sbuf, rendering, played>>

StartRender(n) ==
    /\ ~rendering
    /\ played + n <= MaxPlayed
    /\ sbuf' = [samples |-> n, filled |-> 0]
    /\ rendering' = TRUE
    /\ UNCHANGED <<vgm, start_vgmstream, configured, played, run>>

\* "if (vgmstream->loop_flag && decode_do_loop(vgmstream)) continue;"
LoopIteration ==
    /\ rendering
    /\ Room > 0
    /\ Looped(vgm)
    /\ vgm' = LoopCheck(vgm)
    /\ UNCHANGED <<start_vgmstream, configured, sbuf, rendering, played, run>>

DecodeIteration ==
    /\ rendering
    /\ Room > 0
    /\ ~Looped(vgm)
    /\ LET n == FlatSamplesToDo(vgm, Room)
       IN  /\ n > 0
           /\ vgm' = DecodeVgmstream(LoopCheck(vgm), n)
           /\ sbuf' = [sbuf EXCEPT !.filled = @ + n]
           /\ run' = Decoded(played, vgm.ch, n)
           /\ played' = played + n
    /\ UNCHANGED <<start_vgmstream, configured, rendering>>

ErrorIteration_Retried ==                                         \* mutant
    /\ rendering
    /\ Room > 0
    /\ ~Looped(vgm)
    /\ FlatSamplesToDo(vgm, Room) <= 0
    /\ vgm' = LoopCheck(vgm)
    /\ UNCHANGED <<start_vgmstream, configured, sbuf, rendering, played, run>>

\* RC_LAYOUT_ERROR: render_layout blanks the rest of the buffer and goes on.
ErrorIteration ==
    /\ rendering
    /\ Room > 0
    /\ ~Looped(vgm)
    /\ FlatSamplesToDo(vgm, Room) <= 0
    /\ vgm' = LoopCheck(vgm)
    /\ sbuf' = [sbuf EXCEPT !.filled = sbuf.samples]
    /\ run' = Silent(played, Room)
    /\ played' = played + Room
    /\ UNCHANGED <<start_vgmstream, configured, rendering>>

EndRender ==
    /\ rendering
    /\ Room <= 0
    /\ rendering' = FALSE
    /\ UNCHANGED <<vgm, start_vgmstream, configured, sbuf, played, run>>

Reset ==
    /\ ~rendering
    /\ vgm' = ResetVgmstream(vgm, start_vgmstream)
    /\ played' = 0
    /\ run' = NoRun
    /\ UNCHANGED <<start_vgmstream, configured, sbuf, rendering>>

RenderStep == LoopIteration \/ DecodeIteration \/ ErrorIteration \/ EndRender

Next ==
    \/ \E c \in Configs : ApplyConfig(c)
    \/ \E n \in 1 .. MaxBuf : StartRender(n)
    \/ LoopIteration
    \/ DecodeIteration
    \/ ErrorIteration
    \/ EndRender
    \/ Reset

\* A thread that is inside render_layout keeps running.
Spec == Init /\ [][Next]_vars /\ WF_vars(RenderStep)

-----------------------------------------------------------------------------
RunRecord ==
    [kind : {"none", "decoded", "silent"}, at : Nat, src : Nat, count : Nat]

\* Shape of the state: sane loop points survive whatever the parser read and
\* the config asked for.
TypeOK ==
    /\ vgm \in VgmRecord
    /\ start_vgmstream \in VgmRecord
    /\ configured \in BOOLEAN
    /\ sbuf \in [samples : Nat, filled : Nat]
    /\ rendering \in BOOLEAN
    /\ played \in Nat
    /\ run \in RunRecord

\* Samples are those of the unrolled stream: what render_layout_flat writes at
\* position t since open or rewind is the file's sample for t, whatever buffer
\* sizes were used, across loop start, loop end, the last loop and resets.
PlaysTimeline ==
    run.kind = "decoded" =>
        \A j \in 0 .. run.count - 1 :
            IsSource(start_vgmstream, run.at + j, run.src + j)

\* Blank samples are only ever produced by running out of stream, never by the
\* "wrong samples_to_do" error hitting in the middle of it.
SilenceOnlyWhenOver ==
    run.kind = "silent" => IsOver(start_vgmstream, run.at)

\* One decoder call never straddles two frames: decoders of framed codecs read
\* a frame and copy part of it, they do not continue into the next.
RunsStayInFrame ==
    run.kind = "decoded" /\ start_vgmstream.frame > 1 =>
        (run.src % start_vgmstream.frame) + run.count <= start_vgmstream.frame

\* render_layout gives the caller exactly the samples asked for, and never
\* writes past the end of the buffer.
BufferExactlyFilled ==
    /\ sbuf.filled <= sbuf.samples
    /\ ~rendering => sbuf.filled = sbuf.samples

\* What decode_do_loop restores at loop end is the state at loop start, at all
\* times it may be restored: leftovers of an earlier play (reset_vgmstream keeps
\* loop_ch) are never taken for it.
SavedLoopIsLoopStart ==
    vgm.hit_loop =>
        /\ vgm.loop_ch = vgm.loop_start_sample
        /\ vgm.loop_current_sample = vgm.loop_start_sample
        /\ vgm.loop_samples_into_block = vgm.loop_start_sample

\* Every call returns: loop points can not make the render loop spin.
RenderReturns == rendering ~> ~rendering
-----------------------------------------------------------------------------
(* Why the properties hold: the inductive invariant that FlatRender_proofs  *)
(* proves.                                                                  *)

SnapshotOpenable ==
    /\ Startable(start_vgmstream)
    /\ ~configured => start_vgmstream.loop_target = 0

\* The head's place in the unrolled stream is the number of samples played.
OnTimeline == HeadAt(start_vgmstream, vgm, played)

NothingPlayed == played = 0 => Unplayed(vgm)

FlatInv ==
    /\ TypeOK
    /\ SnapshotOpenable
    /\ HeadOK(start_vgmstream, vgm)
    /\ OnTimeline
    /\ NothingPlayed
    /\ BufferExactlyFilled
    /\ PlaysTimeline
    /\ SilenceOnlyWhenOver
    /\ RunsStayInFrame
=============================================================================
