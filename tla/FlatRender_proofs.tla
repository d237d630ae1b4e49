--------------------------- MODULE FlatRender_proofs ---------------------------
(***************************************************************************)
(* Proofs about FlatRender, for every set of files and configs and every    *)
(* buffer size.                                                             *)
(***************************************************************************)
EXTENDS FlatRender, LoopHead_proofs

-----------------------------------------------------------------------------
(* The invariant holds at first ... *)

\* An opened stream satisfies the invariant, whatever its header says.
THEOREM FlatInit == Init => FlatInv
  <1> SUFFICES ASSUME Init PROVE FlatInv
    OBVIOUS
  <1>1. PICK f \in Files : vgm = NewVgmstream(f)
    BY DEF Init
  <1>2. Openable(vgm) /\ vgm.loop_target = 0
    BY <1>1, FilesAssumption, NewIsOpenable
  <1>3. SnapshotOpenable
    BY <1>2 DEF Init, SnapshotOpenable, Startable
  <1>4. HeadOK(start_vgmstream, vgm) /\ OnTimeline
    BY <1>2, <1>3, UnplayedHead
       DEF Init, SnapshotOpenable, Openable, SameStream, OnTimeline
  <1>5. TypeOK
    BY <1>2 DEF Init, TypeOK, Openable, RunRecord, NoRun
  <1> QED
    BY <1>2, <1>3, <1>4, <1>5
       DEF Init, FlatInv, NothingPlayed, Openable, NoRun,
           BufferExactlyFilled, PlaysTimeline, SilenceOnlyWhenOver,
           RunsStayInFrame

-----------------------------------------------------------------------------
(* ... and every step keeps it *)

\* What the properties say of a run that was not just written.
RunOK ==
    /\ run \in RunRecord
    /\ PlaysTimeline
    /\ SilenceOnlyWhenOver
    /\ RunsStayInFrame

\* With nothing written, what is said of the last run holds.
LEMMA NoRunIsOK == run' = NoRun => RunOK'
  BY DEF RunOK, RunRecord, NoRun, PlaysTimeline, SilenceOnlyWhenOver,
         RunsStayInFrame

\* vgmstream_apply_config, with any config, keeps the invariant.
LEMMA ApplyConfigKeepsInv ==
    ASSUME FlatInv, NEW c \in Configs, ApplyConfig(c)
    PROVE  FlatInv'
  <1>1. c \in ConfigRecord
    BY ConfigsAssumption
  <1>2. Forceable(vgm)
    <2>1. /\ vgm \in VgmRecord
          /\ SameStream(start_vgmstream, vgm)
          /\ HeadInLoop(start_vgmstream, vgm)
      BY DEF FlatInv, HeadOK
    <2>2. Unplayed(vgm)
      BY DEF FlatInv, ApplyConfig, NothingPlayed
    <2>3. vgm.loop_target = 0
      BY <2>1 DEF FlatInv, ApplyConfig, SnapshotOpenable, SameStream
    <2>4. SaneLoop(vgm)
      BY <2>1
         DEF FlatInv, SnapshotOpenable, Startable, Openable, SaneLoop, SameStream,
             HeadInLoop
    <2> QED  BY <2>1, <2>2, <2>3, <2>4 DEF Forceable, Openable
  <1>3. /\ Startable(vgm') /\ start_vgmstream' = vgm'
        /\ configured' /\ played' = 0
    BY <1>1, <1>2, ModifiersAreOpenable DEF ApplyConfig, ConfigRecord, FlatInv
  <1>4. SnapshotOpenable'
    BY <1>3 DEF SnapshotOpenable
  <1>5. /\ vgm' \in VgmRecord /\ Unplayed(vgm')
        /\ SameStream(vgm', vgm')
    BY <1>3 DEF Startable, Openable, SameStream
  <1>6. HeadOK(start_vgmstream, vgm)' /\ OnTimeline'
    BY <1>3, <1>5, UnplayedHead DEF OnTimeline
  <1>7. TypeOK' /\ BufferExactlyFilled'
    BY <1>3, <1>5, NoRunIsOK
       DEF FlatInv, ApplyConfig, TypeOK, BufferExactlyFilled, RunOK
  <1>8. NothingPlayed'
    BY <1>5 DEF NothingPlayed
  <1>9. RunOK'
    BY NoRunIsOK DEF ApplyConfig
  <1> QED  BY <1>4, <1>6, <1>7, <1>8, <1>9 DEF FlatInv, RunOK

\* Steps that leave the streams alone keep what is said of them.
LEMMA SameHeadKeeps ==
    ASSUME FlatInv, UNCHANGED <<start_vgmstream, configured>>
    PROVE  /\ SnapshotOpenable'
           /\ vgm' = vgm => HeadOK(start_vgmstream, vgm)'
           /\ vgm' = vgm /\ played' = played => OnTimeline'
  BY DEF FlatInv, SnapshotOpenable, OnTimeline

\* Entering render_layout, with any buffer size, keeps the invariant.
LEMMA StartRenderKeepsInv ==
    ASSUME FlatInv, NEW n \in 1 .. MaxBuf, StartRender(n)
    PROVE  FlatInv'
  <1>1. /\ vgm' = vgm /\ played' = played /\ run' = run
        /\ UNCHANGED <<start_vgmstream, configured>>
        /\ sbuf' = [samples |-> n, filled |-> 0] /\ rendering' = TRUE
    BY DEF StartRender
  <1>2. TypeOK' /\ BufferExactlyFilled'
    BY <1>1 DEF FlatInv, TypeOK, BufferExactlyFilled
  <1>3. OnTimeline' /\ NothingPlayed'
    BY <1>1, SameHeadKeeps DEF FlatInv, NothingPlayed, Unplayed
  <1>4. PlaysTimeline' /\ SilenceOnlyWhenOver' /\ RunsStayInFrame'
    BY <1>1 DEF FlatInv, PlaysTimeline, SilenceOnlyWhenOver, RunsStayInFrame
  <1> QED  BY <1>1, <1>2, <1>3, <1>4, SameHeadKeeps DEF FlatInv

\* Leaving render_layout keeps the invariant.
LEMMA EndRenderKeepsInv ==
    ASSUME FlatInv, EndRender
    PROVE  FlatInv'
  <1>1. /\ vgm' = vgm /\ played' = played /\ run' = run /\ sbuf' = sbuf
        /\ UNCHANGED <<start_vgmstream, configured>>
        /\ rendering' = FALSE /\ sbuf.samples - sbuf.filled <= 0
    BY DEF EndRender, Room
  <1>2. TypeOK'
    BY <1>1 DEF FlatInv, TypeOK
  <1>3. BufferExactlyFilled'
    BY <1>1 DEF FlatInv, TypeOK, BufferExactlyFilled
  <1>4. OnTimeline' /\ NothingPlayed'
    BY <1>1, SameHeadKeeps DEF FlatInv, NothingPlayed, Unplayed
  <1>5. PlaysTimeline' /\ SilenceOnlyWhenOver' /\ RunsStayInFrame'
    BY <1>1 DEF FlatInv, PlaysTimeline, SilenceOnlyWhenOver, RunsStayInFrame
  <1> QED  BY <1>1, <1>2, <1>3, <1>4, <1>5, SameHeadKeeps DEF FlatInv

\* An iteration that jumps back to the loop start keeps the invariant.
LEMMA LoopIterationKeepsInv ==
    ASSUME FlatInv, LoopIteration
    PROVE  FlatInv'
  <1>1. /\ vgm' = LoopCheck(vgm) /\ Looped(vgm) /\ played' = played
        /\ run' = run /\ sbuf' = sbuf /\ rendering' = rendering
        /\ UNCHANGED <<start_vgmstream, configured>>
    BY DEF LoopIteration
  <1>2. /\ Startable(start_vgmstream)
        /\ HeadOK(start_vgmstream, vgm)
        /\ HeadAt(start_vgmstream, vgm, played)
        /\ played \in Nat
    BY DEF FlatInv, SnapshotOpenable, OnTimeline, TypeOK
  <1>3. PICK v : v = LoopCheck(vgm)
    OBVIOUS
  <1>4. HeadOK(start_vgmstream, v) /\ HeadAt(start_vgmstream, v, played)
    BY <1>1, <1>2, <1>3, JumpKeepsPlace
  <1>5. HeadOK(start_vgmstream, vgm)' /\ OnTimeline'
    BY <1>1, <1>3, <1>4 DEF OnTimeline
  <1>6. TypeOK' /\ BufferExactlyFilled'
    BY <1>1, <1>5 DEF FlatInv, TypeOK, BufferExactlyFilled, HeadOK
  <1>7. played # 0
    <2>1. /\ vgm.current_sample = vgm.loop_end_sample
          /\ start_vgmstream.loop_flag
      BY <1>1, <1>2 DEF Looped, AtLoopEnd, HeadOK, HeadInLoop
    <2>2. vgm.current_sample # 0
      BY <1>2, <2>1, LoopIsSane DEF HeadOK, VgmRecord
    <2> QED  BY <2>2 DEF FlatInv, NothingPlayed, Unplayed
  <1>8. NothingPlayed'
    BY <1>1, <1>7 DEF NothingPlayed
  <1>9. SnapshotOpenable'
    BY <1>1, SameHeadKeeps
  <1>10. PlaysTimeline' /\ SilenceOnlyWhenOver' /\ RunsStayInFrame'
    BY <1>1 DEF FlatInv, PlaysTimeline, SilenceOnlyWhenOver, RunsStayInFrame
  <1> QED  BY <1>5, <1>6, <1>8, <1>9, <1>10 DEF FlatInv

\* The two iterations that do not jump start alike.
LEMMA IterationStart ==
    FlatInv => /\ Room \in Nat
               /\ played \in Nat
               /\ Startable(start_vgmstream)
               /\ HeadOK(start_vgmstream, vgm)
               /\ HeadAt(start_vgmstream, vgm, played)
  BY DEF FlatInv, TypeOK, BufferExactlyFilled, Room, SnapshotOpenable, OnTimeline

\* An iteration that decodes keeps the invariant.
LEMMA DecodeIterationKeepsInv ==
    ASSUME FlatInv, DecodeIteration
    PROVE  FlatInv'
  <1>1. PICK n, w : /\ n = FlatSamplesToDo(vgm, Room)
                    /\ w = DecodeVgmstream(LoopCheck(vgm), n)
    OBVIOUS
  <1>2. /\ n > 0
        /\ vgm' = w
        /\ sbuf' = [sbuf EXCEPT !.filled = @ + n]
        /\ run' = Decoded(played, vgm.ch, n)
        /\ played' = played + n
        /\ rendering' = rendering /\ rendering
        /\ UNCHANGED <<start_vgmstream, configured>>
        /\ Room > 0 /\ ~Looped(vgm)
    BY <1>1 DEF DecodeIteration
  <1>3. PICK room, at : room = Room /\ at = played
    OBVIOUS
  <1>4. /\ n \in 1 .. room
        /\ HeadOK(start_vgmstream, w)
        /\ vgm.ch \in Nat
        /\ vgm.frame > 1 => (vgm.ch % vgm.frame) + n <= vgm.frame
        /\ HeadAt(start_vgmstream, w, at + n)
        /\ \A j \in 0 .. n - 1 : IsSource(start_vgmstream, at + j, vgm.ch + j)
    BY <1>1, <1>2, <1>3, IterationStart, IterationDecodes
  <1>5. HeadOK(start_vgmstream, vgm)' /\ OnTimeline'
    BY <1>2, <1>3, <1>4 DEF OnTimeline
  <1>6. played \in Nat /\ played' \in Nat /\ played' # 0
    BY <1>2, <1>4, IterationStart
  <1>7. NothingPlayed'
    BY <1>6 DEF NothingPlayed
  <1>8. sbuf'.samples = sbuf.samples /\ sbuf'.filled = sbuf.filled + n
         /\ sbuf' \in [samples : Nat, filled : Nat]
    BY <1>2, <1>4 DEF FlatInv, TypeOK
  <1>9. BufferExactlyFilled'
    BY <1>2, <1>3, <1>4, <1>8 DEF FlatInv, TypeOK, BufferExactlyFilled, Room
  <1>10. run' = [kind |-> "decoded", at |-> at, src |-> vgm.ch, count |-> n]
    BY <1>2, <1>3 DEF Decoded
  <1>11. TypeOK'
    <2>1. run' \in RunRecord
      BY <1>3, <1>4, <1>6, <1>10 DEF RunRecord
    <2> QED
      BY <1>2, <1>5, <1>6, <1>8, <2>1 DEF FlatInv, TypeOK, HeadOK
  <1>12. PlaysTimeline'
    BY <1>2, <1>4, <1>10 DEF PlaysTimeline
  <1>13. RunsStayInFrame'
    <2>1. vgm.frame = start_vgmstream.frame
      BY DEF FlatInv, HeadOK, SameStream
    <2> QED  BY <1>2, <1>4, <1>10, <2>1 DEF RunsStayInFrame
  <1>14. SilenceOnlyWhenOver'
    BY <1>10 DEF SilenceOnlyWhenOver
  <1>15. SnapshotOpenable'
    BY <1>2, SameHeadKeeps
  <1> QED
    BY <1>5, <1>7, <1>9, <1>11, <1>12, <1>13, <1>14, <1>15 DEF FlatInv

\* RC_LAYOUT_ERROR keeps the invariant: it only comes when the stream is over.
LEMMA ErrorIterationKeepsInv ==
    ASSUME FlatInv, ErrorIteration
    PROVE  FlatInv'
  <1>1. PICK v : v = LoopCheck(vgm)
    OBVIOUS
  <1>2. /\ FlatSamplesToDo(vgm, Room) <= 0
        /\ vgm' = v
        /\ sbuf' = [sbuf EXCEPT !.filled = sbuf.samples]
        /\ run' = Silent(played, Room)
        /\ played' = played + Room
        /\ rendering' = rendering /\ rendering
        /\ UNCHANGED <<start_vgmstream, configured>>
        /\ Room > 0 /\ ~Looped(vgm)
    BY <1>1 DEF ErrorIteration
  <1>3. PICK room, at : room = Room /\ at = played
    OBVIOUS
  <1>4. room \in Nat /\ room > 0 /\ at \in Nat
    BY <1>2, <1>3, IterationStart
  <1>5. /\ HeadOK(start_vgmstream, v)
        /\ \A u \in Nat : u >= at => /\ IsOver(start_vgmstream, u)
                                     /\ HeadAt(start_vgmstream, v, u)
    BY <1>1, <1>2, <1>3, <1>4, IterationStart, IterationFails
  <1>6. /\ IsOver(start_vgmstream, at)
        /\ HeadAt(start_vgmstream, v, at + room)
    BY <1>4, <1>5
  <1>7. HeadOK(start_vgmstream, vgm)' /\ OnTimeline'
    BY <1>2, <1>3, <1>5, <1>6 DEF OnTimeline
  <1>8. NothingPlayed'
    <2>1. played' # 0
      BY <1>2, <1>3, <1>4
    <2> QED  BY <2>1 DEF NothingPlayed
  <1>9. run' = [kind |-> "silent", at |-> at, src |-> 0, count |-> room]
    BY <1>2, <1>3 DEF Silent
  <1>10. PlaysTimeline' /\ RunsStayInFrame'
    BY <1>9 DEF PlaysTimeline, RunsStayInFrame
  <1>11. SilenceOnlyWhenOver'
    BY <1>2, <1>6, <1>9 DEF SilenceOnlyWhenOver
  <1>12. TypeOK' /\ BufferExactlyFilled'
    <2>1. sbuf' = [samples |-> sbuf.samples, filled |-> sbuf.samples]
          /\ sbuf.samples \in Nat
      BY <1>2 DEF FlatInv, TypeOK
    <2>2. run' \in RunRecord /\ played' \in Nat
      BY <1>2, <1>3, <1>4, <1>9 DEF RunRecord
    <2> QED
      BY <1>2, <1>5, <2>1, <2>2
         DEF FlatInv, TypeOK, HeadOK, BufferExactlyFilled
  <1>13. SnapshotOpenable'
    BY <1>2, SameHeadKeeps
  <1> QED
    BY <1>7, <1>8, <1>10, <1>11, <1>12, <1>13 DEF FlatInv

\* reset_vgmstream keeps the invariant, at any point between renders.
LEMMA ResetKeepsInv ==
    ASSUME FlatInv, Reset
    PROVE  FlatInv'
  <1>1. /\ vgm' = ResetVgmstream(vgm, start_vgmstream)
        /\ played' = 0 /\ run' = NoRun /\ sbuf' = sbuf
        /\ rendering' = rendering
        /\ UNCHANGED <<start_vgmstream, configured>>
    BY DEF Reset
  <1>2. PICK v : v = ResetVgmstream(vgm, start_vgmstream)
    OBVIOUS
  <1>3. Startable(start_vgmstream) /\ vgm.loop_ch \in Nat
    BY DEF FlatInv, SnapshotOpenable, HeadOK, VgmRecord
  <1>4. /\ HeadOK(start_vgmstream, v)
        /\ HeadAt(start_vgmstream, v, 0)
        /\ Unplayed(v)
    BY <1>2, <1>3, ResetHead
  <1>5. HeadOK(start_vgmstream, vgm)' /\ OnTimeline' /\ NothingPlayed'
    BY <1>1, <1>2, <1>4 DEF OnTimeline, NothingPlayed
  <1>6. RunOK'
    BY <1>1, NoRunIsOK
  <1>7. TypeOK' /\ BufferExactlyFilled'
    BY <1>1, <1>5, <1>6
       DEF FlatInv, TypeOK, BufferExactlyFilled, HeadOK, RunOK
  <1>8. SnapshotOpenable'
    BY <1>1, SameHeadKeeps
  <1> QED  BY <1>5, <1>6, <1>7, <1>8 DEF FlatInv, RunOK

\* A step that changes nothing keeps the invariant.
LEMMA StutterKeepsInv ==
    ASSUME FlatInv, UNCHANGED vars
    PROVE  FlatInv'
  <1>1. /\ vgm' = vgm /\ played' = played /\ run' = run /\ sbuf' = sbuf
        /\ rendering' = rendering /\ UNCHANGED <<start_vgmstream, configured>>
    BY DEF vars
  <1>2. TypeOK' /\ BufferExactlyFilled' /\ NothingPlayed'
    BY <1>1 DEF FlatInv, TypeOK, BufferExactlyFilled, NothingPlayed, Unplayed
  <1>3. OnTimeline'
    BY <1>1, SameHeadKeeps DEF FlatInv
  <1>4. PlaysTimeline' /\ SilenceOnlyWhenOver' /\ RunsStayInFrame'
    BY <1>1 DEF FlatInv, PlaysTimeline, SilenceOnlyWhenOver, RunsStayInFrame
  <1> QED  BY <1>1, <1>2, <1>3, <1>4, SameHeadKeeps DEF FlatInv

\* FlatInv is inductive: whatever was opened and configured, in whatever order
\* buffers of any size are rendered and streams rewound.
THEOREM FlatStep == FlatInv /\ [Next]_vars => FlatInv'
  <1> SUFFICES ASSUME FlatInv, [Next]_vars PROVE FlatInv'
    OBVIOUS
  <1>1. ASSUME NEW c \in Configs, ApplyConfig(c) PROVE FlatInv'
    BY <1>1, ApplyConfigKeepsInv
  <1>2. ASSUME NEW n \in 1 .. MaxBuf, StartRender(n) PROVE FlatInv'
    BY <1>2, StartRenderKeepsInv
  <1>3. CASE LoopIteration
    BY <1>3, LoopIterationKeepsInv
  <1>4. CASE DecodeIteration
    BY <1>4, DecodeIterationKeepsInv
  <1>5. CASE ErrorIteration
    BY <1>5, ErrorIterationKeepsInv
  <1>6. CASE EndRender
    BY <1>6, EndRenderKeepsInv
  <1>7. CASE Reset
    BY <1>7, ResetKeepsInv
  <1>8. CASE UNCHANGED vars
    BY <1>8, StutterKeepsInv
  <1> QED
    BY <1>1, <1>2, <1>3, <1>4, <1>5, <1>6, <1>7, <1>8 DEF Next

\* render_layout keeps the whole invariant, for every file a parser may read
\* and every play config.
THEOREM FlatInvariant == Spec => []FlatInv
  <1>1. Init => FlatInv
    BY FlatInit
  <1>2. FlatInv /\ [Next]_vars => FlatInv'
    BY FlatStep
  <1> QED  BY <1>1, <1>2, PTL DEF Spec

-----------------------------------------------------------------------------
(* The properties of FlatRender, for every value of its constants *)

\* Every sample render_layout_flat writes is the sample the unrolled stream has
\* at that place.
THEOREM FlatPlaysTimeline == Spec => []PlaysTimeline
  <1>1. FlatInv => PlaysTimeline
    BY DEF FlatInv
  <1> QED  BY <1>1, FlatInvariant, PTL

\* The "wrong samples_to_do" error can not happen before the stream is over.
THEOREM FlatSilenceOnlyWhenOver == Spec => []SilenceOnlyWhenOver
  <1>1. FlatInv => SilenceOnlyWhenOver
    BY DEF FlatInv
  <1> QED  BY <1>1, FlatInvariant, PTL

\* Decoder calls stay in one frame.
THEOREM FlatRunsStayInFrame == Spec => []RunsStayInFrame
  <1>1. FlatInv => RunsStayInFrame
    BY DEF FlatInv
  <1> QED  BY <1>1, FlatInvariant, PTL

\* The caller's buffer is filled to its end and not past it.
THEOREM FlatBufferExactlyFilled == Spec => []BufferExactlyFilled
  <1>1. FlatInv => BufferExactlyFilled
    BY DEF FlatInv
  <1> QED  BY <1>1, FlatInvariant, PTL

\* What decode_do_loop would restore is the state at the loop start.
THEOREM FlatSavedLoopIsLoopStart == Spec => []SavedLoopIsLoopStart
  <1>1. FlatInv => SavedLoopIsLoopStart
    BY DEF FlatInv, HeadOK, SavedLoop, SavedLoopIsLoopStart
  <1> QED  BY <1>1, FlatInvariant, PTL
=============================================================================
