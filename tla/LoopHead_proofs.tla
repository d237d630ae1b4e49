---------------------------- MODULE LoopHead_proofs ----------------------------
(***************************************************************************)
(* Lemmas about the loop machine, which the proofs about FlatRender and     *)
(* Player rest on: where each step of a render loop moves the play head, and*)
(* that what it decodes is the unrolled stream's.                           *)
(***************************************************************************)
EXTENDS LoopHead, TLAPS

-----------------------------------------------------------------------------
(* Arithmetic the timeline rests on *)

\* One more copy of the body is one more body.
LEMMA OneMoreBody ==
    ASSUME NEW k \in Nat, NEW b \in Nat
    PROVE  /\ (k + 1) * b = k * b + b
           /\ k * b \in Nat
  OBVIOUS

\* k copies of a body that is not empty are at least k samples.
LEMMA BodyTakesTime ==
    ASSUME NEW k \in Nat, NEW b \in Nat, b > 0
    PROVE  k <= k * b
  <1>1. PICK c \in Nat : b = c + 1
    OBVIOUS
  <1>2. k * b = k * c + k
    BY <1>1
  <1>3. k * c >= 0
    OBVIOUS
  <1> QED  BY <1>2, <1>3

-----------------------------------------------------------------------------
(* Opening and configuring *)

\* What prepare_vgmstream leaves is safe to snapshot, whatever the parser read.
LEMMA NewIsOpenable ==
    ASSUME NEW f \in FileRecord
    PROVE  /\ Openable(NewVgmstream(f))
           /\ NewVgmstream(f).loop_target = 0
  <1> DEFINE raw == [num_samples |-> f.num_samples,
                     loop_start_sample |-> f.loop_start_sample,
                     loop_end_sample |-> f.loop_end_sample,
                     loop_flag |-> f.loop_flag,
                     frame |-> f.frame,
                     codec_data |-> f.codec_data,
                     loop_target |-> 0,
                     current_sample |-> 0,
                     samples_into_block |-> 0,
                     loop_count |-> 0,
                     hit_loop |-> FALSE,
                     ch |-> 0,
                     loop_ch |-> 0,
                     loop_current_sample |-> 0,
                     loop_samples_into_block |-> 0]
             plain == [raw EXCEPT !.loop_flag = FALSE,
                                  !.loop_start_sample = 0,
                                  !.loop_end_sample = 0]
  <1>1. Openable(plain) /\ plain.loop_target = 0
    BY DEF FileRecord, Openable, VgmRecord, SaneLoop, Unplayed
  <1>2. CASE raw.loop_flag /\ BadLoop(raw)
    <2>1. NewVgmstream(f) = plain
      BY <1>2 DEF NewVgmstream, SetupVgmstream
    <2> QED  BY <1>1, <2>1
  <1>3. CASE raw.loop_flag /\ ~BadLoop(raw)
    <2>1. NewVgmstream(f) = raw
      BY <1>3 DEF NewVgmstream, SetupVgmstream
    <2>2. /\ f.loop_start_sample >= 0
          /\ f.loop_end_sample > f.loop_start_sample
          /\ f.loop_end_sample <= f.num_samples
      BY <1>3 DEF BadLoop, FileRecord
    <2>3. f.loop_start_sample \in Nat /\ f.loop_end_sample \in Nat
      BY <2>2 DEF FileRecord
    <2>4. raw \in VgmRecord
      BY <2>3 DEF FileRecord, VgmRecord
    <2>5. SaneLoop(raw) /\ Unplayed(raw) /\ raw.loop_target = 0
      BY <2>2 DEF SaneLoop, Unplayed
    <2> HIDE DEF raw
    <2> QED  BY <2>1, <2>4, <2>5 DEF Openable
  <1>4. CASE ~raw.loop_flag
    <2>1. raw.loop_flag = FALSE
      BY <1>4 DEF FileRecord
    <2>2. NewVgmstream(f) = [raw EXCEPT !.loop_start_sample = 0,
                                        !.loop_end_sample = 0]
      BY <1>4 DEF NewVgmstream, SetupVgmstream
    <2>3. NewVgmstream(f) = plain
      BY <2>1, <2>2
    <2> QED  BY <1>1, <2>3
  <1> QED  BY <1>2, <1>3, <1>4

\* Safe to snapshot, and no loop target was asked for yet.
Forceable(v) == Openable(v) /\ v.loop_target = 0

\* Forcing a full loop on keeps the stream safe to snapshot.
LEMMA ForceLoopOn ==
    ASSUME NEW v, Forceable(v)
    PROVE  Forceable(ForceLoop(v, TRUE, 0, v.num_samples))
  <1> DEFINE w == [v EXCEPT !.loop_flag = TRUE,
                            !.loop_start_sample = 0,
                            !.loop_end_sample = v.num_samples]
             off == [w EXCEPT !.loop_flag = FALSE,
                              !.loop_start_sample = 0,
                              !.loop_end_sample = 0]
  <1>1. w \in VgmRecord /\ Unplayed(w) /\ w.loop_target = 0 /\ w.loop_flag
    BY DEF Forceable, Openable, VgmRecord, Unplayed
  <1>2. ForceLoop(v, TRUE, 0, v.num_samples) \in {v, SetupVgmstream(w)}
    BY DEF ForceLoop
  <1> HIDE DEF w
  <1>3. Forceable(off)
    BY <1>1 DEF Forceable, Openable, VgmRecord, Unplayed, SaneLoop
  <1>4. ~BadLoop(w) => Forceable(w)
    BY <1>1 DEF Forceable, Openable, VgmRecord, SaneLoop, BadLoop
  <1>5. SetupVgmstream(w) = IF BadLoop(w) THEN off ELSE w
    BY <1>1 DEF SetupVgmstream
  <1> HIDE DEF off
  <1> QED  BY <1>2, <1>3, <1>4, <1>5

\* So does forcing it off.
LEMMA ForceLoopOff ==
    ASSUME NEW v, Forceable(v)
    PROVE  Forceable(ForceLoop(v, FALSE, 0, 0))
  <1> DEFINE w == [v EXCEPT !.loop_flag = FALSE,
                            !.loop_start_sample = v.loop_start_sample,
                            !.loop_end_sample = v.loop_end_sample]
  <1>1. Forceable(w) /\ ~w.loop_flag
    BY DEF Forceable, Openable, VgmRecord, Unplayed, SaneLoop
  <1>2. ForceLoop(v, FALSE, 0, 0) = SetupVgmstream(w)
    BY DEF ForceLoop
  <1>3. SetupVgmstream(w) = w
    BY <1>1 DEF SetupVgmstream
  <1> QED  BY <1>1, <1>2, <1>3

\* Every combination of loop settings in a play config keeps it so.
LEMMA ForcedLoopsIsOpenable ==
    ASSUME NEW v, Forceable(v), NEW c
    PROVE  Forceable(ForcedLoops(v, c))
  <1> DEFINE really == IF c.really_force_loop
                       THEN ForceLoop(v, TRUE, 0, v.num_samples) ELSE v
             forced == IF c.force_loop /\ ~really.loop_flag
                       THEN ForceLoop(really, TRUE, 0, v.num_samples)
                       ELSE really
             off == ForceLoop(forced, FALSE, 0, 0)
  <1>1. Forceable(really)
    BY ForceLoopOn
  <1>2. really.num_samples = v.num_samples
    BY DEF ForceLoop, SetupVgmstream, Forceable, Openable, VgmRecord
  <1>3. ForcedLoops(v, c) = IF c.ignore_loop THEN off ELSE forced
    BY DEF ForcedLoops
  <1> HIDE DEF really
  <1>4. Forceable(forced)
    BY <1>1, <1>2, ForceLoopOn
  <1> HIDE DEF forced
  <1>5. Forceable(off)
    BY <1>4, ForceLoopOff
  <1> QED  BY <1>3, <1>4, <1>5

\* A play config only sets a loop target on a stream that loops, and the
\* setup_vgmstream after it changes nothing more.
LEMMA ModifiersAreOpenable ==
    ASSUME NEW v, Forceable(v), NEW c, c.loop_count \in Nat
    PROVE  LET w == SetupVgmstream(SetupStateModifiers(v, c))
           IN  /\ Startable(w)
               /\ w.loop_target = IF IgnoreFade(v, c) /\ w.loop_flag
                                  THEN c.loop_count \div 2 ELSE 0
  <1> DEFINE f == ForcedLoops(v, c)
             n == c.loop_count \div 2
             t == [f EXCEPT !.loop_target = n]
  <1>1. Openable(f) /\ f.loop_target = 0
    BY ForcedLoopsIsOpenable DEF Forceable
  <1>2. n \in Nat
    OBVIOUS
  <1> HIDE DEF f, n
  <1>3. SetupVgmstream(f) = f
    BY <1>1 DEF Openable, SaneLoop, SetupVgmstream, BadLoop, VgmRecord
  <1>4. /\ Openable(t) /\ t.loop_target = n /\ t.loop_flag = f.loop_flag
    BY <1>1, <1>2 DEF Openable, VgmRecord, SaneLoop, Unplayed
  <1> HIDE DEF t
  <1>5. SetupVgmstream(t) = t
    BY <1>4 DEF Openable, SaneLoop, SetupVgmstream, BadLoop, VgmRecord
  <1>6. SetLoopTarget(f, n) = IF f.loop_flag THEN t ELSE f
    BY <1>5 DEF SetLoopTarget, t
  <1>7. SetupStateModifiers(v, c)
          = IF IgnoreFade(v, c) THEN SetLoopTarget(f, n) ELSE f
    BY DEF SetupStateModifiers, f, n
  <1>8. SetupVgmstream(SetupStateModifiers(v, c))
          = IF IgnoreFade(v, c) /\ f.loop_flag THEN t ELSE f
    BY <1>3, <1>5, <1>6, <1>7
  <1> QED  BY <1>1, <1>2, <1>4, <1>8 DEF Startable, n

-----------------------------------------------------------------------------
(* The loop machine *)

\* The body of a loop is never empty, and only streams that loop can be looping.
LEMMA LoopIsSane ==
    ASSUME NEW start, Startable(start), NEW v0, HeadOK(start, v0), start.loop_flag
    PROVE  /\ v0.loop_start_sample < v0.loop_end_sample
           /\ v0.loop_end_sample <= v0.num_samples
           /\ LoopBody(start)
                = v0.loop_end_sample - v0.loop_start_sample
           /\ LoopBody(start) \in Nat
           /\ LoopBody(start) > 0
  BY DEF Startable, Openable, SaneLoop, HeadOK, SameStream, VgmRecord,
         LoopBody

\* Out of the loop too, the jumps made so far are a number.
LEMMA JumpsBackIsNat ==
    ASSUME NEW start, Startable(start), NEW v0, HeadOK(start, v0)
    PROVE  JumpsBack(start, v0) \in Nat
  <1>1. CASE v0.loop_flag
    BY <1>1 DEF JumpsBack, HeadOK, VgmRecord
  <1>2. CASE ~v0.loop_flag /\ start.loop_flag
    <2>1. v0.loop_target > 0 /\ v0.loop_target = start.loop_target
      BY <1>2 DEF HeadOK, HeadInLoop, SameStream
    <2>2. start.loop_target \in Nat
      BY DEF Startable, Openable, VgmRecord
    <2> QED  BY <1>2, <2>1, <2>2 DEF JumpsBack
  <1>3. CASE ~v0.loop_flag /\ ~start.loop_flag
    BY <1>3 DEF JumpsBack
  <1> QED  BY <1>1, <1>2, <1>3

\* What the loop check leaves when it does not jump: the same place, strictly
\* before the next loop point.
BeforeLoopPoint(v) ==
    v.loop_flag =>
        /\ ~v.hit_loop => v.current_sample < v.loop_start_sample
        /\ v.hit_loop => v.current_sample < v.loop_end_sample

\* After the loop check of an iteration that goes on to decode, the head is still
\* where it may be.
LEMMA CheckedHead ==
    ASSUME NEW start, Startable(start), NEW v0, HeadOK(start, v0), ~Looped(v0),
           NEW v, v = LoopCheck(v0)
    PROVE  /\ HeadOK(start, v)
           /\ BeforeLoopPoint(v)
           /\ JumpsBack(start, v) = JumpsBack(start, v0)
           /\ v.current_sample = v0.current_sample
           /\ v.ch = v0.ch
           /\ ~v0.loop_flag => v = v0
           /\ \A t \in Nat : HeadAt(start, v0, t) => HeadAt(start, v, t)
  <1>0. SUFFICES /\ HeadOK(start, v)
                 /\ BeforeLoopPoint(v)
                 /\ JumpsBack(start, v) = JumpsBack(start, v0)
                 /\ v.current_sample = v0.current_sample
                 /\ v.ch = v0.ch
    BY DEF HeadAt, LoopCheck
  <1> USE DEF HeadOK
  <1>1. CASE ~v0.loop_flag
    BY <1>1 DEF LoopCheck, BeforeLoopPoint
  <1>2. CASE v0.loop_flag /\ AtLoopEnd(v0)
    <2>1. v = EndLooping(v0) /\ TargetReached(v0)
      BY <1>2 DEF LoopCheck, DecodeDoLoop, Looped
    <2>2. start.loop_flag
      BY <1>2 DEF HeadInLoop
    <2>3. v0.hit_loop
      BY <1>2, <2>2, LoopIsSane DEF HeadInLoop, AtLoopEnd, VgmRecord
    <2>4. v \in VgmRecord /\ ~v.loop_flag /\ v.hit_loop
          /\ v.loop_target = v0.loop_target
      <3>1. v \in VgmRecord
        <4>1. v0 \in VgmRecord /\ v0.loop_count + 1 \in Nat
          BY DEF VgmRecord
        <4>2. v = [v0 EXCEPT !.loop_count = v0.loop_count + 1,
                              !.loop_flag = FALSE]
          BY <2>1 DEF EndLooping
        <4> QED  BY <4>1, <4>2 DEF VgmRecord
      <3>2. ~v.loop_flag /\ v.hit_loop /\ v.loop_target = v0.loop_target
        BY <2>1, <2>3 DEF EndLooping, VgmRecord
      <3> QED  BY <3>1, <3>2
    <2>5. SameStream(start, v) /\ HeadsAgree(v) /\ SavedLoop(v)
      BY <2>1 DEF EndLooping, SameStream, HeadsAgree, SavedLoop, VgmRecord
    <2>6. v0.loop_target > 0 /\ v0.loop_target = v0.loop_count + 1
      BY <2>1 DEF TargetReached, VgmRecord
    <2>7. HeadInLoop(start, v)
      BY <1>2, <2>1, <2>2, <2>4, <2>6
         DEF HeadInLoop, EndLooping, AtLoopEnd, VgmRecord
    <2>8. JumpsBack(start, v) = JumpsBack(start, v0)
      BY <1>2, <2>2, <2>4, <2>6 DEF JumpsBack, SameStream, VgmRecord
    <2>9. v.current_sample = v0.current_sample /\ v.ch = v0.ch
      BY <2>1 DEF EndLooping, VgmRecord
    <2> QED  BY <2>4, <2>5, <2>7, <2>8, <2>9 DEF BeforeLoopPoint
  <1>3. CASE v0.loop_flag /\ ~AtLoopEnd(v0) /\ ~v0.hit_loop /\ AtLoopStart(v0)
    <2>1. v = SaveLoop(v0)
      BY <1>3 DEF LoopCheck, DecodeDoLoop
    <2>2. start.loop_flag
      BY <1>3 DEF HeadInLoop
    <2>3. v0.current_sample = v0.loop_start_sample
      BY <1>3 DEF AtLoopStart
    <2>4. /\ v \in VgmRecord /\ v.loop_flag /\ v.hit_loop
          /\ v.loop_count = v0.loop_count
          /\ v.loop_target = v0.loop_target
          /\ v.current_sample = v0.current_sample /\ v.ch = v0.ch
          /\ v.loop_start_sample = v0.loop_start_sample
          /\ v.loop_end_sample = v0.loop_end_sample
      <3>1. v = [v0 EXCEPT !.loop_ch = v0.ch,
                           !.loop_current_sample = v0.current_sample,
                           !.loop_samples_into_block = v0.samples_into_block,
                           !.hit_loop = TRUE]
        BY <2>1 DEF SaveLoop
      <3>2. v \in VgmRecord
        BY <3>1 DEF VgmRecord
      <3> QED  BY <1>3, <3>1, <3>2 DEF VgmRecord
    <2>5. SameStream(start, v) /\ HeadsAgree(v)
      BY <2>1 DEF SaveLoop, SameStream, HeadsAgree, VgmRecord
    <2>6. SavedLoop(v)
      BY <2>1, <2>3 DEF SaveLoop, SavedLoop, HeadsAgree, VgmRecord
    <2>7. HeadInLoop(start, v)
      BY <2>2, <2>3, <2>4, LoopIsSane DEF HeadInLoop, VgmRecord
    <2>8. JumpsBack(start, v) = JumpsBack(start, v0)
      BY <1>3, <2>4 DEF JumpsBack, HeadInLoop
    <2> QED
      BY <2>2, <2>3, <2>4, <2>5, <2>6, <2>7, <2>8, LoopIsSane
         DEF BeforeLoopPoint
  <1>4. CASE v0.loop_flag /\ ~AtLoopEnd(v0)
             /\ (v0.hit_loop \/ ~AtLoopStart(v0))
    <2>1. v = v0
      BY <1>4 DEF LoopCheck, DecodeDoLoop
    <2>2. BeforeLoopPoint(v)
      BY <1>4, <2>1
         DEF BeforeLoopPoint, HeadInLoop, AtLoopEnd, AtLoopStart, VgmRecord
    <2> QED  BY <2>1, <2>2
  <1> QED  BY <1>1, <1>2, <1>3, <1>4

\* A jump back moves the head and adds one copy of the body: the place in the
\* unrolled stream stays.
LEMMA JumpKeepsPlace ==
    ASSUME NEW start, Startable(start), NEW v0, HeadOK(start, v0), Looped(v0),
           NEW v, v = LoopCheck(v0)
    PROVE  /\ HeadOK(start, v)
           /\ v.loop_flag
           /\ v.hit_loop
           /\ v.current_sample = v.loop_start_sample
           /\ v.loop_count = v0.loop_count + 1
           /\ \A t \in Nat : HeadAt(start, v0, t) => HeadAt(start, v, t)
  <1> USE DEF HeadOK
  <1>1. v = RestoreLoop(v0) /\ v0.loop_flag /\ AtLoopEnd(v0)
        /\ ~TargetReached(v0)
    BY DEF Looped, LoopCheck, DecodeDoLoop
  <1>2. start.loop_flag
    BY <1>1 DEF HeadInLoop
  <1>3. v0.hit_loop
    BY <1>1, <1>2, LoopIsSane DEF HeadInLoop, AtLoopEnd, VgmRecord
  <1>4. /\ v \in VgmRecord /\ v.loop_flag /\ v.hit_loop
        /\ v.loop_count = v0.loop_count + 1
        /\ v.loop_target = v0.loop_target
        /\ v.loop_start_sample = v0.loop_start_sample
        /\ v.loop_end_sample = v0.loop_end_sample
        /\ v.num_samples = v0.num_samples
        /\ v.ch = v0.loop_start_sample
        /\ v.current_sample = v0.loop_start_sample
        /\ v.samples_into_block = v0.loop_start_sample
    <2>1. v \in VgmRecord
      <3>1. v0 \in VgmRecord /\ v0.loop_count + 1 \in Nat
        BY DEF VgmRecord
      <3>2. v = [v0 EXCEPT !.loop_count = v0.loop_count + 1,
                            !.ch = v.ch,
                            !.current_sample = v0.loop_current_sample,
                            !.samples_into_block =
                                v0.loop_samples_into_block]
            /\ v.ch \in Nat
        BY <1>1 DEF RestoreLoop, VgmRecord
      <3> QED  BY <3>1, <3>2 DEF VgmRecord
    <2>2. /\ v.loop_flag /\ v.hit_loop
          /\ v.loop_count = v0.loop_count + 1
          /\ v.loop_target = v0.loop_target
          /\ v.loop_start_sample = v0.loop_start_sample
          /\ v.loop_end_sample = v0.loop_end_sample
          /\ v.num_samples = v0.num_samples
      BY <1>1, <1>3 DEF RestoreLoop, VgmRecord
    <2>3. /\ v.ch = v0.loop_start_sample
          /\ v.current_sample = v0.loop_start_sample
          /\ v.samples_into_block = v0.loop_start_sample
      BY <1>1, <1>3 DEF RestoreLoop, SavedLoop, VgmRecord
    <2> QED  BY <2>1, <2>2, <2>3
  <1>5. SameStream(start, v) /\ SavedLoop(v)
    BY <1>1 DEF RestoreLoop, SameStream, SavedLoop, VgmRecord
  <1>6. HeadsAgree(v)
    BY <1>2, <1>4, LoopIsSane DEF HeadsAgree, VgmRecord
  <1>7. v0.loop_target > 0 => v0.loop_count + 1 < v0.loop_target
    BY <1>1, <1>3 DEF HeadInLoop, TargetReached, VgmRecord
  <1>8. HeadInLoop(start, v)
    BY <1>2, <1>4, <1>7, LoopIsSane DEF HeadInLoop, VgmRecord
  <1>9. ASSUME NEW t \in Nat, HeadAt(start, v0, t)
        PROVE  HeadAt(start, v, t)
    <2> DEFINE b == LoopBody(start)
    <2>1. PICK k \in 0 .. t :
             /\ t = v0.loop_end_sample + k * b
             /\ start.loop_target > 0 => k = v0.loop_count
      BY <1>1, <1>9 DEF HeadAt, JumpsBack, AtLoopEnd
    <2>2. b = v0.loop_end_sample - v0.loop_start_sample /\ b \in Nat /\ b > 0
      BY <1>2, LoopIsSane
    <2> HIDE DEF b
    <2>3. (k + 1) * b = k * b + b /\ k * b \in Nat /\ k + 1 <= (k + 1) * b
      BY <2>2, OneMoreBody, BodyTakesTime
    <2>4. t = v.current_sample + (k + 1) * b
      BY <1>4, <2>1, <2>2, <2>3 DEF VgmRecord
    <2>5. k + 1 \in 0 .. t
      <3>1. v.current_sample \in Nat
        BY <1>4 DEF VgmRecord
      <3>2. k + 1 \in Nat /\ (k + 1) * b \in Nat
        BY <2>2, <2>3
      <3>3. k + 1 <= t
        BY <2>3, <2>4, <3>1, <3>2
      <3> QED  BY <3>2, <3>3
    <2>6. start.loop_target > 0 => k + 1 = JumpsBack(start, v)
      BY <1>4, <2>1 DEF JumpsBack
    <2>7. v.current_sample >= start.loop_start_sample
      BY <1>4, <1>5 DEF SameStream, VgmRecord
    <2> QED  BY <1>2, <2>4, <2>5, <2>6, <2>7 DEF HeadAt, b
  <1> QED  BY <1>4, <1>5, <1>6, <1>8, <1>9

-----------------------------------------------------------------------------
(* How much one iteration decodes *)

\* The next n samples cross neither a loop point nor the end of the stream.
UpToNextLoopPoint(v, n) ==
    /\ n <= v.num_samples - v.current_sample
    /\ v.loop_flag /\ ~v.hit_loop => n <= v.loop_start_sample - v.current_sample
    /\ v.loop_flag /\ v.hit_loop => n <= v.loop_end_sample - v.current_sample

\* Up to the next loop point or the end of the stream, and only nothing at all
\* when the stream ran out.
LEMMA UpToLoopPoint ==
    ASSUME NEW start, Startable(start), NEW v, HeadOK(start, v), BeforeLoopPoint(v)
    PROVE  LET n == SamplesUpToLoopPoint(v, v.num_samples)
           IN  /\ n \in Nat
               /\ UpToNextLoopPoint(v, n)
               /\ n = 0 => ~v.loop_flag /\ v.current_sample = v.num_samples
  <1> DEFINE n == SamplesUpToLoopPoint(v, v.num_samples)
             left == v.num_samples - v.samples_into_block
  <1>1. v \in VgmRecord /\ left = v.num_samples - v.current_sample
        /\ left \in Nat /\ v.current_sample + left = v.num_samples
    BY DEF HeadOK, HeadsAgree, VgmRecord
  <1>2. n = IF v.loop_flag /\ v.num_samples > v.loop_start_sample /\ ~v.hit_loop
            THEN v.loop_start_sample - v.current_sample
            ELSE IF v.loop_flag /\ v.num_samples > v.loop_end_sample
            THEN v.loop_end_sample - v.current_sample
            ELSE left
    BY <1>1 DEF SamplesUpToLoopPoint
  <1>3. v.loop_flag => /\ v.loop_start_sample < v.loop_end_sample
                       /\ v.loop_end_sample <= v.num_samples
    BY DEF HeadOK, HeadInLoop, SameStream, Startable, Openable, SaneLoop
  <1> HIDE DEF n, left
  <1> USE DEF UpToNextLoopPoint
  <1> QED
    <2>1. CASE ~v.loop_flag
      BY <1>1, <1>2, <2>1 DEF VgmRecord, n
    <2>2. CASE v.loop_flag /\ ~v.hit_loop
      <3>1. n = v.loop_start_sample - v.current_sample
        BY <1>1, <1>2, <1>3, <2>2 DEF VgmRecord
      <3> QED
        BY <1>1, <1>3, <2>2, <3>1 DEF VgmRecord, n, BeforeLoopPoint
    <2>3. CASE v.loop_flag /\ v.hit_loop
      <3>1. n = v.loop_end_sample - v.current_sample
        BY <1>1, <1>2, <1>3, <2>3 DEF VgmRecord
      <3> QED
        BY <1>1, <1>3, <2>3, <3>1 DEF VgmRecord, n, BeforeLoopPoint
    <2> QED  BY <2>1, <2>2, <2>3

\* What an iteration decodes fits the buffer and the stream, stops at the loop
\* points, and is nothing only when the stream is over.
LEMMA SamplesAnIterationDoes ==
    ASSUME NEW start, Startable(start), NEW v, HeadOK(start, v), BeforeLoopPoint(v),
           NEW room \in Nat, room > 0,
           NEW n, n = SmallerOf(DecodeGetSamplesToDo(v, v.num_samples, v.frame), room)
    PROVE  /\ n \in Nat
           /\ n <= room
           /\ UpToNextLoopPoint(v, n)
           /\ v.frame > 1 => (v.current_sample % v.frame) + n <= v.frame
           /\ n = 0 => ~v.loop_flag /\ v.current_sample = v.num_samples
  <1> DEFINE m == SamplesUpToLoopPoint(v, v.num_samples)
             into == v.samples_into_block % v.frame
             d == DecodeGetSamplesToDo(v, v.num_samples, v.frame)
  <1>1. /\ m \in Nat
        /\ UpToNextLoopPoint(v, m)
        /\ m = 0 => ~v.loop_flag /\ v.current_sample = v.num_samples
    BY UpToLoopPoint
  <1>2. v \in VgmRecord /\ v.samples_into_block = v.current_sample
    BY DEF HeadOK, HeadsAgree
  <1>3. into \in 0 .. v.frame - 1 /\ v.current_sample % v.frame = into
    BY <1>2 DEF VgmRecord
  <1>4. d = IF v.frame > 1 /\ into + m > v.frame THEN v.frame - into ELSE m
    BY DEF DecodeGetSamplesToDo
  <1>5. v.frame \in Nat /\ v.frame > 0
    BY <1>2 DEF VgmRecord
  <1>6. n = IF d <= room THEN d ELSE room
    BY DEF SmallerOf
  <1> HIDE DEF m, into, d
  <1>7. /\ d \in Nat
        /\ d <= m
        /\ d = 0 => m = 0
        /\ v.frame > 1 => into + d <= v.frame
    BY <1>1, <1>3, <1>4, <1>5
  <1>8. /\ n \in Nat /\ n <= room /\ n <= m
        /\ n = 0 => m = 0
        /\ v.frame > 1 => into + n <= v.frame
    BY <1>1, <1>3, <1>5, <1>6, <1>7
  <1>9. /\ v.num_samples - v.current_sample \in Int
        /\ v.loop_start_sample - v.current_sample \in Int
        /\ v.loop_end_sample - v.current_sample \in Int
    BY <1>2 DEF VgmRecord
  <1> QED  BY <1>1, <1>3, <1>8, <1>9 DEF UpToNextLoopPoint

\* Decoding them keeps the head where it may be.
LEMMA DecodeKeepsHead ==
    ASSUME NEW start, Startable(start), NEW v, HeadOK(start, v), NEW n \in Nat,
           UpToNextLoopPoint(v, n),
           NEW w, w = DecodeVgmstream(v, n)
    PROVE  /\ HeadOK(start, w)
           /\ w.loop_flag = v.loop_flag
           /\ w.current_sample = v.current_sample + n
           /\ n > 0 => \A t \in Nat :
                 HeadAt(start, v, t) => HeadAt(start, w, t + n)
  <1>1. v \in VgmRecord
    BY DEF HeadOK
  <1>2. /\ v.ch + n \in Nat
        /\ v.current_sample + n \in Nat
        /\ v.samples_into_block + n \in Nat
    BY <1>1 DEF VgmRecord
  <1>3. w = [v EXCEPT !.ch = v.ch + n,
                      !.current_sample = v.current_sample + n,
                      !.samples_into_block = v.samples_into_block + n]
    BY DEF DecodeVgmstream
  <1>4. w \in VgmRecord
    BY <1>1, <1>2, <1>3 DEF VgmRecord
  <1>5. /\ w.ch = v.ch + n
        /\ w.current_sample = v.current_sample + n
        /\ w.samples_into_block = v.samples_into_block + n
        /\ w.num_samples = v.num_samples
        /\ w.loop_start_sample = v.loop_start_sample
        /\ w.loop_end_sample = v.loop_end_sample
        /\ w.frame = v.frame
        /\ w.loop_target = v.loop_target
        /\ w.loop_flag = v.loop_flag
        /\ w.hit_loop = v.hit_loop
        /\ w.loop_count = v.loop_count
        /\ w.loop_ch = v.loop_ch
        /\ w.loop_current_sample = v.loop_current_sample
        /\ w.loop_samples_into_block = v.loop_samples_into_block
    BY <1>1, <1>3 DEF VgmRecord
  <1>6. SameStream(start, w) /\ SavedLoop(w)
    BY <1>5 DEF HeadOK, SameStream, SavedLoop
  <1>7. HeadsAgree(w)
    BY <1>1, <1>5 DEF HeadOK, HeadsAgree, VgmRecord, UpToNextLoopPoint
  <1>8. HeadInLoop(start, w)
    BY <1>1, <1>5 DEF HeadOK, HeadInLoop, VgmRecord, UpToNextLoopPoint
  <1>9. JumpsBack(start, w) = JumpsBack(start, v)
    BY <1>5 DEF JumpsBack
  <1>10. ASSUME n > 0, NEW t \in Nat, HeadAt(start, v, t)
         PROVE  HeadAt(start, w, t + n)
    <2> DEFINE b == LoopBody(start)
    <2>1. v.current_sample < start.num_samples /\ v.current_sample \in Nat
      BY <1>1, <1>10 DEF UpToNextLoopPoint, HeadOK, SameStream, VgmRecord
    <2>2. start.num_samples \in Nat /\ start.loop_start_sample \in Nat
      BY DEF Startable, Openable, VgmRecord
    <2>3. PICK k \in 0 .. t :
            /\ t = v.current_sample + k * b
            /\ k > 0 => /\ start.loop_flag
                        /\ v.current_sample >= start.loop_start_sample
            /\ start.loop_target > 0 => k = JumpsBack(start, v)
      BY <1>10, <2>1, <2>2 DEF HeadAt
    <2>4. b \in Int
      BY DEF Startable, Openable, VgmRecord, LoopBody
    <2>5. k * b \in Int /\ k \in 0 .. t + n
      BY <2>4
    <2> HIDE DEF b
    <2>6. t + n = w.current_sample + k * b
      BY <1>5, <2>1, <2>3, <2>5
    <2>7. k > 0 => w.current_sample >= start.loop_start_sample
      BY <1>5, <2>1, <2>2, <2>3
    <2> QED  BY <1>9, <2>3, <2>5, <2>6, <2>7 DEF HeadAt, b
  <1> QED  BY <1>4, <1>5, <1>6, <1>7, <1>8, <1>9, <1>10 DEF HeadOK

-----------------------------------------------------------------------------
(* What is decoded is what the unrolled stream has there *)

\* k copies after its first, the sample s of a looping stream.
LEMMA SourceInLoop ==
    ASSUME NEW start, Startable(start), start.loop_flag,
           NEW k \in Nat, NEW s \in Nat,
           k > 0 => s >= start.loop_start_sample,
           start.loop_target > 0 => k < start.loop_target,
           \/ s < start.loop_end_sample
           \/ /\ LastCopy(start, k)
              /\ s < start.num_samples
    PROVE  IsSource(start, s + k * LoopBody(start), s)
  <1>1. LoopBody(start) \in Nat /\ LoopBody(start) > 0
    BY DEF Startable, Openable, SaneLoop, VgmRecord, LoopBody
  <1>2. /\ k <= k * LoopBody(start)
        /\ k * LoopBody(start) \in Nat
    BY <1>1, BodyTakesTime, OneMoreBody
  <1>3. k \in 0 .. s + k * LoopBody(start)
    BY <1>2
  <1> QED  BY <1>3 DEF IsSource

\* What the head decodes next is what the unrolled stream has at its place.
LEMMA DecodedIsSource ==
    ASSUME NEW start, Startable(start), NEW v, HeadOK(start, v),
           BeforeLoopPoint(v), NEW n \in Nat, UpToNextLoopPoint(v, n),
           NEW t \in Nat, HeadAt(start, v, t), NEW j \in 0 .. n - 1
    PROVE  IsSource(start, t + j, v.ch + j)
  <1> DEFINE s == v.current_sample + j
             b == LoopBody(start)
  <1>1. v \in VgmRecord /\ v.ch = v.current_sample /\ s \in Nat
        /\ s < v.num_samples /\ j \in Nat /\ j < n
    BY DEF HeadOK, HeadsAgree, VgmRecord, UpToNextLoopPoint
  <1>2. /\ v.num_samples = start.num_samples
        /\ v.loop_start_sample = start.loop_start_sample
        /\ v.loop_end_sample = start.loop_end_sample
        /\ v.loop_target = start.loop_target
        /\ v.loop_target \in Nat
    BY DEF HeadOK, SameStream, VgmRecord
  <1>3. v.current_sample < start.num_samples
    BY <1>1, <1>2 DEF VgmRecord
  <1>4. PICK k \in 0 .. t :
          /\ t = v.current_sample + k * b
          /\ k > 0 => /\ start.loop_flag
                      /\ v.current_sample >= start.loop_start_sample
          /\ start.loop_target > 0 => k = JumpsBack(start, v)
    BY <1>1, <1>2, <1>3 DEF HeadAt, VgmRecord
  <1>5. CASE ~start.loop_flag
    <2>1. k = 0 /\ b \in Int
      BY <1>4, <1>5 DEF Startable, Openable, VgmRecord, LoopBody
    <2>2. k * b = 0
      BY <2>1
    <2>3. t + j = s
      BY <1>1, <1>4, <2>2 DEF VgmRecord
    <2> QED  BY <1>1, <1>2, <1>5, <2>3 DEF IsSource
  <1>6. CASE start.loop_flag
    <2>1. b \in Nat /\ b > 0 /\ v.loop_start_sample < v.loop_end_sample
      BY <1>6, <1>2 DEF Startable, Openable, SaneLoop, VgmRecord, LoopBody
    <2>2. k \in Nat /\ k * b \in Nat
      BY <2>1, OneMoreBody
    <2>3. t + j = s + k * b
      BY <1>1, <1>4, <2>2 DEF VgmRecord
    <2>4. k > 0 => s >= start.loop_start_sample
      BY <1>1, <1>2, <1>4 DEF VgmRecord
    <2>5. /\ start.loop_target > 0 => k < start.loop_target
          /\ s < start.loop_end_sample \/ LastCopy(start, k)
      <3>1. CASE v.loop_flag
        <4>1. start.loop_target > 0 => k = v.loop_count
          BY <1>4, <3>1 DEF JumpsBack
        <4>2. start.loop_target > 0 => v.loop_count < start.loop_target
          BY <1>2, <3>1 DEF HeadOK, HeadInLoop
        <4>3. v.hit_loop => s < v.loop_end_sample
          BY <1>1, <3>1 DEF UpToNextLoopPoint, VgmRecord
        <4>4. ~v.hit_loop => s < v.loop_start_sample
          BY <1>1, <3>1 DEF UpToNextLoopPoint, VgmRecord
        <4> QED  BY <1>1, <1>2, <2>1, <4>1, <4>2, <4>3, <4>4 DEF VgmRecord
      <3>2. CASE ~v.loop_flag
        <4>1. v.loop_target > 0
          BY <1>6, <3>2 DEF HeadOK, HeadInLoop
        <4>2. k = start.loop_target - 1
          BY <1>2, <1>4, <1>6, <3>2, <4>1 DEF JumpsBack
        <4> QED  BY <1>2, <4>1, <4>2 DEF LastCopy
      <3> QED  BY <3>1, <3>2
    <2>6. s < start.num_samples
      BY <1>1, <1>2
    <2> HIDE DEF s, b
    <2>7. IsSource(start, s + k * LoopBody(start), s)
      BY <1>1, <1>6, <2>2, <2>4, <2>5, <2>6, SourceInLoop
    <2> QED  BY <1>1, <2>3, <2>7 DEF b, s
  <1> QED  BY <1>5, <1>6

\* A head at the end of the file, out of the loop, is at the end of the unrolled
\* stream.
LEMMA StreamIsOver ==
    ASSUME NEW start, Startable(start), NEW v, HeadOK(start, v),
           ~v.loop_flag, v.current_sample >= v.num_samples,
           NEW t \in Nat, HeadAt(start, v, t), NEW u \in Nat, u >= t
    PROVE  IsOver(start, u) /\ HeadAt(start, v, u)
  <1> DEFINE b == LoopBody(start)
  <1>1. /\ v.num_samples = start.num_samples
        /\ v.loop_target = start.loop_target
        /\ v.current_sample = start.num_samples
        /\ start.num_samples \in Nat /\ start.loop_target \in Nat
    BY DEF HeadOK, HeadsAgree, SameStream, VgmRecord
  <1>2. SUFFICES IsOver(start, u)
    BY <1>1 DEF HeadAt
  <1>3. CASE IsOver(start, t)
    <2>1. CASE start.loop_flag
      <3>1. b \in Int /\ start.loop_target - 1 \in Int
        BY <1>1 DEF Startable, Openable, VgmRecord, LoopBody
      <3>2. (start.loop_target - 1) * b \in Int
        BY <3>1
      <3> HIDE DEF b
      <3> QED  BY <1>1, <1>3, <2>1, <3>2 DEF IsOver, b
    <2>2. CASE ~start.loop_flag
      BY <1>1, <1>3, <2>2 DEF IsOver
    <2> QED  BY <2>1, <2>2
  <1>4. CASE ~IsOver(start, t)
    <2>1. PICK k \in 0 .. t :
            /\ t = v.current_sample + k * b
            /\ k > 0 => start.loop_flag
            /\ start.loop_target > 0 => k = JumpsBack(start, v)
      BY <1>4 DEF HeadAt
    <2>2. CASE start.loop_flag
      <3>1. start.loop_target > 0 /\ k = start.loop_target - 1
        BY <1>1, <2>1, <2>2 DEF HeadOK, HeadInLoop, JumpsBack
      <3>2. t = start.num_samples + (start.loop_target - 1) * b
        BY <1>1, <2>1, <3>1
      <3> QED  BY <1>4, <2>2, <3>1, <3>2 DEF IsOver
    <2>3. CASE ~start.loop_flag
      <3>1. k = 0 /\ b \in Int
        BY <2>1, <2>3 DEF Startable, Openable, VgmRecord, LoopBody
      <3>2. k * b = 0
        BY <3>1
      <3> QED  BY <1>1, <1>4, <2>1, <2>3, <3>2 DEF IsOver
    <2> QED  BY <2>2, <2>3
  <1> QED  BY <1>3, <1>4

\* A stream nothing was decoded from is at the start of its timeline.
LEMMA UnplayedHead ==
    ASSUME NEW start, Startable(start), NEW v \in VgmRecord, Unplayed(v),
           SameStream(start, v), v.loop_flag = start.loop_flag
    PROVE  HeadOK(start, v) /\ HeadAt(start, v, 0)
  <1>1. HeadsAgree(v) /\ SavedLoop(v)
    BY DEF Unplayed, HeadsAgree, SavedLoop, VgmRecord
  <1>2. HeadInLoop(start, v)
    BY DEF Unplayed, HeadInLoop, VgmRecord, Startable, Openable, SameStream
  <1>3. JumpsBack(start, v) = 0
    BY DEF Unplayed, JumpsBack
  <1>4. LoopBody(start) \in Int
    BY DEF Startable, Openable, VgmRecord, LoopBody
  <1>5. 0 * LoopBody(start) = 0
    BY <1>4
  <1>6. HeadAt(start, v, 0)
    BY <1>3, <1>5 DEF HeadAt, Unplayed
  <1> QED  BY <1>1, <1>2, <1>6 DEF HeadOK

\* reset_vgmstream takes the head there, from anywhere.
LEMMA ResetHead ==
    ASSUME NEW start, Startable(start), NEW v0, v0.loop_ch \in Nat,
           NEW v, v = ResetVgmstream(v0, start)
    PROVE  /\ HeadOK(start, v)
           /\ HeadAt(start, v, 0)
           /\ Unplayed(v)
           /\ v.loop_flag = start.loop_flag
  <1>1. start \in VgmRecord
    BY DEF Startable, Openable
  <1>2. v = [start EXCEPT !.loop_ch = v0.loop_ch]
    BY DEF ResetVgmstream
  <1>3. v \in VgmRecord
    BY <1>1, <1>2 DEF VgmRecord
  <1>4. SameStream(start, v) /\ v.loop_flag = start.loop_flag
    BY <1>1, <1>2 DEF VgmRecord, SameStream
  <1>5. Unplayed(v)
    BY <1>1, <1>2 DEF VgmRecord, Startable, Openable, Unplayed
  <1> QED  BY <1>3, <1>4, <1>5, UnplayedHead

-----------------------------------------------------------------------------
(* One iteration of a render loop that does not jump *)

\* The samples it asks the decoder for.
LEMMA IterationSamples ==
    ASSUME NEW start, Startable(start), NEW v0, HeadOK(start, v0), ~Looped(v0),
           NEW v, v = LoopCheck(v0),
           NEW room \in Nat, room > 0, NEW n, n = FlatSamplesToDo(v0, room)
    PROVE  /\ n \in Nat
           /\ n <= room
           /\ UpToNextLoopPoint(v, n)
           /\ v.frame > 1 => (v.current_sample % v.frame) + n <= v.frame
           /\ n = 0 => ~v.loop_flag /\ v.current_sample = v.num_samples
  <1>1. HeadOK(start, v) /\ BeforeLoopPoint(v)
    BY CheckedHead
  <1>2. n = SmallerOf(DecodeGetSamplesToDo(v, v.num_samples, v.frame), room)
    BY DEF FlatSamplesToDo
  <1> QED  BY <1>1, <1>2, SamplesAnIterationDoes

\* If it decodes, that is the next part of the unrolled stream.
LEMMA IterationDecodes ==
    ASSUME NEW start, Startable(start), NEW v0, HeadOK(start, v0), ~Looped(v0),
           NEW room \in Nat, room > 0,
           NEW n, n = FlatSamplesToDo(v0, room), n > 0,
           NEW w, w = DecodeVgmstream(LoopCheck(v0), n)
    PROVE  /\ n \in 1 .. room
           /\ HeadOK(start, w)
           /\ v0.ch \in Nat
           /\ w.current_sample = v0.current_sample + n
           /\ v0.frame > 1 => (v0.ch % v0.frame) + n <= v0.frame
           /\ \A t \in Nat : HeadAt(start, v0, t) =>
                 /\ HeadAt(start, w, t + n)
                 /\ \A j \in 0 .. n - 1 : IsSource(start, t + j, v0.ch + j)
  <1>1. PICK v : v = LoopCheck(v0)
    OBVIOUS
  <1>2. /\ HeadOK(start, v)
        /\ BeforeLoopPoint(v)
        /\ v.current_sample = v0.current_sample
        /\ v.ch = v0.ch
        /\ \A t \in Nat : HeadAt(start, v0, t) => HeadAt(start, v, t)
    BY <1>1, CheckedHead
  <1>3. /\ n \in Nat
        /\ n <= room
        /\ UpToNextLoopPoint(v, n)
        /\ v.frame > 1 => (v.current_sample % v.frame) + n <= v.frame
    BY <1>1, IterationSamples
  <1>4. /\ HeadOK(start, w)
        /\ w.current_sample = v.current_sample + n
        /\ \A t \in Nat : HeadAt(start, v, t) => HeadAt(start, w, t + n)
    BY <1>1, <1>2, <1>3, DecodeKeepsHead
  <1>5. v0.frame = v.frame /\ v0.ch = v0.current_sample /\ v0.ch \in Nat
    BY <1>2 DEF HeadOK, SameStream, HeadsAgree, VgmRecord
  <1>6. ASSUME NEW t \in Nat, HeadAt(start, v0, t)
        PROVE  /\ HeadAt(start, w, t + n)
               /\ \A j \in 0 .. n - 1 : IsSource(start, t + j, v0.ch + j)
    <2>1. HeadAt(start, v, t)
      BY <1>2, <1>6
    <2>2. ASSUME NEW j \in 0 .. n - 1
          PROVE  IsSource(start, t + j, v.ch + j)
      BY <1>2, <1>3, <2>1, DecodedIsSource
    <2> QED  BY <1>2, <1>4, <2>1, <2>2
  <1>7. n \in 1 .. room
    BY <1>3
  <1>8. v0.frame > 1 => (v0.ch % v0.frame) + n <= v0.frame
    BY <1>2, <1>3, <1>5
  <1> QED  BY <1>2, <1>4, <1>5, <1>6, <1>7, <1>8

\* If it has nothing to decode, the unrolled stream is over.
LEMMA IterationFails ==
    ASSUME NEW start, Startable(start), NEW v0, HeadOK(start, v0), ~Looped(v0),
           NEW room \in Nat, room > 0, FlatSamplesToDo(v0, room) <= 0,
           NEW v, v = LoopCheck(v0)
    PROVE  /\ HeadOK(start, v)
           /\ ~v.loop_flag
           /\ v.current_sample = v.num_samples
           /\ \A t \in Nat : HeadAt(start, v0, t) =>
                 \A u \in Nat : u >= t => IsOver(start, u) /\ HeadAt(start, v, u)
  <1>1. /\ HeadOK(start, v)
        /\ \A t \in Nat : HeadAt(start, v0, t) => HeadAt(start, v, t)
    BY CheckedHead
  <1>2. PICK n : n = FlatSamplesToDo(v0, room)
    OBVIOUS
  <1>3. n \in Nat /\ (n = 0 => ~v.loop_flag /\ v.current_sample = v.num_samples)
    BY <1>2, IterationSamples
  <1>4. ~v.loop_flag /\ v.current_sample = v.num_samples
    BY <1>2, <1>3
  <1>5. v.current_sample >= v.num_samples
    BY <1>1, <1>4 DEF HeadOK, VgmRecord
  <1>6. ASSUME NEW t \in Nat, HeadAt(start, v0, t), NEW u \in Nat, u >= t
        PROVE  IsOver(start, u) /\ HeadAt(start, v, u)
    <2>1. HeadAt(start, v, t)
      BY <1>1, <1>6
    <2> QED  BY <1>1, <1>4, <1>5, <1>6, <2>1, StreamIsOver
  <1> QED  BY <1>1, <1>4, <1>6
=============================================================================
