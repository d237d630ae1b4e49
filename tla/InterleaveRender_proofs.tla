------------------------ MODULE InterleaveRender_proofs ------------------------
(***************************************************************************)
(* Proofs about InterleaveRender, for all files whose blocks are sound and  *)
(* every buffer size: each channel is read where the file has the sample of *)
(* the unrolled stream.                                                     *)
(*                                                                          *)
(* The loop machine's part is LoopHead_proofs', used on Flat(v): the same   *)
(* head in a file without blocks.  New here is where the blocks are.        *)
(***************************************************************************)
EXTENDS InterleaveRender, LoopHead_proofs

-----------------------------------------------------------------------------
(* Arithmetic of rows and blocks *)

\* What \div and % are.
LEMMA Division ==
    ASSUME NEW a \in Nat, NEW b \in Nat, b > 0
    PROVE  \E q \in Nat, r \in Nat :
              /\ q = a \div b /\ r = a % b
              /\ a = q * b + r /\ r < b
  <1>1. PICK q \in Nat, r \in Nat : q = a \div b /\ r = a % b
    BY SMTT(30)
  <1>2. a = b * q + r /\ r < b
    BY <1>1, SMTT(30)
  <1>3. b * q = q * b
    OBVIOUS
  <1> QED  BY <1>1, <1>2, <1>3

\* Only one row and place in it are those of a sample.
LEMMA OneQuotient ==
    ASSUME NEW b \in Nat, NEW q \in Nat, NEW r \in Nat, r < b,
           NEW p \in Nat, NEW s \in Nat, s < b,
           q * b + r = p * b + s
    PROVE  q = p /\ r = s
  <1>1. ASSUME NEW x \in Nat, NEW y \in Nat, x < y,
               NEW u \in Nat, NEW w \in Nat, u < b, w < b,
               x * b + u = y * b + w
        PROVE  FALSE
    <2>1. PICK d \in Nat : y = x + 1 + d
      <3>1. y - x - 1 \in Nat /\ y = x + 1 + (y - x - 1)
        BY <1>1
      <3> QED  BY <3>1
    <2>2. (x + 1 + d) * b = x * b + b + d * b
      OBVIOUS
    <2>3. PICK m \in Nat, n \in Nat : m = x * b /\ n = d * b
      OBVIOUS
    <2>4. m + u = m + b + n + w
      BY <1>1, <2>1, <2>2, <2>3
    <2> QED  BY <1>1, <2>3, <2>4
  <1>2. ~(q < p)
    BY <1>1
  <1>3. ~(p < q)
    BY <1>1
  <1>4. q = p
    BY <1>2, <1>3
  <1>5. PICK m \in Nat : m = q * b
    OBVIOUS
  <1>6. m + r = m + s
    BY <1>4, <1>5
  <1> QED  BY <1>4, <1>5, <1>6

\* Rows are found again by dividing.
LEMMA RowOfPlace ==
    ASSUME NEW b \in Nat, NEW q \in Nat, NEW r \in Nat, r < b
    PROVE  (q * b + r) \div b = q /\ (q * b + r) % b = r
  <1>1. PICK a \in Nat : a = q * b + r
    OBVIOUS
  <1>2. b > 0
    OBVIOUS
  <1>3. PICK p \in Nat, s \in Nat :
          p = a \div b /\ s = a % b /\ a = p * b + s /\ s < b
    BY <1>2, Division
  <1>4. q * b + r = p * b + s
    BY <1>1, <1>3
  <1>5. q = p /\ r = s
    BY <1>3, <1>4, OneQuotient
  <1> QED  BY <1>1, <1>3, <1>5

\* What is read without crossing a frame is in one frame.
LEMMA InOneFrame ==
    ASSUME NEW a \in Nat, NEW b \in Nat, NEW j \in Nat, b > 0,
           (a % b) + j < b
    PROVE  (a + j) \div b = a \div b /\ (a + j) % b = (a % b) + j
  <1>1. PICK q \in Nat, r \in Nat :
          q = a \div b /\ r = a % b /\ a = q * b + r /\ r < b
    BY Division
  <1>2. r + j \in Nat /\ r + j < b
    BY <1>1
  <1>3. (q * b + (r + j)) \div b = q /\ (q * b + (r + j)) % b = r + j
    BY <1>2, RowOfPlace
  <1>4. PICK m \in Nat : m = q * b
    OBVIOUS
  <1>5. a + j = q * b + (r + j)
    BY <1>1, <1>4
  <1> QED  BY <1>1, <1>3, <1>5

\* What is read up to its end is a frame more.
LEMMA FrameDone ==
    ASSUME NEW a \in Nat, NEW b \in Nat, NEW n \in Nat, b > 0, n > 0,
           (a % b) + n = b
    PROVE  (a + n) \div b = (a \div b) + 1 /\ (a + n) % b = 0
  <1>1. PICK q \in Nat, r \in Nat :
          q = a \div b /\ r = a % b /\ a = q * b + r /\ r < b
    BY Division
  <1>2. ((q + 1) * b + 0) \div b = q + 1 /\ ((q + 1) * b + 0) % b = 0
    BY RowOfPlace
  <1>3. (q + 1) * b = q * b + b
    OBVIOUS
  <1>4. PICK m \in Nat : m = q * b
    OBVIOUS
  <1>5. a + n = (q + 1) * b + 0
    BY <1>1, <1>3, <1>4
  <1> QED  BY <1>1, <1>2, <1>5

\* More rows are as many samples, or more.
LEMMA RowsGrow ==
    ASSUME NEW b \in Nat, NEW j \in Nat, NEW k \in Nat, j <= k
    PROVE  j * b \in Nat /\ k * b \in Nat /\ j * b <= k * b
  <1>1. PICK more \in Nat : k = j + more
    <2>1. k - j \in Nat /\ k = j + (k - j)
      OBVIOUS
    <2> QED  BY <2>1
  <1>2. (j + more) * b = j * b + more * b
    OBVIOUS
  <1>3. PICK m \in Nat, n \in Nat : m = j * b /\ n = more * b
    OBVIOUS
  <1>4. k * b = m + n
    BY <1>1, <1>2, <1>3
  <1> QED  BY <1>3, <1>4

-----------------------------------------------------------------------------
(* The head in a file without blocks *)

\* Up to the end of the stream it is at the same sample.
LEMMA FlatOf ==
    ASSUME NEW f, NEW v \in InterleavedVgm(f), NEW w, w = Flat(v)
    PROVE  /\ w \in VgmRecord
           /\ w.current_sample = SmallerOf(v.current_sample, v.num_samples)
           /\ ~PastEnd(v) => w.current_sample = v.current_sample
           /\ PastEnd(v) => w.current_sample = v.num_samples
           /\ w.num_samples = v.num_samples
           /\ w.loop_start_sample = v.loop_start_sample
           /\ w.loop_end_sample = v.loop_end_sample
           /\ w.loop_flag = v.loop_flag
           /\ w.frame = v.frame
           /\ w.codec_data = FALSE
           /\ w.loop_target = v.loop_target
           /\ w.loop_count = v.loop_count
           /\ w.hit_loop = v.hit_loop
           /\ w.ch = w.current_sample
           /\ w.samples_into_block = w.current_sample
           /\ w.loop_current_sample = v.loop_current_sample
           /\ w.loop_samples_into_block = v.loop_current_sample
           /\ w.loop_ch = v.loop_current_sample
  <1>1. SmallerOf(v.current_sample, v.num_samples) \in Nat
    BY DEF SmallerOf, InterleavedVgm
  <1>2. Flat(v) \in VgmRecord
    BY <1>1 DEF Flat, FlatAt, VgmRecord, InterleavedVgm
  <1>3. /\ ~PastEnd(v) =>
              SmallerOf(v.current_sample, v.num_samples) = v.current_sample
        /\ PastEnd(v) =>
              SmallerOf(v.current_sample, v.num_samples) = v.num_samples
    BY DEF PastEnd, SmallerOf, InterleavedVgm
  <1> QED  BY <1>2, <1>3 DEF Flat, FlatAt

\* The unrolled stream is that of the file, with blocks or without.
LEMMA FlatTimeline ==
    ASSUME NEW start
    PROVE  /\ \A t, s : IsSource(Flat(start), t, s) = IsSource(start, t, s)
           /\ \A t : IsOver(Flat(start), t) = IsOver(start, t)
  BY DEF Flat, FlatAt, IsSource, IsOver, LoopBody, LastCopy

\* A record is its fields.
LEMMA SameRecord ==
    ASSUME NEW v \in VgmRecord, NEW w \in VgmRecord,
           v.num_samples = w.num_samples,
           v.loop_start_sample = w.loop_start_sample,
           v.loop_end_sample = w.loop_end_sample,
           v.loop_flag = w.loop_flag, v.frame = w.frame,
           v.codec_data = w.codec_data, v.loop_target = w.loop_target,
           v.current_sample = w.current_sample,
           v.samples_into_block = w.samples_into_block,
           v.loop_count = w.loop_count, v.hit_loop = w.hit_loop,
           v.ch = w.ch, v.loop_ch = w.loop_ch,
           v.loop_current_sample = w.loop_current_sample,
           v.loop_samples_into_block = w.loop_samples_into_block
    PROVE  v = w
  <1> DEFINE Copy(r) ==
               [num_samples |-> r.num_samples,
                loop_start_sample |-> r.loop_start_sample,
                loop_end_sample |-> r.loop_end_sample,
                loop_flag |-> r.loop_flag, frame |-> r.frame,
                codec_data |-> r.codec_data, loop_target |-> r.loop_target,
                current_sample |-> r.current_sample,
                samples_into_block |-> r.samples_into_block,
                loop_count |-> r.loop_count, hit_loop |-> r.hit_loop,
                ch |-> r.ch, loop_ch |-> r.loop_ch,
                loop_current_sample |-> r.loop_current_sample,
                loop_samples_into_block |-> r.loop_samples_into_block]
  <1>1. v = Copy(v)
    BY DEF VgmRecord
  <1>2. w = Copy(w)
    BY DEF VgmRecord
  <1>3. Copy(v) = Copy(w)
    OBVIOUS
  <1> QED  BY <1>1, <1>2, <1>3

\* What is known of a head before an iteration, as far as the loop machine goes.
Checkable(f, start, v) ==
    /\ v \in InterleavedVgm(f)
    /\ Startable(Flat(start))
    /\ HeadOK(Flat(start), Flat(v))
    /\ PastEnd(v) => ~v.loop_flag

\* The loop check jumps if it does without blocks.
LEMMA FlatLooped ==
    ASSUME NEW f, NEW start, NEW v, Checkable(f, start, v)
    PROVE  /\ Looped(Flat(v)) = Looped(v)
           /\ v.loop_flag => ~PastEnd(v)
           /\ v.loop_flag => AtLoopEnd(Flat(v)) = AtLoopEnd(v)
           /\ v.loop_flag => AtLoopStart(Flat(v)) = AtLoopStart(v)
           /\ TargetReached(Flat(v)) = TargetReached(v)
           /\ v.loop_flag => Flat(v).current_sample = v.current_sample
  <1>1. PICK w : w = Flat(v)
    OBVIOUS
  <1>2. /\ w.loop_end_sample = v.loop_end_sample
        /\ w.loop_start_sample = v.loop_start_sample
        /\ w.loop_flag = v.loop_flag
        /\ w.loop_target = v.loop_target
        /\ w.loop_count = v.loop_count
        /\ ~PastEnd(v) => w.current_sample = v.current_sample
    BY <1>1, FlatOf DEF Checkable
  <1>3. v.loop_flag => ~PastEnd(v)
    BY DEF Checkable
  <1> QED
    BY <1>1, <1>2, <1>3 DEF Looped, AtLoopEnd, AtLoopStart, TargetReached

\* A jump back restores what was saved.
LEMMA FlatJump ==
    ASSUME NEW f, NEW start, NEW v0, Checkable(f, start, v0), Looped(v0),
           NEW v, v = LoopCheck(v0)
    PROVE  /\ v \in InterleavedVgm(f)
           /\ Flat(v) = LoopCheck(Flat(v0))
           /\ ~PastEnd(v)
           /\ v0.hit_loop /\ v.hit_loop
           /\ v.current_sample = v0.loop_current_sample
           /\ v.samples_into_block = v0.loop_samples_into_block
           /\ v.ch = v0.loop_ch
           /\ v.loop_current_sample = v0.loop_current_sample
           /\ v.loop_samples_into_block = v0.loop_samples_into_block
           /\ v.loop_ch = v0.loop_ch
           /\ v.num_samples = v0.num_samples
           /\ v.current_sample < v0.current_sample
           /\ v0.current_sample <= v0.num_samples
  <1>1. v = RestoreLoop(v0) /\ v0.loop_flag /\ AtLoopEnd(v0)
        /\ ~TargetReached(v0)
    BY DEF Looped, LoopCheck, DecodeDoLoop
  <1>2. PICK w : w = Flat(v0)
    OBVIOUS
  <1>3. HeadOK(Flat(start), w) /\ Startable(Flat(start))
    BY <1>2 DEF Checkable
  <1>4. Flat(start).loop_flag
    BY <1>1, <1>2, <1>3, FlatOf DEF HeadOK, HeadInLoop, Checkable
  <1>5. /\ w.loop_start_sample < w.loop_end_sample
        /\ w.loop_end_sample <= w.num_samples
    BY <1>3, <1>4, LoopIsSane
  <1>6. /\ w.loop_start_sample = v0.loop_start_sample
        /\ w.loop_end_sample = v0.loop_end_sample
        /\ w.num_samples = v0.num_samples
        /\ w.loop_flag = v0.loop_flag
        /\ w.hit_loop = v0.hit_loop
        /\ w.current_sample = v0.current_sample
        /\ w.loop_current_sample = v0.loop_current_sample
        /\ w \in VgmRecord
    BY <1>1, <1>2, FlatOf, FlatLooped DEF Checkable
  <1>7. v0.hit_loop
    BY <1>1, <1>3, <1>5, <1>6 DEF HeadOK, HeadInLoop, AtLoopEnd, VgmRecord
  <1>8. /\ v0.loop_current_sample = v0.loop_start_sample
        /\ v0.loop_start_sample < v0.loop_end_sample
        /\ v0.loop_end_sample <= v0.num_samples
        /\ v0.current_sample = v0.loop_end_sample
    BY <1>1, <1>3, <1>5, <1>6, <1>7 DEF HeadOK, SavedLoop, AtLoopEnd
  <1>9. v0 \in InterleavedVgm(f)
    BY DEF Checkable
  <1>10. v = [v0 EXCEPT !.loop_count = v0.loop_count + 1,
                        !.ch = v0.loop_ch,
                        !.current_sample = v0.loop_current_sample,
                        !.samples_into_block = v0.loop_samples_into_block]
    BY <1>1, <1>9 DEF RestoreLoop, InterleavedVgm
  <1>11. v0.loop_count + 1 \in Nat
    BY <1>9 DEF InterleavedVgm
  <1>12. v \in InterleavedVgm(f)
    BY <1>9, <1>10, <1>11 DEF InterleavedVgm
  <1>13. /\ v.num_samples = v0.num_samples
         /\ v.loop_start_sample = v0.loop_start_sample
         /\ v.loop_end_sample = v0.loop_end_sample
         /\ v.loop_flag = v0.loop_flag
         /\ v.frame = v0.frame
         /\ v.loop_target = v0.loop_target
         /\ v.loop_count = v0.loop_count + 1
         /\ v.hit_loop = v0.hit_loop
         /\ v.current_sample = v0.loop_current_sample
         /\ v.samples_into_block = v0.loop_samples_into_block
         /\ v.ch = v0.loop_ch
         /\ v.loop_current_sample = v0.loop_current_sample
         /\ v.loop_samples_into_block = v0.loop_samples_into_block
         /\ v.loop_ch = v0.loop_ch
    BY <1>9, <1>10 DEF InterleavedVgm
  <1>14. ~PastEnd(v) /\ v.current_sample < v0.current_sample
         /\ v0.current_sample <= v0.num_samples
    BY <1>8, <1>9, <1>13 DEF PastEnd, InterleavedVgm
  <1>15. SmallerOf(v.current_sample, v.num_samples) = v0.loop_current_sample
    BY <1>8, <1>9, <1>13 DEF SmallerOf, InterleavedVgm
  <1>16. LoopCheck(w) = RestoreLoop(w)
    BY <1>1, <1>2, <1>6, FlatLooped
       DEF LoopCheck, DecodeDoLoop
  <1>17. Flat(v) = LoopCheck(w)
    <2>1. LoopCheck(w) \in VgmRecord
      BY <1>1, <1>2, <1>3, FlatLooped, JumpKeepsPlace DEF HeadOK
    <2>2. Flat(v) \in VgmRecord
      BY <1>12, FlatOf
    <2>3. /\ w.codec_data = FALSE /\ w.loop_count = v0.loop_count
          /\ w.loop_ch = v0.loop_current_sample
          /\ w.loop_samples_into_block = v0.loop_current_sample
          /\ w.frame = v0.frame /\ w.loop_target = v0.loop_target
      BY <1>2, <1>9, FlatOf
    <2>4. PICK u : u = LoopCheck(w)
      OBVIOUS
    <2>5. /\ u.num_samples = v0.num_samples
          /\ u.loop_start_sample = v0.loop_start_sample
          /\ u.loop_end_sample = v0.loop_end_sample
          /\ u.loop_flag = v0.loop_flag /\ u.frame = v0.frame
          /\ u.codec_data = FALSE /\ u.loop_target = v0.loop_target
          /\ u.hit_loop = v0.hit_loop
          /\ u.loop_current_sample = v0.loop_current_sample
          /\ u.loop_samples_into_block = v0.loop_current_sample
          /\ u.loop_ch = v0.loop_current_sample
      BY <1>6, <1>16, <2>3, <2>4 DEF RestoreLoop, VgmRecord
    <2>6. /\ u.loop_count = v0.loop_count + 1
          /\ u.ch = v0.loop_current_sample
          /\ u.current_sample = v0.loop_current_sample
          /\ u.samples_into_block = v0.loop_current_sample
      BY <1>6, <1>16, <2>3, <2>4 DEF RestoreLoop, VgmRecord
    <2>7. PICK z : z = Flat(v)
      OBVIOUS
    <2>8. /\ z.num_samples = v.num_samples
          /\ z.loop_start_sample = v.loop_start_sample
          /\ z.loop_end_sample = v.loop_end_sample
          /\ z.loop_flag = v.loop_flag
          /\ z.frame = v.frame
          /\ z.loop_target = v.loop_target
          /\ z.loop_count = v.loop_count
          /\ z.hit_loop = v.hit_loop
      BY <1>12, <2>7, FlatOf, ZenonT(60)
    <2>14. /\ z.samples_into_block = z.current_sample
          /\ z.ch = z.current_sample
          /\ z.loop_current_sample = v.loop_current_sample
          /\ z.loop_samples_into_block = v.loop_current_sample
          /\ z.loop_ch = v.loop_current_sample
          /\ z.codec_data = FALSE
      BY <1>12, <2>7, FlatOf
    <2>12. z \in VgmRecord
      BY <1>12, <2>7, FlatOf
    <2>13. z.current_sample = v.current_sample
      BY <1>12, <1>14, <2>7, FlatOf
    <2>9. /\ u \in VgmRecord
          /\ u.num_samples = z.num_samples
          /\ u.loop_start_sample = z.loop_start_sample
          /\ u.loop_end_sample = z.loop_end_sample
          /\ u.loop_flag = z.loop_flag /\ u.frame = z.frame
          /\ u.codec_data = z.codec_data /\ u.loop_target = z.loop_target
          /\ u.hit_loop = z.hit_loop
          /\ u.loop_current_sample = z.loop_current_sample
          /\ u.loop_samples_into_block = z.loop_samples_into_block
          /\ u.loop_ch = z.loop_ch
      BY <1>13, <2>1, <2>4, <2>5, <2>8, <2>14
    <2>10. /\ u.loop_count = z.loop_count
           /\ u.ch = z.ch
           /\ u.current_sample = z.current_sample
           /\ u.samples_into_block = z.samples_into_block
      BY <1>13, <2>6, <2>8, <2>13, <2>14
    <2>11. z = u
      BY <2>9, <2>10, <2>12, SameRecord
    <2> QED  BY <2>4, <2>7, <2>11
  <1> QED  BY <1>2, <1>7, <1>12, <1>13, <1>14, <1>17

\* Without a jump it may save the head, or end the loop, and that is all.
LEMMA FlatCheck ==
    ASSUME NEW f, NEW start, NEW v0, Checkable(f, start, v0), ~Looped(v0),
           NEW v, v = LoopCheck(v0)
    PROVE  /\ v \in InterleavedVgm(f)
           /\ Flat(v) = LoopCheck(Flat(v0))
           /\ v.current_sample = v0.current_sample
           /\ v.samples_into_block = v0.samples_into_block
           /\ v.ch = v0.ch
           /\ v.num_samples = v0.num_samples
           /\ v.loop_flag => v0.loop_flag
           /\ v.hit_loop =>
                \/ /\ v0.hit_loop
                   /\ v.loop_current_sample = v0.loop_current_sample
                   /\ v.loop_samples_into_block = v0.loop_samples_into_block
                   /\ v.loop_ch = v0.loop_ch
                \/ /\ v.loop_current_sample = v0.current_sample
                   /\ v.loop_samples_into_block = v0.samples_into_block
                   /\ v.loop_ch = v0.ch
                   /\ v.current_sample < v.num_samples
  <1>1. v0 \in InterleavedVgm(f)
    BY DEF Checkable
  <1>2. PICK w : w = Flat(v0)
    OBVIOUS
  <1>3. /\ w.loop_flag = v0.loop_flag
        /\ w.hit_loop = v0.hit_loop
        /\ v0.loop_flag =>
             /\ AtLoopEnd(w) = AtLoopEnd(v0)
             /\ AtLoopStart(w) = AtLoopStart(v0)
             /\ TargetReached(w) = TargetReached(v0)
             /\ w.current_sample = v0.current_sample
        /\ w.num_samples = v0.num_samples
        /\ w.loop_start_sample = v0.loop_start_sample
        /\ w.loop_end_sample = v0.loop_end_sample
    BY <1>1, <1>2, FlatOf, FlatLooped
  <1>31. HeadOK(Flat(start), w) /\ Startable(Flat(start)) /\ ~Looped(w)
    BY <1>2, FlatLooped DEF Checkable
  <1>32. PICK u : u = LoopCheck(w)
    OBVIOUS
  <1>33. u \in VgmRecord
    BY <1>31, <1>32, CheckedHead DEF HeadOK
  <1>34. PICK z, at : z = Flat(v) /\ at = w.current_sample
    OBVIOUS
  <1>35. w \in VgmRecord
         /\ w.num_samples = v0.num_samples
         /\ w.loop_start_sample = v0.loop_start_sample
         /\ w.loop_end_sample = v0.loop_end_sample
         /\ w.loop_flag = v0.loop_flag
         /\ w.frame = v0.frame
         /\ w.loop_target = v0.loop_target
         /\ w.loop_count = v0.loop_count
         /\ w.hit_loop = v0.hit_loop
         /\ w.current_sample = at
         /\ w.samples_into_block = at
         /\ w.ch = at
         /\ w.loop_current_sample = v0.loop_current_sample
         /\ w.loop_samples_into_block = v0.loop_current_sample
         /\ w.loop_ch = v0.loop_current_sample
         /\ w.codec_data = FALSE
    BY <1>1, <1>2, <1>34, FlatOf
  <1>4. CASE ~v0.loop_flag
    <2>1. v = v0 /\ LoopCheck(w) = w
      BY <1>3, <1>4 DEF LoopCheck
    <2> QED  BY <1>1, <1>2, <2>1
  <1>5. CASE v0.loop_flag /\ AtLoopEnd(v0)
    <2>1. TargetReached(v0) /\ v = EndLooping(v0) /\ LoopCheck(w) = EndLooping(w)
      BY <1>3, <1>5 DEF Looped, LoopCheck, DecodeDoLoop
    <2>2. v = [v0 EXCEPT !.loop_count = v0.loop_count + 1, !.loop_flag = FALSE]
      BY <2>1 DEF EndLooping
    <2>3. v0.loop_count + 1 \in Nat
      BY <1>1 DEF InterleavedVgm
    <2>4. v \in InterleavedVgm(f)
      BY <1>1, <2>2, <2>3 DEF InterleavedVgm
    <2>5. /\ v.num_samples = v0.num_samples
          /\ v.loop_start_sample = v0.loop_start_sample
          /\ v.loop_end_sample = v0.loop_end_sample
          /\ v.loop_flag = FALSE
          /\ v.frame = v0.frame
          /\ v.loop_target = v0.loop_target
          /\ v.loop_count = v0.loop_count + 1
          /\ v.hit_loop = v0.hit_loop
          /\ v.current_sample = v0.current_sample
          /\ v.samples_into_block = v0.samples_into_block
          /\ v.ch = v0.ch
          /\ v.loop_current_sample = v0.loop_current_sample
          /\ v.loop_samples_into_block = v0.loop_samples_into_block
          /\ v.loop_ch = v0.loop_ch
      BY <1>1, <2>2 DEF InterleavedVgm
    <2>6. Flat(v) = EndLooping(w)
      <3>1. /\ u.num_samples = v0.num_samples
            /\ u.loop_start_sample = v0.loop_start_sample
            /\ u.loop_end_sample = v0.loop_end_sample
            /\ u.loop_flag = FALSE
            /\ u.frame = v0.frame
            /\ u.loop_target = v0.loop_target
            /\ u.loop_count = v0.loop_count + 1
            /\ u.hit_loop = v0.hit_loop
            /\ u.current_sample = at
            /\ u.samples_into_block = at
            /\ u.ch = at
            /\ u.loop_current_sample = v0.loop_current_sample
            /\ u.loop_samples_into_block = v0.loop_current_sample
            /\ u.loop_ch = v0.loop_current_sample
            /\ u.codec_data = FALSE
        BY <1>32, <1>35, <2>1 DEF EndLooping, VgmRecord
      <3>2. /\ z.num_samples = v.num_samples
            /\ z.loop_start_sample = v.loop_start_sample
            /\ z.loop_end_sample = v.loop_end_sample
            /\ z.loop_flag = v.loop_flag
            /\ z.frame = v.frame
            /\ z.loop_target = v.loop_target
            /\ z.loop_count = v.loop_count
            /\ z.hit_loop = v.hit_loop
        BY <1>34, <2>4, FlatOf, ZenonT(60)
      <3>10. /\ z.samples_into_block = z.current_sample
            /\ z.ch = z.current_sample
            /\ z.loop_current_sample = v.loop_current_sample
            /\ z.loop_samples_into_block = v.loop_current_sample
            /\ z.loop_ch = v.loop_current_sample
            /\ z.codec_data = FALSE
        BY <1>34, <2>4, FlatOf
      <3>8. z \in VgmRecord
        BY <1>34, <2>4, FlatOf
      <3>9. z.current_sample = SmallerOf(v.current_sample, v.num_samples)
        BY <1>34, <2>4, FlatOf
      <3>3. w.current_sample = SmallerOf(v0.current_sample, v0.num_samples)
        BY <1>1, <1>2, FlatOf
      <3>4. z.current_sample = at
        BY <1>34, <2>5, <3>3, <3>9
      <3>5. /\ u.num_samples = z.num_samples
            /\ u.loop_start_sample = z.loop_start_sample
            /\ u.loop_end_sample = z.loop_end_sample
            /\ u.loop_flag = z.loop_flag /\ u.frame = z.frame
            /\ u.codec_data = z.codec_data /\ u.loop_target = z.loop_target
            /\ u.loop_count = z.loop_count /\ u.hit_loop = z.hit_loop
        BY <2>5, <3>1, <3>2, <3>10
      <3>6. /\ u.current_sample = z.current_sample
            /\ u.samples_into_block = z.samples_into_block
            /\ u.ch = z.ch
            /\ u.loop_current_sample = z.loop_current_sample
            /\ u.loop_samples_into_block = z.loop_samples_into_block
            /\ u.loop_ch = z.loop_ch
        BY <2>5, <3>1, <3>4, <3>10
      <3>7. z = u
        BY <1>33, <3>5, <3>6, <3>8, SameRecord
      <3> QED  BY <1>32, <1>34, <2>1, <3>7
    <2> QED  BY <1>2, <2>1, <2>4, <2>5, <2>6
  <1>6. CASE v0.loop_flag /\ ~AtLoopEnd(v0) /\ ~v0.hit_loop /\ AtLoopStart(v0)
    <2>1. v = SaveLoop(v0) /\ LoopCheck(w) = SaveLoop(w)
      BY <1>3, <1>6 DEF LoopCheck, DecodeDoLoop
    <2>2. v = [v0 EXCEPT !.loop_ch = v0.ch,
                         !.loop_current_sample = v0.current_sample,
                         !.loop_samples_into_block = v0.samples_into_block,
                         !.hit_loop = TRUE]
      BY <2>1 DEF SaveLoop
    <2>3. v \in InterleavedVgm(f)
      BY <1>1, <2>2 DEF InterleavedVgm
    <2>4. /\ v.num_samples = v0.num_samples
          /\ v.loop_start_sample = v0.loop_start_sample
          /\ v.loop_end_sample = v0.loop_end_sample
          /\ v.loop_flag = v0.loop_flag
          /\ v.frame = v0.frame
          /\ v.loop_target = v0.loop_target
          /\ v.loop_count = v0.loop_count
          /\ v.hit_loop = TRUE
          /\ v.current_sample = v0.current_sample
          /\ v.samples_into_block = v0.samples_into_block
          /\ v.ch = v0.ch
          /\ v.loop_current_sample = v0.current_sample
          /\ v.loop_samples_into_block = v0.samples_into_block
          /\ v.loop_ch = v0.ch
      BY <1>1, <2>2 DEF InterleavedVgm
    <2>5. SmallerOf(v0.current_sample, v0.num_samples) = v0.current_sample
      BY <1>2, <1>3, <1>6, FlatOf, <1>1
    <2>6. Flat(v) = SaveLoop(w)
      <3>1. /\ u.num_samples = v0.num_samples
            /\ u.loop_start_sample = v0.loop_start_sample
            /\ u.loop_end_sample = v0.loop_end_sample
            /\ u.loop_flag = v0.loop_flag
            /\ u.frame = v0.frame
            /\ u.loop_target = v0.loop_target
            /\ u.loop_count = v0.loop_count
            /\ u.hit_loop = TRUE
            /\ u.current_sample = at
            /\ u.samples_into_block = at
            /\ u.ch = at
            /\ u.loop_current_sample = at
            /\ u.loop_samples_into_block = at
            /\ u.loop_ch = at
            /\ u.codec_data = FALSE
        BY <1>32, <1>35, <2>1 DEF SaveLoop, VgmRecord
      <3>2. /\ z.num_samples = v.num_samples
            /\ z.loop_start_sample = v.loop_start_sample
            /\ z.loop_end_sample = v.loop_end_sample
            /\ z.loop_flag = v.loop_flag
            /\ z.frame = v.frame
            /\ z.loop_target = v.loop_target
            /\ z.loop_count = v.loop_count
            /\ z.hit_loop = v.hit_loop
        BY <1>34, <2>3, FlatOf, ZenonT(60)
      <3>10. /\ z.samples_into_block = z.current_sample
            /\ z.ch = z.current_sample
            /\ z.loop_current_sample = v.loop_current_sample
            /\ z.loop_samples_into_block = v.loop_current_sample
            /\ z.loop_ch = v.loop_current_sample
            /\ z.codec_data = FALSE
        BY <1>34, <2>3, FlatOf
      <3>8. z \in VgmRecord
        BY <1>34, <2>3, FlatOf
      <3>9. z.current_sample = SmallerOf(v.current_sample, v.num_samples)
        BY <1>34, <2>3, FlatOf
      <3>3. w.current_sample = SmallerOf(v0.current_sample, v0.num_samples)
        BY <1>1, <1>2, FlatOf
      <3>4. z.current_sample = at
        BY <1>34, <2>4, <3>3, <3>9
      <3>5. /\ u.num_samples = z.num_samples
            /\ u.loop_start_sample = z.loop_start_sample
            /\ u.loop_end_sample = z.loop_end_sample
            /\ u.loop_flag = z.loop_flag /\ u.frame = z.frame
            /\ u.codec_data = z.codec_data /\ u.loop_target = z.loop_target
            /\ u.loop_count = z.loop_count /\ u.hit_loop = z.hit_loop
        BY <2>4, <3>1, <3>2, <3>10
      <3>6. /\ u.current_sample = z.current_sample
            /\ u.samples_into_block = z.samples_into_block
            /\ u.ch = z.ch
            /\ u.loop_current_sample = z.loop_current_sample
            /\ u.loop_samples_into_block = z.loop_samples_into_block
            /\ u.loop_ch = z.loop_ch
        BY <1>3, <1>6, <1>34, <2>4, <3>1, <3>4, <3>10
      <3>7. z = u
        BY <1>33, <3>5, <3>6, <3>8, SameRecord
      <3> QED  BY <1>32, <1>34, <2>1, <3>7
    <2>7. v0.current_sample < v0.num_samples
      <3>1. HeadOK(Flat(start), w) /\ Startable(Flat(start))
        BY <1>2 DEF Checkable
      <3>2. Flat(start).loop_flag
        BY <1>3, <1>6, <3>1 DEF HeadOK, HeadInLoop
      <3>3. /\ w.loop_start_sample < w.loop_end_sample
            /\ w.loop_end_sample <= w.num_samples
        BY <3>1, <3>2, LoopIsSane
      <3> QED  BY <1>1, <1>3, <1>6, <3>3 DEF AtLoopStart, InterleavedVgm
    <2> QED  BY <1>2, <2>1, <2>3, <2>4, <2>6, <2>7
  <1>7. CASE v0.loop_flag /\ ~AtLoopEnd(v0) /\ (v0.hit_loop \/ ~AtLoopStart(v0))
    <2>1. v = v0 /\ LoopCheck(w) = w
      BY <1>3, <1>7 DEF LoopCheck, DecodeDoLoop
    <2> QED  BY <1>1, <1>2, <2>1
  <1> QED  BY <1>4, <1>5, <1>6, <1>7

-----------------------------------------------------------------------------
(* Blocks *)

\* Sizes and offsets are numbers, and the values of a call are those of its block.
LEMMA FileNumbers ==
    ASSUME NEW f \in InterleavedFile
    PROVE  /\ f.num_samples \in Nat /\ f.num_samples > 0
           /\ f.frame \in Nat /\ f.frame > 0
           /\ f.frame_size \in Nat /\ f.frame_size > 0
           /\ f.channels \in Nat /\ f.channels > 0
           /\ f.rows \in Nat /\ f.rows > 0
           /\ f.interleave_block_size \in Nat
           /\ f.interleave_first_block_size \in Nat
           /\ f.interleave_last_block_size \in Nat
           /\ f.interleave_first_skip \in Nat
           /\ f.start_offset \in Nat
           /\ DefaultSamples(f) \in Nat
           /\ FirstSamples(f) \in Nat
           /\ LastSamples(f) \in Nat
           /\ FirstLen(f) \in Nat
           /\ BlockLen(f) \in Nat
           /\ f.rows * BlockLen(f) \in Nat
  <1>1. /\ f.num_samples \in Nat /\ f.num_samples > 0
        /\ f.frame \in Nat /\ f.frame > 0
        /\ f.frame_size \in Nat /\ f.frame_size > 0
        /\ f.shortframe \in Nat /\ f.shortframe > 0
        /\ f.shortframe_size \in Nat /\ f.shortframe_size > 0
        /\ f.channels \in Nat /\ f.channels > 0
        /\ f.rows \in Nat /\ f.rows > 0
        /\ f.interleave_block_size \in Nat
        /\ f.interleave_first_block_size \in Nat
        /\ f.interleave_last_block_size \in Nat
        /\ f.interleave_first_skip \in Nat
        /\ f.start_offset \in Nat
    BY DEF InterleavedFile
  <1>2. ASSUME NEW a \in Nat, NEW b \in Nat, b > 0, NEW c \in Nat
        PROVE  (a \div b) * c \in Nat
    <2>1. PICK q \in Nat : q = a \div b
      BY <1>2, Division
    <2> QED  BY <2>1
  <1>3. /\ DefaultSamples(f) \in Nat
        /\ FirstSamples(f) \in Nat
        /\ LastSamples(f) \in Nat
    BY <1>1, <1>2 DEF DefaultSamples, FirstSamples, LastSamples
  <1>4. FirstLen(f) \in Nat /\ BlockLen(f) \in Nat
    BY <1>1, <1>3 DEF FirstLen, BlockLen, OrWholeStream
  <1>5. f.rows * BlockLen(f) \in Nat
    BY <1>1, <1>4
  <1> QED  BY <1>1, <1>3, <1>4, <1>5

\* The values of a call, by the block it is in.
LEMMA BlockValues ==
    ASSUME NEW f \in InterleavedFile
    PROVE  /\ DefaultValues(f).samples_per_frame = f.frame
           /\ DefaultValues(f).samples_this_block = BlockLen(f)
           /\ FirstValues(f).samples_per_frame = f.frame
           /\ HasFirst(f) => FirstValues(f).samples_this_block = FirstLen(f)
           /\ LastValues(f).samples_per_frame = f.shortframe
           /\ HasLast(f) => LastValues(f).samples_this_block = LastSamples(f)
  BY FileNumbers
     DEF DefaultValues, FirstValues, LastValues, Values, BlockLen, FirstLen,
         OrWholeStream, HasFirst, HasLast

\* With a last block, blocks hold samples.
LEMMA BlocksHoldSamples ==
    ASSUME NEW f \in InterleavedFile, SoundFile(f), BlockLen(f) = 0
    PROVE  FirstLen(f) = 0 /\ ~HasFirst(f) /\ ~HasLast(f)
  <1>1. ~HasFirst(f)
    BY DEF SoundFile
  <1>2. ~HasLast(f)
    BY FileNumbers DEF SoundFile
  <1> QED  BY <1>1, <1>2 DEF FirstLen

\* Samples of the file are in whole rows or in the last blocks after them.
LEMMA RowsOfSamples ==
    ASSUME NEW f \in InterleavedFile, SoundFile(f), HasLast(f),
           NEW s \in Nat, s < f.num_samples, NEW into \in Nat,
           NEW row \in Nat, s = FirstLen(f) + row * BlockLen(f) + into,
           into < BlockLen(f)
    PROVE  /\ row <= f.rows
           /\ s >= FirstLen(f) + f.rows * BlockLen(f) => row = f.rows
  <1>1. PICK b \in Nat, first \in Nat, rows \in Nat, whole \in Nat :
          /\ b = BlockLen(f) /\ first = FirstLen(f) /\ rows = f.rows
          /\ whole = rows * b
    BY FileNumbers
  <1>2. PICK m \in Nat : m = row * b
    OBVIOUS
  <1>3. s = first + m + into /\ into < b
    BY <1>1, <1>2
  <1>4. f.num_samples < first + whole + b /\ f.num_samples \in Nat
    BY <1>1, FileNumbers DEF SoundFile
  <1>5. row <= rows
    <2>1. SUFFICES ASSUME row >= rows + 1 PROVE FALSE
      OBVIOUS
    <2>2. (rows + 1) * b <= m /\ (rows + 1) * b = whole + b
      BY <1>1, <1>2, <2>1, RowsGrow, OneMoreBody
    <2> QED  BY <1>3, <1>4, <2>2
  <1>6. ASSUME s >= first + whole PROVE row = rows
    <2>1. SUFFICES ASSUME row + 1 <= rows PROVE FALSE
      BY <1>5
    <2>2. (row + 1) * b <= whole /\ (row + 1) * b = m + b
      <3>1. (row + 1) * b <= rows * b
        BY <2>1, RowsGrow
      <3>2. (row + 1) * b = row * b + b
        BY OneMoreBody
      <3> QED  BY <1>1, <1>2, <3>1, <3>2
    <2> QED  BY <1>3, <1>6, <2>2
  <1> QED  BY <1>1, <1>5, <1>6

\* A row is a block of each channel long.
LEMMA RowAfter ==
    ASSUME NEW f \in InterleavedFile, NEW row \in Nat
    PROVE  /\ RowStart(f, row) \in Int
           /\ RowStart(f, row + 1)
                = RowStart(f, row) + f.interleave_block_size * f.channels
  <1>1. PICK block \in Nat, channels \in Nat :
          block = f.interleave_block_size /\ channels = f.channels
    BY FileNumbers
  <1>2. PICK x \in Nat : x = row * block
    OBVIOUS
  <1>3. (row + 1) * block = x + block
    BY <1>2
  <1>4. (x + block) * channels = x * channels + block * channels
    OBVIOUS
  <1>5. PICK y \in Nat, z \in Nat : y = x * channels /\ z = block * channels
    OBVIOUS
  <1>6. FileStart(f) \in Int /\ FirstRowSize(f) \in Int
    BY FileNumbers DEF FileStart, FirstRowSize
  <1>7. RowStart(f, row) = FileStart(f) + FirstRowSize(f) + y
    BY <1>1, <1>2, <1>5 DEF RowStart
  <1>8. RowStart(f, row + 1) = FileStart(f) + FirstRowSize(f) + (y + z)
    BY <1>1, <1>3, <1>4, <1>5 DEF RowStart
  <1> QED  BY <1>1, <1>5, <1>6, <1>7, <1>8

\* Offsets are numbers too.
LEMMA OffsetNumbers ==
    ASSUME NEW f \in InterleavedFile, NEW c \in Channels(f), NEW row \in Nat,
           NEW into \in Nat
    PROVE  /\ c \in Nat
           /\ FirstBlock(f, c) \in Int
           /\ BlockOf(f, row, c) \in Int
           /\ Moved(f, into) \in Nat
  <1>1. c \in Nat
    BY FileNumbers DEF Channels
  <1>2. FirstBlock(f, c) \in Int
    BY <1>1, FileNumbers DEF FirstBlock
  <1>3. BlockOf(f, row, c) \in Int
    <2>1. PICK size \in Nat : size = IF HasLast(f) /\ row = f.rows
                                    THEN f.interleave_last_block_size
                                    ELSE f.interleave_block_size
      BY FileNumbers
    <2>2. c * size \in Nat
      BY <1>1
    <2> QED  BY <2>1, <2>2, RowAfter DEF BlockOf
  <1>4. Moved(f, into) \in Nat
    <2>1. PICK q \in Nat : q = into \div f.frame
      BY FileNumbers, Division
    <2>2. q * f.frame_size \in Nat
      BY FileNumbers
    <2> QED  BY <2>1, <2>2 DEF Moved
  <1> QED  BY <1>1, <1>2, <1>3, <1>4

-----------------------------------------------------------------------------
(* How much one iteration decodes *)

\* Never past the block, the next loop point or the frame; and only nothing at
\* all at the end of a block.
LEMMA SamplesOfCall ==
    ASSUME NEW f, NEW v \in InterleavedVgm(f),
           v.loop_flag => v.loop_start_sample < v.loop_end_sample,
           NEW block \in Nat, NEW frame \in Nat, frame > 0,
           NEW n \in Int, n = DecodeGetSamplesToDo(v, block, frame)
    PROVE  /\ n <= block - v.samples_into_block
           /\ v.loop_flag /\ ~v.hit_loop =>
                n <= v.loop_start_sample - v.current_sample
           /\ v.loop_flag /\ v.hit_loop =>
                n <= v.loop_end_sample - v.current_sample
           /\ frame > 1 => (v.samples_into_block % frame) + n <= frame
           /\ n <= 0 /\ BeforeLoopPoint(v) => v.samples_into_block >= block
  <1> DEFINE m == SamplesUpToLoopPoint(v, block)
  <1>1. /\ v.current_sample \in Nat /\ v.samples_into_block \in Nat
        /\ v.loop_start_sample \in Nat /\ v.loop_end_sample \in Nat
        /\ v.loop_flag \in BOOLEAN /\ v.hit_loop \in BOOLEAN
    BY DEF InterleavedVgm
  <1>2. PICK left \in Int : left = block - v.samples_into_block
    BY <1>1
  <1>3. m = IF /\ v.loop_flag
               /\ v.current_sample + left > v.loop_start_sample
               /\ ~v.hit_loop
            THEN v.loop_start_sample - v.current_sample
            ELSE IF v.loop_flag /\ v.current_sample + left > v.loop_end_sample
            THEN v.loop_end_sample - v.current_sample
            ELSE left
    BY <1>2 DEF SamplesUpToLoopPoint
  <1>4. m \in Int /\ m <= left
    BY <1>1, <1>3
  <1>5. v.loop_flag /\ ~v.hit_loop =>
          m <= v.loop_start_sample - v.current_sample
    BY <1>1, <1>3
  <1>6. v.loop_flag /\ v.hit_loop => m <= v.loop_end_sample - v.current_sample
    BY <1>1, <1>3
  <1>7. m <= 0 /\ BeforeLoopPoint(v) => left <= 0
    <2>1. SUFFICES ASSUME m <= 0, BeforeLoopPoint(v), left > 0 PROVE FALSE
      BY <1>2
    <2>2. v.loop_flag
      BY <1>3, <2>1
    <2>3. v.current_sample < v.loop_end_sample
      BY <1>1, <2>1, <2>2 DEF BeforeLoopPoint
    <2>4. ~v.hit_loop => v.current_sample < v.loop_start_sample
      BY <2>1, <2>2 DEF BeforeLoopPoint
    <2> QED  BY <1>1, <1>2, <1>3, <2>1, <2>3, <2>4
  <1>8. PICK into \in Nat : into = v.samples_into_block % frame /\ into < frame
    BY <1>1, Division
  <1>9. n = IF frame > 1 /\ into + m > frame THEN frame - into ELSE m
    BY <1>8 DEF DecodeGetSamplesToDo
  <1>10. n <= m /\ (n <= 0 => m <= 0) /\ (frame > 1 => into + n <= frame)
    BY <1>4, <1>8, <1>9
  <1> HIDE DEF m
  <1> QED  BY <1>1, <1>2, <1>4, <1>5, <1>6, <1>7, <1>8, <1>10

\* u is v with its head n samples on, in whatever block.
PlayedOn(v, u, n) ==
    /\ u.num_samples = v.num_samples
    /\ u.loop_start_sample = v.loop_start_sample
    /\ u.loop_end_sample = v.loop_end_sample
    /\ u.loop_flag = v.loop_flag
    /\ u.frame = v.frame
    /\ u.loop_target = v.loop_target
    /\ u.loop_count = v.loop_count
    /\ u.hit_loop = v.hit_loop
    /\ u.current_sample = v.current_sample + n
    /\ u.loop_ch = v.loop_ch
    /\ u.loop_current_sample = v.loop_current_sample
    /\ u.loop_samples_into_block = v.loop_samples_into_block

\* Up to the end of the stream that is decoding without blocks too.
LEMMA FlatPlayedOn ==
    ASSUME NEW f, NEW v \in InterleavedVgm(f), NEW u \in InterleavedVgm(f),
           NEW n \in Nat, PlayedOn(v, u, n),
           NEW n1 \in Nat,
           SmallerOf(v.current_sample, v.num_samples) + n1
             = SmallerOf(v.current_sample + n, v.num_samples)
    PROVE  Flat(u) = DecodeVgmstream(Flat(v), n1)
  <1>1. PICK w, z, x :
          w = Flat(v) /\ z = Flat(u) /\ x = DecodeVgmstream(w, n1)
    OBVIOUS
  <1>2. w \in VgmRecord /\ z \in VgmRecord
    BY <1>1, FlatOf
  <1>3. PICK at \in Nat : at = SmallerOf(v.current_sample, v.num_samples)
    BY DEF InterleavedVgm, SmallerOf
  <1>4. /\ w.num_samples = v.num_samples
        /\ w.loop_start_sample = v.loop_start_sample
        /\ w.loop_end_sample = v.loop_end_sample
        /\ w.loop_flag = v.loop_flag /\ w.frame = v.frame
        /\ w.codec_data = FALSE /\ w.loop_target = v.loop_target
        /\ w.loop_count = v.loop_count /\ w.hit_loop = v.hit_loop
    BY <1>1, FlatOf
  <1>5. /\ w.current_sample = at /\ w.samples_into_block = at /\ w.ch = at
        /\ w.loop_current_sample = v.loop_current_sample
        /\ w.loop_samples_into_block = v.loop_current_sample
        /\ w.loop_ch = v.loop_current_sample
    BY <1>1, <1>3, FlatOf
  <1>6. z.num_samples = u.num_samples
        /\ z.loop_start_sample = u.loop_start_sample
        /\ z.loop_end_sample = u.loop_end_sample
        /\ z.loop_flag = u.loop_flag /\ z.frame = u.frame
        /\ z.codec_data = FALSE /\ z.loop_target = u.loop_target
        /\ z.loop_count = u.loop_count /\ z.hit_loop = u.hit_loop
    BY <1>1, FlatOf
  <1>7. /\ z.current_sample = at + n1 /\ z.samples_into_block = at + n1
        /\ z.ch = at + n1
        /\ z.loop_current_sample = u.loop_current_sample
        /\ z.loop_samples_into_block = u.loop_current_sample
        /\ z.loop_ch = u.loop_current_sample
    <2>1. SmallerOf(u.current_sample, u.num_samples) = at + n1
      BY <1>3 DEF PlayedOn
    <2>2. z.current_sample = at + n1 /\ z.samples_into_block = z.current_sample
          /\ z.ch = z.current_sample
      BY <1>1, <2>1, FlatOf
    <2>3. /\ z.loop_current_sample = u.loop_current_sample
          /\ z.loop_samples_into_block = u.loop_current_sample
          /\ z.loop_ch = u.loop_current_sample
      BY <1>1, FlatOf
    <2> QED  BY <2>2, <2>3
  <1>8. x = [w EXCEPT !.ch = at + n1, !.current_sample = at + n1,
                      !.samples_into_block = at + n1]
    BY <1>1, <1>2, <1>5 DEF DecodeVgmstream, VgmRecord
  <1>9. x \in VgmRecord
    <2>1. at + n1 \in Nat
      OBVIOUS
    <2> QED  BY <1>2, <1>8, <2>1 DEF VgmRecord
  <1>10. /\ x.num_samples = w.num_samples
         /\ x.loop_start_sample = w.loop_start_sample
         /\ x.loop_end_sample = w.loop_end_sample
         /\ x.loop_flag = w.loop_flag /\ x.frame = w.frame
         /\ x.codec_data = w.codec_data /\ x.loop_target = w.loop_target
         /\ x.loop_count = w.loop_count /\ x.hit_loop = w.hit_loop
    BY <1>2, <1>8 DEF VgmRecord
  <1>11. /\ x.current_sample = at + n1 /\ x.samples_into_block = at + n1
         /\ x.ch = at + n1
         /\ x.loop_current_sample = w.loop_current_sample
         /\ x.loop_samples_into_block = w.loop_samples_into_block
         /\ x.loop_ch = w.loop_ch
    BY <1>2, <1>8 DEF VgmRecord
  <1>12. /\ x.num_samples = z.num_samples
         /\ x.loop_start_sample = z.loop_start_sample
         /\ x.loop_end_sample = z.loop_end_sample
         /\ x.loop_flag = z.loop_flag /\ x.frame = z.frame
         /\ x.codec_data = z.codec_data /\ x.loop_target = z.loop_target
         /\ x.loop_count = z.loop_count /\ x.hit_loop = z.hit_loop
    BY <1>4, <1>6, <1>10 DEF PlayedOn
  <1>13. /\ x.current_sample = z.current_sample
         /\ x.samples_into_block = z.samples_into_block
         /\ x.ch = z.ch
         /\ x.loop_current_sample = z.loop_current_sample
         /\ x.loop_samples_into_block = z.loop_samples_into_block
         /\ x.loop_ch = z.loop_ch
    BY <1>5, <1>7, <1>11 DEF PlayedOn
  <1>14. z = x
    BY <1>2, <1>9, <1>12, <1>13, SameRecord
  <1> QED  BY <1>1, <1>14

\* Decoding n samples, some of which may be after the end of the stream: those
\* up to the end are the next ones of the unrolled stream, and after them it is
\* over.
LEMMA FlatDecode ==
    ASSUME NEW f, NEW start, Startable(Flat(start)),
           NEW v \in InterleavedVgm(f), HeadOK(Flat(start), Flat(v)),
           BeforeLoopPoint(Flat(v)), PastEnd(v) => ~v.loop_flag,
           NEW n \in Nat, n > 0,
           v.loop_flag /\ ~v.hit_loop =>
                n <= v.loop_start_sample - v.current_sample,
           v.loop_flag /\ v.hit_loop =>
                n <= v.loop_end_sample - v.current_sample,
           NEW u \in InterleavedVgm(f), PlayedOn(v, u, n)
    PROVE  /\ HeadOK(Flat(start), Flat(u))
           /\ PastEnd(u) => ~u.loop_flag
           /\ \A t \in Nat : HeadAt(Flat(start), Flat(v), t) =>
                 /\ HeadAt(Flat(start), Flat(u), t + n)
                 /\ \A j \in 0 .. n - 1 :
                      IF v.current_sample + j < v.num_samples
                      THEN IsSource(start, t + j, v.current_sample + j)
                      ELSE IsOver(start, t + j)
  <1>1. PICK w, z, s : w = Flat(v) /\ z = Flat(u) /\ s = Flat(start)
    OBVIOUS
  <1>2. /\ v.current_sample \in Nat /\ v.num_samples \in Nat
        /\ v.loop_start_sample \in Nat /\ v.loop_end_sample \in Nat
        /\ v.loop_flag \in BOOLEAN /\ v.hit_loop \in BOOLEAN
    BY DEF InterleavedVgm
  <1>3. /\ w.loop_flag = v.loop_flag /\ w.hit_loop = v.hit_loop
        /\ w.num_samples = v.num_samples
        /\ w.loop_start_sample = v.loop_start_sample
        /\ w.loop_end_sample = v.loop_end_sample
        /\ w.current_sample = SmallerOf(v.current_sample, v.num_samples)
        /\ w.ch = w.current_sample
    BY <1>1, FlatOf
  <1>4. v.loop_flag => /\ s.loop_flag
                       /\ v.loop_start_sample <= v.loop_end_sample
                       /\ v.loop_end_sample <= v.num_samples
    <2>1. HeadOK(s, w) /\ Startable(s)
      BY <1>1
    <2>2. v.loop_flag => s.loop_flag
      BY <1>3, <2>1 DEF HeadOK, HeadInLoop
    <2>3. s.loop_flag => /\ v.loop_start_sample < v.loop_end_sample
                         /\ v.loop_end_sample <= v.num_samples
      BY <1>3, <2>1, LoopIsSane
    <2> QED  BY <1>2, <2>2, <2>3
  <1>5. v.loop_flag => n <= v.num_samples - v.current_sample
    BY <1>2, <1>4
  <1>6. PICK n1 \in Nat :
          n1 = IF v.current_sample + n <= v.num_samples THEN n
               ELSE IF v.current_sample <= v.num_samples
               THEN v.num_samples - v.current_sample ELSE 0
    BY <1>2
  <1>7. /\ n1 <= n
        /\ w.current_sample + n1
             = SmallerOf(v.current_sample + n, v.num_samples)
        /\ v.loop_flag => n1 = n /\ w.current_sample = v.current_sample
    BY <1>2, <1>3, <1>5, <1>6 DEF SmallerOf
  <1>8. z = DecodeVgmstream(w, n1)
    BY <1>1, <1>3, <1>7, FlatPlayedOn
  <1>9. UpToNextLoopPoint(w, n1)
    <2>1. n1 <= w.num_samples - w.current_sample
      BY <1>2, <1>3, <1>6 DEF SmallerOf
    <2>2. w.loop_flag /\ ~w.hit_loop =>
            n1 <= w.loop_start_sample - w.current_sample
      BY <1>3, <1>7
    <2>3. w.loop_flag /\ w.hit_loop =>
            n1 <= w.loop_end_sample - w.current_sample
      BY <1>3, <1>7
    <2> QED  BY <2>1, <2>2, <2>3 DEF UpToNextLoopPoint
  <1>10. HeadOK(s, z) /\ z.loop_flag = w.loop_flag
         /\ z.current_sample = w.current_sample + n1
         /\ z.num_samples = w.num_samples
    <2>1. HeadOK(s, z) /\ z.loop_flag = w.loop_flag
          /\ z.current_sample = w.current_sample + n1
      BY <1>1, <1>8, <1>9, DecodeKeepsHead
    <2>2. z.num_samples = u.num_samples
      BY <1>1, FlatOf
    <2>3. z.num_samples = w.num_samples
      BY <1>3, <2>2 DEF PlayedOn
    <2> QED  BY <2>1, <2>3
  <1>11. PastEnd(u) => ~u.loop_flag
    BY <1>2, <1>5 DEF PastEnd, PlayedOn
  <1>12. ASSUME NEW t \in Nat, HeadAt(s, w, t)
         PROVE  /\ HeadAt(s, z, t + n)
                /\ \A j \in 0 .. n - 1 :
                      IF v.current_sample + j < v.num_samples
                      THEN IsSource(start, t + j, v.current_sample + j)
                      ELSE IsOver(start, t + j)
    <2>1. HeadAt(s, z, t + n1)
      <3>1. CASE n1 > 0
        BY <1>1, <1>8, <1>9, <1>12, <3>1, DecodeKeepsHead
      <3>2. CASE n1 = 0
        <4>1. /\ JumpsBack(s, z) = JumpsBack(s, w)
              /\ z.current_sample = w.current_sample
          <5>1. z.loop_count = u.loop_count
            BY <1>1, FlatOf
          <5>2. w.loop_count = v.loop_count
            BY <1>1, FlatOf
          <5>3. z.loop_count = w.loop_count
            BY <5>1, <5>2 DEF PlayedOn
          <5> QED  BY <1>3, <1>10, <3>2, <5>3, <1>2 DEF JumpsBack, SmallerOf
        <4> QED  BY <1>10, <1>12, <3>2, <4>1 DEF HeadAt
      <3> QED  BY <3>1, <3>2
    <2>2. n1 < n => /\ HeadAt(s, z, t + n)
                    /\ \A x \in Nat : x >= t + n1 => IsOver(start, x)
      <3>1. SUFFICES ASSUME n1 < n
                     PROVE  /\ HeadAt(s, z, t + n)
                            /\ \A x \in Nat : x >= t + n1 => IsOver(start, x)
        OBVIOUS
      <3>2. ~z.loop_flag
        BY <1>3, <1>7, <1>10, <3>1
      <3>3. z.current_sample >= z.num_samples
        BY <1>2, <1>3, <1>6, <1>7, <1>10, <3>1 DEF SmallerOf
      <3>4. t + n1 \in Nat /\ t + n \in Nat /\ t + n >= t + n1
        BY <1>7
      <3>5. \A x \in Nat : x >= t + n1 => IsOver(s, x) /\ HeadAt(s, z, x)
        BY <1>1, <1>10, <2>1, <3>2, <3>3, <3>4, StreamIsOver
      <3>6. HeadAt(s, z, t + n)
        BY <3>4, <3>5
      <3>7. \A x : IsOver(s, x) = IsOver(start, x)
        BY <1>1, FlatTimeline
      <3> QED  BY <3>5, <3>6, <3>7
    <2>3. HeadAt(s, z, t + n)
      BY <1>7, <2>1, <2>2
    <2>4. ASSUME NEW j \in 0 .. n - 1
          PROVE  IF v.current_sample + j < v.num_samples
                 THEN IsSource(start, t + j, v.current_sample + j)
                 ELSE IsOver(start, t + j)
      <3>1. CASE v.current_sample + j < v.num_samples
        <4>1. j \in 0 .. n1 - 1 /\ w.ch = v.current_sample
          BY <1>2, <1>3, <1>6, <2>4, <3>1 DEF SmallerOf
        <4>2. IsSource(s, t + j, w.ch + j)
          BY <1>1, <1>9, <1>12, <4>1, DecodedIsSource
        <4>3. \A x, y : IsSource(s, x, y) = IsSource(start, x, y)
          BY <1>1, FlatTimeline
        <4> QED  BY <3>1, <4>1, <4>2, <4>3
      <3>2. CASE ~(v.current_sample + j < v.num_samples)
        <4>1. n1 < n /\ t + j \in Nat /\ t + j >= t + n1
          BY <1>2, <1>6, <2>4, <3>2
        <4> QED  BY <2>2, <3>2, <4>1
      <3> QED  BY <3>1, <3>2
    <2> QED  BY <2>3, <2>4
  <1> QED  BY <1>1, <1>10, <1>11, <1>12

-----------------------------------------------------------------------------
(* What an iteration reads *)

\* The values of a call are those of a kind of block.
LEMMA KindsOfBlock ==
    ASSUME NEW f \in InterleavedFile, SoundFile(f), NEW v \in InterleavedVgm(f),
           NEW values, ValuesFine(f, v, values)
    PROVE  /\ values.samples_this_block \in Nat
           /\ values.samples_per_frame \in Nat
           /\ values.samples_per_frame > 0
           /\ v.current_sample < FirstLen(f) =>
                /\ HasFirst(f)
                /\ values.samples_this_block = FirstLen(f)
                /\ values.samples_per_frame = f.frame
           /\ v.current_sample >= FirstLen(f) =>
                \/ /\ values = DefaultValues(f)
                   /\ values.samples_this_block = BlockLen(f)
                   /\ values.samples_per_frame = f.frame
                \/ /\ HasLast(f)
                   /\ v.current_sample >= FirstLen(f) + f.rows * BlockLen(f)
                   /\ values = LastValues(f)
                   /\ values.samples_this_block = LastSamples(f)
                   /\ values.samples_per_frame = f.shortframe
  <1>1. /\ f.frame \in Nat /\ f.frame > 0 /\ FirstLen(f) \in Nat
        /\ f.shortframe \in Nat /\ f.shortframe > 0
        /\ BlockLen(f) \in Nat /\ LastSamples(f) \in Nat
        /\ v.current_sample \in Nat
    <2>1. f.shortframe \in Nat /\ f.shortframe > 0
      BY DEF InterleavedFile
    <2>2. v.current_sample \in Nat
      BY DEF InterleavedVgm
    <2> QED  BY <2>1, <2>2, FileNumbers
  <1>2. CASE v.current_sample < FirstLen(f)
    <2>1. HasFirst(f)
      BY <1>1, <1>2 DEF FirstLen
    <2>2. values = FirstValues(f)
      BY <1>2 DEF ValuesFine
    <2> QED  BY <1>1, <1>2, <2>1, <2>2, BlockValues
  <1>3. CASE ~(v.current_sample < FirstLen(f))
    <2>1. CASE values = DefaultValues(f)
      BY <1>1, <1>3, <2>1, BlockValues
    <2>2. CASE values # DefaultValues(f)
      <3>1. /\ HasLast(f)
            /\ v.current_sample >= FirstLen(f) + f.rows * BlockLen(f)
            /\ values = LastValues(f)
        BY <1>3, <2>2 DEF ValuesFine
      <3> QED  BY <1>1, <1>3, <3>1, BlockValues
    <2> QED  BY <2>1, <2>2
  <1> QED  BY <1>2, <1>3

\* A call up to the end of the block does not leave the row that the head is in.
LEMMA StaysInRow ==
    ASSUME NEW f \in InterleavedFile, SoundFile(f), NEW v \in InterleavedVgm(f),
           NEW values, ValuesFine(f, v, values),
           NEW row \in Nat,
           InRow(f, v.current_sample, v.samples_into_block, v.ch, row),
           NEW k \in Nat, v.samples_into_block + k < values.samples_this_block,
           v.current_sample + k < f.num_samples
    PROVE  v.samples_into_block + k < BlockLen(f)
  <1>1. PICK b \in Nat, first \in Nat, whole \in Nat, num \in Nat :
          /\ b = BlockLen(f) /\ first = FirstLen(f)
          /\ whole = f.rows * BlockLen(f) /\ num = f.num_samples
    BY FileNumbers
  <1>2. PICK at \in Nat, into \in Nat, m \in Nat :
          /\ at = v.current_sample /\ into = v.samples_into_block
          /\ m = row * b
    BY DEF InterleavedVgm
  <1>3. at = first + m + into /\ into < b
    BY <1>1, <1>2 DEF InRow
  <1>4. CASE values.samples_this_block = BlockLen(f)
    BY <1>1, <1>2, <1>4
  <1>5. CASE HasLast(f) /\ at >= first + whole
    <2>1. at < num
      BY <1>1, <1>2
    <2>2. row = f.rows
      <3>1. at = FirstLen(f) + row * BlockLen(f) + into
        BY <1>1, <1>2, <1>3
      <3> QED  BY <1>1, <1>2, <1>3, <1>5, <2>1, <3>1, RowsOfSamples
    <2>3. m = whole
      BY <1>1, <1>2, <2>2
    <2>4. num < first + whole + b
      BY <1>1, <1>5 DEF SoundFile
    <2> QED  BY <1>1, <1>2, <1>3, <2>3, <2>4
  <1>6. at >= first
    BY <1>3
  <1>7. \/ values.samples_this_block = BlockLen(f)
        \/ HasLast(f) /\ at >= first + whole
    BY <1>1, <1>2, <1>6, KindsOfBlock
  <1> QED  BY <1>4, <1>5, <1>7

\* A call does not leave the frame it starts in, in last blocks with a frame of
\* their own neither.
LEMMA StaysInFrame ==
    ASSUME NEW f \in InterleavedFile, SoundFile(f), NEW v \in InterleavedVgm(f),
           NEW values, ValuesFine(f, v, values), f.frame > 1,
           NEW n \in Nat, n > 0,
           n <= values.samples_this_block - v.samples_into_block,
           values.samples_per_frame > 1 =>
              (v.samples_into_block % values.samples_per_frame) + n
                <= values.samples_per_frame
    PROVE  (v.samples_into_block % f.frame) + n <= f.frame
  <1>1. CASE values.samples_per_frame = f.frame
    BY <1>1
  <1>2. CASE values.samples_per_frame # f.frame
    <2>1. PICK into \in Nat, frame \in Nat :
            into = v.samples_into_block /\ frame = f.frame /\ frame > 1
      BY FileNumbers DEF InterleavedVgm
    <2>2. PICK last \in Nat : last = LastSamples(f)
      BY FileNumbers
    <2>3. FirstLen(f) \in Nat /\ v.current_sample \in Nat
      BY FileNumbers DEF InterleavedVgm
    <2>4. /\ HasLast(f) /\ f.shortframe # f.frame
          /\ values.samples_this_block = LastSamples(f)
      BY <1>2, <2>3, KindsOfBlock
    <2>5. last <= frame
      BY <2>1, <2>2, <2>4 DEF SoundFile
    <2>6. into + n <= last
      BY <2>1, <2>2, <2>4
    <2>7. into < frame
      BY <2>5, <2>6
    <2>8. into % frame = into
      BY <2>1, <2>7
    <2> QED  BY <2>1, <2>5, <2>6, <2>8
  <1> QED  BY <1>1, <1>2

\* A head in its place is in the first block or in some row.
LEMMA PlaceRow ==
    ASSUME NEW f \in InterleavedFile, NEW s \in Nat, s >= FirstLen(f),
           NEW into, NEW ch, InPlace(f, s, into, ch)
    PROVE  \E row \in Nat : InRow(f, s, into, ch, row)
  <1>1. FirstLen(f) \in Nat
    BY FileNumbers
  <1>2. ~(s < FirstLen(f))
    BY <1>1
  <1>3. \E row \in 0 .. s : InRow(f, s, into, ch, row)
    BY <1>2 DEF InPlace
  <1> QED  BY <1>3

\* The j-th sample of a call is read from the frame of the block, and the place
\* in that frame, where the file has it.
LEMMA ReadsPlace ==
    ASSUME NEW f \in InterleavedFile, SoundFile(f), NEW v \in InterleavedVgm(f),
           NEW values, ValuesFine(f, v, values),
           InPlace(f, v.current_sample, v.samples_into_block, v.ch),
           NEW j \in Nat, v.samples_into_block + j < values.samples_this_block,
           v.current_sample + j < f.num_samples,
           f.frame > 1 => (v.samples_into_block % f.frame) + j < f.frame,
           NEW c \in Channels(f)
    PROVE  ReadAt(f, v, j)[c] = PlaceOf(f, c, v.current_sample + j)
  <1>1. PICK at \in Nat, into \in Nat, first \in Nat, b \in Nat, frame \in Nat,
             ch \in [Channels(f) -> Int] :
          /\ at = v.current_sample /\ into = v.samples_into_block
          /\ first = FirstLen(f) /\ b = BlockLen(f) /\ frame = f.frame
          /\ frame > 0 /\ ch = v.ch
    BY FileNumbers DEF InterleavedVgm
  <1>2. ReadAt(f, v, j)[c]
          = <<ch[c] + FrameOf(f, v, j) * f.frame_size, (into + j) % frame>>
    BY <1>1 DEF ReadAt
  <1>3. CASE at < first
    <2>1. HasFirst(f) /\ values.samples_this_block = first
      BY <1>1, <1>3, KindsOfBlock
    <2>2. ~f.codec_internal_updates
      BY <2>1 DEF SoundFile
    <2>3. into = at /\ ch[c] = FirstBlock(f, c)
      BY <1>1, <1>3 DEF InPlace
    <2>4. at + j < first
      BY <1>1, <2>1, <2>3
    <2>5. PlaceOf(f, c, at + j) = InBlock(f, FirstBlock(f, c), at + j)
      BY <1>1, <2>4 DEF PlaceOf
    <2>6. FrameOf(f, v, j) = (at + j) \div frame
      BY <1>1, <2>2, <2>3 DEF FrameOf
    <2> QED  BY <1>1, <1>2, <2>3, <2>5, <2>6 DEF InBlock
  <1>4. CASE ~(at < first)
    <2>1. PICK row \in Nat : InRow(f, at, into, ch, row)
      BY <1>1, <1>4, PlaceRow
    <2>2. PICK k \in Nat : k = into + j
      BY <1>1
    <2>3. k < b
      BY <1>1, <2>1, <2>2, StaysInRow
    <2>4. at = first + row * b + into
      BY <1>1, <2>1 DEF InRow
    <2>5. ch[c] = BlockOf(f, row, c) + Moved(f, into)
      BY <2>1 DEF InRow
    <2>6. PICK m \in Nat : m = row * b
      BY <1>1
    <2>7. at + j - first = row * b + k /\ ~(at + j < first)
      BY <1>1, <1>4, <2>2, <2>4, <2>6
    <2>8. (row * b + k) \div b = row /\ (row * b + k) % b = k
      BY <2>3, RowOfPlace
    <2>9. PlaceOf(f, c, at + j) = InBlock(f, BlockOf(f, row, c), k)
      BY <1>1, <2>7, <2>8 DEF PlaceOf
    <2>10. PICK size \in Nat : size = f.frame_size
      BY FileNumbers
    <2>11. ch[c] + FrameOf(f, v, j) * size
             = BlockOf(f, row, c) + (k \div frame) * size
      <3>1. PICK start \in Int : start = BlockOf(f, row, c)
        BY OffsetNumbers
      <3>2. CASE f.codec_internal_updates
        <4>1. f.frame > 1
          BY <3>2 DEF SoundFile
        <4>2. k \div frame = into \div frame
          <5>1. (into % frame) + j < frame
            BY <1>1, <4>1
          <5>2. (into + j) \div frame = into \div frame
            <6>1. frame > 0
              BY <1>1
            <6> QED  BY <5>1, <6>1, InOneFrame, Zenon
          <5> QED  BY <2>2, <5>2
        <4>3. PICK q \in Nat : q = into \div frame
          BY <1>1, Division
        <4>4. PICK x \in Nat : x = q * size
          OBVIOUS
        <4>5. ch[c] = start + x /\ FrameOf(f, v, j) = 0
          BY <1>1, <2>5, <2>10, <3>1, <3>2, <4>3, <4>4 DEF Moved, FrameOf
        <4>6. FrameOf(f, v, j) * size = 0
          BY <4>5
        <4>7. (k \div frame) * size = x
          BY <4>2, <4>3, <4>4
        <4> QED  BY <3>1, <4>4, <4>5, <4>6, <4>7
      <3>3. CASE ~f.codec_internal_updates
        <4>1. ch[c] = start + 0 /\ FrameOf(f, v, j) = k \div frame
          BY <1>1, <2>2, <2>5, <3>1, <3>3 DEF Moved, FrameOf
        <4>2. ch[c] = start
          BY <4>1
        <4> QED  BY <3>1, <4>1, <4>2
      <3> QED  BY <3>2, <3>3
    <2> QED  BY <1>1, <1>2, <2>2, <2>9, <2>10, <2>11 DEF InBlock
  <1> QED  BY <1>3, <1>4

-----------------------------------------------------------------------------
(* Where the next block is *)

\* From the first blocks to the first row.
LEMMA AfterFirstBlock ==
    ASSUME NEW f \in InterleavedFile, HasFirst(f), NEW c \in Channels(f)
    PROVE  FirstBlock(f, c) + SkipFirst(f)[c] = BlockOf(f, 0, c)
  <1>1. PICK start \in Nat, skip \in Nat, first \in Nat, block \in Nat,
             channels \in Nat :
          /\ start = f.start_offset /\ skip = f.interleave_first_skip
          /\ first = f.interleave_first_block_size
          /\ block = f.interleave_block_size /\ channels = f.channels
    BY FileNumbers
  <1>2. c \in Nat /\ c < channels
    BY <1>1 DEF Channels
  <1>3. SkipFirst(f)[c]
          = skip * (channels - 1 - c) + first * (channels - c) + block * c
    BY <1>1 DEF SkipFirst
  <1>4. PICK x \in Nat, y \in Nat, z \in Nat, w \in Nat, u \in Nat :
          /\ x = c * skip /\ y = c * first /\ z = c * block
          /\ w = skip * channels /\ u = first * channels
    BY <1>2
  <1>5. skip * (channels - 1 - c) = w - skip - x
    BY <1>2, <1>4
  <1>6. first * (channels - c) = u - y
    BY <1>2, <1>4
  <1>7. block * c = z
    BY <1>2, <1>4
  <1>8. FirstBlock(f, c) = start + (x + y)
    <2>1. c * (skip + first) = c * skip + c * first
      BY <1>2
    <2> QED  BY <1>1, <1>4, <2>1 DEF FirstBlock
  <1>9. FirstRowSize(f) = w + u
    <2>1. (skip + first) * channels = skip * channels + first * channels
      OBVIOUS
    <2> QED  BY <1>1, <1>4, <2>1 DEF FirstRowSize
  <1>10. BlockOf(f, 0, c) = start - skip + (w + u) + z
    <2>1. 0 # f.rows
      BY FileNumbers
    <2>2. 0 * block * channels = 0
      OBVIOUS
    <2>3. RowStart(f, 0) = start - skip + (w + u)
      BY <1>1, <1>4, <1>9, <2>2 DEF RowStart, FileStart
    <2>4. BlockOf(f, 0, c) = RowStart(f, 0) + c * block
      BY <1>1, <2>1 DEF BlockOf
    <2> QED  BY <1>4, <2>3, <2>4
  <1> QED  BY <1>3, <1>4, <1>5, <1>6, <1>7, <1>8, <1>10

\* From one row to the next.
LEMMA AfterRow ==
    ASSUME NEW f \in InterleavedFile, NEW c \in Channels(f), NEW row \in Nat,
           ~(HasLast(f) /\ row = f.rows), ~(HasLast(f) /\ row + 1 = f.rows)
    PROVE  BlockOf(f, row + 1, c)
             = BlockOf(f, row, c) + f.interleave_block_size * f.channels
  <1>1. PICK x \in Int : x = c * f.interleave_block_size
    BY FileNumbers, OffsetNumbers
  <1>2. /\ BlockOf(f, row, c) = RowStart(f, row) + x
        /\ BlockOf(f, row + 1, c) = RowStart(f, row + 1) + x
    BY <1>1 DEF BlockOf
  <1>3. PICK size \in Nat : size = f.interleave_block_size * f.channels
    BY FileNumbers
  <1>4. /\ RowStart(f, row) \in Int
        /\ RowStart(f, row + 1) = RowStart(f, row) + size
    BY <1>3, RowAfter
  <1> QED  BY <1>2, <1>3, <1>4

\* From the row before them to the last blocks.
LEMMA AfterLastRow ==
    ASSUME NEW f \in InterleavedFile, NEW c \in Channels(f), NEW row \in Nat,
           HasLast(f), row + 1 = f.rows
    PROVE  BlockOf(f, row + 1, c) = BlockOf(f, row, c) + SkipToLast(f)[c]
  <1>1. PICK block \in Nat, last \in Nat, channels \in Nat :
          /\ block = f.interleave_block_size /\ channels = f.channels
          /\ last = f.interleave_last_block_size
    BY FileNumbers
  <1>2. c \in Nat /\ c < channels
    BY <1>1 DEF Channels
  <1>3. SkipToLast(f)[c] = block * (channels - c) + last * c
    BY <1>1 DEF SkipToLast
  <1>4. PICK x \in Nat, y \in Nat, z \in Nat :
          x = c * block /\ y = c * last /\ z = block * channels
    BY <1>2
  <1>5. block * (channels - c) = z - x /\ last * c = y
    BY <1>2, <1>4
  <1>6. row # f.rows
    BY FileNumbers
  <1>7. /\ BlockOf(f, row, c) = RowStart(f, row) + x
        /\ BlockOf(f, row + 1, c) = RowStart(f, row + 1) + y
    BY <1>1, <1>4, <1>6 DEF BlockOf
  <1>8. /\ RowStart(f, row) \in Int
        /\ RowStart(f, row + 1) = RowStart(f, row) + z
    BY <1>1, <1>4, RowAfter
  <1> QED  BY <1>3, <1>4, <1>5, <1>7, <1>8

-----------------------------------------------------------------------------
(* The head after an iteration is in the place of its sample *)

\* How far codecs that move the offset themselves are moved by one call.
FrameMoves(f, into, n) ==
    IF f.codec_internal_updates /\ (into % f.frame) + n = f.frame
    THEN f.frame_size ELSE 0

\* At the start of a block they were not moved.
LEMMA NotMoved ==
    ASSUME NEW f \in InterleavedFile
    PROVE  Moved(f, 0) = 0
  <1>1. PICK frame \in Nat, size \in Nat :
          frame = f.frame /\ size = f.frame_size /\ frame > 0
    BY FileNumbers
  <1>2. 0 < frame
    BY <1>1
  <1>3. (0 * frame + 0) \div frame = 0
    BY <1>2, RowOfPlace
  <1>4. 0 * frame + 0 = 0 /\ 0 * size = 0
    OBVIOUS
  <1>5. (0 \div frame) * size = 0
    BY <1>3, <1>4
  <1> QED  BY <1>1, <1>5 DEF Moved

\* They move it a frame at the end of each frame.
LEMMA MovedOn ==
    ASSUME NEW f \in InterleavedFile, NEW into \in Nat, NEW n \in Nat, n > 0,
           f.codec_internal_updates => (into % f.frame) + n <= f.frame
    PROVE  Moved(f, into + n) = Moved(f, into) + FrameMoves(f, into, n)
  <1>1. CASE ~f.codec_internal_updates
    BY <1>1 DEF Moved, FrameMoves
  <1>2. CASE f.codec_internal_updates
    <2>1. PICK frame \in Nat, size \in Nat :
            frame = f.frame /\ size = f.frame_size /\ frame > 0
      BY FileNumbers
    <2>2. PICK q \in Nat, r \in Nat :
            q = into \div frame /\ r = into % frame /\ r < frame
      BY <2>1, Division
    <2>3. PICK x \in Nat : x = q * size
      OBVIOUS
    <2>4. Moved(f, into) = x
      BY <1>2, <2>1, <2>2, <2>3 DEF Moved
    <2>5. CASE r + n = frame
      <3>1. (into + n) \div frame = q + 1
        <4>1. (into % frame) + n = frame
          BY <2>2, <2>5
        <4>2. frame > 0
          BY <2>1
        <4>3. (into + n) \div frame = (into \div frame) + 1
          BY <4>1, <4>2, FrameDone, Zenon
        <4> QED  BY <2>2, <4>3
      <3>2. (q + 1) * size = x + size
        BY <2>3
      <3>3. Moved(f, into + n) = x + size
        BY <1>2, <2>1, <3>1, <3>2 DEF Moved
      <3>4. FrameMoves(f, into, n) = size
        BY <1>2, <2>1, <2>2, <2>5 DEF FrameMoves
      <3> QED  BY <2>4, <3>3, <3>4
    <2>6. CASE r + n # frame
      <3>1. (into % frame) + n < frame
        BY <1>2, <2>1, <2>2, <2>6
      <3>2. (into + n) \div frame = into \div frame
        BY <2>1, <3>1, InOneFrame
      <3>3. Moved(f, into + n) = x
        BY <1>2, <2>1, <2>2, <2>3, <3>2 DEF Moved
      <3>4. FrameMoves(f, into, n) = 0
        BY <2>1, <2>2, <2>6 DEF FrameMoves
      <3> QED  BY <2>3, <2>4, <3>3, <3>4
    <2> QED  BY <2>5, <2>6
  <1> QED  BY <1>1, <1>2

\* ... which makes a block in the end.
LEMMA BlockMoved ==
    ASSUME NEW f \in InterleavedFile, SoundFile(f), f.codec_internal_updates
    PROVE  Moved(f, DefaultSamples(f)) = f.interleave_block_size
  <1>1. PICK frame \in Nat, size \in Nat, block \in Nat :
          /\ frame = f.frame /\ size = f.frame_size /\ frame > 0 /\ size > 0
          /\ block = f.interleave_block_size
    BY FileNumbers
  <1>2. block % size = 0
    BY <1>1 DEF SoundFile
  <1>3. PICK q \in Nat, r \in Nat : /\ q = block \div size /\ r = block % size
                                    /\ block = q * size + r /\ r < size
    <2>1. size > 0
      BY <1>1
    <2> QED  BY <2>1, Division
  <1>4. PICK x \in Nat : x = q * size
    OBVIOUS
  <1>5. block = x
    <2>1. r = 0
      BY <1>2, <1>3
    <2>2. block = x + r
      BY <1>3, <1>4
    <2> QED  BY <2>1, <2>2
  <1>6. DefaultSamples(f) = q * frame
    BY <1>1, <1>3 DEF DefaultSamples
  <1>7. (q * frame + 0) \div frame = q
    BY <1>1, RowOfPlace
  <1>8. q * frame + 0 = q * frame
    OBVIOUS
  <1>9. (q * frame) \div frame = q
    BY <1>7, <1>8
  <1> QED  BY <1>1, <1>4, <1>5, <1>6, <1>9 DEF Moved

\* What the codec does to the head.
LEMMA DecodedOn ==
    ASSUME NEW f \in InterleavedFile, NEW v \in InterleavedVgm(f),
           NEW n \in Nat, n > 0, NEW d, d = DecodeBlock(f, v, n)
    PROVE  /\ d \in InterleavedVgm(f)
           /\ PlayedOn(v, d, n)
           /\ d.samples_into_block = v.samples_into_block + n
           /\ \A c \in Channels(f) :
                d.ch[c] = v.ch[c] + FrameMoves(f, v.samples_into_block, n)
  <1>1. PICK size \in Nat : size = f.frame_size
    BY FileNumbers
  <1>2. PICK ch : ch = IF /\ f.codec_internal_updates
                          /\ (v.samples_into_block % f.frame) + n = f.frame
                       THEN [c \in DOMAIN v.ch |-> v.ch[c] + size] ELSE v.ch
    OBVIOUS
  <1>3. v.ch \in [Channels(f) -> Int]
    BY DEF InterleavedVgm
  <1>4. ch \in [Channels(f) -> Int]
    BY <1>2, <1>3
  <1>5. \A c \in Channels(f) :
          ch[c] = v.ch[c] + FrameMoves(f, v.samples_into_block, n)
    BY <1>1, <1>2, <1>3 DEF FrameMoves
  <1>6. d = [v EXCEPT !.ch = ch, !.current_sample = v.current_sample + n,
                      !.samples_into_block = v.samples_into_block + n]
    BY <1>1, <1>2 DEF DecodeBlock
  <1>7. v.current_sample + n \in Nat /\ v.samples_into_block + n \in Nat
    BY DEF InterleavedVgm
  <1>8. d \in InterleavedVgm(f)
    BY <1>4, <1>6, <1>7 DEF InterleavedVgm
  <1>9. /\ PlayedOn(v, d, n) /\ d.ch = ch
        /\ d.samples_into_block = v.samples_into_block + n
    BY <1>6 DEF InterleavedVgm, PlayedOn
  <1> QED  BY <1>5, <1>8, <1>9

\* What the end of a block does to it.
LEMMA OffsetsUpdated ==
    ASSUME NEW f \in InterleavedFile, NEW d \in InterleavedVgm(f), NEW values,
           NEW u, u = UpdateOffsets(f, d, values)
    PROVE  /\ u \in InterleavedVgm(f)
           /\ PlayedOn(d, u, 0)
           /\ u.samples_into_block = 0
           /\ \A c \in Channels(f) :
                u.ch[c] = d.ch[c] + (IF FirstDone(f, d) THEN SkipFirst(f)
                                     ELSE IF LastIsNext(f, d, values)
                                     THEN SkipToLast(f)
                                     ELSE SkipBlock(f))[c]
  <1>1. PICK skip : skip = IF FirstDone(f, d) THEN SkipFirst(f)
                           ELSE IF LastIsNext(f, d, values) THEN SkipToLast(f)
                           ELSE SkipBlock(f)
    OBVIOUS
  <1>2. ASSUME NEW c \in Channels(f)
        PROVE  skip[c] \in Int
    <2>1. c \in Int /\ f.channels \in Int /\ f.interleave_block_size \in Int
          /\ f.interleave_first_skip \in Int
          /\ f.interleave_first_block_size \in Int
          /\ f.interleave_last_block_size \in Int
      BY FileNumbers, OffsetNumbers
    <2>2. \A a, b \in Int : a * b \in Int
      OBVIOUS
    <2>3. SkipFirst(f)[c] \in Int
      BY <2>1, <2>2 DEF SkipFirst
    <2>4. SkipToLast(f)[c] \in Int
      BY <2>1, <2>2 DEF SkipToLast
    <2>5. SkipBlock(f)[c] \in Int
      BY <2>1, <2>2 DEF SkipBlock
    <2> QED  BY <1>1, <2>3, <2>4, <2>5
  <1>3. d.ch \in [Channels(f) -> Int]
    BY DEF InterleavedVgm
  <1>4. PICK ch : ch = [c \in DOMAIN d.ch |-> d.ch[c] + skip[c]]
    OBVIOUS
  <1>5. \A c \in Channels(f) : ch[c] = d.ch[c] + skip[c]
    BY <1>3, <1>4
  <1>9. ch \in [Channels(f) -> Int]
    BY <1>2, <1>3, <1>4
  <1>6. u = [d EXCEPT !.ch = ch, !.samples_into_block = 0]
    BY <1>1, <1>4 DEF UpdateOffsets, Skipped
  <1>7. u \in InterleavedVgm(f)
    <2>1. PICK zero \in Nat : zero = 0
      OBVIOUS
    <2>2. u = [d EXCEPT !.ch = ch, !.samples_into_block = zero]
      BY <1>6, <2>1
    <2> QED  BY <1>9, <2>2 DEF InterleavedVgm
  <1>8. u.ch = ch /\ u.samples_into_block = 0 /\ PlayedOn(d, u, 0)
    BY <1>6 DEF InterleavedVgm, PlayedOn
  <1> QED  BY <1>1, <1>5, <1>7, <1>8

\* What is known of a call of n samples, which starts in its place.
Decodes(f, v, values, n) ==
    /\ v \in InterleavedVgm(f)
    /\ ValuesFine(f, v, values)
    /\ n \in Nat /\ n > 0
    /\ n <= values.samples_this_block - v.samples_into_block
    /\ f.frame > 1 => (v.samples_into_block % f.frame) + n <= f.frame

\* Where the head is after it.
After(f, v, values, n) ==
    LET d == DecodeBlock(f, v, n)
    IN  IF d.samples_into_block = values.samples_this_block
        THEN UpdateOffsets(f, d, values) ELSE d

ValuesThen(f, v, values, n) ==
    LET d == DecodeBlock(f, v, n)
    IN  IF d.samples_into_block = values.samples_this_block
        THEN ValuesAfterBlock(f, d, values) ELSE values

\* In the first blocks or after them.
LEMMA FirstBlockPlace ==
    ASSUME NEW f \in InterleavedFile, SoundFile(f), NEW v, NEW values, NEW n,
           Decodes(f, v, values, n), v.current_sample < FirstLen(f),
           InPlace(f, v.current_sample, v.samples_into_block, v.ch),
           NEW u, u = After(f, v, values, n)
    PROVE  InPlace(f, u.current_sample, u.samples_into_block, u.ch)
  <1> DEFINE d == DecodeBlock(f, v, n)
  <1>1. /\ v \in InterleavedVgm(f) /\ n \in Nat /\ n > 0
        /\ n <= values.samples_this_block - v.samples_into_block
    BY DEF Decodes
  <1>2. /\ d \in InterleavedVgm(f) /\ PlayedOn(v, d, n)
        /\ d.samples_into_block = v.samples_into_block + n
        /\ \A c \in Channels(f) :
             d.ch[c] = v.ch[c] + FrameMoves(f, v.samples_into_block, n)
    BY <1>1, DecodedOn
  <1>3. HasFirst(f) /\ values.samples_this_block = FirstLen(f)
    BY <1>1, KindsOfBlock DEF Decodes
  <1>4. ~f.codec_internal_updates /\ FirstLen(f) = FirstSamples(f)
        /\ FirstLen(f) \in Nat /\ BlockLen(f) > 0 /\ BlockLen(f) \in Nat
    BY <1>3, FileNumbers DEF SoundFile, FirstLen
  <1>5. /\ v.samples_into_block = v.current_sample
        /\ \A c \in Channels(f) : v.ch[c] = FirstBlock(f, c)
    BY DEF InPlace
  <1>6. v.current_sample \in Nat /\ d.current_sample = v.current_sample + n
        /\ d.samples_into_block = d.current_sample
    BY <1>1, <1>2, <1>5 DEF PlayedOn, InterleavedVgm
  <1>7. ASSUME NEW c \in Channels(f)
        PROVE  d.ch[c] = FirstBlock(f, c)
    <2>1. FirstBlock(f, c) \in Int
      BY OffsetNumbers, FileNumbers
    <2>2. FrameMoves(f, v.samples_into_block, n) = 0
      BY <1>4 DEF FrameMoves
    <2> QED  BY <1>2, <1>5, <2>1, <2>2
  <1> HIDE DEF d
  <1>8. CASE d.samples_into_block = values.samples_this_block
    <2>1. u = UpdateOffsets(f, d, values)
      BY <1>8 DEF After, d
    <2>2. FirstDone(f, d)
      BY <1>3, <1>4, <1>6, <1>8 DEF FirstDone
    <2>3. /\ u.samples_into_block = 0
          /\ u.current_sample = FirstLen(f)
          /\ \A c \in Channels(f) : u.ch[c] = d.ch[c] + SkipFirst(f)[c]
      <3>1. /\ PlayedOn(d, u, 0) /\ u.samples_into_block = 0
            /\ \A c \in Channels(f) : u.ch[c] = d.ch[c] + SkipFirst(f)[c]
        BY <1>2, <2>1, <2>2, OffsetsUpdated
      <3>2. u.current_sample = d.current_sample + 0
        BY <3>1 DEF PlayedOn
      <3> QED  BY <1>3, <1>4, <1>6, <1>8, <3>1, <3>2
    <2>4. ASSUME NEW c \in Channels(f)
          PROVE  u.ch[c] = BlockOf(f, 0, c) + Moved(f, 0)
      <3>1. Moved(f, 0) = 0
        BY <1>4 DEF Moved
      <3>2. BlockOf(f, 0, c) \in Int
        BY OffsetNumbers
      <3>3. u.ch[c] = BlockOf(f, 0, c)
        BY <1>3, <1>7, <2>3, AfterFirstBlock
      <3> QED  BY <3>1, <3>2, <3>3
    <2>5. 0 * BlockLen(f) = 0
      BY <1>4
    <2>6. InRow(f, u.current_sample, u.samples_into_block, u.ch, 0)
      BY <1>4, <2>3, <2>4, <2>5 DEF InRow
    <2>7. 0 \in 0 .. u.current_sample /\ ~(u.current_sample < FirstLen(f))
      BY <1>4, <2>3
    <2> QED  BY <2>6, <2>7 DEF InPlace
  <1>9. CASE d.samples_into_block # values.samples_this_block
    <2>1. u = d
      BY <1>9 DEF After, d
    <2>2. d.current_sample < FirstLen(f)
      BY <1>1, <1>2, <1>3, <1>4, <1>5, <1>6, <1>9
    <2> QED  BY <1>6, <1>7, <2>1, <2>2 DEF InPlace
  <1> QED  BY <1>8, <1>9

\* A last block holds all that is left, so no sample is after it.
LEMMA RowDone ==
    ASSUME NEW f \in InterleavedFile, SoundFile(f), NEW v, NEW values, NEW n,
           Decodes(f, v, values, n), v.current_sample >= FirstLen(f),
           v.samples_into_block + n = values.samples_this_block,
           v.current_sample + n < f.num_samples,
           NEW row \in Nat,
           InRow(f, v.current_sample, v.samples_into_block, v.ch, row)
    PROVE  /\ values = DefaultValues(f)
           /\ values.samples_this_block = BlockLen(f)
           /\ v.current_sample + n = FirstLen(f) + (row + 1) * BlockLen(f)
  <1>1. PICK b \in Nat, first \in Nat, whole \in Nat, num \in Nat, last \in Nat :
          /\ b = BlockLen(f) /\ first = FirstLen(f)
          /\ whole = f.rows * BlockLen(f) /\ num = f.num_samples
          /\ last = LastSamples(f)
    BY FileNumbers
  <1>2. v \in InterleavedVgm(f) /\ n \in Nat /\ n > 0
    BY DEF Decodes
  <1>3. PICK at \in Nat, into \in Nat, m \in Nat :
          /\ at = v.current_sample /\ into = v.samples_into_block
          /\ m = row * b
    BY <1>1, <1>2 DEF InterleavedVgm
  <1>4. at = first + m + into /\ into < b
    BY <1>1, <1>3 DEF InRow
  <1>5. \/ /\ values = DefaultValues(f)
           /\ values.samples_this_block = BlockLen(f)
        \/ /\ HasLast(f)
           /\ at >= first + whole
           /\ values.samples_this_block = LastSamples(f)
    BY <1>1, <1>2, <1>3, KindsOfBlock DEF Decodes
  <1>6. ASSUME HasLast(f), at >= first + whole,
               values.samples_this_block = LastSamples(f)
        PROVE  FALSE
    <2>1. at < num
      BY <1>1, <1>2, <1>3
    <2>2. at = FirstLen(f) + row * BlockLen(f) + into
      BY <1>1, <1>3, <1>4
    <2>3. row = f.rows
      BY <1>1, <1>3, <1>4, <1>6, <2>1, <2>2, RowsOfSamples
    <2>4. m = whole
      BY <1>1, <1>3, <2>3
    <2>5. into + n = last
      BY <1>1, <1>3, <1>6
    <2>6. num <= first + whole + last
      BY <1>1, <1>6 DEF SoundFile
    <2> QED  BY <1>1, <1>2, <1>3, <1>4, <2>4, <2>5, <2>6
  <1>7. values = DefaultValues(f) /\ values.samples_this_block = BlockLen(f)
    BY <1>5, <1>6
  <1>8. (row + 1) * b = m + b
    BY <1>3, OneMoreBody
  <1>9. into + n = b
    BY <1>1, <1>3, <1>7
  <1>10. at + n = first + (m + b)
    BY <1>2, <1>4, <1>9
  <1> QED  BY <1>1, <1>3, <1>7, <1>8, <1>10

\* The last blocks come next when the row that was done is the last whole one.
LEMMA LastComesNext ==
    ASSUME NEW f \in InterleavedFile, SoundFile(f), NEW d, NEW values,
           values.samples_this_block = BlockLen(f), NEW row \in Nat,
           d.current_sample = FirstLen(f) + (row + 1) * BlockLen(f),
           d.num_samples = f.num_samples, d.current_sample < f.num_samples,
           BlockLen(f) > 0
    PROVE  /\ ~FirstDone(f, d)
           /\ LastIsNext(f, d, values) = (HasLast(f) /\ row + 1 = f.rows)
           /\ HasLast(f) => row + 1 <= f.rows
  <1>1. PICK b \in Nat, first \in Nat, whole \in Nat, num \in Nat, rows \in Nat :
          /\ b = BlockLen(f) /\ first = FirstLen(f) /\ b > 0 /\ rows = f.rows
          /\ whole = rows * b /\ num = f.num_samples
    BY FileNumbers
  <1>2. PICK m \in Nat, next \in Nat : m = next * b /\ next = row + 1
    BY <1>1
  <1>3. PICK at \in Nat : at = d.current_sample /\ at = first + m /\ at < num
    <2>1. d.current_sample = first + m
      BY <1>1, <1>2
    <2> QED  BY <1>1, <2>1
  <1>4. m >= b
    <2>1. (row + 1) * b = row * b + b /\ row * b \in Nat
      BY OneMoreBody
    <2>2. PICK x \in Nat : x = row * b
      BY <2>1
    <2>3. m = x + b
      BY <1>2, <2>1, <2>2
    <2> QED  BY <2>3
  <1>5. ~FirstDone(f, d)
    <2>1. HasFirst(f) => FirstSamples(f) = first
      BY <1>1 DEF FirstLen
    <2>2. at > first
      BY <1>1, <1>3, <1>4
    <2> QED  BY <1>3, <2>1, <2>2 DEF FirstDone
  <1>6. LastIsNext(f, d, values) = (HasLast(f) /\ at + b > num)
    BY <1>1, <1>3, <1>5 DEF LastIsNext
  <1>7. HasLast(f) => next <= rows
    <2>1. SUFFICES ASSUME HasLast(f) PROVE next <= rows
      OBVIOUS
    <2>2. at = FirstLen(f) + next * BlockLen(f) + 0
      BY <1>1, <1>2, <1>3
    <2>3. 0 < BlockLen(f) /\ at < f.num_samples
      BY <1>1, <1>3
    <2> QED  BY <1>1, <2>1, <2>2, <2>3, RowsOfSamples
  <1>8. HasLast(f) /\ next = rows => at + b > num
    <2>1. SUFFICES ASSUME HasLast(f), next = rows PROVE at + b > num
      OBVIOUS
    <2>2. m = whole
      BY <1>1, <1>2, <2>1
    <2>3. num < first + whole + b
      BY <1>1, <2>1 DEF SoundFile
    <2> QED  BY <1>3, <2>2, <2>3
  <1>9. HasLast(f) /\ next < rows => ~(at + b > num)
    <2>1. SUFFICES ASSUME HasLast(f), next < rows PROVE ~(at + b > num)
      OBVIOUS
    <2>2. (next + 1) * b <= rows * b
      BY <2>1, RowsGrow
    <2>3. (next + 1) * b = m + b
      BY <1>2, OneMoreBody
    <2>4. m + b <= whole
      BY <1>1, <2>2, <2>3
    <2>5. first + whole <= num
      BY <1>1, <2>1 DEF SoundFile
    <2> QED  BY <1>3, <2>4, <2>5
  <1>10. HasLast(f) => ((next = rows) = (at + b > num))
    BY <1>7, <1>8, <1>9
  <1> QED  BY <1>1, <1>2, <1>5, <1>6, <1>7, <1>10

\* Offsets move from a block that is done to the channel's next one.
LEMMA NextOffset ==
    ASSUME NEW f \in InterleavedFile, SoundFile(f), NEW row \in Nat,
           NEW d, NEW values, ~FirstDone(f, d),
           LastIsNext(f, d, values) = (HasLast(f) /\ row + 1 = f.rows),
           HasLast(f) => row + 1 <= f.rows,
           f.codec_internal_updates => BlockLen(f) = DefaultSamples(f),
           NEW c \in Channels(f)
    PROVE  BlockOf(f, row + 1, c) + Moved(f, 0)
             = BlockOf(f, row, c) + Moved(f, BlockLen(f))
                 + (IF FirstDone(f, d) THEN SkipFirst(f)
                    ELSE IF LastIsNext(f, d, values) THEN SkipToLast(f)
                    ELSE SkipBlock(f))[c]
  <1>1. PICK at \in Int, next \in Int :
          at = BlockOf(f, row, c) /\ next = BlockOf(f, row + 1, c)
    BY OffsetNumbers, FileNumbers
  <1>2. PICK block \in Nat, channels \in Nat, rows \in Nat :
          block = f.interleave_block_size /\ channels = f.channels
          /\ rows = f.rows
    BY FileNumbers
  <1>3. Moved(f, 0) = 0
    BY NotMoved
  <1>6. PICK skip : skip = IF FirstDone(f, d) THEN SkipFirst(f)
                           ELSE IF LastIsNext(f, d, values) THEN SkipToLast(f)
                           ELSE SkipBlock(f)
    OBVIOUS
  <1>7. PICK moved \in Nat : moved = Moved(f, BlockLen(f))
    BY FileNumbers, OffsetNumbers
  <1>8. SUFFICES next = at + moved + skip[c]
    <2>1. next + Moved(f, 0) = next
      BY <1>3
    <2> QED  BY <1>1, <1>6, <1>7, <2>1
  <1>4. CASE HasLast(f) /\ row + 1 = f.rows
    <2>1. ~f.codec_internal_updates
      BY <1>4 DEF SoundFile
    <2>2. at + moved = at
      BY <1>7, <2>1 DEF Moved
    <2>3. next = at + SkipToLast(f)[c]
      BY <1>1, <1>4, AfterLastRow
    <2>4. skip = SkipToLast(f)
      BY <1>4, <1>6
    <2> QED  BY <2>2, <2>3, <2>4
  <1>5. CASE ~(HasLast(f) /\ row + 1 = f.rows)
    <2>1. ~(HasLast(f) /\ row = f.rows)
      BY <1>2
    <2>2. next = at + block * channels
      BY <1>1, <1>2, <1>5, <2>1, AfterRow
    <2>5. skip = SkipBlock(f)
      BY <1>5, <1>6
    <2>3. CASE f.codec_internal_updates
      <3>1. Moved(f, BlockLen(f)) = block
        BY <1>2, <2>3, BlockMoved
      <3>2. SkipBlock(f)[c] = block * (channels - 1)
        BY <1>2, <2>3 DEF SkipBlock
      <3>3. PICK x \in Nat : x = block * channels
        OBVIOUS
      <3>4. block * (channels - 1) = x - block
        BY <3>3
      <3> QED  BY <1>7, <2>2, <2>5, <3>1, <3>2, <3>3, <3>4
    <2>4. CASE ~f.codec_internal_updates
      <3>1. Moved(f, BlockLen(f)) = 0
        BY <2>4 DEF Moved
      <3>2. SkipBlock(f)[c] = block * channels
        BY <1>2, <2>4 DEF SkipBlock
      <3>3. PICK x \in Nat : x = block * channels
        OBVIOUS
      <3> QED  BY <1>7, <2>2, <2>5, <3>1, <3>2, <3>3
    <2> QED  BY <2>3, <2>4
  <1> QED  BY <1>4, <1>5

\* In rows of blocks, and on to the next row.
LEMMA RowPlace ==
    ASSUME NEW f \in InterleavedFile, SoundFile(f), NEW v, NEW values, NEW n,
           Decodes(f, v, values, n), v.current_sample >= FirstLen(f),
           v.num_samples = f.num_samples, v.current_sample + n < f.num_samples,
           InPlace(f, v.current_sample, v.samples_into_block, v.ch),
           NEW u, u = After(f, v, values, n)
    PROVE  InPlace(f, u.current_sample, u.samples_into_block, u.ch)
  <1> DEFINE d == DecodeBlock(f, v, n)
  <1>1. /\ v \in InterleavedVgm(f) /\ n \in Nat /\ n > 0
        /\ ValuesFine(f, v, values)
        /\ n <= values.samples_this_block - v.samples_into_block
        /\ f.frame > 1 => (v.samples_into_block % f.frame) + n <= f.frame
    BY DEF Decodes
  <1>2. /\ d \in InterleavedVgm(f) /\ PlayedOn(v, d, n)
        /\ d.samples_into_block = v.samples_into_block + n
        /\ \A c \in Channels(f) :
             d.ch[c] = v.ch[c] + FrameMoves(f, v.samples_into_block, n)
    BY <1>1, DecodedOn
  <1>3. PICK at \in Nat, into \in Nat, first \in Nat, b \in Nat :
          /\ at = v.current_sample /\ into = v.samples_into_block
          /\ first = FirstLen(f) /\ b = BlockLen(f)
    BY <1>1, FileNumbers DEF InterleavedVgm
  <1>4. PICK row \in Nat : InRow(f, at, into, v.ch, row)
    BY <1>3, PlaceRow
  <1>5. PICK m \in Nat : m = row * b
    OBVIOUS
  <1>6. /\ at = first + m + into /\ into < b
        /\ \A c \in Channels(f) : v.ch[c] = BlockOf(f, row, c) + Moved(f, into)
    BY <1>3, <1>4, <1>5 DEF InRow
  <1>7. d.current_sample = at + n /\ d.samples_into_block = into + n
        /\ d.num_samples = f.num_samples
    BY <1>2, <1>3 DEF PlayedOn
  <1>8. f.codec_internal_updates => (into % f.frame) + n <= f.frame
    BY <1>1, <1>3 DEF SoundFile
  <1>9. Moved(f, into + n) = Moved(f, into) + FrameMoves(f, into, n)
    BY <1>1, <1>8, MovedOn
  <1>10. ASSUME NEW c \in Channels(f)
         PROVE  /\ d.ch[c] = BlockOf(f, row, c) + Moved(f, into + n)
                /\ BlockOf(f, row, c) \in Int
                /\ BlockOf(f, row + 1, c) \in Int
                /\ Moved(f, into + n) \in Int
    <2>1. BlockOf(f, row, c) \in Int /\ BlockOf(f, row + 1, c) \in Int
          /\ Moved(f, into) \in Int
      BY OffsetNumbers
    <2>2. FrameMoves(f, into, n) \in Int
      BY FileNumbers DEF FrameMoves
    <2>3. d.ch[c] = v.ch[c] + FrameMoves(f, into, n)
      BY <1>2, <1>3
    <2>4. v.ch[c] = BlockOf(f, row, c) + Moved(f, into)
      BY <1>6
    <2>5. d.ch[c] = BlockOf(f, row, c) + Moved(f, into + n)
      BY <1>9, <2>1, <2>2, <2>3, <2>4
    <2>6. Moved(f, into + n) \in Int
      BY <1>9, <2>1, <2>2
    <2> QED  BY <2>1, <2>5, <2>6
  <1> HIDE DEF d
  <1>11. CASE d.samples_into_block = values.samples_this_block
    <2>1. u = UpdateOffsets(f, d, values)
      BY <1>11 DEF After, d
    <2>2. /\ values.samples_this_block = b
          /\ at + n = first + (row + 1) * b
      BY <1>3, <1>4, <1>7, <1>11, RowDone
    <2>3. /\ ~FirstDone(f, d)
          /\ LastIsNext(f, d, values) = (HasLast(f) /\ row + 1 = f.rows)
          /\ HasLast(f) => row + 1 <= f.rows
      <3>1. b > 0 /\ d.current_sample < f.num_samples
            /\ d.current_sample = first + (row + 1) * b
        BY <1>3, <1>6, <1>7, <2>2
      <3> QED  BY <1>3, <1>7, <2>2, <3>1, LastComesNext
    <2>4. /\ u.samples_into_block = 0
          /\ u.current_sample = at + n
          /\ \A c \in Channels(f) :
               u.ch[c] = d.ch[c] + (IF FirstDone(f, d) THEN SkipFirst(f)
                                    ELSE IF LastIsNext(f, d, values)
                                    THEN SkipToLast(f)
                                    ELSE SkipBlock(f))[c]
      <3>1. /\ PlayedOn(d, u, 0) /\ u.samples_into_block = 0
            /\ \A c \in Channels(f) :
                 u.ch[c] = d.ch[c] + (IF FirstDone(f, d) THEN SkipFirst(f)
                                      ELSE IF LastIsNext(f, d, values)
                                      THEN SkipToLast(f)
                                      ELSE SkipBlock(f))[c]
        BY <1>2, <2>1, OffsetsUpdated
      <3>2. u.current_sample = d.current_sample + 0
        BY <3>1 DEF PlayedOn
      <3> QED  BY <1>1, <1>3, <1>7, <3>1, <3>2
    <2>5. f.codec_internal_updates => BlockLen(f) = DefaultSamples(f)
      <3>1. SUFFICES ASSUME BlockLen(f) # DefaultSamples(f) PROVE FALSE
        OBVIOUS
      <3>2. b = f.num_samples
        BY <1>3, <3>1 DEF BlockLen, OrWholeStream
      <3>3. (row + 1) * b = m + b
        BY <1>5, OneMoreBody
      <3> QED  BY <1>3, <2>2, <3>2, <3>3
    <2>6. ASSUME NEW c \in Channels(f)
          PROVE  u.ch[c] = BlockOf(f, row + 1, c) + Moved(f, 0)
      <3>1. into + n = BlockLen(f)
        BY <1>3, <1>7, <1>11, <2>2
      <3>2. d.ch[c] = BlockOf(f, row, c) + Moved(f, BlockLen(f))
        BY <1>10, <3>1
      <3> QED  BY <2>3, <2>4, <2>5, <3>2, NextOffset
    <2>7. (row + 1) * b = m + b
      BY <1>5, OneMoreBody
    <2>8. row + 1 <= at + n
      <3>1. b > 0
        BY <1>6
      <3>2. row + 1 <= (row + 1) * b
        BY <3>1, BodyTakesTime
      <3> QED  BY <1>1, <2>2, <2>7, <3>2
    <2>9. row + 1 \in 0 .. u.current_sample /\ ~(u.current_sample < FirstLen(f))
      BY <1>1, <1>3, <2>4, <2>8
    <2>10. u.current_sample = FirstLen(f) + (row + 1) * BlockLen(f) + 0
      BY <1>3, <2>2, <2>4, <2>7
    <2>11. InRow(f, u.current_sample, u.samples_into_block, u.ch, row + 1)
      <3>1. u.samples_into_block < BlockLen(f) /\ u.samples_into_block = 0
        BY <1>3, <1>6, <2>4
      <3>2. u.current_sample
              = FirstLen(f) + (row + 1) * BlockLen(f) + u.samples_into_block
        BY <2>10, <3>1
      <3>3. \A c \in Channels(f) :
              u.ch[c] = BlockOf(f, row + 1, c) + Moved(f, u.samples_into_block)
        BY <2>6, <3>1
      <3> QED  BY <3>1, <3>2, <3>3 DEF InRow
    <2> QED  BY <2>9, <2>11 DEF InPlace
  <1>12. CASE d.samples_into_block # values.samples_this_block
    <2>1. u = d
      BY <1>12 DEF After, d
    <2>2. values.samples_this_block \in Nat
      BY <1>1, KindsOfBlock
    <2>3. into + n < values.samples_this_block
      BY <1>1, <1>3, <1>7, <1>12, <2>2
    <2>4. into + n < b
      BY <1>1, <1>3, <1>4, <2>3, StaysInRow
    <2>5. d.current_sample = first + m + (into + n)
      BY <1>1, <1>6, <1>7
    <2>6. row <= at
      <3>1. b > 0
        BY <1>6
      <3>2. row <= m
        BY <1>5, <3>1, BodyTakesTime
      <3> QED  BY <1>6, <3>2
    <2>7. row \in 0 .. u.current_sample /\ ~(u.current_sample < FirstLen(f))
      BY <1>1, <1>3, <1>7, <2>1, <2>6
    <2>8. InRow(f, u.current_sample, u.samples_into_block, u.ch, row)
      BY <1>3, <1>5, <1>7, <1>10, <2>1, <2>4, <2>5 DEF InRow
    <2> QED  BY <2>7, <2>8 DEF InPlace
  <1> QED  BY <1>11, <1>12

\* The values for the rest of the call are those of the block it goes on in.
LEMMA ValuesKept ==
    ASSUME NEW f \in InterleavedFile, SoundFile(f), NEW v, NEW values, NEW n,
           Decodes(f, v, values, n), v.num_samples = f.num_samples,
           v.current_sample < f.num_samples =>
              InPlace(f, v.current_sample, v.samples_into_block, v.ch),
           NEW u, u = After(f, v, values, n)
    PROVE  ValuesFine(f, u, ValuesThen(f, v, values, n))
  <1> DEFINE d == DecodeBlock(f, v, n)
             then == ValuesThen(f, v, values, n)
  <1>1. /\ v \in InterleavedVgm(f) /\ n \in Nat /\ n > 0
        /\ ValuesFine(f, v, values)
        /\ n <= values.samples_this_block - v.samples_into_block
    BY DEF Decodes
  <1>2. /\ d \in InterleavedVgm(f) /\ PlayedOn(v, d, n)
        /\ d.samples_into_block = v.samples_into_block + n
    BY <1>1, DecodedOn
  <1>3. PICK at \in Nat, into \in Nat, first \in Nat, num \in Nat, block \in Nat :
          /\ at = v.current_sample /\ into = v.samples_into_block
          /\ first = FirstLen(f) /\ num = f.num_samples
          /\ block = values.samples_this_block
    <2>1. values.samples_this_block \in Nat
      BY <1>1, KindsOfBlock
    <2> QED  BY <1>1, <2>1, FileNumbers DEF InterleavedVgm
  <1>4. d.current_sample = at + n /\ d.samples_into_block = into + n
        /\ d.num_samples = num
    BY <1>2, <1>3 DEF PlayedOn
  <1>5. first <= num
    BY <1>3 DEF SoundFile
  <1> HIDE DEF d, then
  <1>6. CASE into + n = block
    <2>1. u = UpdateOffsets(f, d, values) /\ then = ValuesAfterBlock(f, d, values)
      BY <1>3, <1>4, <1>6 DEF After, ValuesThen, d, then
    <2>2. /\ u.current_sample = at + n /\ u.samples_into_block = 0
          /\ u.num_samples = num
      <3>1. PlayedOn(d, u, 0) /\ u.samples_into_block = 0
        BY <1>2, <2>1, OffsetsUpdated
      <3>2. u.current_sample = d.current_sample + 0
            /\ u.num_samples = d.num_samples
        BY <3>1 DEF PlayedOn
      <3> QED  BY <1>1, <1>4, <3>1, <3>2
    <2>3. CASE at < first
      <3>1. into = at /\ HasFirst(f) /\ block = first
        <4>1. into = at
          BY <1>3, <1>5, <2>3 DEF InPlace
        <4> QED  BY <1>1, <1>3, <2>3, <4>1, KindsOfBlock
      <3>2. FirstDone(f, d)
        BY <1>3, <1>4, <1>6, <3>1 DEF FirstDone, FirstLen
      <3>3. then = DefaultValues(f)
        BY <2>1, <3>2 DEF ValuesAfterBlock
      <3>4. u.current_sample = first /\ ~PastEnd(u)
        BY <1>5, <1>6, <2>2, <3>1 DEF PastEnd
      <3> QED  BY <1>3, <3>3, <3>4 DEF ValuesFine, then
    <2>4. CASE ~(at < first)
      <3>1. ~FirstDone(f, d)
        BY <1>1, <1>3, <1>4, <2>4 DEF FirstDone, FirstLen
      <3>2. then = IF LastIsNext(f, d, values) THEN LastValues(f) ELSE values
        BY <2>1, <3>1 DEF ValuesAfterBlock
      <3>3. PICK whole \in Nat : whole = f.rows * BlockLen(f)
        BY FileNumbers
      <3>4. \/ values = DefaultValues(f)
            \/ HasLast(f) /\ at >= first + whole /\ values = LastValues(f)
        BY <1>1, <1>3, <2>4, <3>3 DEF ValuesFine
      <3>5. ~(u.current_sample < FirstLen(f))
        BY <1>1, <1>3, <2>2, <2>4
      <3>6. CASE LastIsNext(f, d, values)
        <4>1. HasLast(f) /\ then = LastValues(f)
          BY <3>2, <3>6 DEF LastIsNext
        <4>2. first + whole <= num /\ LastSamples(f) > 0
          BY <1>3, <3>3, <4>1 DEF SoundFile
        <4>3. at + n >= first + whole
          <5>1. CASE at + n >= num
            BY <1>1, <4>2, <5>1
          <5>2. CASE at + n < num
            <6>1. at < f.num_samples /\ at + n < f.num_samples
              BY <1>1, <1>3, <5>2
            <6>2. PICK row \in Nat : InRow(f, at, into, v.ch, row)
              BY <1>3, <2>4, <6>1, PlaceRow
            <6>3. /\ values.samples_this_block = BlockLen(f)
                  /\ at + n = FirstLen(f) + (row + 1) * BlockLen(f)
              BY <1>3, <1>6, <2>4, <6>1, <6>2, RowDone
            <6>4. BlockLen(f) > 0
              BY <1>3, <6>2, FileNumbers DEF InRow
            <6>5. LastIsNext(f, d, values) = (HasLast(f) /\ row + 1 = f.rows)
              BY <1>3, <1>4, <6>1, <6>3, <6>4, LastComesNext
            <6>6. (row + 1) * BlockLen(f) = whole
              BY <3>3, <3>6, <6>5
            <6> QED  BY <1>3, <6>3, <6>6
          <5> QED  BY <1>1, <5>1, <5>2
        <4>4. LastValues(f).samples_this_block = LastSamples(f)
          BY <4>1, BlockValues
        <4> QED  BY <1>3, <2>2, <3>3, <3>5, <4>1, <4>2, <4>3, <4>4
                 DEF ValuesFine, then
      <3>7. CASE ~LastIsNext(f, d, values)
        <4>1. then = values
          BY <3>2, <3>7
        <4>2. block > 0
          BY <1>1, <1>6
        <4>3. HasLast(f) /\ at >= first + whole =>
                HasLast(f) /\ at + n >= first + whole
          BY <1>1
        <4> QED  BY <1>3, <2>2, <3>3, <3>4, <3>5, <4>1, <4>2, <4>3
                 DEF ValuesFine, then
      <3> QED  BY <3>6, <3>7
    <2> QED  BY <2>3, <2>4
  <1>7. CASE into + n # block
    <2>1. u = d /\ then = values
      BY <1>3, <1>4, <1>7 DEF After, ValuesThen, d, then
    <2>2. into + n < block
      BY <1>1, <1>3, <1>7
    <2>3. CASE at < first
      <3>1. into = at /\ block = first /\ values = FirstValues(f)
        <4>1. into = at
          BY <1>3, <1>5, <2>3 DEF InPlace
        <4>2. block = first
          BY <1>1, <1>3, <2>3, KindsOfBlock
        <4> QED  BY <1>1, <1>3, <2>3, <4>1, <4>2 DEF ValuesFine
      <3>2. u.current_sample < first /\ ~PastEnd(u)
        BY <1>1, <1>4, <1>5, <2>1, <2>2, <3>1 DEF PastEnd
      <3> QED  BY <1>3, <2>1, <3>1, <3>2 DEF ValuesFine, then
    <2>4. CASE ~(at < first)
      <3>1. PICK whole \in Nat : whole = f.rows * BlockLen(f)
        BY FileNumbers
      <3>2. \/ values = DefaultValues(f)
            \/ HasLast(f) /\ at >= first + whole /\ values = LastValues(f)
        BY <1>1, <1>3, <2>4, <3>1 DEF ValuesFine
      <3>3. ~(at + n < first)
        BY <1>1, <2>4
      <3>4. HasLast(f) /\ at >= first + whole =>
              HasLast(f) /\ at + n >= first + whole
        BY <1>1
      <3> QED  BY <1>3, <1>4, <2>1, <2>2, <3>1, <3>2, <3>3, <3>4
               DEF ValuesFine, then
    <2> QED  BY <2>3, <2>4
  <1> QED  BY <1>6, <1>7 DEF then

-----------------------------------------------------------------------------
(* The iterations, on the whole head *)

\* The head's stream is the file's.
LEMMA SameFile ==
    ASSUME NEW f, NEW start, SnapshotOK(f, start), NEW v, HeadFine(f, start, v)
    PROVE  /\ v.num_samples = f.num_samples
           /\ v \in InterleavedVgm(f)
           /\ Checkable(f, start, v)
           /\ v.loop_flag => /\ v.loop_start_sample < v.loop_end_sample
                             /\ v.loop_end_sample <= v.num_samples
           /\ v.hit_loop => v.loop_current_sample < v.num_samples
  <1>1. PICK w, s : w = Flat(v) /\ s = Flat(start)
    OBVIOUS
  <1>2. v \in InterleavedVgm(f) /\ start \in InterleavedVgm(f)
    BY DEF HeadFine, SnapshotOK
  <1>3. Startable(s) /\ HeadOK(s, w)
    BY <1>1 DEF HeadFine, SnapshotOK
  <1>4. s.num_samples = start.num_samples
    BY <1>1, <1>2, FlatOf
  <1>5. /\ w.num_samples = v.num_samples
        /\ w.loop_start_sample = v.loop_start_sample
        /\ w.loop_end_sample = v.loop_end_sample
        /\ w.loop_current_sample = v.loop_current_sample
    BY <1>1, <1>2, FlatOf
  <1>6. w.loop_flag = v.loop_flag /\ w.hit_loop = v.hit_loop
    BY <1>1, <1>2, FlatOf
  <1>7. v.num_samples = f.num_samples
    BY <1>3, <1>4, <1>5 DEF HeadOK, SameStream, SnapshotOK
  <1>8. Checkable(f, start, v)
    BY <1>1, <1>2, <1>3 DEF Checkable, HeadFine
  <1>9. v.loop_flag \/ v.hit_loop => s.loop_flag
    BY <1>3, <1>6 DEF HeadOK, HeadInLoop
  <1>10. s.loop_flag => /\ v.loop_start_sample < v.loop_end_sample
                        /\ v.loop_end_sample <= v.num_samples
    BY <1>3, <1>5, LoopIsSane
  <1>11. v.hit_loop => v.loop_current_sample = v.loop_start_sample
    BY <1>3, <1>5, <1>6 DEF HeadOK, SavedLoop
  <1>12. v.hit_loop => v.loop_current_sample < v.num_samples
    BY <1>2, <1>9, <1>10, <1>11 DEF InterleavedVgm
  <1> QED  BY <1>2, <1>7, <1>8, <1>9, <1>10, <1>12

\* An iteration that does not jump: after the loop check all is as before.
LEMMA CheckedFine ==
    ASSUME NEW f \in InterleavedFile, NEW start, SnapshotOK(f, start),
           NEW v0, HeadFine(f, start, v0), ~Looped(v0),
           NEW v, v = LoopCheck(v0)
    PROVE  /\ HeadFine(f, start, v)
           /\ BeforeLoopPoint(Flat(v))
           /\ v.current_sample = v0.current_sample
           /\ v.samples_into_block = v0.samples_into_block
           /\ v.num_samples = v0.num_samples
           /\ \A values : ValuesFine(f, v0, values) => ValuesFine(f, v, values)
           /\ \A t \in Nat : OnTime(f, start, v0, t) => OnTime(f, start, v, t)
  <1>1. /\ v0 \in InterleavedVgm(f) /\ Checkable(f, start, v0)
    BY SameFile
  <1>2. /\ v \in InterleavedVgm(f)
        /\ Flat(v) = LoopCheck(Flat(v0))
        /\ v.current_sample = v0.current_sample
        /\ v.samples_into_block = v0.samples_into_block
        /\ v.ch = v0.ch
        /\ v.num_samples = v0.num_samples
    BY <1>1, FlatCheck
  <1>3. /\ v.loop_flag => v0.loop_flag
        /\ v.hit_loop =>
                \/ /\ v0.hit_loop
                   /\ v.loop_current_sample = v0.loop_current_sample
                   /\ v.loop_samples_into_block = v0.loop_samples_into_block
                   /\ v.loop_ch = v0.loop_ch
                \/ /\ v.loop_current_sample = v0.current_sample
                   /\ v.loop_samples_into_block = v0.samples_into_block
                   /\ v.loop_ch = v0.ch
                   /\ v.current_sample < v.num_samples
    BY <1>1, FlatCheck
  <1>4. /\ HeadOK(Flat(start), Flat(v))
        /\ BeforeLoopPoint(Flat(v))
        /\ \A t \in Nat : HeadAt(Flat(start), Flat(v0), t) =>
                          HeadAt(Flat(start), Flat(v), t)
    <2>1. PICK w, z, s : w = Flat(v0) /\ z = Flat(v) /\ s = Flat(start)
      OBVIOUS
    <2>2. Startable(s) /\ HeadOK(s, w) /\ ~Looped(w) /\ z = LoopCheck(w)
      BY <1>1, <1>2, <2>1, FlatLooped DEF Checkable
    <2>3. /\ HeadOK(s, z) /\ BeforeLoopPoint(z)
          /\ \A t \in Nat : HeadAt(s, w, t) => HeadAt(s, z, t)
      BY <2>2, CheckedHead
    <2> QED  BY <2>1, <2>3
  <1>5. PastEnd(v) => ~v.loop_flag
    BY <1>2, <1>3 DEF PastEnd, HeadFine
  <1>6. HeadInPlace(f, v)
    <2>1. CASE BlockLen(f) = 0
      BY <1>2, <2>1 DEF HeadFine, HeadInPlace
    <2>2. CASE BlockLen(f) # 0
      <3>1. /\ v0.current_sample < v0.num_samples =>
                 InPlace(f, v0.current_sample, v0.samples_into_block, v0.ch)
            /\ v0.hit_loop =>
                 InPlace(f, v0.loop_current_sample, v0.loop_samples_into_block,
                         v0.loop_ch)
        BY <2>2 DEF HeadFine, HeadInPlace
      <3> QED  BY <1>2, <1>3, <2>2, <3>1 DEF HeadInPlace
    <2> QED  BY <2>1, <2>2
  <1>7. HeadFine(f, start, v)
    BY <1>2, <1>4, <1>5, <1>6 DEF HeadFine
  <1>8. \A values : ValuesFine(f, v0, values) => ValuesFine(f, v, values)
    BY <1>2 DEF ValuesFine, PastEnd
  <1>9. \A t \in Nat : OnTime(f, start, v0, t) => OnTime(f, start, v, t)
    BY <1>4 DEF OnTime
  <1> QED  BY <1>2, <1>4, <1>7, <1>8, <1>9

\* An iteration that jumps is in the place of the loop start.
LEMMA JumpFine ==
    ASSUME NEW f \in InterleavedFile, SoundFile(f),
           NEW start, SnapshotOK(f, start),
           NEW v0, HeadFine(f, start, v0), Looped(v0),
           NEW v, v = LoopCheck(v0)
    PROVE  /\ HeadFine(f, start, v)
           /\ ~PastEnd(v0) /\ ~PastEnd(v)
           /\ v.current_sample < v0.current_sample
           /\ v.current_sample < f.num_samples
           /\ \A t \in Nat : OnTime(f, start, v0, t) => OnTime(f, start, v, t)
  <1>1. /\ v0 \in InterleavedVgm(f) /\ Checkable(f, start, v0)
        /\ v0.num_samples = f.num_samples
    BY SameFile
  <1>2. /\ v \in InterleavedVgm(f)
        /\ Flat(v) = LoopCheck(Flat(v0))
        /\ ~PastEnd(v)
        /\ v0.hit_loop /\ v.hit_loop
        /\ v.num_samples = v0.num_samples
        /\ v.current_sample < v0.current_sample
        /\ v0.current_sample <= v0.num_samples
    BY <1>1, FlatJump
  <1>3. /\ v.current_sample = v0.loop_current_sample
        /\ v.samples_into_block = v0.loop_samples_into_block
        /\ v.ch = v0.loop_ch
        /\ v.loop_current_sample = v0.loop_current_sample
        /\ v.loop_samples_into_block = v0.loop_samples_into_block
        /\ v.loop_ch = v0.loop_ch
    BY <1>1, FlatJump
  <1>4. /\ HeadOK(Flat(start), Flat(v))
        /\ \A t \in Nat : HeadAt(Flat(start), Flat(v0), t) =>
                          HeadAt(Flat(start), Flat(v), t)
    <2>1. PICK w, z, s : w = Flat(v0) /\ z = Flat(v) /\ s = Flat(start)
      OBVIOUS
    <2>2. Startable(s) /\ HeadOK(s, w) /\ Looped(w) /\ z = LoopCheck(w)
      BY <1>1, <1>2, <2>1, FlatLooped DEF Checkable
    <2>3. /\ HeadOK(s, z)
          /\ \A t \in Nat : HeadAt(s, w, t) => HeadAt(s, z, t)
      BY <2>2, JumpKeepsPlace
    <2> QED  BY <2>1, <2>3
  <1>5. v0.current_sample \in Nat /\ v.current_sample \in Nat
        /\ v0.num_samples \in Nat
    BY <1>1, <1>2 DEF InterleavedVgm
  <1>6. BlockLen(f) # 0
    <2>1. v0.current_sample # 0
      BY <1>2, <1>5
    <2> QED  BY <2>1 DEF HeadFine, HeadInPlace
  <1>7. HeadInPlace(f, v)
    <2>1. InPlace(f, v0.loop_current_sample, v0.loop_samples_into_block,
                  v0.loop_ch)
      BY <1>2, <1>6 DEF HeadFine, HeadInPlace
    <2> QED  BY <1>3, <1>6, <2>1 DEF HeadInPlace
  <1>8. HeadFine(f, start, v)
    BY <1>2, <1>4, <1>7 DEF HeadFine
  <1>9. ~PastEnd(v0) /\ v.current_sample < f.num_samples
    BY <1>1, <1>2, <1>5 DEF PastEnd
  <1>10. \A t \in Nat : OnTime(f, start, v0, t) => OnTime(f, start, v, t)
    BY <1>4 DEF OnTime
  <1> QED  BY <1>2, <1>8, <1>9, <1>10

\* What is decoded is a place of each channel, and no silence.
LEMMA ReadIsSound ==
    ASSUME NEW f \in InterleavedFile, NEW v \in InterleavedVgm(f), NEW j \in Nat
    PROVE  ReadAt(f, v, j) \in Cells(f) /\ ReadAt(f, v, j) # Blank
  <1>1. PICK cell : cell = ReadAt(f, v, j)
    OBVIOUS
  <1>2. PICK frame \in Nat, size \in Nat, k \in Nat :
          /\ frame = f.frame /\ size = f.frame_size /\ frame > 0
          /\ k = v.samples_into_block + j
    BY FileNumbers DEF InterleavedVgm
  <1>3. PICK q \in Nat, r \in Nat : q = k \div frame /\ r = k % frame
    <2>1. frame > 0
      BY <1>2
    <2> QED  BY <2>1, Division
  <1>4. FrameOf(f, v, j) \in Nat
    BY <1>2, <1>3 DEF FrameOf
  <1>5. FrameOf(f, v, j) * size \in Int
    BY <1>4
  <1>6. PICK offset \in Int : offset = FrameOf(f, v, j) * size
    BY <1>5
  <1>7. cell = [c \in Channels(f) |-> <<v.ch[c] + offset, r>>]
    BY <1>1, <1>2, <1>3, <1>6 DEF ReadAt
  <1>8. \A c \in Channels(f) : v.ch[c] + offset \in Int
    BY DEF InterleavedVgm
  <1>9. cell \in [Channels(f) -> Int \X Int]
    BY <1>7, <1>8
  <1>10. 0 \in DOMAIN cell
    <2>1. 0 \in Channels(f)
      BY FileNumbers DEF Channels
    <2> QED  BY <1>7, <2>1
  <1>11. cell # Blank
    <2>1. 0 \notin DOMAIN Blank
      BY DEF Blank
    <2> QED  BY <1>10, <2>1
  <1> QED  BY <1>1, <1>9, <1>11 DEF Cells

\* How much an iteration may decode.
LEMMA CallFine ==
    ASSUME NEW f \in InterleavedFile, SoundFile(f),
           NEW start, SnapshotOK(f, start), NEW v, HeadFine(f, start, v),
           BeforeLoopPoint(Flat(v)),
           NEW values, ValuesFine(f, v, values), NEW room \in Nat, room > 0,
           NEW n, n = SmallerOf(DecodeGetSamplesToDo(v,
                                    values.samples_this_block,
                                    values.samples_per_frame), room)
    PROVE  /\ n \in Int /\ n <= room
           /\ n > 0 =>
                /\ BlockLen(f) > 0
                /\ Decodes(f, v, values, n)
                /\ v.loop_flag /\ ~v.hit_loop =>
                     n <= v.loop_start_sample - v.current_sample
                /\ v.loop_flag /\ v.hit_loop =>
                     n <= v.loop_end_sample - v.current_sample
           /\ n <= 0 => \/ BlockLen(f) = 0
                        \/ ~v.loop_flag /\ v.current_sample = v.num_samples
  <1>1. /\ v \in InterleavedVgm(f) /\ v.num_samples = f.num_samples
        /\ v.loop_flag => /\ v.loop_start_sample < v.loop_end_sample
                          /\ v.loop_end_sample <= v.num_samples
    BY SameFile
  <1>2. PICK block \in Nat, frame \in Nat :
          /\ block = values.samples_this_block
          /\ frame = values.samples_per_frame /\ frame > 0
    BY <1>1, KindsOfBlock
  <1>3. PICK at \in Nat, into \in Nat, num \in Nat :
          /\ at = v.current_sample /\ into = v.samples_into_block
          /\ num = v.num_samples
    BY <1>1 DEF InterleavedVgm
  <1>4. PICK m : m = DecodeGetSamplesToDo(v, block, frame)
    OBVIOUS
  <1>5. m \in Int
    <2>1. SamplesUpToLoopPoint(v, block) \in Int
      BY <1>1, <1>2 DEF SamplesUpToLoopPoint, InterleavedVgm
    <2>2. v.samples_into_block % frame \in Int
      BY <1>2, <1>3
    <2> QED  BY <1>2, <1>4, <2>1, <2>2 DEF DecodeGetSamplesToDo
  <1>6. /\ m <= block - into
        /\ v.loop_flag /\ ~v.hit_loop => m <= v.loop_start_sample - at
        /\ v.loop_flag /\ v.hit_loop => m <= v.loop_end_sample - at
        /\ frame > 1 => (into % frame) + m <= frame
        /\ m <= 0 /\ BeforeLoopPoint(v) => into >= block
    BY <1>1, <1>2, <1>3, <1>4, <1>5, SamplesOfCall
  <1>7. n = SmallerOf(m, room)
    BY <1>2, <1>4
  <1>8. n \in Int /\ n <= m /\ n <= room /\ (n <= 0 => m <= 0)
    BY <1>5, <1>7 DEF SmallerOf
  <1>9. ASSUME n > 0
        PROVE  /\ BlockLen(f) > 0
               /\ Decodes(f, v, values, n)
               /\ v.loop_flag /\ ~v.hit_loop => n <= v.loop_start_sample - at
               /\ v.loop_flag /\ v.hit_loop => n <= v.loop_end_sample - at
    <2>1. n \in Nat /\ n <= block - into
      BY <1>5, <1>6, <1>8, <1>9
    <2>2. frame > 1 => (into % frame) + n <= frame
      <3>1. into % frame \in Int
        BY <1>2
      <3> QED  BY <1>5, <1>6, <1>8, <3>1
    <2>3. f.frame > 1 => (into % f.frame) + n <= f.frame
      BY <1>1, <1>2, <1>3, <1>9, <2>1, <2>2, StaysInFrame
    <2>4. Decodes(f, v, values, n)
      BY <1>1, <1>2, <1>3, <1>9, <2>1, <2>3 DEF Decodes
    <2>5. BlockLen(f) > 0
      <3>1. SUFFICES ASSUME BlockLen(f) = 0 PROVE FALSE
        BY FileNumbers
      <3>2. FirstLen(f) = 0 /\ ~HasLast(f)
        BY <3>1, BlocksHoldSamples
      <3>3. block = 0
        BY <1>1, <1>2, <1>3, <3>1, <3>2, KindsOfBlock
      <3> QED  BY <1>9, <2>1, <3>3
    <2>6. v.loop_flag /\ ~v.hit_loop => n <= v.loop_start_sample - at
      BY <1>1, <1>5, <1>6, <1>8 DEF InterleavedVgm
    <2>7. v.loop_flag /\ v.hit_loop => n <= v.loop_end_sample - at
      BY <1>1, <1>5, <1>6, <1>8 DEF InterleavedVgm
    <2> QED  BY <2>4, <2>5, <2>6, <2>7
  <1>10. ASSUME n <= 0, BlockLen(f) # 0
         PROVE  ~v.loop_flag /\ at = num
    <2>1. v.loop_flag => ~PastEnd(v)
      BY DEF HeadFine
    <2>2. BeforeLoopPoint(v)
      <3>1. PICK w : w = Flat(v)
        OBVIOUS
      <3>2. /\ w.loop_flag = v.loop_flag /\ w.hit_loop = v.hit_loop
            /\ w.loop_start_sample = v.loop_start_sample
            /\ w.loop_end_sample = v.loop_end_sample
            /\ ~PastEnd(v) => w.current_sample = v.current_sample
        BY <1>1, <3>1, FlatOf
      <3>3. w.loop_flag =>
              /\ ~w.hit_loop => w.current_sample < w.loop_start_sample
              /\ w.hit_loop => w.current_sample < w.loop_end_sample
        BY <3>1 DEF BeforeLoopPoint
      <3>4. SUFFICES ASSUME v.loop_flag
                     PROVE  /\ ~v.hit_loop =>
                                 v.current_sample < v.loop_start_sample
                            /\ v.hit_loop =>
                                 v.current_sample < v.loop_end_sample
        BY DEF BeforeLoopPoint
      <3>5. w.current_sample = v.current_sample
        BY <2>1, <3>2, <3>4
      <3> QED  BY <3>2, <3>3, <3>4, <3>5
    <2>3. into >= block
      BY <1>6, <1>8, <1>10, <2>2
    <2>4. ~PastEnd(v)
      BY <1>2, <1>3, <2>3 DEF ValuesFine
    <2>5. at <= num
      BY <1>3, <2>4 DEF PastEnd
    <2>6. ~(at < num)
      <3>1. SUFFICES ASSUME at < num PROVE FALSE
        OBVIOUS
      <3>2. InPlace(f, at, into, v.ch)
        BY <1>3, <1>10, <3>1 DEF HeadFine, HeadInPlace
      <3>3. CASE at < FirstLen(f)
        <4>1. into = at
          BY <3>2, <3>3 DEF InPlace
        <4>2. block = FirstLen(f)
          BY <1>1, <1>2, <1>3, <3>3, KindsOfBlock
        <4> QED  BY <2>3, <3>3, <4>1, <4>2
      <3>4. CASE ~(at < FirstLen(f))
        <4>1. at >= FirstLen(f)
          BY <3>4, FileNumbers
        <4>2. PICK row \in Nat : InRow(f, at, into, v.ch, row)
          BY <3>2, <4>1, PlaceRow
        <4>3. PICK b \in Nat, m1 \in Nat, first \in Nat, whole \in Nat,
                   last \in Nat :
                /\ b = BlockLen(f) /\ m1 = row * b /\ first = FirstLen(f)
                /\ whole = f.rows * BlockLen(f) /\ last = LastSamples(f)
          <5>1. row * BlockLen(f) \in Nat
            BY FileNumbers
          <5> QED  BY <5>1, FileNumbers
        <4>4. at = first + m1 + into /\ into < b
          BY <4>2, <4>3 DEF InRow
        <4>5. block # b
          BY <2>3, <4>4
        <4>6. HasLast(f) /\ at >= first + whole /\ block = last
          BY <1>1, <1>2, <1>3, <4>1, <4>3, <4>5, KindsOfBlock
        <4>7. at = FirstLen(f) + row * BlockLen(f) + into
          BY <4>3, <4>4
        <4>8. row = f.rows
          BY <1>1, <1>3, <3>1, <4>3, <4>4, <4>6, <4>7, RowsOfSamples
        <4>9. m1 = whole
          BY <4>3, <4>8
        <4>10. num <= first + whole + last
          BY <1>1, <1>3, <4>3, <4>6 DEF SoundFile
        <4> QED  BY <2>3, <3>1, <4>4, <4>6, <4>9, <4>10
      <3> QED  BY <3>3, <3>4
    <2>7. at = num
      BY <2>5, <2>6
    <2>8. ~v.loop_flag
      <3>1. SUFFICES ASSUME v.loop_flag PROVE FALSE
        OBVIOUS
      <3>2. v.loop_start_sample \in Nat /\ v.loop_end_sample \in Nat
        BY <1>1 DEF InterleavedVgm
      <3>3. at < v.loop_start_sample \/ at < v.loop_end_sample
        BY <1>3, <2>2, <3>1 DEF BeforeLoopPoint
      <3> QED  BY <1>1, <1>3, <2>7, <3>1, <3>2, <3>3
    <2> QED  BY <2>7, <2>8
  <1> QED  BY <1>3, <1>8, <1>9, <1>10

\* An iteration that decodes leaves a head in its place, and has read what comes
\* next, up to the end.
LEMMA DecodeFine ==
    ASSUME NEW f \in InterleavedFile, SoundFile(f),
           NEW start, SnapshotOK(f, start), NEW v, HeadFine(f, start, v),
           BeforeLoopPoint(Flat(v)),
           NEW values, NEW n, Decodes(f, v, values, n), BlockLen(f) > 0,
           v.loop_flag /\ ~v.hit_loop =>
                n <= v.loop_start_sample - v.current_sample,
           v.loop_flag /\ v.hit_loop =>
                n <= v.loop_end_sample - v.current_sample,
           NEW u, u = After(f, v, values, n)
    PROVE  /\ HeadFine(f, start, u)
           /\ ValuesFine(f, u, ValuesThen(f, v, values, n))
           /\ u.current_sample = v.current_sample + n
           /\ u.num_samples = v.num_samples
           /\ \A t \in Nat : OnTime(f, start, v, t) =>
                 /\ OnTime(f, start, u, t + n)
                 /\ \A j \in 0 .. n - 1 :
                      IF v.current_sample + j < v.num_samples
                      THEN SoundsAt(f, start, t + j, ReadAt(f, v, j))
                      ELSE IsOver(start, t + j)
  <1>1. /\ v \in InterleavedVgm(f) /\ v.num_samples = f.num_samples
        /\ v.hit_loop => v.loop_current_sample < v.num_samples
    BY SameFile
  <1>2. /\ n \in Nat /\ n > 0 /\ ValuesFine(f, v, values)
        /\ n <= values.samples_this_block - v.samples_into_block
        /\ f.frame > 1 => (v.samples_into_block % f.frame) + n <= f.frame
    BY DEF Decodes
  <1>3. /\ u \in InterleavedVgm(f) /\ PlayedOn(v, u, n)
    <2>1. PICK d : d = DecodeBlock(f, v, n)
      OBVIOUS
    <2>2. d \in InterleavedVgm(f) /\ PlayedOn(v, d, n)
      BY <1>1, <1>2, <2>1, DecodedOn
    <2>3. CASE u = UpdateOffsets(f, d, values)
      <3>1. u \in InterleavedVgm(f) /\ PlayedOn(d, u, 0)
        BY <2>2, <2>3, OffsetsUpdated
      <3>2. u.current_sample = d.current_sample + 0
            /\ d.current_sample = v.current_sample + n
            /\ v.current_sample \in Nat
        BY <1>1, <2>2, <3>1 DEF PlayedOn, InterleavedVgm
      <3>3. u.current_sample = v.current_sample + n
        BY <1>2, <3>2
      <3> QED  BY <2>2, <3>1, <3>3 DEF PlayedOn
    <2>4. CASE u = d
      BY <2>2, <2>4
    <2> QED  BY <2>1, <2>3, <2>4 DEF After
  <1>4. /\ u.current_sample = v.current_sample + n
        /\ u.num_samples = v.num_samples
        /\ u.hit_loop = v.hit_loop
        /\ u.loop_current_sample = v.loop_current_sample
        /\ u.loop_samples_into_block = v.loop_samples_into_block
        /\ u.loop_ch = v.loop_ch
    BY <1>3 DEF PlayedOn
  <1>5. /\ v.current_sample \in Nat /\ v.samples_into_block \in Nat
        /\ v.num_samples \in Nat
    BY <1>1 DEF InterleavedVgm
  <1>6. /\ v.current_sample < f.num_samples =>
             InPlace(f, v.current_sample, v.samples_into_block, v.ch)
        /\ v.hit_loop =>
             InPlace(f, v.loop_current_sample, v.loop_samples_into_block,
                     v.loop_ch)
    BY <1>1 DEF HeadFine, HeadInPlace
  <1>7. ValuesFine(f, u, ValuesThen(f, v, values, n))
    BY <1>1, <1>6, ValuesKept
  <1>8. u.current_sample < u.num_samples =>
          InPlace(f, u.current_sample, u.samples_into_block, u.ch)
    <2>1. SUFFICES ASSUME v.current_sample + n < f.num_samples
                   PROVE  InPlace(f, u.current_sample, u.samples_into_block, u.ch)
      BY <1>1, <1>4
    <2>2. InPlace(f, v.current_sample, v.samples_into_block, v.ch)
      BY <1>1, <1>2, <1>5, <1>6, <2>1
    <2>3. CASE v.current_sample < FirstLen(f)
      BY <2>2, <2>3, FirstBlockPlace
    <2>4. CASE v.current_sample >= FirstLen(f)
      BY <1>1, <2>1, <2>2, <2>4, RowPlace
    <2> QED  BY <1>5, <2>3, <2>4, FileNumbers
  <1>9. HeadInPlace(f, u)
    BY <1>4, <1>6, <1>8 DEF HeadInPlace
  <1>10. /\ HeadOK(Flat(start), Flat(u))
         /\ PastEnd(u) => ~u.loop_flag
         /\ \A t \in Nat : HeadAt(Flat(start), Flat(v), t) =>
               /\ HeadAt(Flat(start), Flat(u), t + n)
               /\ \A j \in 0 .. n - 1 :
                    IF v.current_sample + j < v.num_samples
                    THEN IsSource(start, t + j, v.current_sample + j)
                    ELSE IsOver(start, t + j)
    <2>1. /\ Startable(Flat(start)) /\ HeadOK(Flat(start), Flat(v))
          /\ PastEnd(v) => ~v.loop_flag
      BY DEF SnapshotOK, HeadFine
    <2> QED  BY <1>1, <1>2, <1>3, <2>1, FlatDecode
  <1>11. HeadFine(f, start, u)
    BY <1>3, <1>9, <1>10 DEF HeadFine
  <1>12. ASSUME NEW t \in Nat, OnTime(f, start, v, t)
         PROVE  /\ OnTime(f, start, u, t + n)
                /\ \A j \in 0 .. n - 1 :
                      IF v.current_sample + j < v.num_samples
                      THEN SoundsAt(f, start, t + j, ReadAt(f, v, j))
                      ELSE IsOver(start, t + j)
    <2>1. HeadAt(Flat(start), Flat(v), t)
      BY <1>12 DEF OnTime
    <2>2. OnTime(f, start, u, t + n)
      BY <1>10, <2>1 DEF OnTime
    <2>3. ASSUME NEW j \in 0 .. n - 1
          PROVE  IF v.current_sample + j < v.num_samples
                 THEN SoundsAt(f, start, t + j, ReadAt(f, v, j))
                 ELSE IsOver(start, t + j)
      <3>1. CASE v.current_sample + j < v.num_samples
        <4>1. IsSource(start, t + j, v.current_sample + j)
          BY <1>10, <2>1, <3>1
        <4>2. v.current_sample + j \in 0 .. f.num_samples - 1
          BY <1>1, <1>2, <1>5, <3>1
        <4>3. ASSUME NEW c \in Channels(f)
              PROVE  ReadAt(f, v, j)[c] = PlaceOf(f, c, v.current_sample + j)
          <5>1. j \in Nat /\ v.current_sample < f.num_samples
                /\ v.current_sample + j < f.num_samples
            BY <1>1, <1>2, <1>5, <3>1
          <5>2. v.samples_into_block + j < values.samples_this_block
            <6>1. values.samples_this_block \in Nat
              BY <1>1, <1>2, KindsOfBlock
            <6> QED  BY <1>2, <1>5, <6>1
          <5>3. f.frame > 1 => (v.samples_into_block % f.frame) + j < f.frame
            <6>1. f.frame \in Nat /\ f.frame > 0
              BY FileNumbers
            <6>2. v.samples_into_block % f.frame \in Nat
              BY <1>5, <6>1
            <6> QED  BY <1>2, <6>1, <6>2
          <5>4. InPlace(f, v.current_sample, v.samples_into_block, v.ch)
            BY <1>6, <5>1
          <5> QED  BY <1>1, <1>2, <5>1, <5>2, <5>3, <5>4, ReadsPlace
        <4>4. ReadAt(f, v, j) # Blank
          BY <1>1, <1>2, ReadIsSound
        <4>5. SoundsAt(f, start, t + j, ReadAt(f, v, j))
          BY <4>1, <4>2, <4>3, <4>4 DEF SoundsAt
        <4> QED  BY <3>1, <4>5
      <3>2. CASE ~(v.current_sample + j < v.num_samples)
        BY <1>10, <2>1, <3>2
      <3> QED  BY <3>1, <3>2
    <2> QED  BY <2>2, <2>3
  <1> QED  BY <1>4, <1>7, <1>11, <1>12

-----------------------------------------------------------------------------
(* The values at the start of a call and after a jump *)

\* The first blocks are told by the head.
LEMMA InFirstBlock ==
    ASSUME NEW f \in InterleavedFile, NEW v \in InterleavedVgm(f)
    PROVE  InFirst(f, v) = (v.current_sample < FirstLen(f))
  <1>1. v.current_sample \in Nat
    BY DEF InterleavedVgm
  <1> QED  BY <1>1, FileNumbers DEF InFirst, FirstLen

\* A call may start anywhere in a block: the place it has in the block tells
\* that it is the last one.
LEMMA StartValues ==
    ASSUME NEW f \in InterleavedFile, SoundFile(f),
           NEW start, SnapshotOK(f, start), NEW v, HeadFine(f, start, v),
           ~PastEnd(v)
    PROVE  ValuesFine(f, v, UpdateDefaultValues(f, v))
  <1>1. v \in InterleavedVgm(f) /\ v.num_samples = f.num_samples
    BY SameFile
  <1>2. PICK at \in Nat, into \in Nat, num \in Nat, first \in Nat, b \in Nat,
             whole \in Nat :
          /\ at = v.current_sample /\ into = v.samples_into_block
          /\ num = f.num_samples /\ first = FirstLen(f) /\ b = BlockLen(f)
          /\ whole = f.rows * BlockLen(f)
    BY <1>1, FileNumbers DEF InterleavedVgm
  <1>3. at <= num
    BY <1>1, <1>2 DEF PastEnd
  <1>4. InFirst(f, v) = (at < first)
    BY <1>1, <1>2, InFirstBlock
  <1>5. CASE at < first
    BY <1>2, <1>4, <1>5 DEF UpdateDefaultValues, ValuesFine
  <1>6. CASE ~(at < first) /\ ~(HasLast(f) /\ at - into + DefaultSamples(f) > num)
    <2>1. UpdateDefaultValues(f, v) = DefaultValues(f)
      BY <1>1, <1>2, <1>4, <1>6 DEF UpdateDefaultValues
    <2> QED  BY <1>2, <1>6, <2>1 DEF ValuesFine
  <1>7. CASE ~(at < first) /\ HasLast(f) /\ at - into + DefaultSamples(f) > num
    <2>1. UpdateDefaultValues(f, v) = LastValues(f)
      BY <1>1, <1>2, <1>4, <1>7 DEF UpdateDefaultValues
    <2>2. DefaultSamples(f) = b
      BY <1>2, <1>7, FileNumbers DEF HasLast, BlockLen, OrWholeStream
    <2>3. b # 0
      BY <1>2, <1>7, BlocksHoldSamples
    <2>4. first + whole <= num /\ num < first + whole + b
      BY <1>2, <1>7 DEF SoundFile
    <2>5. at >= first + whole
      <3>1. CASE at = num
        BY <2>4, <3>1
      <3>2. CASE at < num
        <4>1. InPlace(f, at, into, v.ch)
          BY <1>1, <1>2, <2>3, <3>2 DEF HeadFine, HeadInPlace
        <4>2. at >= FirstLen(f)
          BY <1>2, <1>7
        <4>3. PICK row \in Nat : InRow(f, at, into, v.ch, row)
          BY <4>1, <4>2, PlaceRow
        <4>4. PICK m \in Nat : m = row * b
          OBVIOUS
        <4>5. at = first + m + into
          BY <1>2, <4>3, <4>4 DEF InRow
        <4>6. first + m + b > num
          BY <1>7, <2>2, <4>5
        <4>7. m + b > whole
          BY <2>4, <4>6
        <4>8. f.rows <= row
          <5>1. SUFFICES ASSUME row + 1 <= f.rows PROVE FALSE
            BY FileNumbers
          <5>2. (row + 1) * b <= f.rows * b
            BY <5>1, FileNumbers, RowsGrow
          <5>3. (row + 1) * b = m + b
            BY <4>4, OneMoreBody
          <5> QED  BY <1>2, <4>7, <5>2, <5>3
        <4>9. f.rows * b <= row * b
          BY <4>8, FileNumbers, RowsGrow
        <4>10. whole <= m
          BY <1>2, <4>4, <4>9
        <4> QED  BY <4>5, <4>10
      <3> QED  BY <1>3, <3>1, <3>2
    <2> QED  BY <1>2, <1>7, <2>1, <2>5 DEF ValuesFine
  <1> QED  BY <1>5, <1>6, <1>7

\* A jump goes back: what is no first block now was none before.
LEMMA JumpValues ==
    ASSUME NEW f \in InterleavedFile, SoundFile(f),
           NEW v0 \in InterleavedVgm(f), NEW v \in InterleavedVgm(f),
           v.current_sample < v0.current_sample, ~PastEnd(v),
           NEW values, ValuesFine(f, v0, values),
           NEW then, then = IF InFirst(f, v) THEN FirstValues(f)
                            ELSE IF HasLast(f) THEN DefaultValues(f)
                            ELSE values
    PROVE  ValuesFine(f, v, then)
  <1>1. InFirst(f, v) = (v.current_sample < FirstLen(f))
    BY InFirstBlock
  <1>2. CASE v.current_sample < FirstLen(f)
    BY <1>1, <1>2 DEF ValuesFine
  <1>3. CASE ~(v.current_sample < FirstLen(f)) /\ HasLast(f)
    BY <1>1, <1>3 DEF ValuesFine
  <1>4. CASE ~(v.current_sample < FirstLen(f)) /\ ~HasLast(f)
    <2>1. ~(v0.current_sample < FirstLen(f))
      BY <1>4, FileNumbers DEF InterleavedVgm
    <2>2. values = DefaultValues(f)
      BY <1>4, <2>1 DEF ValuesFine
    <2> QED  BY <1>1, <1>4, <2>2 DEF ValuesFine
  <1> QED  BY <1>2, <1>3, <1>4

-----------------------------------------------------------------------------
(* A file just opened, or rewound *)

\* At sample 0 the offsets are those of the first blocks that there are.
LEMMA StartPlace ==
    ASSUME NEW f \in InterleavedFile, SoundFile(f), BlockLen(f) # 0,
           NEW ch, \A c \in Channels(f) : ch[c] = ChannelOffset(f, c)
    PROVE  InPlace(f, 0, 0, ch)
  <1>1. CASE 0 < FirstLen(f)
    <2>1. HasFirst(f)
      BY <1>1 DEF FirstLen
    <2>2. ASSUME NEW c \in Channels(f)
          PROVE  ch[c] = FirstBlock(f, c)
      <3>1. c \in Nat
        BY OffsetNumbers
      <3>2. f.interleave_first_block_size + f.interleave_first_skip
              = f.interleave_first_skip + f.interleave_first_block_size
        BY FileNumbers
      <3> QED  BY <2>1, <3>1, <3>2 DEF ChannelOffset, FirstBlock, HasFirst
    <2> QED  BY <1>1, <2>2 DEF InPlace
  <1>2. CASE ~(0 < FirstLen(f))
    <2>1. FirstLen(f) = 0 /\ ~HasFirst(f)
      BY <1>2, FileNumbers DEF FirstLen, SoundFile
    <2>2. f.interleave_first_skip = 0
      BY <2>1 DEF SoundFile
    <2>3. 0 # f.rows
      BY FileNumbers
    <2>4. ASSUME NEW c \in Channels(f)
          PROVE  ch[c] = BlockOf(f, 0, c) + Moved(f, 0)
      <3>1. PICK start \in Nat, block \in Nat, channels \in Nat :
              /\ start = f.start_offset /\ block = f.interleave_block_size
              /\ channels = f.channels
        BY FileNumbers
      <3>2. c \in Nat /\ c < channels
        BY <3>1 DEF Channels
      <3>3. PICK x \in Nat : x = c * block
        BY <3>2
      <3>4. BlockOf(f, 0, c) = start + x
        <4>1. 0 * block * channels = 0
          OBVIOUS
        <4>2. RowStart(f, 0) = start
          BY <2>1, <2>2, <3>1, <4>1 DEF RowStart, FileStart, FirstRowSize
        <4> QED  BY <2>3, <3>1, <3>3, <4>2 DEF BlockOf
      <3>5. Moved(f, 0) = 0
        BY NotMoved
      <3>6. ch[c] = start + x
        <4>1. CASE f.interleave_first_block_size = 0
          BY <3>1, <3>3, <4>1 DEF ChannelOffset
        <4>2. CASE f.interleave_first_block_size # 0
          <5>1. f.channels = 1
            BY <2>1, <4>2, FileNumbers DEF HasFirst
          <5>2. c = 0
            BY <3>1, <3>2, <5>1
          <5>3. x = 0
            BY <3>3, <5>2
          <5>4. 0 * (f.interleave_first_block_size + f.interleave_first_skip) = 0
            BY FileNumbers
          <5> QED  BY <3>1, <4>2, <5>2, <5>3, <5>4 DEF ChannelOffset
        <4> QED  BY <4>1, <4>2
      <3> QED  BY <3>4, <3>5, <3>6
    <2>5. 0 * BlockLen(f) = 0 /\ 0 < BlockLen(f)
      BY FileNumbers
    <2>6. InRow(f, 0, 0, ch, 0)
      BY <2>1, <2>4, <2>5 DEF InRow
    <2> QED  BY <2>1, <2>6 DEF InPlace
  <1> QED  BY <1>1, <1>2

\* What vgmstream_open_stream and the loop target leave is a sound snapshot.
LEMMA OpenSnapshot ==
    ASSUME NEW f \in InterleavedFile, NEW target \in Nat,
           NEW start, start = OpenStream(f, target)
    PROVE  SnapshotOK(f, start)
  <1>1. PICK g : g = [num_samples |-> f.num_samples,
                      loop_start_sample |-> f.loop_start_sample,
                      loop_end_sample |-> f.loop_end_sample,
                      loop_flag |-> f.loop_flag,
                      frame |-> f.frame,
                      codec_data |-> f.codec_data]
    OBVIOUS
  <1>2. g \in FileRecord
    BY <1>1 DEF FileRecord, InterleavedFile
  <1>3. PICK n : n = NewVgmstream(f)
    OBVIOUS
  <1>4. n = NewVgmstream(g)
    BY <1>1, <1>3 DEF NewVgmstream
  <1>5. Openable(n) /\ n.loop_target = 0
    BY <1>2, <1>4, NewIsOpenable
  <1>6. n.num_samples = f.num_samples /\ n.codec_data = f.codec_data
    BY <1>3 DEF NewVgmstream, SetupVgmstream
  <1>7. n.codec_data = FALSE
    BY <1>6 DEF InterleavedFile
  <1>8. PICK offsets, saved : /\ offsets = [c \in Channels(f) |-> ChannelOffset(f, c)]
                              /\ saved = [c \in Channels(f) |-> 0]
    OBVIOUS
  <1>9. offsets \in [Channels(f) -> Int] /\ saved \in [Channels(f) -> Int]
    <2>1. ASSUME NEW c \in Channels(f)
          PROVE  ChannelOffset(f, c) \in Int
      <3>1. PICK size \in Nat : size = IF f.interleave_first_block_size # 0
                                      THEN f.interleave_first_block_size
                                             + f.interleave_first_skip
                                      ELSE f.interleave_block_size
        BY FileNumbers
      <3>2. c * size \in Int /\ f.start_offset \in Int
        BY OffsetNumbers, FileNumbers
      <3> QED  BY <3>1, <3>2 DEF ChannelOffset
    <2> QED  BY <1>8, <2>1
  <1>10. PICK m : m = [n EXCEPT !.ch = offsets, !.loop_ch = saved]
    OBVIOUS
  <1>11. n \in VgmRecord
    BY <1>5 DEF Openable
  <1>12. m \in InterleavedVgm(f)
    BY <1>7, <1>9, <1>10, <1>11 DEF VgmRecord, InterleavedVgm
  <1>13. /\ m.num_samples = n.num_samples
         /\ m.loop_start_sample = n.loop_start_sample
         /\ m.loop_end_sample = n.loop_end_sample
         /\ m.loop_flag = n.loop_flag
         /\ m.loop_target = 0
         /\ m.current_sample = 0
         /\ m.samples_into_block = 0
         /\ m.loop_count = 0
         /\ m.hit_loop = FALSE
         /\ m.ch = offsets
    BY <1>5, <1>10, <1>11 DEF VgmRecord, Openable, Unplayed
  <1>14. SaneLoop(m)
    BY <1>5, <1>13 DEF Openable, SaneLoop
  <1>15. start = IF m.loop_flag THEN [m EXCEPT !.loop_target = target] ELSE m
    <2>1. start = SetLoopTarget(m, target)
      BY <1>3, <1>8, <1>10 DEF OpenStream
    <2>2. PICK x : x = [m EXCEPT !.loop_target = target]
      OBVIOUS
    <2>3. m.loop_flag => ~BadLoop(x)
      <3>1. /\ x.num_samples = m.num_samples
            /\ x.loop_start_sample = m.loop_start_sample
            /\ x.loop_end_sample = m.loop_end_sample
        BY <1>12, <2>2 DEF InterleavedVgm
      <3> QED  BY <1>12, <1>14, <3>1 DEF SaneLoop, BadLoop, InterleavedVgm
    <2>4. m.loop_flag => SetupVgmstream(x) = x
      BY <2>3 DEF SetupVgmstream
    <2> QED  BY <2>1, <2>2, <2>4 DEF SetLoopTarget
  <1>16. start \in InterleavedVgm(f)
    BY <1>12, <1>15 DEF InterleavedVgm
  <1>17. /\ start.num_samples = m.num_samples
         /\ start.loop_start_sample = m.loop_start_sample
         /\ start.loop_end_sample = m.loop_end_sample
         /\ start.loop_flag = m.loop_flag
         /\ start.loop_target = IF m.loop_flag THEN target ELSE 0
    BY <1>12, <1>13, <1>15 DEF InterleavedVgm
  <1>18. /\ start.current_sample = 0
         /\ start.samples_into_block = 0
         /\ start.loop_count = 0
         /\ start.hit_loop = FALSE
         /\ start.ch = offsets
    BY <1>12, <1>13, <1>15 DEF InterleavedVgm
  <1>19. Startable(Flat(start))
    <2>1. PICK w : w = Flat(start)
      OBVIOUS
    <2>10. w \in VgmRecord /\ w.num_samples = start.num_samples
      BY <1>16, <2>1, FlatOf
    <2>2. /\ w.loop_start_sample = start.loop_start_sample
          /\ w.loop_end_sample = start.loop_end_sample
      BY <2>1 DEF Flat, FlatAt
    <2>9. w.loop_target = start.loop_target /\ w.loop_count = start.loop_count
      BY <2>1 DEF Flat, FlatAt
    <2>3. w.loop_flag = start.loop_flag /\ w.hit_loop = start.hit_loop
      BY <2>1 DEF Flat, FlatAt
    <2>4. /\ w.ch = w.current_sample
          /\ w.samples_into_block = w.current_sample
          /\ w.current_sample = SmallerOf(start.current_sample, start.num_samples)
      BY <1>16, <2>1, FlatOf
    <2>5. w.current_sample = 0
      BY <1>16, <1>18, <2>4 DEF SmallerOf, InterleavedVgm
    <2>6. SaneLoop(w)
      BY <1>14, <1>17, <2>2, <2>3, <2>10 DEF SaneLoop
    <2>7. Unplayed(w)
      BY <1>18, <2>3, <2>4, <2>5, <2>9 DEF Unplayed
    <2>8. w.loop_target > 0 => w.loop_flag
      BY <1>17, <2>3, <2>9
    <2> QED  BY <2>1, <2>6, <2>7, <2>8, <2>10 DEF Startable, Openable
  <1>20. \A c \in Channels(f) : start.ch[c] = ChannelOffset(f, c)
    BY <1>8, <1>18
  <1> QED
    BY <1>6, <1>13, <1>16, <1>17, <1>18, <1>19, <1>20 DEF SnapshotOK

\* A head at the start is in its place.
LEMMA FreshHead ==
    ASSUME NEW f \in InterleavedFile, SoundFile(f),
           NEW start, SnapshotOK(f, start),
           NEW v \in InterleavedVgm(f), Flat(v) = Flat(start),
           v.current_sample = 0, v.samples_into_block = 0, v.hit_loop = FALSE,
           v.ch = start.ch
    PROVE  HeadFine(f, start, v) /\ OnTime(f, start, v, 0)
  <1>1. PICK w : w = Flat(start)
    OBVIOUS
  <1>2. Startable(w) /\ w \in VgmRecord /\ Unplayed(w) /\ SameStream(w, w)
    BY <1>1 DEF SnapshotOK, Startable, Openable, SameStream
  <1>3. HeadOK(w, w) /\ HeadAt(w, w, 0)
    BY <1>2, UnplayedHead
  <1>4. ~PastEnd(v)
    BY DEF PastEnd, InterleavedVgm
  <1>5. HeadInPlace(f, v)
    <2>1. CASE BlockLen(f) = 0
      BY <2>1 DEF HeadInPlace
    <2>2. CASE BlockLen(f) # 0
      <3>1. InPlace(f, 0, 0, v.ch)
        BY <2>2, StartPlace DEF SnapshotOK
      <3> QED  BY <2>2, <3>1 DEF HeadInPlace
    <2> QED  BY <2>1, <2>2
  <1> QED  BY <1>1, <1>3, <1>4, <1>5 DEF HeadFine, OnTime

-----------------------------------------------------------------------------
(* The invariant holds at first *)

\* The files are sound.
FilesSound == \A f \in Files : SoundFile(f)

\* Silence is as long as it was asked for.
LEMMA BlanksAre ==
    ASSUME NEW k \in Nat
    PROVE  /\ Blanks(k) \in Seq({Blank})
           /\ Len(Blanks(k)) = k
           /\ \A i \in 1 .. k : Blanks(k)[i] = Blank
  BY DEF Blanks

\* ... and one kind of cell.
LEMMA BlankCells ==
    ASSUME NEW f, NEW k \in Nat
    PROVE  Blanks(k) \in Seq(Cells(f))
  BY DEF Blanks, Cells

\* No buffer is an empty one.
LEMMA NoBufferIsOne ==
    ASSUME NEW f
    PROVE  NoBuffer \in [samples : Nat, pad : Pads \cup {0}, cells : Seq(Cells(f))]
  <1>1. <<>> \in Seq(Cells(f))
    OBVIOUS
  <1> QED  BY <1>1 DEF NoBuffer

\* An opened file is at its first sample, and nothing was rendered.
THEOREM InterleaveInit ==
    ASSUME FilesSound
    PROVE  Init => InterleaveInv
  <1> SUFFICES ASSUME Init PROVE InterleaveInv
    OBVIOUS
  <1>1. PICK target \in LoopTargets : vgm = OpenStream(file, target)
    BY DEF Init
  <1>2. PICK f, start : f = file /\ start = vgm
    OBVIOUS
  <1>3. f \in InterleavedFile /\ SoundFile(f) /\ f \in Files
    BY <1>2, FilesAssumption DEF Init, FilesSound
  <1>4. target \in Nat
    BY LoopTargetsAssumption
  <1>5. SnapshotOK(f, start)
    BY <1>1, <1>2, <1>3, <1>4, OpenSnapshot
  <1>6. HeadFine(f, start, start) /\ OnTime(f, start, start, 0)
    BY <1>3, <1>5, FreshHead DEF SnapshotOK
  <1>7. /\ start_vgmstream = start /\ rendering = FALSE /\ sbuf = NoBuffer
        /\ played = 0 /\ heard = NothingHeard
    BY <1>2 DEF Init
  <1>8. sbuf.samples = 0 /\ sbuf.pad = 0 /\ sbuf.cells = <<>>
    BY <1>7 DEF NoBuffer
  <1>9. BufferFine
    BY <1>7, <1>8, NoBufferIsOne DEF BufferFine
  <1>10. played + Len(sbuf.cells) - sbuf.pad = 0
    BY <1>7, <1>8
  <1>11. PlaceInv
    BY <1>2, <1>3, <1>5, <1>6, <1>7, <1>9, <1>10 DEF PlaceInv
  <1>12. BufferPlaysTheFile
    BY <1>7 DEF BufferPlaysTheFile
  <1>13. PlaysTheFile
    BY <1>7 DEF PlaysTheFile, NothingHeard
  <1> QED  BY <1>11, <1>12, <1>13 DEF InterleaveInv

-----------------------------------------------------------------------------
(* ... and every step keeps it *)

\* What the invariant says when no call is under way.
LEMMA Idle ==
    ASSUME FilesSound, PlaceInv, ~rendering
    PROVE  /\ file \in InterleavedFile
           /\ SoundFile(file)
           /\ sbuf = NoBuffer
           /\ sbuf.samples = 0 /\ sbuf.pad = 0 /\ sbuf.cells = <<>>
           /\ played \in Nat
           /\ OnTime(file, start_vgmstream, vgm, played)
  <1>1. file \in InterleavedFile /\ SoundFile(file)
    BY FilesAssumption DEF PlaceInv, FilesSound
  <1>2. sbuf = NoBuffer /\ played \in Nat
    BY DEF PlaceInv, BufferFine
  <1>3. sbuf.samples = 0 /\ sbuf.pad = 0 /\ sbuf.cells = <<>>
    BY <1>2 DEF NoBuffer
  <1>4. played + Len(sbuf.cells) - sbuf.pad = played
    BY <1>2, <1>3
  <1>5. OnTime(file, start_vgmstream, vgm, played)
    BY <1>4 DEF PlaceInv
  <1> QED  BY <1>1, <1>2, <1>3, <1>5

\* ... and in a call.
LEMMA Busy ==
    ASSUME FilesSound, PlaceInv, rendering
    PROVE  /\ file \in InterleavedFile
           /\ SoundFile(file)
           /\ SnapshotOK(file, start_vgmstream)
           /\ HeadFine(file, start_vgmstream, vgm)
           /\ ValuesFine(file, vgm, cur)
           /\ played \in Nat /\ sbuf.samples \in Nat /\ sbuf.pad \in Nat
           /\ sbuf.cells \in Seq(Cells(file))
           /\ Len(sbuf.cells) \in Nat
           /\ sbuf.pad <= Len(sbuf.cells)
           /\ Len(sbuf.cells) <= sbuf.samples
           /\ OnTime(file, start_vgmstream, vgm,
                     played + Len(sbuf.cells) - sbuf.pad)
           /\ played + Len(sbuf.cells) - sbuf.pad \in Nat
  <1>1. file \in InterleavedFile /\ SoundFile(file)
    BY FilesAssumption DEF PlaceInv, FilesSound
  <1>2. /\ SnapshotOK(file, start_vgmstream)
        /\ HeadFine(file, start_vgmstream, vgm)
        /\ ValuesFine(file, vgm, cur)
        /\ OnTime(file, start_vgmstream, vgm,
                  played + Len(sbuf.cells) - sbuf.pad)
    BY DEF PlaceInv
  <1>3. /\ played \in Nat /\ sbuf.samples \in Nat /\ sbuf.pad \in Pads \cup {0}
        /\ sbuf.cells \in Seq(Cells(file))
        /\ sbuf.pad <= Len(sbuf.cells)
        /\ Len(sbuf.cells) <= sbuf.samples
    BY DEF PlaceInv, BufferFine
  <1>4. sbuf.pad \in Nat
    <2>1. sbuf.pad \in Pads \cup {0}
      BY <1>3
    <2>2. \A pad \in Pads : pad \in Nat
      BY PadsAssumption
    <2>3. PICK pad : pad = sbuf.pad
      OBVIOUS
    <2>4. pad \in Pads \/ pad = 0
      BY <2>1, <2>3
    <2> QED  BY <2>2, <2>3, <2>4
  <1>5. Len(sbuf.cells) \in Nat
    BY <1>3
  <1>6. played + Len(sbuf.cells) - sbuf.pad \in Nat
    BY <1>3, <1>4, <1>5
  <1> QED  BY <1>1, <1>2, <1>3, <1>4, <1>5, <1>6

\* Between calls there is no buffer.
LEMMA IdleBuffer ==
    ASSUME rendering' = FALSE, sbuf' = NoBuffer, played' \in Nat
    PROVE  /\ BufferFine'
           /\ (played + Len(sbuf.cells) - sbuf.pad)' = played'
           /\ BufferPlaysTheFile'
  <1>1. sbuf'.samples = 0 /\ sbuf'.pad = 0 /\ sbuf'.cells = <<>>
    BY DEF NoBuffer
  <1>2. BufferFine'
    BY <1>1, NoBufferIsOne DEF BufferFine
  <1>3. (played + Len(sbuf.cells) - sbuf.pad)' = played'
    BY <1>1
  <1>4. BufferPlaysTheFile'
    BY DEF BufferPlaysTheFile
  <1> QED  BY <1>2, <1>3, <1>4

\* At the end of a stream that does not loop, all that follows is silence.
LEMMA OverFromHere ==
    ASSUME NEW f, NEW start, SnapshotOK(f, start), NEW v, HeadFine(f, start, v),
           ~v.loop_flag, v.current_sample >= v.num_samples,
           NEW t \in Nat, OnTime(f, start, v, t), BlockLen(f) # 0
    PROVE  \A u \in Nat : u >= t => /\ IsOver(start, u)
                                    /\ HeadAt(Flat(start), Flat(v), u)
  <1>1. PICK s, w : s = Flat(start) /\ w = Flat(v)
    OBVIOUS
  <1>2. v \in InterleavedVgm(f)
    BY DEF HeadFine
  <1>3. v.current_sample \in Nat /\ v.num_samples \in Nat
    BY <1>2 DEF InterleavedVgm
  <1>4. ~w.loop_flag /\ w.current_sample >= w.num_samples
    <2>1. w.loop_flag = v.loop_flag
      BY <1>1, <1>2, FlatOf
    <2>2. w.current_sample = SmallerOf(v.current_sample, v.num_samples)
          /\ w.num_samples = v.num_samples
      BY <1>1, <1>2, FlatOf
    <2> QED  BY <1>3, <2>1, <2>2 DEF SmallerOf
  <1>5. Startable(s) /\ HeadOK(s, w) /\ HeadAt(s, w, t)
    BY <1>1 DEF SnapshotOK, HeadFine, OnTime
  <1>6. \A u \in Nat : u >= t => IsOver(s, u) /\ HeadAt(s, w, u)
    BY <1>4, <1>5, StreamIsOver
  <1>7. \A u : IsOver(s, u) = IsOver(start, u)
    BY <1>1, FlatTimeline
  <1> QED  BY <1>1, <1>6, <1>7

\* A call past the end: the head stays there, and all that follows is silence.
LEMMA PastEndKeepsPlace ==
    ASSUME FilesSound, PlaceInv, NEW n \in Sizes, NEW pad \in Pads,
           RenderPastEnd(n, pad)
    PROVE  /\ PlaceInv'
           /\ BufferPlaysTheFile'
           /\ PlaysTheFile'
  <1>1. /\ ~rendering /\ pad < n /\ PastEnd(vgm)
        /\ heard' = Heard(pad, Blanks(n)) /\ played' = played + n - pad
        /\ rendering' = rendering /\ sbuf' = sbuf /\ vgm' = vgm
        /\ UNCHANGED <<file, start_vgmstream>>
    BY DEF RenderPastEnd, Call
  <1>2. n \in Nat /\ pad \in Nat
    BY SizesAssumption, PadsAssumption
  <1>3. PICK f, start, v, t : /\ f = file /\ start = start_vgmstream
                              /\ v = vgm /\ t = played
    OBVIOUS
  <1>4. /\ SoundFile(f) /\ sbuf = NoBuffer /\ t \in Nat
        /\ OnTime(f, start, v, t)
    BY <1>1, <1>3, Idle
  <1>5. SnapshotOK(f, start) /\ HeadFine(f, start, v)
    BY <1>3 DEF PlaceInv
  <1>6. BlockLen(f) # 0 =>
          \A u \in Nat : u >= t => /\ IsOver(start, u)
                                   /\ HeadAt(Flat(start), Flat(v), u)
    <2>1. v \in InterleavedVgm(f) /\ PastEnd(v) /\ ~v.loop_flag
      BY <1>1, <1>3, <1>5 DEF HeadFine
    <2>2. v.current_sample >= v.num_samples
      BY <2>1 DEF PastEnd, InterleavedVgm
    <2> QED  BY <1>4, <1>5, <2>1, <2>2, OverFromHere
  <1>7. t + n - pad \in Nat /\ t + n - pad >= t
    BY <1>1, <1>2, <1>4
  <1>8. OnTime(f, start, v, t + n - pad)
    BY <1>6, <1>7 DEF OnTime
  <1>9. /\ BufferFine'
        /\ (played + Len(sbuf.cells) - sbuf.pad)' = t + n - pad
        /\ BufferPlaysTheFile'
    <2>1. rendering' = FALSE /\ sbuf' = NoBuffer /\ played' \in Nat
          /\ played' = t + n - pad
      <3>1. rendering = FALSE
        BY <1>1 DEF PlaceInv
      <3> QED  BY <1>1, <1>3, <1>4, <1>7, <3>1
    <2> QED  BY <2>1, IdleBuffer
  <1>10. PlaceInv'
    <2>1. file' = f /\ start_vgmstream' = start /\ vgm' = v /\ ~rendering'
      BY <1>1, <1>3
    <2>2. file' \in Files /\ rendering' \in BOOLEAN
      BY <1>1 DEF PlaceInv
    <2>3. OnTime(file, start_vgmstream, vgm,
                 played + Len(sbuf.cells) - sbuf.pad)'
      BY <1>8, <1>9, <2>1
    <2> QED  BY <1>5, <1>9, <2>1, <2>2, <2>3 DEF PlaceInv
  <1>11. PlaysTheFile'
    <2>1. /\ heard'.at = t /\ heard'.pad = pad /\ heard'.cells = Blanks(n)
          /\ Len(Blanks(n)) = n /\ \A i \in 1 .. n : Blanks(n)[i] = Blank
      BY <1>1, <1>2, <1>3, BlanksAre DEF Heard
    <2>2. ASSUME NEW i \in pad + 1 .. n
          PROVE  SoundsAt(f, start, t + i - pad - 1, Blanks(n)[i])
      <3>1. i \in 1 .. n /\ t + i - pad - 1 \in Nat /\ t + i - pad - 1 >= t
        BY <1>2, <1>4
      <3>2. Blanks(n)[i] = Blank
        BY <2>1, <3>1
      <3>3. IsOver(start, t + i - pad - 1) \/ BlockLen(f) = 0
        BY <1>6, <3>1
      <3> QED  BY <3>2, <3>3 DEF SoundsAt
    <2>3. file' = f /\ start_vgmstream' = start
      BY <1>1, <1>3
    <2> QED  BY <2>1, <2>2, <2>3 DEF PlaysTheFile
  <1> QED  BY <1>9, <1>10, <1>11

\* A call starts with the values of the block that the head is in.
LEMMA StartKeepsPlace ==
    ASSUME FilesSound, PlaceInv, NEW n \in Sizes, NEW pad \in Pads,
           StartRender(n, pad)
    PROVE  /\ PlaceInv'
           /\ BufferPlaysTheFile'
           /\ PlaysTheFile'
  <1>1. /\ ~rendering /\ pad < n /\ ~PastEnd(vgm)
        /\ cur' = UpdateDefaultValues(file, vgm)
        /\ sbuf' = [samples |-> n, pad |-> pad, cells |-> Blanks(pad)]
        /\ rendering' = TRUE /\ heard' = NothingHeard
        /\ vgm' = vgm /\ played' = played
        /\ UNCHANGED <<file, start_vgmstream>>
    BY DEF StartRender, Call
  <1>2. n \in Nat /\ pad \in Nat
    BY SizesAssumption, PadsAssumption
  <1>3. PICK f, start, v, t : /\ f = file /\ start = start_vgmstream
                              /\ v = vgm /\ t = played
    OBVIOUS
  <1>4. /\ f \in InterleavedFile /\ SoundFile(f) /\ t \in Nat
        /\ OnTime(f, start, v, t)
    BY <1>1, <1>3, Idle
  <1>5. SnapshotOK(f, start) /\ HeadFine(f, start, v)
    BY <1>3 DEF PlaceInv
  <1>6. ValuesFine(f, v, UpdateDefaultValues(f, v))
    BY <1>1, <1>3, <1>4, <1>5, StartValues
  <1>7. /\ sbuf'.samples = n /\ sbuf'.pad = pad /\ sbuf'.cells = Blanks(pad)
        /\ Len(Blanks(pad)) = pad /\ Blanks(pad) \in Seq(Cells(f))
    BY <1>1, <1>2, BlanksAre, BlankCells
  <1>8. /\ file' = f /\ start_vgmstream' = start /\ vgm' = v /\ played' = t
        /\ cur' = UpdateDefaultValues(f, v)
    BY <1>1, <1>3
  <1>9. BufferFine'
    BY <1>1, <1>2, <1>4, <1>7, <1>8 DEF BufferFine
  <1>10. (played + Len(sbuf.cells) - sbuf.pad)' = t
    BY <1>2, <1>4, <1>7, <1>8
  <1>11. PlaceInv'
    <2>1. file' \in Files /\ rendering' \in BOOLEAN
      BY <1>1 DEF PlaceInv
    <2> QED  BY <1>4, <1>5, <1>6, <1>8, <1>9, <1>10, <2>1 DEF PlaceInv
  <1>12. BufferPlaysTheFile'
    <2>1. Excess(v) = 0
      BY <1>1, <1>3 DEF Excess
    <2>2. (Len(sbuf.cells) - Excess(vgm))' = pad
      BY <1>2, <1>7, <1>8, <2>1
    <2>3. (sbuf.pad + 1 .. Len(sbuf.cells))' = {}
      BY <1>2, <1>7
    <2> QED  BY <1>2, <1>7, <2>2, <2>3 DEF BufferPlaysTheFile
  <1>13. PlaysTheFile'
    BY <1>1 DEF PlaysTheFile, NothingHeard
  <1> QED  BY <1>11, <1>12, <1>13

\* A jump back to the loop start.
LEMMA LoopKeepsPlace ==
    ASSUME FilesSound, PlaceInv, LoopIteration
    PROVE  /\ PlaceInv'
           /\ BufferPlaysTheFile => BufferPlaysTheFile'
           /\ PlaysTheFile => PlaysTheFile'
  <1>1. /\ rendering /\ Looped(vgm) /\ vgm' = LoopCheck(vgm)
        /\ cur' = IF InFirst(file, vgm') THEN FirstValues(file)
                  ELSE IF HasLast(file) THEN DefaultValues(file) ELSE cur
        /\ rendering' = rendering /\ sbuf' = sbuf /\ played' = played
        /\ heard' = heard
        /\ UNCHANGED <<file, start_vgmstream>>
    BY DEF LoopIteration, UpdateLoopValues
  <1>2. PICK f, start, v0, v, t, values, then :
          /\ f = file /\ start = start_vgmstream /\ v0 = vgm
          /\ v = LoopCheck(v0) /\ values = cur
          /\ t = played + Len(sbuf.cells) - sbuf.pad
          /\ then = IF InFirst(f, v) THEN FirstValues(f)
                    ELSE IF HasLast(f) THEN DefaultValues(f) ELSE values
    OBVIOUS
  <1>3. /\ f \in InterleavedFile /\ SoundFile(f) /\ SnapshotOK(f, start)
        /\ HeadFine(f, start, v0) /\ ValuesFine(f, v0, values)
        /\ OnTime(f, start, v0, t) /\ t \in Nat
    BY <1>1, <1>2, Busy
  <1>4. /\ HeadFine(f, start, v)
        /\ ~PastEnd(v0) /\ ~PastEnd(v)
        /\ v.current_sample < v0.current_sample
        /\ OnTime(f, start, v, t)
    BY <1>1, <1>2, <1>3, JumpFine
  <1>5. ValuesFine(f, v, then)
    BY <1>2, <1>3, <1>4, JumpValues DEF HeadFine
  <1>6. /\ file' = f /\ start_vgmstream' = start /\ vgm' = v /\ cur' = then
        /\ (played + Len(sbuf.cells) - sbuf.pad)' = t
    BY <1>1, <1>2
  <1>7. BufferFine'
    BY <1>1 DEF PlaceInv, BufferFine
  <1>8. PlaceInv'
    <2>1. file' \in Files /\ rendering' \in BOOLEAN
      BY <1>1 DEF PlaceInv
    <2> QED  BY <1>3, <1>4, <1>5, <1>6, <1>7, <2>1 DEF PlaceInv
  <1>9. BufferPlaysTheFile => BufferPlaysTheFile'
    <2>1. Excess(vgm') = Excess(vgm)
      BY <1>2, <1>4, <1>6 DEF Excess
    <2> QED  BY <1>1, <2>1 DEF BufferPlaysTheFile
  <1>10. PlaysTheFile => PlaysTheFile'
    BY <1>1 DEF PlaysTheFile
  <1> QED  BY <1>8, <1>9, <1>10

\* A rewind.
LEMMA ResetKeepsPlace ==
    ASSUME FilesSound, PlaceInv, Reset
    PROVE  /\ PlaceInv'
           /\ BufferPlaysTheFile'
           /\ PlaysTheFile'
  <1>1. /\ ~rendering /\ vgm' = ResetVgmstream(vgm, start_vgmstream)
        /\ played' = 0 /\ heard' = NothingHeard
        /\ rendering' = rendering /\ sbuf' = sbuf
        /\ UNCHANGED <<file, start_vgmstream>>
    BY DEF Reset
  <1>2. PICK f, start, v0, v :
          /\ f = file /\ start = start_vgmstream /\ v0 = vgm
          /\ v = ResetVgmstream(v0, start)
    OBVIOUS
  <1>3. /\ f \in InterleavedFile /\ SoundFile(f) /\ sbuf = NoBuffer
    BY <1>1, <1>2, Idle
  <1>4. SnapshotOK(f, start) /\ HeadFine(f, start, v0)
    BY <1>2 DEF PlaceInv
  <1>5. v = [start EXCEPT !.loop_ch = v0.loop_ch]
    BY <1>2 DEF ResetVgmstream
  <1>6. start \in InterleavedVgm(f) /\ v0.loop_ch \in [Channels(f) -> Int]
    BY <1>4 DEF SnapshotOK, HeadFine, InterleavedVgm
  <1>7. v \in InterleavedVgm(f)
    BY <1>5, <1>6 DEF InterleavedVgm
  <1>8. Flat(v) = Flat(start)
    <2>1. /\ v.num_samples = start.num_samples
          /\ v.loop_start_sample = start.loop_start_sample
          /\ v.loop_end_sample = start.loop_end_sample
          /\ v.loop_flag = start.loop_flag
          /\ v.frame = start.frame
          /\ v.loop_target = start.loop_target
          /\ v.loop_count = start.loop_count
          /\ v.hit_loop = start.hit_loop
          /\ v.loop_current_sample = start.loop_current_sample
          /\ v.current_sample = start.current_sample
      BY <1>5, <1>6 DEF InterleavedVgm
    <2> QED  BY <2>1 DEF Flat, FlatAt
  <1>9. /\ v.current_sample = 0 /\ v.samples_into_block = 0
        /\ v.hit_loop = FALSE /\ v.ch = start.ch
    BY <1>4, <1>5, <1>6 DEF InterleavedVgm, SnapshotOK
  <1>10. HeadFine(f, start, v) /\ OnTime(f, start, v, 0)
    BY <1>3, <1>4, <1>7, <1>8, <1>9, FreshHead
  <1>11. rendering' = FALSE
    BY <1>1 DEF PlaceInv
  <1>12. /\ BufferFine'
         /\ (played + Len(sbuf.cells) - sbuf.pad)' = 0
         /\ BufferPlaysTheFile'
    BY <1>1, <1>3, <1>11, IdleBuffer
  <1>13. PlaceInv'
    <2>1. file' = f /\ start_vgmstream' = start /\ vgm' = v
      BY <1>1, <1>2
    <2>2. file' \in Files /\ rendering' \in BOOLEAN
      BY <1>1 DEF PlaceInv
    <2> QED  BY <1>4, <1>10, <1>11, <1>12, <2>1, <2>2 DEF PlaceInv
  <1>14. PlaysTheFile'
    BY <1>1 DEF PlaysTheFile, NothingHeard
  <1> QED  BY <1>12, <1>13, <1>14

\* A step that changes nothing.
LEMMA StutterKeepsPlace ==
    ASSUME UNCHANGED vars
    PROVE  /\ PlaceInv => PlaceInv'
           /\ BufferPlaysTheFile => BufferPlaysTheFile'
           /\ PlaysTheFile => PlaysTheFile'
  <1>1. /\ file' = file /\ vgm' = vgm /\ start_vgmstream' = start_vgmstream
        /\ cur' = cur /\ rendering' = rendering /\ sbuf' = sbuf
        /\ played' = played /\ heard' = heard
    BY DEF vars
  <1>2. PlaceInv => PlaceInv'
    BY <1>1 DEF PlaceInv, BufferFine
  <1>3. BufferPlaysTheFile => BufferPlaysTheFile'
    BY <1>1 DEF BufferPlaysTheFile
  <1> QED  BY <1>1, <1>2, <1>3 DEF PlaysTheFile

\* What an iteration that does not jump finds after the loop check.
LEMMA IterationFine ==
    ASSUME FilesSound, PlaceInv, rendering, Room > 0, ~Looped(vgm),
           NEW v, v = LoopCheck(vgm), NEW n, n = SamplesToDo(v),
           NEW t, t = played + Len(sbuf.cells) - sbuf.pad
    PROVE  /\ HeadFine(file, start_vgmstream, v)
           /\ BeforeLoopPoint(Flat(v))
           /\ v.current_sample = vgm.current_sample
           /\ v.num_samples = vgm.num_samples
           /\ v \in InterleavedVgm(file)
           /\ ValuesFine(file, v, cur)
           /\ t \in Nat
           /\ OnTime(file, start_vgmstream, v, t)
           /\ n \in Int /\ n <= Room
           /\ n > 0 =>
                /\ BlockLen(file) > 0
                /\ Decodes(file, v, cur, n)
                /\ v.loop_flag /\ ~v.hit_loop =>
                     n <= v.loop_start_sample - v.current_sample
                /\ v.loop_flag /\ v.hit_loop =>
                     n <= v.loop_end_sample - v.current_sample
           /\ n <= 0 => \/ BlockLen(file) = 0
                        \/ ~v.loop_flag /\ v.current_sample = v.num_samples
  <1>1. PICK f, start, v0, values, room :
          /\ f = file /\ start = start_vgmstream /\ v0 = vgm /\ values = cur
          /\ room = Room
    OBVIOUS
  <1>2. /\ f \in InterleavedFile /\ SoundFile(f) /\ SnapshotOK(f, start)
        /\ HeadFine(f, start, v0) /\ ValuesFine(f, v0, values)
        /\ OnTime(f, start, v0, t) /\ t \in Nat
    BY <1>1, Busy
  <1>3. room \in Nat /\ room > 0
    BY <1>1, Busy DEF Room
  <1>4. /\ HeadFine(f, start, v)
        /\ BeforeLoopPoint(Flat(v))
        /\ v.current_sample = v0.current_sample
        /\ v.num_samples = v0.num_samples
        /\ ValuesFine(f, v, values)
        /\ OnTime(f, start, v, t)
    BY <1>1, <1>2, CheckedFine
  <1>5. n = SmallerOf(DecodeGetSamplesToDo(v, values.samples_this_block,
                                           values.samples_per_frame), room)
    BY <1>1 DEF SamplesToDo
  <1>6. /\ n \in Int /\ n <= room
        /\ n > 0 =>
             /\ BlockLen(f) > 0
             /\ Decodes(f, v, values, n)
             /\ v.loop_flag /\ ~v.hit_loop =>
                  n <= v.loop_start_sample - v.current_sample
             /\ v.loop_flag /\ v.hit_loop =>
                  n <= v.loop_end_sample - v.current_sample
        /\ n <= 0 => \/ BlockLen(f) = 0
                     \/ ~v.loop_flag /\ v.current_sample = v.num_samples
    BY <1>2, <1>3, <1>4, <1>5, CallFine
  <1>7. v \in InterleavedVgm(f)
    BY <1>4 DEF HeadFine
  <1> QED  BY <1>1, <1>2, <1>4, <1>6, <1>7

\* The cells of an iteration that decodes.
LEMMA CellsDecoded ==
    ASSUME NEW f \in InterleavedFile, NEW v \in InterleavedVgm(f),
           NEW cells \in Seq(Cells(f)), NEW n \in Nat,
           NEW then, then = cells \o [j \in 1 .. n |-> ReadAt(f, v, j - 1)]
    PROVE  /\ then \in Seq(Cells(f))
           /\ Len(then) = Len(cells) + n
           /\ \A i \in 1 .. Len(cells) : then[i] = cells[i]
           /\ \A i \in Len(cells) + 1 .. Len(cells) + n :
                then[i] = ReadAt(f, v, i - Len(cells) - 1)
  <1>1. PICK new : new = [j \in 1 .. n |-> ReadAt(f, v, j - 1)]
    OBVIOUS
  <1>2. \A j \in 1 .. n : ReadAt(f, v, j - 1) \in Cells(f)
    <2>1. ASSUME NEW j \in 1 .. n
          PROVE  ReadAt(f, v, j - 1) \in Cells(f)
      <3>1. j - 1 \in Nat
        OBVIOUS
      <3> QED  BY <3>1, ReadIsSound
    <2> QED  BY <2>1
  <1>3. new \in Seq(Cells(f)) /\ Len(new) = n
    BY <1>1, <1>2
  <1>4. then = cells \o new
    BY <1>1
  <1>8. PICK C : C = Cells(f)
    OBVIOUS
  <1>5. then \in Seq(Cells(f)) /\ Len(then) = Len(cells) + n
    <2>1. cells \in Seq(C) /\ new \in Seq(C)
      BY <1>3, <1>8
    <2>2. cells \o new \in Seq(C)
      BY <2>1
    <2>3. Len(cells \o new) = Len(cells) + Len(new)
      BY <2>1
    <2> QED  BY <1>3, <1>4, <1>8, <2>2, <2>3
  <1>6. \A i \in 1 .. Len(cells) : then[i] = cells[i]
    BY <1>3, <1>4
  <1>7. \A i \in Len(cells) + 1 .. Len(cells) + n :
          then[i] = ReadAt(f, v, i - Len(cells) - 1)
    <2>1. ASSUME NEW i \in Len(cells) + 1 .. Len(cells) + n
          PROVE  then[i] = ReadAt(f, v, i - Len(cells) - 1)
      <3>1. i - Len(cells) \in 1 .. n
        OBVIOUS
      <3>2. then[i] = new[i - Len(cells)]
        <4>1. cells \in Seq(C) /\ new \in Seq(C)
          BY <1>3, <1>8
        <4>2. PICK a \in Nat, b \in Nat : a = Len(cells) /\ b = Len(new)
          BY <4>1
        <4>3. i \in a + 1 .. a + b
          BY <1>3, <4>2
        <4>4. (cells \o new)[i] = new[i - a]
          BY <4>1, <4>2, <4>3
        <4> QED  BY <1>4, <4>2, <4>4
      <3> QED  BY <1>1, <3>1, <3>2
    <2> QED  BY <2>1
  <1> QED  BY <1>5, <1>6, <1>7

\* What an iteration that decodes does, in terms of the lemmas on it.
LEMMA DecodeStep ==
    ASSUME FilesSound, PlaceInv, DecodeIteration
    PROVE  \E v \in InterleavedVgm(file), n \in Nat :
              /\ v = LoopCheck(vgm) /\ n = SamplesToDo(v)
              /\ rendering /\ Room > 0 /\ ~Looped(vgm)
              /\ n > 0 /\ n <= Room
              /\ vgm' = After(file, v, cur, n)
              /\ cur' = ValuesThen(file, v, cur, n)
              /\ sbuf' = [sbuf EXCEPT
                            !.cells = @ \o [j \in 1 .. n |->
                                              ReadAt(file, v, j - 1)]]
              /\ UNCHANGED <<file, start_vgmstream, rendering, played, heard>>
  <1>1. PICK v, n : v = LoopCheck(vgm) /\ n = SamplesToDo(v)
    OBVIOUS
  <1>2. rendering /\ Room > 0 /\ ~Looped(vgm)
    BY DEF DecodeIteration
  <1>3. n > 0 /\ vgm' = After(file, v, cur, n)
    BY <1>1 DEF DecodeIteration, After
  <1>4. cur' = ValuesThen(file, v, cur, n)
    BY <1>1 DEF DecodeIteration, ValuesThen
  <1>5. /\ sbuf' = [sbuf EXCEPT
                      !.cells = @ \o [j \in 1 .. n |-> ReadAt(file, v, j - 1)]]
        /\ UNCHANGED <<file, start_vgmstream, rendering, played, heard>>
    BY <1>1 DEF DecodeIteration
  <1>6. v \in InterleavedVgm(file) /\ n \in Int /\ n <= Room
    <2>1. PICK t : t = played + Len(sbuf.cells) - sbuf.pad
      OBVIOUS
    <2> QED  BY <1>1, <1>2, <2>1, IterationFine
  <1>7. n \in Nat
    BY <1>3, <1>6
  <1> QED  BY <1>1, <1>2, <1>3, <1>4, <1>5, <1>6, <1>7

\* Decoding past the end adds to the excess only.
LEMMA ExcessGrows ==
    ASSUME NEW v, NEW u, NEW n \in Nat, NEW size \in Nat,
           v.current_sample \in Nat, v.num_samples \in Nat,
           u.current_sample = v.current_sample + n,
           u.num_samples = v.num_samples,
           NEW a, a = Excess(v), NEW b, b = Excess(u)
    PROVE  /\ a \in Nat /\ b \in Nat /\ a <= b /\ b <= a + n
           /\ \A i \in 1 .. size : i <= size + n - b <=> i <= size - a
           /\ \A j \in 0 .. n - 1 :
                j + 1 <= n - b <=> v.current_sample + j < v.num_samples
  <1>1. PICK at \in Nat, num \in Nat :
          at = v.current_sample /\ num = v.num_samples
    OBVIOUS
  <1>2. Excess(v) = IF at > num THEN at - num ELSE 0
    BY <1>1 DEF Excess, PastEnd
  <1>3. Excess(u) = IF at + n > num THEN at + n - num ELSE 0
    BY <1>1 DEF Excess, PastEnd
  <1>4. a \in Nat /\ b \in Nat /\ a <= b /\ b <= a + n
    BY <1>2, <1>3
  <1>5. \A i \in 1 .. size : i <= size + n - b <=> i <= size - a
    BY <1>2, <1>3
  <1>6. \A j \in 0 .. n - 1 : j + 1 <= n - b <=> at + j < num
    BY <1>2, <1>3
  <1> QED  BY <1>1, <1>4, <1>5, <1>6

\* An iteration that decodes.
LEMMA DecodeKeepsPlace ==
    ASSUME FilesSound, PlaceInv, DecodeIteration
    PROVE  /\ PlaceInv'
           /\ BufferPlaysTheFile => BufferPlaysTheFile'
           /\ PlaysTheFile => PlaysTheFile'
  <1>1. PICK v \in InterleavedVgm(file), n \in Nat :
              /\ v = LoopCheck(vgm) /\ n = SamplesToDo(v)
              /\ rendering /\ Room > 0 /\ ~Looped(vgm)
              /\ n > 0 /\ n <= Room
              /\ vgm' = After(file, v, cur, n)
              /\ cur' = ValuesThen(file, v, cur, n)
              /\ sbuf' = [sbuf EXCEPT
                            !.cells = @ \o [j \in 1 .. n |->
                                              ReadAt(file, v, j - 1)]]
              /\ UNCHANGED <<file, start_vgmstream, rendering, played, heard>>
    BY DecodeStep
  <1>2. PICK f, start, values, u, cells, size, pad, t :
          /\ f = file /\ start = start_vgmstream /\ values = cur
          /\ u = After(f, v, values, n)
          /\ cells = sbuf.cells /\ size = Len(cells) /\ pad = sbuf.pad
          /\ t = played + Len(sbuf.cells) - sbuf.pad
    OBVIOUS
  <1>3. /\ f \in InterleavedFile /\ SoundFile(f) /\ SnapshotOK(f, start)
        /\ played \in Nat /\ sbuf.samples \in Nat /\ pad \in Nat
        /\ cells \in Seq(Cells(f)) /\ size \in Nat
        /\ pad <= size /\ size <= sbuf.samples
    BY <1>1, <1>2, Busy
  <1>4. /\ HeadFine(f, start, v) /\ BeforeLoopPoint(Flat(v))
        /\ v.current_sample = vgm.current_sample
        /\ v.num_samples = vgm.num_samples
        /\ t \in Nat /\ OnTime(f, start, v, t)
        /\ BlockLen(f) > 0 /\ Decodes(f, v, values, n)
        /\ v.loop_flag /\ ~v.hit_loop =>
             n <= v.loop_start_sample - v.current_sample
        /\ v.loop_flag /\ v.hit_loop =>
             n <= v.loop_end_sample - v.current_sample
    BY <1>1, <1>2, IterationFine
  <1>5. /\ HeadFine(f, start, u)
        /\ ValuesFine(f, u, ValuesThen(f, v, values, n))
        /\ u.current_sample = v.current_sample + n
        /\ u.num_samples = v.num_samples
        /\ OnTime(f, start, u, t + n)
        /\ \A j \in 0 .. n - 1 :
             IF v.current_sample + j < v.num_samples
             THEN SoundsAt(f, start, t + j, ReadAt(f, v, j))
             ELSE IsOver(start, t + j)
    <2>1. /\ HeadFine(f, start, u)
          /\ ValuesFine(f, u, ValuesThen(f, v, values, n))
          /\ u.current_sample = v.current_sample + n
          /\ u.num_samples = v.num_samples
          /\ \A at \in Nat : OnTime(f, start, v, at) =>
                /\ OnTime(f, start, u, at + n)
                /\ \A j \in 0 .. n - 1 :
                     IF v.current_sample + j < v.num_samples
                     THEN SoundsAt(f, start, at + j, ReadAt(f, v, j))
                     ELSE IsOver(start, at + j)
      <3>1. u = After(f, v, values, n)
        BY <1>2
      <3> QED  BY <1>3, <1>4, <3>1, DecodeFine
    <2> QED  BY <1>4, <2>1
  <1>6. PICK then : then = cells \o [j \in 1 .. n |-> ReadAt(f, v, j - 1)]
    OBVIOUS
  <1>7. /\ then \in Seq(Cells(f)) /\ Len(then) = size + n
        /\ \A i \in 1 .. size : then[i] = cells[i]
        /\ \A i \in size + 1 .. size + n : then[i] = ReadAt(f, v, i - size - 1)
    <2>1. v \in InterleavedVgm(f) /\ size = Len(cells) /\ n \in Nat
      BY <1>1, <1>2
    <2>2. /\ then \in Seq(Cells(f)) /\ Len(then) = Len(cells) + n
          /\ \A i \in 1 .. Len(cells) : then[i] = cells[i]
          /\ \A i \in Len(cells) + 1 .. Len(cells) + n :
               then[i] = ReadAt(f, v, i - Len(cells) - 1)
      <3>1. cells \in Seq(Cells(f)) /\ f \in InterleavedFile
        BY <1>3
      <3>2. then \in Seq(Cells(f)) /\ Len(then) = Len(cells) + n
        <4>1. then \in Seq(Cells(f))
          BY <1>6, <2>1, <3>1, CellsDecoded
        <4>2. Len(then) = Len(cells) + n
          BY <1>6, <2>1, <3>1, CellsDecoded
        <4> QED  BY <4>1, <4>2
      <3>3. \A i \in 1 .. Len(cells) : then[i] = cells[i]
        BY <1>6, <2>1, <3>1, CellsDecoded
      <3>4. \A i \in Len(cells) + 1 .. Len(cells) + n :
              then[i] = ReadAt(f, v, i - Len(cells) - 1)
        BY <1>6, <2>1, <3>1, CellsDecoded
      <3> QED  BY <3>2, <3>3, <3>4
    <2> QED  BY <2>1, <2>2
  <1>8. PICK s : s = sbuf
    OBVIOUS
  <1>9. s \in [samples : Nat, pad : Pads \cup {0}, cells : Seq(Cells(f))]
    BY <1>2, <1>8 DEF PlaceInv, BufferFine
  <1>10. sbuf' = [s EXCEPT !.cells = then]
    BY <1>1, <1>2, <1>6, <1>8
  <1>11. /\ sbuf' \in [samples : Nat, pad : Pads \cup {0}, cells : Seq(Cells(f))]
         /\ sbuf'.samples = s.samples /\ sbuf'.pad = s.pad /\ sbuf'.cells = then
    BY <1>7, <1>9, <1>10
  <1>12. size + n <= sbuf.samples
    BY <1>1, <1>2, <1>3 DEF Room
  <1>13. /\ file' = f /\ start_vgmstream' = start /\ vgm' = u
         /\ cur' = ValuesThen(f, v, values, n) /\ played' = played
         /\ rendering' = rendering /\ rendering /\ heard' = heard
    BY <1>1, <1>2
  <1>14. BufferFine'
    BY <1>2, <1>3, <1>7, <1>8, <1>11, <1>12, <1>13 DEF BufferFine
  <1>15. (played + Len(sbuf.cells) - sbuf.pad)' = t + n
    <2>1. t = played + size - pad
      BY <1>2
    <2>2. sbuf'.pad = pad /\ Len(sbuf'.cells) = size + n /\ played' = played
      BY <1>2, <1>7, <1>8, <1>11, <1>13
    <2>3. played + (size + n) - pad = t + n
      BY <1>3, <2>1
    <2> QED  BY <2>2, <2>3
  <1>16. PlaceInv'
    <2>1. file' \in Files /\ rendering' \in BOOLEAN
      BY <1>1 DEF PlaceInv
    <2> QED  BY <1>3, <1>5, <1>13, <1>14, <1>15, <2>1 DEF PlaceInv
  <1>17. ASSUME BufferPlaysTheFile PROVE BufferPlaysTheFile'
    <2>1. PICK a, b : a = Excess(v) /\ b = Excess(u)
      OBVIOUS
    <2>2. v.current_sample \in Nat /\ v.num_samples \in Nat
      BY DEF InterleavedVgm
    <2>3. a = Excess(vgm)
      BY <1>4, <2>1 DEF Excess, PastEnd
    <2>4. /\ a \in Nat /\ b \in Nat /\ a <= b /\ b <= a + n
          /\ \A i \in 1 .. size : i <= size + n - b <=> i <= size - a
          /\ \A j \in 0 .. n - 1 :
               j + 1 <= n - b <=> v.current_sample + j < v.num_samples
      <3>1. /\ n \in Nat /\ size \in Nat
            /\ u.current_sample = v.current_sample + n
            /\ u.num_samples = v.num_samples
        BY <1>3, <1>5
      <3> QED  BY <2>1, <2>2, <3>1, ExcessGrows
    <2>5. PICK kept \in Int, next \in Int :
            kept = size - a /\ next = size + n - b /\ next >= kept
      BY <1>3, <2>4
    <2>6. /\ kept >= pad
          /\ \A i \in pad + 1 .. size :
               LET at == played + i - pad - 1
               IN  IF i <= kept THEN SoundsAt(f, start, at, cells[i])
                   ELSE IsOver(start, at)
      <3>1. kept = Len(sbuf.cells) - Excess(vgm)
        BY <1>2, <2>3, <2>5
      <3> QED  BY <1>1, <1>2, <1>17, <3>1 DEF BufferPlaysTheFile
    <2>7. ASSUME NEW i \in pad + 1 .. size + n,
                 NEW at, at = played + i - pad - 1
          PROVE  IF i <= next THEN SoundsAt(f, start, at, then[i])
                 ELSE IsOver(start, at)
      <3>1. CASE i <= size
        <4>1. i \in 1 .. size /\ i \in pad + 1 .. size
          BY <1>3, <3>1
        <4>2. IF i <= kept THEN SoundsAt(f, start, at, cells[i])
              ELSE IsOver(start, at)
          BY <2>6, <2>7, <4>1
        <4>3. i <= next <=> i <= kept
          BY <2>4, <2>5, <4>1
        <4> QED  BY <1>7, <4>1, <4>2, <4>3
      <3>2. CASE i > size
        <4>1. PICK j \in 0 .. n - 1 : i = size + j + 1
          <5>1. i - size - 1 \in 0 .. n - 1 /\ i = size + (i - size - 1) + 1
            BY <1>3, <3>2
          <5> QED  BY <5>1
        <4>2. at = t + j
          <5>1. t = played + size - pad
            BY <1>2
          <5> QED  BY <1>3, <2>7, <4>1, <5>1
        <4>3. then[i] = ReadAt(f, v, j)
          <5>1. i \in size + 1 .. size + n /\ i - size - 1 = j
            BY <1>3, <4>1
          <5> QED  BY <1>7, <5>1
        <4>4. IF v.current_sample + j < v.num_samples
              THEN SoundsAt(f, start, at, then[i])
              ELSE IsOver(start, at)
          BY <1>5, <4>2, <4>3
        <4>5. i <= next <=> v.current_sample + j < v.num_samples
          <5>1. j + 1 <= n - b <=> v.current_sample + j < v.num_samples
            BY <2>4, <4>1
          <5> QED  BY <1>3, <2>4, <2>5, <4>1, <5>1
        <4> QED  BY <4>4, <4>5
      <3> QED  BY <1>3, <3>1, <3>2
    <2>8. (Len(sbuf.cells) - Excess(vgm))' = next
      <3>1. Len(sbuf.cells)' = size + n
        BY <1>7, <1>11
      <3>2. Excess(vgm)' = Excess(u)
        BY <1>13
      <3> QED  BY <1>3, <2>1, <2>4, <2>5, <3>1, <3>2
    <2>9. /\ sbuf'.cells = then /\ sbuf'.pad = pad /\ Len(then) = size + n
          /\ file' = f /\ start_vgmstream' = start /\ played' = played
      BY <1>2, <1>7, <1>8, <1>11, <1>13
    <2>10. next >= pad
      BY <1>3, <2>5, <2>6
    <2> QED  BY <2>7, <2>8, <2>9, <2>10 DEF BufferPlaysTheFile
  <1>18. PlaysTheFile => PlaysTheFile'
    BY <1>13, <1>2 DEF PlaysTheFile
  <1> QED  BY <1>16, <1>17, <1>18

\* Blocks without samples, or the end inside a block: the rest of the call is
\* silence, and so is what comes after it.
LEMMA ErrorKeepsPlace ==
    ASSUME FilesSound, PlaceInv, ErrorIteration
    PROVE  /\ PlaceInv'
           /\ BufferPlaysTheFile'
           /\ BufferPlaysTheFile => PlaysTheFile'
  <1>1. /\ rendering /\ Room > 0 /\ ~Looped(vgm)
        /\ SamplesToDo(LoopCheck(vgm)) <= 0
        /\ vgm' = LoopCheck(vgm)
        /\ heard' = Heard(sbuf.pad, sbuf.cells \o Blanks(Room))
        /\ played' = played + sbuf.samples - sbuf.pad
        /\ rendering' = FALSE /\ sbuf' = NoBuffer
        /\ UNCHANGED <<file, start_vgmstream>>
    BY DEF ErrorIteration, Return
  <1>2. PICK f, start, v, n, cells, size, pad, t, room :
          /\ f = file /\ start = start_vgmstream
          /\ v = LoopCheck(vgm) /\ n = SamplesToDo(v)
          /\ cells = sbuf.cells /\ size = Len(cells) /\ pad = sbuf.pad
          /\ t = played + Len(sbuf.cells) - sbuf.pad /\ room = Room
    OBVIOUS
  <1>3. /\ f \in InterleavedFile /\ SoundFile(f) /\ SnapshotOK(f, start)
        /\ played \in Nat /\ sbuf.samples \in Nat /\ pad \in Nat
        /\ cells \in Seq(Cells(f)) /\ size \in Nat
        /\ pad <= size /\ size <= sbuf.samples
    BY <1>1, <1>2, Busy
  <1>4. /\ room \in Nat /\ room = sbuf.samples - size
        /\ t = played + size - pad
    BY <1>2, <1>3 DEF Room
  <1>5. /\ HeadFine(f, start, v)
        /\ v.current_sample = vgm.current_sample
        /\ v.num_samples = vgm.num_samples
        /\ v \in InterleavedVgm(f)
        /\ t \in Nat /\ OnTime(f, start, v, t)
        /\ \/ BlockLen(f) = 0
           \/ ~v.loop_flag /\ v.current_sample = v.num_samples
    BY <1>1, <1>2, IterationFine
  <1>6. v.current_sample \in Nat /\ v.num_samples \in Nat
    BY <1>5 DEF InterleavedVgm
  <1>7. BlockLen(f) # 0 =>
          \A u \in Nat : u >= t => /\ IsOver(start, u)
                                   /\ HeadAt(Flat(start), Flat(v), u)
    BY <1>3, <1>5, <1>6, OverFromHere
  <1>8. t + room \in Nat /\ t + room >= t /\ played' = t + room
    <2>1. played' = played + sbuf.samples - pad
      BY <1>1, <1>2
    <2>2. played + sbuf.samples - pad = t + room
      BY <1>3, <1>4
    <2> QED  BY <1>4, <1>5, <2>1, <2>2
  <1>9. OnTime(f, start, v, t + room)
    BY <1>7, <1>8 DEF OnTime
  <1>10. /\ BufferFine'
         /\ (played + Len(sbuf.cells) - sbuf.pad)' = t + room
         /\ BufferPlaysTheFile'
    BY <1>1, <1>8, IdleBuffer
  <1>11. file' = f /\ start_vgmstream' = start /\ vgm' = v /\ rendering' = FALSE
    BY <1>1, <1>2
  <1>12. PlaceInv'
    <2>1. file' \in Files
      BY <1>1 DEF PlaceInv
    <2>2. OnTime(file, start_vgmstream, vgm,
                 played + Len(sbuf.cells) - sbuf.pad)'
      BY <1>9, <1>10, <1>11
    <2> QED  BY <1>3, <1>5, <1>10, <1>11, <2>1, <2>2 DEF PlaceInv
  <1>13. ASSUME BufferPlaysTheFile PROVE PlaysTheFile'
    <2>1. Excess(vgm) = 0
      <3>1. v.current_sample = 0 \/ v.current_sample = v.num_samples
        BY <1>5 DEF HeadFine, HeadInPlace
      <3>2. ~(v.current_sample > v.num_samples)
        BY <1>6, <3>1
      <3> QED  BY <1>5, <3>2 DEF Excess, PastEnd
    <2>2. \A i \in pad + 1 .. size :
            LET at == played + i - pad - 1
            IN  SoundsAt(f, start, at, cells[i])
      <3>1. Len(sbuf.cells) - Excess(vgm) = size
        BY <1>2, <1>3, <2>1
      <3>2. \A i \in pad + 1 .. size : i <= size
        BY <1>3
      <3> QED  BY <1>1, <1>2, <1>13, <3>1, <3>2 DEF BufferPlaysTheFile
    <2>3. PICK blanks, then : blanks = Blanks(room) /\ then = cells \o blanks
      OBVIOUS
    <2>4. /\ blanks \in Seq(Cells(f)) /\ Len(blanks) = room
          /\ \A i \in 1 .. room : blanks[i] = Blank
      BY <1>4, <2>3, BlanksAre, BlankCells
    <2>5. PICK C : C = Cells(f)
      OBVIOUS
    <2>6. cells \in Seq(C) /\ blanks \in Seq(C)
      BY <1>3, <2>4, <2>5
    <2>7. Len(then) = size + room
      BY <1>2, <2>3, <2>4, <2>6
    <2>8. ASSUME NEW i \in pad + 1 .. size + room
          PROVE  SoundsAt(f, start, played + i - pad - 1, then[i])
      <3>1. CASE i <= size
        <4>1. i \in 1 .. size /\ i \in pad + 1 .. size
          BY <1>3, <3>1
        <4>2. then[i] = cells[i]
          BY <1>2, <2>3, <2>6, <4>1
        <4> QED  BY <2>2, <4>1, <4>2
      <3>2. CASE i > size
        <4>1. i - size \in 1 .. room /\ i \in size + 1 .. size + room
          BY <1>3, <1>4, <3>2
        <4>2. then[i] = blanks[i - size]
          BY <1>2, <2>3, <2>4, <2>6, <4>1
        <4>3. then[i] = Blank
          BY <2>4, <4>1, <4>2
        <4>4. PICK u \in Nat : u = played + i - pad - 1 /\ u >= t
          <5>1. played + i - pad - 1 \in Nat /\ played + i - pad - 1 >= t
            BY <1>3, <1>4, <3>2
          <5> QED  BY <5>1
        <4>5. IsOver(start, u) \/ BlockLen(f) = 0
          BY <1>7, <4>4
        <4> QED  BY <4>3, <4>4, <4>5 DEF SoundsAt
      <3> QED  BY <1>3, <3>1, <3>2
    <2>9. heard'.at = played /\ heard'.pad = pad /\ heard'.cells = then
      BY <1>1, <1>2, <2>3 DEF Heard
    <2> QED  BY <1>11, <2>7, <2>8, <2>9 DEF PlaysTheFile
  <1> QED  BY <1>10, <1>12, <1>13

\* render_layout blanks what is in the buffer from past the end, if all of the
\* buffer was the layout's to fill.
LEMMA EndKeepsPlace ==
    ASSUME FilesSound, PlaceInv, EndRender
    PROVE  /\ PlaceInv'
           /\ BufferPlaysTheFile'
           /\ BufferPlaysTheFile /\ sbuf.pad = 0 => PlaysTheFile'
  <1>1. /\ rendering /\ Room = 0 /\ vgm' = vgm
        /\ heard' = Heard(sbuf.pad,
                          BlankExcess(vgm, sbuf.cells,
                                      sbuf.samples - sbuf.pad, Blank))
        /\ played' = played + sbuf.samples - sbuf.pad
        /\ rendering' = FALSE /\ sbuf' = NoBuffer
        /\ UNCHANGED <<file, start_vgmstream>>
    BY DEF EndRender, Return
  <1>2. PICK f, start, v, cells, size, pad, t :
          /\ f = file /\ start = start_vgmstream /\ v = vgm
          /\ cells = sbuf.cells /\ size = Len(cells) /\ pad = sbuf.pad
          /\ t = played + Len(sbuf.cells) - sbuf.pad
    OBVIOUS
  <1>3. /\ f \in InterleavedFile /\ SnapshotOK(f, start)
        /\ HeadFine(f, start, v) /\ OnTime(f, start, v, t) /\ t \in Nat
        /\ played \in Nat /\ sbuf.samples \in Nat /\ pad \in Nat
        /\ cells \in Seq(Cells(f)) /\ size \in Nat
        /\ pad <= size /\ size <= sbuf.samples
    BY <1>1, <1>2, Busy
  <1>4. sbuf.samples = size
    BY <1>1, <1>2, <1>3 DEF Room
  <1>5. played' = t
    BY <1>1, <1>2, <1>3, <1>4
  <1>6. /\ BufferFine'
        /\ (played + Len(sbuf.cells) - sbuf.pad)' = t
        /\ BufferPlaysTheFile'
    BY <1>1, <1>3, <1>5, IdleBuffer
  <1>7. file' = f /\ start_vgmstream' = start /\ vgm' = v /\ rendering' = FALSE
    BY <1>1, <1>2
  <1>8. PlaceInv'
    <2>1. file' \in Files
      BY <1>1 DEF PlaceInv
    <2> QED  BY <1>3, <1>6, <1>7, <2>1 DEF PlaceInv
  <1>9. ASSUME BufferPlaysTheFile, pad = 0 PROVE PlaysTheFile'
    <2>1. PICK at \in Nat, num \in Nat :
            at = v.current_sample /\ num = v.num_samples
      BY <1>3 DEF HeadFine, InterleavedVgm
    <2>2. PICK a \in Nat : a = Excess(v) /\ a = IF at > num THEN at - num ELSE 0
      <3>1. (IF at > num THEN at - num ELSE 0) \in Nat
        BY <2>1
      <3> QED  BY <2>1, <3>1 DEF Excess, PastEnd
    <2>3. /\ size - a >= 0
          /\ \A i \in 1 .. size :
               IF i <= size - a THEN SoundsAt(f, start, played + i - 1, cells[i])
               ELSE IsOver(start, played + i - 1)
      <3>1. PICK kept \in Int : kept = size - a
        <4>1. size - a \in Int
          BY <1>3, <2>2
        <4> QED  BY <4>1
      <3>2. kept = Len(sbuf.cells) - Excess(vgm)
        BY <1>2, <2>2, <3>1
      <3>3. /\ kept >= pad
            /\ \A i \in pad + 1 .. size :
                 IF i <= kept
                 THEN SoundsAt(f, start, played + i - pad - 1, cells[i])
                 ELSE IsOver(start, played + i - pad - 1)
        BY <1>1, <1>2, <1>9, <3>2 DEF BufferPlaysTheFile
      <3>4. \A i \in Int : i - pad - 1 = i - 1 /\ played + i - pad - 1 = played + i - 1
        BY <1>3, <1>9
      <3> QED  BY <1>3, <1>9, <3>1, <3>3, <3>4
    <2>4. PICK then : then = BlankExcess(v, cells, size, Blank)
      OBVIOUS
    <2>5. heard'.at = played /\ heard'.pad = 0 /\ heard'.cells = then
      <3>1. sbuf.samples - sbuf.pad = size
        BY <1>2, <1>3, <1>4, <1>9
      <3> QED  BY <1>1, <1>2, <1>9, <2>4, <3>1 DEF Heard
    <2>6. /\ Len(then) = size
          /\ \A i \in 1 .. size :
               then[i] = IF i <= size - a THEN cells[i] ELSE Blank
      <3>1. DOMAIN cells = 1 .. size
        BY <1>2, <1>3
      <3>2. CASE at > num
        <4>1. /\ PastEnd(v) /\ a = at - num /\ a <= size
              /\ SmallerOf(v.current_sample - v.num_samples, size) = a
          BY <1>3, <2>1, <2>2, <2>3, <3>2 DEF PastEnd, SmallerOf
        <4>2. then = [i \in 1 .. size |->
                        IF i > size - a /\ i <= size THEN Blank ELSE cells[i]]
          BY <2>4, <3>1, <4>1 DEF BlankExcess
        <4>3. \A i \in 1 .. size :
                then[i] = IF i <= size - a THEN cells[i] ELSE Blank
          BY <1>3, <2>2, <4>2
        <4>4. Len(then) = size
          BY <1>3, <4>2
        <4> QED  BY <4>3, <4>4
      <3>3. CASE ~(at > num)
        <4>1. ~PastEnd(v) /\ a = 0
          BY <2>1, <2>2, <3>3 DEF PastEnd
        <4>2. then = cells
          BY <2>4, <4>1 DEF BlankExcess
        <4>3. \A i \in 1 .. size : i <= size - a
          BY <1>3, <4>1
        <4> QED  BY <1>2, <4>2, <4>3
      <3> QED  BY <3>2, <3>3
    <2>7. ASSUME NEW i \in 1 .. size
          PROVE  SoundsAt(f, start, played + i - 0 - 1, then[i])
      <3>1. played + i - 0 - 1 = played + i - 1
        BY <1>3
      <3>2. CASE i <= size - a
        BY <2>3, <2>6, <3>1, <3>2
      <3>3. CASE ~(i <= size - a)
        <4>1. then[i] = Blank /\ IsOver(start, played + i - 1)
          BY <2>3, <2>6, <3>3
        <4> QED  BY <3>1, <4>1 DEF SoundsAt
      <3> QED  BY <3>2, <3>3
    <2>8. 0 + 1 = 1
      OBVIOUS
    <2> QED  BY <1>7, <2>5, <2>6, <2>7, <2>8 DEF PlaysTheFile
  <1> QED  BY <1>2, <1>6, <1>8, <1>9

-----------------------------------------------------------------------------
(* The properties of InterleaveRender, for every value of its constants *)

\* The head stays in its place, whatever is rendered and rewound.
THEOREM PlaceStep ==
    ASSUME FilesSound
    PROVE  PlaceInv /\ [Next]_vars => PlaceInv'
  <1> SUFFICES ASSUME PlaceInv, [Next]_vars PROVE PlaceInv'
    OBVIOUS
  <1>1. ASSUME NEW n \in Sizes, NEW pad \in Pads, RenderPastEnd(n, pad)
        PROVE  PlaceInv'
    BY <1>1, PastEndKeepsPlace
  <1>2. ASSUME NEW n \in Sizes, NEW pad \in Pads, StartRender(n, pad)
        PROVE  PlaceInv'
    BY <1>2, StartKeepsPlace
  <1>3. CASE LoopIteration
    BY <1>3, LoopKeepsPlace
  <1>4. CASE DecodeIteration
    BY <1>4, DecodeKeepsPlace
  <1>5. CASE ErrorIteration
    BY <1>5, ErrorKeepsPlace
  <1>6. CASE EndRender
    BY <1>6, EndKeepsPlace
  <1>7. CASE Reset
    BY <1>7, ResetKeepsPlace
  <1>8. CASE UNCHANGED vars
    BY <1>8, StutterKeepsPlace
  <1> QED  BY <1>1, <1>2, <1>3, <1>4, <1>5, <1>6, <1>7, <1>8 DEF Next

\* Wherever a buffer, a block, a frame or a loop ends, the offsets and
\* samples_into_block are those of the block that has the head's sample, and so
\* are those that a loop would restore.
THEOREM InterleavePlace ==
    ASSUME FilesSound
    PROVE  Spec => []PlaceInv
  <1>1. Init => PlaceInv
    BY InterleaveInit DEF InterleaveInv
  <1>2. PlaceInv /\ [Next]_vars => PlaceInv'
    BY PlaceStep
  <1> QED  BY <1>1, <1>2, PTL DEF Spec

\* One call reads one frame.
LEMMA ReadsOneFrame ==
    ASSUME NEW f \in InterleavedFile, f.frame > 1,
           NEW v \in InterleavedVgm(f), NEW n \in Nat,
           (v.samples_into_block % f.frame) + n <= f.frame,
           NEW i \in 0 .. n - 1, NEW c \in Channels(f)
    PROVE  ReadAt(f, v, i)[c][1]
             = v.ch[c] + (IF f.codec_internal_updates THEN 0
                          ELSE v.samples_into_block \div f.frame) * f.frame_size
  <1>1. PICK into \in Nat, frame \in Nat :
          into = v.samples_into_block /\ frame = f.frame /\ frame > 0
    BY FileNumbers DEF InterleavedVgm
  <1>2. (into + i) \div frame = into \div frame
    <2>1. into % frame \in Nat
      <3>1. frame > 0
        BY <1>1
      <3> QED  BY <3>1, Division
    <2>2. i \in Nat /\ (into % frame) + i < frame
      BY <1>1, <2>1
    <2> QED  BY <1>1, <2>2, InOneFrame
  <1>3. ReadAt(f, v, i)[c][1] = v.ch[c] + FrameOf(f, v, i) * f.frame_size
    BY DEF ReadAt
  <1> QED  BY <1>1, <1>2, <1>3 DEF FrameOf

\* No decoder call reads on into a frame or a block that is elsewhere.
THEOREM InterleaveCallsStayInFrame ==
    ASSUME FilesSound
    PROVE  Spec => CallsStayInFrame
  <1> DEFINE Stays ==
        rendering /\ rendering' /\ file.frame > 1 =>
          \A i, j \in Len(sbuf.cells) + 1 .. Len(sbuf'.cells) :
             \A ch \in Channels(file) :
                sbuf'.cells[i][ch][1] = sbuf'.cells[j][ch][1]
  <1>1. PlaceInv /\ [Next]_vars => Stays
    <2> SUFFICES ASSUME PlaceInv, [Next]_vars, rendering, rendering',
                        file.frame > 1
                 PROVE  \A i, j \in Len(sbuf.cells) + 1 .. Len(sbuf'.cells) :
                           \A ch \in Channels(file) :
                              sbuf'.cells[i][ch][1] = sbuf'.cells[j][ch][1]
      OBVIOUS
    <2>1. CASE sbuf' = sbuf
      <3>1. PICK size \in Nat :
              size = Len(sbuf.cells) /\ size = Len(sbuf'.cells)
        BY <2>1, Busy
      <3>2. size + 1 .. size = {}
        OBVIOUS
      <3> QED  BY <3>1, <3>2
    <2>2. CASE DecodeIteration
      <3>1. PICK v \in InterleavedVgm(file), n \in Nat :
                  /\ v = LoopCheck(vgm) /\ n = SamplesToDo(v)
                  /\ rendering /\ Room > 0 /\ ~Looped(vgm)
                  /\ n > 0 /\ n <= Room
                  /\ vgm' = After(file, v, cur, n)
                  /\ cur' = ValuesThen(file, v, cur, n)
                  /\ sbuf' = [sbuf EXCEPT
                                !.cells = @ \o [j \in 1 .. n |->
                                                  ReadAt(file, v, j - 1)]]
                  /\ UNCHANGED <<file, start_vgmstream, rendering, played,
                                 heard>>
        BY <2>2, DecodeStep
      <3>2. PICK f, cells, size, t :
              /\ f = file /\ cells = sbuf.cells /\ size = Len(cells)
              /\ t = played + Len(sbuf.cells) - sbuf.pad
        OBVIOUS
      <3>3. /\ f \in InterleavedFile /\ cells \in Seq(Cells(f)) /\ size \in Nat
            /\ v \in InterleavedVgm(f) /\ f.frame > 1
        BY <3>1, <3>2, Busy
      <3>4. (v.samples_into_block % f.frame) + n <= f.frame
        <4>1. Decodes(f, v, cur, n)
          BY <3>1, <3>2, IterationFine
        <4> QED  BY <3>3, <4>1 DEF Decodes
      <3>5. PICK then : then = cells \o [j \in 1 .. n |-> ReadAt(f, v, j - 1)]
        OBVIOUS
      <3>6. sbuf'.cells = then
        <4>1. PICK s : s = sbuf
          OBVIOUS
        <4>2. s \in [samples : Nat, pad : Pads \cup {0}, cells : Seq(Cells(f))]
          BY <3>2, <4>1 DEF PlaceInv, BufferFine
        <4>3. sbuf' = [s EXCEPT !.cells = then]
          BY <3>1, <3>2, <3>5, <4>1
        <4> QED  BY <4>2, <4>3
      <3>7. Len(then) = size + n
        BY <3>2, <3>3, <3>5, CellsDecoded
      <3>8. \A i \in size + 1 .. size + n : then[i] = ReadAt(f, v, i - size - 1)
        BY <3>2, <3>3, <3>5, CellsDecoded
      <3>9. ASSUME NEW i \in size + 1 .. size + n, NEW ch \in Channels(f)
            PROVE  then[i][ch][1]
                     = v.ch[ch]
                       + (IF f.codec_internal_updates THEN 0
                          ELSE v.samples_into_block \div f.frame) * f.frame_size
        <4>1. PICK k \in 0 .. n - 1 : k = i - size - 1
          <5>1. i - size - 1 \in 0 .. n - 1
            BY <3>3
          <5> QED  BY <5>1
        <4>2. then[i] = ReadAt(f, v, k)
          BY <3>8, <4>1
        <4> QED  BY <3>3, <3>4, <4>2, ReadsOneFrame
      <3> QED  BY <3>2, <3>6, <3>7, <3>9
    <2>3. sbuf' = sbuf \/ DecodeIteration
      <3>1. CASE LoopIteration
        BY <3>1 DEF LoopIteration
      <3>2. CASE ErrorIteration \/ EndRender
        BY <3>2 DEF ErrorIteration, EndRender, Return
      <3>3. CASE UNCHANGED vars
        BY <3>3 DEF vars
      <3>4. CASE Reset
        BY <3>4 DEF Reset
      <3>5. ASSUME NEW n \in Sizes, NEW pad \in Pads,
                   RenderPastEnd(n, pad) \/ StartRender(n, pad)
            PROVE  FALSE
        BY <3>5 DEF RenderPastEnd, StartRender, Call
      <3> QED  BY <3>1, <3>2, <3>3, <3>4, <3>5 DEF Next
    <2> QED  BY <2>1, <2>2, <2>3
  <1>2. Spec => []PlaceInv
    BY InterleavePlace
  <1>3. CallsStayInFrame <=> [][Stays]_vars
    BY DEF CallsStayInFrame
  <1> QED  BY <1>1, <1>2, <1>3, PTL DEF Spec

\* With the layout's samples at the start of the buffer all of the invariant is
\* inductive: what is handed over is the file.
THEOREM InterleaveStep ==
    ASSUME FilesSound, Pads \subseteq {0}
    PROVE  InterleaveInv /\ [Next]_vars => InterleaveInv'
  <1> SUFFICES ASSUME InterleaveInv, [Next]_vars PROVE InterleaveInv'
    OBVIOUS
  <1>1. PlaceInv /\ BufferPlaysTheFile /\ PlaysTheFile
    BY DEF InterleaveInv
  <1>2. PlaceInv'
    BY <1>1, PlaceStep
  <1>3. sbuf.pad = 0
    <2>1. PICK s : s = sbuf
      OBVIOUS
    <2>2. s \in [samples : Nat, pad : Pads \cup {0}, cells : Seq(Cells(file))]
      BY <1>1, <2>1 DEF PlaceInv, BufferFine
    <2>3. s.pad \in Pads \cup {0}
      BY <2>2
    <2> QED  BY <2>1, <2>3
  <1>4. BufferPlaysTheFile' /\ PlaysTheFile'
    <2>1. ASSUME NEW n \in Sizes, NEW pad \in Pads, RenderPastEnd(n, pad)
          PROVE  BufferPlaysTheFile' /\ PlaysTheFile'
      BY <1>1, <2>1, PastEndKeepsPlace
    <2>2. ASSUME NEW n \in Sizes, NEW pad \in Pads, StartRender(n, pad)
          PROVE  BufferPlaysTheFile' /\ PlaysTheFile'
      BY <1>1, <2>2, StartKeepsPlace
    <2>3. CASE LoopIteration
      BY <1>1, <2>3, LoopKeepsPlace
    <2>4. CASE DecodeIteration
      BY <1>1, <2>4, DecodeKeepsPlace
    <2>5. CASE ErrorIteration
      BY <1>1, <2>5, ErrorKeepsPlace
    <2>6. CASE EndRender
      BY <1>1, <1>3, <2>6, EndKeepsPlace
    <2>7. CASE Reset
      BY <1>1, <2>7, ResetKeepsPlace
    <2>8. CASE UNCHANGED vars
      BY <1>1, <2>8, StutterKeepsPlace
    <2> QED  BY <2>1, <2>2, <2>3, <2>4, <2>5, <2>6, <2>7, <2>8 DEF Next
  <1> QED  BY <1>2, <1>4 DEF InterleaveInv

\* render_layout keeps the whole invariant.
THEOREM InterleaveInvariant ==
    ASSUME FilesSound, Pads \subseteq {0}
    PROVE  Spec => []InterleaveInv
  <1>1. Init => InterleaveInv
    BY InterleaveInit
  <1>2. InterleaveInv /\ [Next]_vars => InterleaveInv'
    BY InterleaveStep
  <1> QED  BY <1>1, <1>2, PTL DEF Spec

\* Every sample a call hands over is the one that the file has there, in whatever
\* row of blocks, of whatever sizes, and after however many loops; blank is only
\* what comes after the end.
THEOREM InterleavePlaysTheFile ==
    ASSUME FilesSound, Pads \subseteq {0}
    PROVE  Spec => []PlaysTheFile
  <1>1. InterleaveInv => PlaysTheFile
    BY DEF InterleaveInv
  <1>2. Spec => []InterleaveInv
    BY InterleaveInvariant
  <1> QED  BY <1>1, <1>2, PTL
=============================================================================
