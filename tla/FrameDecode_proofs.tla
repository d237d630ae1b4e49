-------------------------- MODULE FrameDecode_proofs --------------------------
(***************************************************************************)
(* FrameInv is an invariant of FrameDecode, for all streams that are sound  *)
(* and the callers that are not known to go wrong; with it PlaysTheStream.  *)
(***************************************************************************)
EXTENDS FrameDecode, SequenceTheorems, WellFoundedInduction, TLAPS

-----------------------------------------------------------------------------
(* Natural numbers *)

Before == {pair \in Nat \X Nat : pair[1] < pair[2]}

\* Among numbers there is a smallest.
LEMMA Smallest ==
    ASSUME NEW T, T \subseteq Nat, T # {}
    PROVE  \E x \in T : \A y \in T : x <= y
  <1>1. IsWellFoundedOn(Before, Nat)
    BY NatLessThanWellFounded DEF OpToRel, Before
  <1>2. \E x \in T : \A y \in T : ~(<<y, x>> \in Before)
    BY <1>1, WFMin
  <1>3. PICK x \in T : \A y \in T : ~(<<y, x>> \in Before)
    BY <1>2
  <1>4. ASSUME NEW y \in T PROVE x <= y
    <2>1. x \in Nat /\ y \in Nat
      OBVIOUS
    <2>2. ~(<<y, x>> \in Before)
      BY <1>3
    <2>3. y < x => <<y, x>> \in Before
      BY <2>1 DEF Before
    <2> QED  BY <2>1, <2>2, <2>3
  <1> QED  BY <1>4

\* What holds of 0, and of n + 1 if of n, holds of all numbers.
LEMMA Induction ==
    ASSUME NEW S, 0 \in S, \A n \in Nat : n \in S => n + 1 \in S
    PROVE  Nat \subseteq S
  <1> SUFFICES ASSUME Nat \ S # {} PROVE FALSE
    OBVIOUS
  <1>1. PICK x \in Nat \ S : \A y \in Nat \ S : x <= y
    BY Smallest
  <1>2. x # 0 /\ x - 1 \in Nat
    BY <1>1
  <1>3. x - 1 \in S
    BY <1>1, <1>2
  <1> QED  BY <1>1, <1>2, <1>3

\* Quotient and remainder.
LEMMA Division ==
    ASSUME NEW a \in Nat, NEW b \in Nat, b > 0
    PROVE  \E q \in Nat, r \in Nat :
              /\ q = a \div b /\ r = a % b
              /\ a = b * q + r /\ r < b
  <1>1. PICK q \in Nat, r \in Nat : q = a \div b /\ r = a % b
    BY SMTT(30)
  <1>2. a = b * q + r /\ r < b
    BY <1>1, SMTT(30)
  <1> QED  BY <1>1, <1>2

\* More frames are as many samples, or more.
LEMMA ProductGrows ==
    ASSUME NEW size \in Nat, NEW j \in Nat, NEW k \in Nat, j <= k
    PROVE  size * j \in Nat /\ size * k \in Nat /\ size * j <= size * k
  <1>1. PICK more \in Nat : k = j + more
    <2>1. k - j \in Nat /\ k = j + (k - j)
      OBVIOUS
    <2> QED  BY <2>1
  <1>2. size * (j + more) = size * j + size * more
    OBVIOUS
  <1>3. PICK a \in Nat, b \in Nat : a = size * j /\ b = size * more
    OBVIOUS
  <1>4. size * k = a + b
    BY <1>1, <1>2, <1>3
  <1> QED  BY <1>3, <1>4

-----------------------------------------------------------------------------
(* Packets *)

\* A file's packets, one after the other, and where they start.
LEMMA PacketSpans ==
    ASSUME NEW f \in Files, NEW k \in Nat
    PROVE  /\ f \in FileRecord /\ Len(f.packets) \in Nat
           /\ RawStart(f, k) \in Nat
           /\ RawStart(f, 0) = 0
           /\ k >= Len(f.packets) => RawStart(f, k) = DataEnd(f)
           /\ k < Len(f.packets) =>
                 /\ k + 1 \in DOMAIN f.packets
                 /\ f.packets[k + 1] \in Span
                 /\ f.packets[k + 1].from = RawStart(f, k)
                 /\ f.packets[k + 1].to = RawStart(f, k + 1)
                 /\ RawStart(f, k) <= RawStart(f, k + 1)
  <1>1. f \in FileRecord /\ f.packets \in Seq(Span) /\ InSequence(f.packets)
    BY FilesAssumption DEF FileRecord
  <1>2. PICK n \in Nat : n = Len(f.packets)
    BY <1>1, LenProperties
  <1>3. DOMAIN f.packets = 1 .. n /\ \A i \in 1 .. n : f.packets[i] \in Span
    BY <1>1, <1>2, LenProperties, ElementOfSeq
  <1>4. \A i \in 1 .. n : f.packets[i].from \in Nat /\ f.packets[i].to \in Nat
    BY <1>3 DEF Span
  <1>5. \A j \in Nat : RawStart(f, j) = IF j = 0 \/ n = 0 THEN 0
                        ELSE IF j <= n THEN f.packets[j].to ELSE f.packets[n].to
    BY <1>2 DEF RawStart, SmallerOf
  <1>6. \A j \in Nat : RawStart(f, j) \in Nat
    BY <1>4, <1>5
  <1>7. RawStart(f, 0) = 0
    BY <1>5
  <1>8. DataEnd(f) = RawStart(f, n)
    BY <1>2 DEF DataEnd
  <1>9. k >= n => RawStart(f, k) = DataEnd(f)
    BY <1>5, <1>8
  <1>10. ASSUME k < n
         PROVE  /\ k + 1 \in 1 .. n
                /\ f.packets[k + 1] \in Span
                /\ f.packets[k + 1].from = RawStart(f, k)
                /\ f.packets[k + 1].to = RawStart(f, k + 1)
                /\ RawStart(f, k) <= RawStart(f, k + 1)
    <2>1. PICK i \in 1 .. n : i = k + 1
      BY <1>10
    <2>2. /\ f.packets[i].from = IF i = 1 THEN 0 ELSE f.packets[i - 1].to
          /\ f.packets[i].from <= f.packets[i].to
      BY <1>1, <1>3 DEF InSequence
    <2>3. RawStart(f, i) = f.packets[i].to
      BY <1>5
    <2>4. RawStart(f, k) = f.packets[i].from
      BY <1>5, <1>10, <2>1, <2>2
    <2> QED  BY <1>3, <2>1, <2>2, <2>3, <2>4
  <1> QED  BY <1>1, <1>2, <1>3, <1>6, <1>7, <1>9, <1>10

\* A later packet starts later.
LEMMA LaterPackets ==
    ASSUME NEW f \in Files, NEW j \in Nat, NEW k \in Nat, j <= k
    PROVE  RawStart(f, j) <= RawStart(f, k)
  <1> DEFINE Steps == {n \in Nat : RawStart(f, j) <= RawStart(f, j + n)}
  <1>1. 0 \in Steps
    BY PacketSpans
  <1>2. ASSUME NEW n \in Nat, n \in Steps PROVE n + 1 \in Steps
    <2>1. PICK m \in Nat : m = j + n
      OBVIOUS
    <2>2. RawStart(f, m) <= RawStart(f, m + 1)
      <3>1. RawStart(f, m) \in Nat /\ RawStart(f, m + 1) \in Nat
        BY PacketSpans
      <3>2. m >= Len(f.packets) =>
                RawStart(f, m) = DataEnd(f) /\ RawStart(f, m + 1) = DataEnd(f)
        BY PacketSpans
      <3> QED  BY <3>1, <3>2, PacketSpans
    <2>3. j + (n + 1) = m + 1 /\ RawStart(f, j) <= RawStart(f, m)
      BY <1>2, <2>1
    <2>4. RawStart(f, j) \in Nat /\ RawStart(f, m) \in Nat
          /\ RawStart(f, m + 1) \in Nat
      BY PacketSpans
    <2> QED  BY <2>2, <2>3, <2>4
  <1>3. Nat \subseteq Steps
    <2> HIDE DEF Steps
    <2> QED  BY <1>1, <1>2, Induction
  <1>4. PICK n \in Nat : n = k - j
    OBVIOUS
  <1> QED  BY <1>3, <1>4

\* No packet starts after the data.
LEMMA WithinData ==
    ASSUME NEW f \in Files, NEW k \in Nat
    PROVE  RawStart(f, k) \in Nat /\ DataEnd(f) \in Nat
           /\ RawStart(f, k) <= DataEnd(f)
  <1>1. PICK n \in Nat : n = Len(f.packets) /\ DataEnd(f) = RawStart(f, n)
    BY PacketSpans DEF DataEnd
  <1>2. RawStart(f, k) \in Nat /\ RawStart(f, n) \in Nat
    BY PacketSpans
  <1>3. k <= n => RawStart(f, k) <= RawStart(f, n)
    BY LaterPackets
  <1>4. k >= n => RawStart(f, k) = DataEnd(f)
    BY <1>1, PacketSpans
  <1> QED  BY <1>1, <1>2, <1>3, <1>4

\* Codecs that count frames: where a frame starts.
LEMMA FrameStarts ==
    ASSUME NEW f \in Files, EqualFrames(f), NEW k \in Nat
    PROVE  \E n \in Nat, size \in Nat :
              /\ n = Len(f.packets) /\ size = FrameSize(f) /\ size > 0
              /\ DataEnd(f) = size * n
              /\ RawStart(f, k) = IF k <= n THEN size * k ELSE size * n
  <1>1. f \in FileRecord /\ f.packets \in Seq(Span)
    BY FilesAssumption DEF FileRecord
  <1>2. PICK n \in Nat : n = Len(f.packets) /\ DOMAIN f.packets = 1 .. n
    BY <1>1, LenProperties
  <1>3. n > 0
    BY <1>1, <1>2, EmptySeq DEF EqualFrames
  <1>4. FrameSize(f) \in Nat
    <2>1. 1 \in 1 .. n
      BY <1>3
    <2>2. f.packets[1] \in Span
      BY <1>1, <1>2, <2>1, ElementOfSeq
    <2> QED  BY <2>2 DEF FrameSize, Span
  <1>5. PICK size \in Nat : size = FrameSize(f) /\ size > 0
    BY <1>4 DEF EqualFrames
  <1>6. \A i \in 1 .. n : f.packets[i].to = i * size
    BY <1>2, <1>5 DEF EqualFrames
  <1>7. ASSUME NEW j \in Nat, j <= n PROVE RawStart(f, j) = size * j
    <2>1. RawStart(f, j) = IF j = 0 THEN 0 ELSE f.packets[j].to
      BY <1>2, <1>3, <1>7 DEF RawStart, SmallerOf
    <2>2. j # 0 => f.packets[j].to = j * size
      BY <1>6, <1>7
    <2>3. j * size = size * j /\ size * 0 = 0
      OBVIOUS
    <2> QED  BY <2>1, <2>2, <2>3
  <1>8. DataEnd(f) = RawStart(f, n)
    BY <1>2 DEF DataEnd
  <1>9. k > n => RawStart(f, k) = DataEnd(f)
    BY <1>2, PacketSpans
  <1>10. DataEnd(f) = size * n
    BY <1>7, <1>8
  <1>11. RawStart(f, k) = IF k <= n THEN size * k ELSE size * n
    <2>1. CASE k <= n
      BY <1>7, <2>1
    <2>2. CASE ~(k <= n)
      <3>1. k > n
        BY <2>2
      <3> QED  BY <1>9, <1>10, <2>2, <3>1
    <2> QED  BY <2>1, <2>2
  <1> QED  BY <1>2, <1>5, <1>10, <1>11, Zenon

\* There are samples in a frame to divide by.
LEMMA FrameIsNumber ==
    ASSUME NEW f \in Files, EqualFrames(f), NEW a \in Nat
    PROVE  /\ FrameSize(f) \in Nat /\ FrameSize(f) > 0
           /\ a \div FrameSize(f) \in Nat
  <1>1. \E n \in Nat, size \in Nat : size = FrameSize(f) /\ size > 0
    BY FrameStarts
  <1>2. PICK size \in Nat : size = FrameSize(f) /\ size > 0
    BY <1>1
  <1>3. a \div size \in Nat
    BY <1>2, Division
  <1> QED  BY <1>2, <1>3

\* The frames there are, are full.
LEMMA FullFrames ==
    ASSUME NEW f \in Files, EqualFrames(f), NEW k \in Nat, k < Len(f.packets)
    PROVE  RawStart(f, k + 1) - RawStart(f, k) = FrameSize(f)
  <1>1. PICK len, size, j :
          len = Len(f.packets) /\ size = FrameSize(f) /\ j = k + 1
    OBVIOUS
  <1>2. len \in Nat /\ size \in Nat /\ j \in Nat
    BY <1>1, FrameIsNumber, PacketSpans
  <1>3. RawStart(f, k) = IF k <= len THEN size * k ELSE size * len
    BY <1>1, FrameStarts
  <1>4. RawStart(f, j) = IF j <= len THEN size * j ELSE size * len
    BY <1>1, <1>2, FrameStarts
  <1>5. k <= len /\ j <= len
    BY <1>1, <1>2
  <1>6. size * (k + 1) = size * k + size
    BY <1>2
  <1>7. PICK a \in Nat, b \in Nat : a = size * k /\ b = size * (k + 1)
    BY <1>2
  <1>8. RawStart(f, k) = a /\ RawStart(f, k + 1) = b /\ b = a + size
    BY <1>1, <1>3, <1>4, <1>5, <1>6, <1>7
  <1> QED  BY <1>1, <1>2, <1>7, <1>8

\* Dividing a raw sample finds the frame it is in, and how far into it, if the
\* data has it.
LEMMA FrameOf ==
    ASSUME NEW f \in Files, EqualFrames(f), NEW a \in Nat, NEW back \in {0, 1},
           back <= a \div FrameSize(f)
    PROVE  \E k \in Nat, into \in Nat, size \in Nat :
              /\ k = a \div FrameSize(f) /\ into = a % FrameSize(f)
              /\ size = FrameSize(f) /\ size > 0
              /\ k - back \in Nat
              /\ \/ RawStart(f, k - back) + into + back * size = a
                 \/ /\ RawStart(f, k - back) = DataEnd(f)
                    /\ DataEnd(f) + into + back * size <= a
  <1>1. PICK n \in Nat, size \in Nat :
          n = Len(f.packets) /\ size = FrameSize(f) /\ size > 0
          /\ DataEnd(f) = size * n
    BY FrameStarts
  <1>2. PICK k \in Nat, into \in Nat :
          k = a \div size /\ into = a % size /\ a = size * k + into /\ into < size
    BY <1>1, Division
  <1>3. PICK j \in Nat : j = k - back
    BY <1>1, <1>2
  <1>4. RawStart(f, j) = IF j <= n THEN size * j ELSE size * n
    BY <1>1, FrameStarts
  <1>5. size * k = size * j + back * size
    <2>1. back = 0 \/ back = 1
      OBVIOUS
    <2>2. k = j + back
      BY <1>3
    <2>3. size * (j + 1) = size * j + size
      OBVIOUS
    <2> QED  BY <2>1, <2>2, <2>3
  <1>6. CASE j <= n
    <2>1. RawStart(f, j) + into + back * size = a
      <3>1. PICK sj \in Nat, bs \in Nat, sk \in Nat :
              sj = size * j /\ bs = back * size /\ sk = size * k
        OBVIOUS
      <3>2. RawStart(f, j) = sj /\ sk = sj + bs /\ a = sk + into
        BY <1>2, <1>4, <1>5, <1>6, <3>1
      <3> QED  BY <3>1, <3>2
    <2> QED  BY <1>1, <1>2, <1>3, <2>1
  <1>7. CASE j > n
    <2>1. RawStart(f, j) = DataEnd(f)
      BY <1>1, <1>4, <1>7
    <2>2. DataEnd(f) + into + back * size <= a
      <3>1. PICK sj \in Nat, bs \in Nat, sk \in Nat, sn \in Nat :
              sj = size * j /\ bs = back * size /\ sk = size * k /\ sn = size * n
        OBVIOUS
      <3>2. sn <= sj
        <4>1. PICK more \in Nat : j = n + more
          BY <1>7
        <4>2. size * (n + more) = size * n + size * more /\ size * more \in Nat
          OBVIOUS
        <4> QED  BY <3>1, <4>1, <4>2
      <3>3. DataEnd(f) = sn /\ sk = sj + bs /\ a = sk + into
        BY <1>1, <1>2, <1>5, <3>1
      <3> QED  BY <3>1, <3>2, <3>3
    <2> QED  BY <1>1, <1>2, <1>3, <2>1, <2>2
  <1> QED  BY <1>6, <1>7

\* The seek table's entry is none, or one that is not past the sample.
LEMMA EntryNotPast ==
    ASSUME NEW f \in Files, NEW n \in Nat, NEW i, i = SeekTableEntry(f, n), i # 0
    PROVE  /\ i \in DOMAIN f.table
           /\ f.table[i].sample \in Nat /\ f.table[i].packet \in Nat
           /\ f.table[i].sample <= n
  <1>1. f.table \in Seq([sample : Nat, packet : Nat])
    BY FilesAssumption DEF FileRecord
  <1>2. PICK len \in Nat : len = Len(f.table) /\ DOMAIN f.table = 1 .. len
    BY <1>1, LenProperties
  <1>3. \A j \in 1 .. len :
            f.table[j].sample \in Nat /\ f.table[j].packet \in Nat
    <2>1. \A j \in 1 .. len : f.table[j] \in [sample : Nat, packet : Nat]
      BY <1>1, <1>2, ElementOfSeq
    <2> QED  BY <2>1
  <1>4. PICK past : past = {j \in DOMAIN f.table : f.table[j].sample > n}
    OBVIOUS
  <1>5. CASE past = {}
    <2>1. i = len
      BY <1>2, <1>4, <1>5 DEF SeekTableEntry
    <2>2. i \in 1 .. len
      BY <2>1
    <2>3. ~(f.table[i].sample > n)
      BY <1>2, <1>4, <1>5, <2>2
    <2> QED  BY <1>2, <1>3, <2>2, <2>3
  <1>6. CASE past # {}
    <2>1. PICK first : first = CHOOSE j \in past : \A k \in past : j <= k
      OBVIOUS
    <2>2. past \subseteq Nat
      BY <1>2, <1>4
    <2>3. first \in past /\ \A k \in past : first <= k
      BY <1>6, <2>1, <2>2, Smallest
    <2>4. i = first - 1
      BY <1>4, <1>6, <2>1 DEF SeekTableEntry
    <2>5. first \in 1 .. len
      BY <1>2, <1>4, <2>3
    <2>6. i \in 1 .. len /\ ~(first <= i)
      BY <2>4, <2>5
    <2>7. ~(f.table[i].sample > n)
      BY <1>2, <1>4, <2>3, <2>6
    <2> QED  BY <1>2, <1>3, <2>6, <2>7
  <1> QED  BY <1>5, <1>6

-----------------------------------------------------------------------------
(* The play head *)

\* Opening puts the head on the start, before the loop.
LEMMA NewHead ==
    ASSUME NEW f \in Files, NEW v, v = NewVgmstream(f)
    PROVE  /\ HeadOK(f, v)
           /\ v.current_sample = 0 /\ v.ch = 0 /\ ~v.hit_loop
  <1> DEFINE raw == [num_samples |-> f.num_samples,
                     loop_start_sample |-> f.loop_start_sample,
                     loop_end_sample |-> f.loop_end_sample,
                     loop_flag |-> f.loop_flag,
                     frame |-> f.frame,
                     codec_data |-> f.codec_data,
                     loop_target |-> 0,
                     current_sample |-> 0,
                     samples_into_block |-> 0,
                     loop_count |-> 0,
                     hit_loop |-> FALSE,
                     ch |-> 0,
                     loop_ch |-> 0,
                     loop_current_sample |-> 0,
                     loop_samples_into_block |-> 0]
  <1>1. f \in FileRecord
    BY FilesAssumption
  <1>2. /\ f.num_samples \in Nat \ {0} /\ f.loop_start_sample \in Nat
        /\ f.loop_end_sample \in Nat /\ f.loop_flag \in BOOLEAN
        /\ f.frame = 1 /\ f.codec_data = FALSE
    BY <1>1 DEF FileRecord
  <1>3. raw \in VgmRecord
    BY <1>2 DEF VgmRecord
  <1>4. v = IF SetupVgmstream(raw).loop_flag THEN SetupVgmstream(raw)
            ELSE [SetupVgmstream(raw) EXCEPT !.loop_start_sample = 0,
                                             !.loop_end_sample = 0]
    BY DEF NewVgmstream
  <1>5. CASE f.loop_flag /\ ~BadLoop(raw)
    <2>1. v = raw
      BY <1>4, <1>5 DEF SetupVgmstream
    <2>2. /\ f.loop_start_sample < f.loop_end_sample
          /\ f.loop_end_sample <= f.num_samples
      BY <1>2, <1>5 DEF BadLoop
    <2> QED  BY <1>2, <1>3, <2>1, <2>2 DEF HeadOK
  <1>6. CASE ~(f.loop_flag /\ ~BadLoop(raw))
    <2>1. PICK r : r = raw
      OBVIOUS
    <2>2. /\ r \in VgmRecord /\ r.loop_flag = f.loop_flag
          /\ r.num_samples = f.num_samples
          /\ r.current_sample = 0 /\ r.samples_into_block = 0
          /\ r.ch = 0 /\ r.hit_loop = FALSE
      BY <1>3, <2>1
    <2>3. v = [r EXCEPT !.loop_flag = FALSE, !.loop_start_sample = 0,
                        !.loop_end_sample = 0]
      <3>1. v = IF SetupVgmstream(r).loop_flag THEN SetupVgmstream(r)
                ELSE [SetupVgmstream(r) EXCEPT !.loop_start_sample = 0,
                                               !.loop_end_sample = 0]
        BY <1>4, <2>1
      <3> HIDE DEF raw
      <3>2. CASE f.loop_flag
        <4>1. SetupVgmstream(r) = [r EXCEPT !.loop_flag = FALSE,
                                            !.loop_start_sample = 0,
                                            !.loop_end_sample = 0]
          BY <1>6, <2>1, <2>2, <3>2 DEF SetupVgmstream
        <4> QED  BY <2>2, <3>1, <4>1 DEF VgmRecord
      <3>3. CASE ~f.loop_flag
        <4>1. SetupVgmstream(r) = r
          BY <2>2, <3>3 DEF SetupVgmstream
        <4>2. v = [r EXCEPT !.loop_start_sample = 0, !.loop_end_sample = 0]
          BY <2>2, <3>1, <3>3, <4>1
        <4>3. r.loop_flag = FALSE
          BY <1>2, <2>2, <3>3
        <4> QED  BY <2>2, <4>2, <4>3 DEF VgmRecord
      <3> QED  BY <3>2, <3>3
    <2> HIDE DEF raw
    <2>4. v \in VgmRecord /\ ~v.loop_flag
      BY <2>2, <2>3 DEF VgmRecord
    <2>5. /\ v.num_samples = f.num_samples
          /\ v.current_sample = 0 /\ v.samples_into_block = 0
          /\ v.ch = 0 /\ v.hit_loop = FALSE
      BY <2>2, <2>3 DEF VgmRecord
    <2> QED  BY <1>2, <2>4, <2>5 DEF HeadOK
  <1> QED  BY <1>5, <1>6

\* A rewind does so too.
LEMMA ResetHead ==
    ASSUME NEW f \in Files, NEW v, HeadOK(f, v),
           NEW w, w = ResetVgmstream(v, NewVgmstream(f))
    PROVE  /\ HeadOK(f, w)
           /\ w.current_sample = 0 /\ w.ch = 0 /\ ~w.hit_loop
  <1>1. PICK start : start = NewVgmstream(f)
    OBVIOUS
  <1>2. /\ HeadOK(f, start)
        /\ start.current_sample = 0 /\ start.ch = 0 /\ ~start.hit_loop
    BY <1>1, NewHead
  <1>3. w = [start EXCEPT !.loop_ch = v.loop_ch]
    BY <1>1 DEF ResetVgmstream
  <1>4. start \in VgmRecord /\ v.loop_ch \in Nat
    BY <1>2 DEF HeadOK, VgmRecord
  <1>5. w \in VgmRecord
    BY <1>3, <1>4 DEF VgmRecord
  <1>6. /\ w.num_samples = start.num_samples
        /\ w.loop_flag = start.loop_flag
        /\ w.loop_start_sample = start.loop_start_sample
        /\ w.loop_end_sample = start.loop_end_sample
        /\ w.samples_into_block = start.samples_into_block
        /\ w.current_sample = start.current_sample
        /\ w.hit_loop = start.hit_loop
        /\ w.ch = start.ch
    BY <1>3, <1>4 DEF VgmRecord
  <1> QED  BY <1>2, <1>5, <1>6 DEF HeadOK

\* What a jump back leaves of a VGMSTREAM whose codec sought to packet ch.
JumpedBack(v, ch) == Uncounted(RestoreLoop([v EXCEPT !.loop_ch = ch]))

\* A jump back puts the head on the loop start.
LEMMA JumpedHead ==
    ASSUME NEW f, NEW v, HeadOK(f, v), v.hit_loop, NEW ch \in Nat,
           NEW w, w = JumpedBack(v, ch)
    PROVE  /\ HeadOK(f, w)
           /\ w.current_sample = v.loop_start_sample
           /\ w.ch = ch /\ w.loop_ch = ch /\ w.hit_loop
           /\ w.loop_flag /\ w.loop_start_sample = v.loop_start_sample
           /\ w.loop_end_sample = v.loop_end_sample
           /\ v.loop_current_sample = v.loop_start_sample
           /\ v.loop_start_sample = f.loop_start_sample
           /\ v.loop_start_sample < v.loop_end_sample
  <1>1. v \in VgmRecord /\ v.loop_flag
        /\ v.loop_current_sample = v.loop_start_sample
        /\ v.loop_samples_into_block = v.loop_start_sample
        /\ v.loop_start_sample = f.loop_start_sample
        /\ v.loop_start_sample < v.loop_end_sample
        /\ v.loop_end_sample <= v.num_samples
    BY DEF HeadOK
  <1>2. PICK at \in Nat : at = v.loop_start_sample
    BY <1>1 DEF VgmRecord
  <1>3. w = [v EXCEPT !.loop_ch = ch, !.ch = ch, !.loop_count = 0,
                      !.current_sample = at, !.samples_into_block = at]
    BY <1>1, <1>2 DEF JumpedBack, Uncounted, RestoreLoop, VgmRecord
  <1>4. w \in VgmRecord
    BY <1>1, <1>3 DEF VgmRecord
  <1>5. /\ w.current_sample = at /\ w.samples_into_block = at
        /\ w.ch = ch /\ w.loop_ch = ch
        /\ w.hit_loop = v.hit_loop /\ w.loop_flag = v.loop_flag
        /\ w.num_samples = v.num_samples
        /\ w.loop_start_sample = v.loop_start_sample
        /\ w.loop_end_sample = v.loop_end_sample
        /\ w.loop_current_sample = v.loop_current_sample
        /\ w.loop_samples_into_block = v.loop_samples_into_block
    BY <1>1, <1>3 DEF VgmRecord
  <1>6. at < v.loop_end_sample /\ at <= v.num_samples /\ v.num_samples = f.num_samples
    BY <1>1, <1>2 DEF HeadOK, VgmRecord
  <1>7. w.current_sample <= w.num_samples /\ w.current_sample <= w.loop_end_sample
        /\ w.loop_start_sample <= w.current_sample
    BY <1>1, <1>2, <1>5, <1>6 DEF VgmRecord
  <1> QED  BY <1>1, <1>2, <1>4, <1>5, <1>6, <1>7 DEF HeadOK

\* The head is in the loop when it has to jump back.
LEMMA LoopedHit ==
    ASSUME NEW f, NEW v, HeadOK(f, v), Looped(v)
    PROVE  v.hit_loop
  BY DEF HeadOK, VgmRecord, Looped, AtLoopEnd

\* Passing the loop start saves it, and moves nothing.
LEMMA CheckedHead ==
    ASSUME NEW f, NEW v, HeadOK(f, v), ~Looped(v), NEW w, w = LoopCheck(v)
    PROVE  /\ HeadOK(f, w)
           /\ w.current_sample = v.current_sample
           /\ w.ch = v.ch
           /\ w.loop_flag = v.loop_flag
           /\ w.loop_start_sample = v.loop_start_sample
           /\ w.loop_end_sample = v.loop_end_sample
           /\ v.hit_loop => w = v
           /\ ~v.hit_loop /\ w.hit_loop => w.loop_ch = v.ch
           /\ w.loop_flag => /\ w.current_sample # w.loop_end_sample
                             /\ ~w.hit_loop =>
                                   w.current_sample # w.loop_start_sample
  <1>1. v \in VgmRecord /\ v.loop_target = 0
    BY DEF HeadOK, VgmRecord
  <1>2. v.loop_flag => v.current_sample # v.loop_end_sample
    BY <1>1 DEF Looped, AtLoopEnd, TargetReached
  <1>3. CASE v.loop_flag /\ ~v.hit_loop /\ AtLoopStart(v)
    <2>1. PICK at \in Nat : at = v.current_sample
      BY <1>1 DEF VgmRecord
    <2>2. w = [v EXCEPT !.loop_ch = v.ch, !.loop_current_sample = at,
                        !.loop_samples_into_block = v.samples_into_block,
                        !.hit_loop = TRUE]
      BY <1>2, <1>3, <2>1 DEF LoopCheck, DecodeDoLoop, AtLoopEnd, SaveLoop
    <2>3. w \in VgmRecord
      BY <1>1, <2>1, <2>2 DEF VgmRecord
    <2>4. /\ w.current_sample = at /\ w.samples_into_block = v.samples_into_block
          /\ w.ch = v.ch /\ w.loop_ch = v.ch /\ w.hit_loop
          /\ w.loop_flag = v.loop_flag
          /\ w.num_samples = v.num_samples
          /\ w.loop_start_sample = v.loop_start_sample
          /\ w.loop_end_sample = v.loop_end_sample
          /\ w.loop_current_sample = at
          /\ w.loop_samples_into_block = v.samples_into_block
      BY <1>1, <2>1, <2>2 DEF VgmRecord
    <2>5. at = v.loop_start_sample /\ v.samples_into_block = at
          /\ at < v.loop_end_sample
      BY <1>3, <2>1 DEF AtLoopStart, HeadOK
    <2>6. HeadOK(f, w)
      <3>1. /\ v.num_samples = f.num_samples
            /\ v.loop_start_sample = f.loop_start_sample
            /\ v.loop_start_sample < v.loop_end_sample
            /\ v.loop_end_sample <= v.num_samples
            /\ v.current_sample <= v.num_samples
        BY <1>3 DEF HeadOK
      <3>2. /\ v.loop_start_sample = at /\ w.samples_into_block = at
            /\ at <= at /\ at <= v.loop_end_sample
        BY <1>1, <2>1, <2>4, <2>5 DEF VgmRecord
      <3> QED  BY <1>3, <2>1, <2>3, <2>4, <3>1, <3>2 DEF HeadOK
    <2> QED  BY <1>2, <1>3, <2>1, <2>4, <2>6
  <1>4. CASE ~(v.loop_flag /\ ~v.hit_loop /\ AtLoopStart(v))
    <2>1. w = v
      BY <1>2, <1>4 DEF LoopCheck, DecodeDoLoop, AtLoopEnd
    <2> QED  BY <1>2, <1>4, <2>1 DEF AtLoopStart
  <1> QED  BY <1>3, <1>4

\* A decode goes up to the next loop point at most; without one it is the end
\* that there is nothing to decode at.
LEMMA DecodeStopsAtLoop ==
    ASSUME NEW f, NEW v, HeadOK(f, v), ~Looped(v), NEW room \in Nat, room > 0,
           NEW n, n = FlatSamplesToDo(v, room)
    PROVE  /\ n \in Int /\ n <= room
           /\ n > 0 => HeadOK(f, Advanced(LoopCheck(v), n))
           /\ n <= 0 => /\ ~v.loop_flag
                        /\ v.current_sample = v.num_samples
                        /\ LoopCheck(v) = v
  <1>1. PICK w : w = LoopCheck(v)
    OBVIOUS
  <1>2. /\ HeadOK(f, w)
        /\ w.current_sample = v.current_sample
        /\ w.loop_flag = v.loop_flag
        /\ w.loop_flag => /\ w.current_sample # w.loop_end_sample
                          /\ ~w.hit_loop => w.current_sample # w.loop_start_sample
    BY <1>1, CheckedHead
  <1>3. w \in VgmRecord /\ w.samples_into_block = w.current_sample
        /\ w.num_samples = f.num_samples
    BY <1>2 DEF HeadOK
  <1>4. PICK at \in Nat, total \in Nat, from \in Nat, to \in Nat :
          /\ at = w.current_sample /\ total = w.num_samples
          /\ from = w.loop_start_sample /\ to = w.loop_end_sample
    BY <1>3 DEF VgmRecord
  <1>5. /\ w.frame = 1 /\ w.loop_flag \in BOOLEAN /\ w.hit_loop \in BOOLEAN
        /\ at <= total
        /\ w.loop_flag => from < to /\ to <= total /\ at # to
        /\ w.loop_flag /\ w.hit_loop => from <= at /\ at <= to
        /\ w.loop_flag /\ ~w.hit_loop => at < from
        /\ w.hit_loop => w.loop_flag
    BY <1>2, <1>3, <1>4 DEF HeadOK, VgmRecord
  <1>6. PICK stop \in Nat :
          stop = IF w.loop_flag THEN (IF w.hit_loop THEN to ELSE from) ELSE total
    BY <1>4
  <1>7. SamplesUpToLoopPoint(w, total) = stop - at
    <2>1. SamplesUpToLoopPoint(w, total) =
            IF w.loop_flag /\ total > from /\ ~w.hit_loop THEN from - at
            ELSE IF w.loop_flag /\ total > to THEN to - at ELSE total - at
      BY <1>3, <1>4 DEF SamplesUpToLoopPoint
    <2> QED  BY <1>4, <1>5, <1>6, <2>1
  <1>8. n = IF stop - at <= room THEN stop - at ELSE room
    BY <1>1, <1>4, <1>5, <1>7 DEF FlatSamplesToDo, DecodeGetSamplesToDo, SmallerOf
  <1>9. n \in Int /\ n <= room /\ at <= stop
        /\ (n <= 0 => ~w.loop_flag /\ at = total)
    BY <1>4, <1>5, <1>6, <1>8
  <1>10. ASSUME n > 0 PROVE HeadOK(f, Advanced(w, n))
    <2>1. PICK k \in Nat : k = at + n
      BY <1>9, <1>10
    <2>2. k <= stop
      BY <1>8, <1>9, <1>10, <2>1
    <2>3. PICK u : u = Advanced(w, n)
      OBVIOUS
    <2>4. u = [w EXCEPT !.current_sample = k, !.samples_into_block = k]
      BY <1>3, <1>4, <2>1, <2>3 DEF Advanced, VgmRecord
    <2>5. u \in VgmRecord
      BY <1>3, <2>4 DEF VgmRecord
    <2>6. /\ u.current_sample = k /\ u.samples_into_block = k
          /\ u.hit_loop = w.hit_loop /\ u.loop_flag = w.loop_flag
          /\ u.num_samples = total
          /\ u.loop_start_sample = from /\ u.loop_end_sample = to
          /\ u.loop_current_sample = w.loop_current_sample
          /\ u.loop_samples_into_block = w.loop_samples_into_block
      BY <1>3, <1>4, <2>4 DEF VgmRecord
    <2>7. at <= k
      BY <1>4, <1>9, <1>10, <2>1
    <2>8. /\ k <= total
          /\ u.hit_loop => from <= k /\ k <= to
          /\ u.loop_flag /\ ~u.hit_loop => k <= from
      BY <1>4, <1>5, <1>6, <2>2, <2>6, <2>7
    <2>9. /\ w.loop_flag => from = f.loop_start_sample
          /\ w.hit_loop => /\ w.loop_current_sample = from
                           /\ w.loop_samples_into_block = from
          /\ total = f.num_samples
      BY <1>2, <1>3, <1>4 DEF HeadOK
    <2>10. HeadOK(f, u)
      BY <1>5, <2>5, <2>6, <2>8, <2>9 DEF HeadOK
    <2> QED  BY <2>3, <2>10
  <1>11. ~w.loop_flag => w = v
    BY <1>1, <1>2 DEF LoopCheck
  <1> QED  BY <1>1, <1>2, <1>4, <1>9, <1>10, <1>11

-----------------------------------------------------------------------------
(* Where a seek or a reset leaves the codec *)

\* The codec, its buffers and what is to be discarded agree on the place.
CodecOK(f, v, c, d, raw) ==
    /\ HeldInOrder(f, v, c, d)
    /\ StandsAt(f, v, c, d, raw)
    /\ FrameIsExact(f, v, c, d)
    /\ HeaderLoopOK(f, c)
    /\ NoDiscard(f, v, c, d)

\* The same with nothing buffered, ch being the packet in ch[0].offset.
Landing(f, ch, c, discard, raw) ==
    /\ ch \in Nat /\ c \in CodecRecord /\ discard \in Nat
    /\ Left(c.left) = 0
    /\ LET k == IF f.codec \in {"hca", "tac"} THEN c.next
                ELSE IF f.codec = "vorbis" /\ ~c.primed THEN ch + 1 ELSE ch
       IN  \/ RawStart(f, k) + c.discard + discard = raw
           \/ /\ RawStart(f, k) = DataEnd(f)
              /\ DataEnd(f) + c.discard + discard <= raw
    /\ f.codec = "atrac9" => ch = 0 \/ c.discard + discard >= FrameSize(f)
    /\ HeaderLoopOK(f, c)
    /\ f.codec \in {"relic", "binka"} => c.discard = 0
    /\ f.codec = "relic" => discard = 0 /\ ch = 0

\* A decoder that landed stands right, once it is in ch[0].
LEMMA LandedStands ==
    ASSUME NEW f \in Files, NEW v, v.ch \in Nat,
           NEW c, NEW discard, NEW raw, Landing(f, v.ch, c, discard, raw),
           f.codec = "relic" /\ v.loop_flag =>
               IF v.hit_loop THEN v.loop_ch = 0 ELSE v.ch = 0,
           NEW d, d = [samples |-> Nothing, discard |-> discard, exact |-> TRUE]
    PROVE  /\ CodecOK(f, v, c, d, raw)
           /\ d \in DecodeState
           /\ Left(d.samples) = 0
  <1>1. /\ d = [samples |-> Nothing, discard |-> discard, exact |-> TRUE]
        /\ d \in DecodeState
    BY DEF Landing, DecodeState, Nothing, Span
  <1>2. d.samples = Nothing /\ d.discard = discard /\ d.exact = TRUE
    BY <1>1
  <1>3. Left(d.samples) = 0 /\ d.samples.from <= d.samples.to
    BY <1>2 DEF Left, Nothing
  <1>4. /\ c \in CodecRecord /\ Left(c.left) = 0 /\ discard \in Nat
        /\ c.discard \in Nat
    BY DEF Landing, CodecRecord
  <1>5. c.left.from <= c.left.to
    BY <1>4 DEF CodecRecord, Span, Left
  <1>6. HeldInOrder(f, v, c, d)
    BY <1>3, <1>4, <1>5 DEF HeldInOrder
  <1>7. PICK k : k = NextPacket(f, v, c)
    OBVIOUS
  <1>8. NextOut(f, v, c, d) = RawStart(f, k)
    BY <1>3, <1>4, <1>7 DEF NextOut, NextHeld
  <1>9. k = IF f.codec \in {"hca", "tac"} THEN c.next
            ELSE IF f.codec = "vorbis" /\ ~c.primed THEN v.ch + 1 ELSE v.ch
    BY <1>7 DEF NextPacket, PacketOf
  <1>10. k \in Nat
    BY <1>4, <1>9 DEF CodecRecord
  <1>11. Pending(c, d) = c.discard + discard
    BY <1>2 DEF Pending
  <1>12. RawStart(f, k) \in Nat /\ DataEnd(f) \in Nat
    BY <1>10, WithinData
  <1>13. \/ RawStart(f, k) + c.discard + discard = raw
         \/ /\ RawStart(f, k) = DataEnd(f)
            /\ DataEnd(f) + c.discard + discard <= raw
    BY <1>9 DEF Landing
  <1>14. StandsAt(f, v, c, d, raw)
    <2>1. RawStart(f, k) + Pending(c, d) = RawStart(f, k) + c.discard + discard
      BY <1>4, <1>11, <1>12
    <2>2. DataEnd(f) + Pending(c, d) = DataEnd(f) + c.discard + discard
      BY <1>4, <1>11, <1>12
    <2> QED  BY <1>8, <1>13, <2>1, <2>2 DEF StandsAt
  <1>15. FrameIsExact(f, v, c, d)
    BY <1>2, <1>3, <1>11 DEF FrameIsExact, Landing
  <1>16. HeaderLoopOK(f, c) /\ NoDiscard(f, v, c, d)
    BY <1>2 DEF NoDiscard, Landing
  <1> QED  BY <1>1, <1>3, <1>6, <1>14, <1>15, <1>16 DEF CodecOK

\* Where a jump back starts from.
LEMMA BeforeJump ==
    ASSUME FrameInv, vgm.hit_loop, pc # "frames",
           NEW n, n = vgm.loop_current_sample
    PROVE  /\ file \in Files /\ SoundFile(file) /\ file \in FileRecord
           /\ n \in Nat /\ n = file.loop_start_sample
           /\ n = vgm.loop_start_sample
           /\ codec \in CodecRecord /\ vgm.loop_ch \in Nat
           /\ file.codec # "vorbis" => Left(codec.left) = 0
           /\ KeepsDecoder(file, n) => codec.primed /\ Left(codec.left) = 0
           /\ file.codec = "relic" => vgm.loop_ch = 0
           /\ file.codec \in {"relic", "binka"} => codec.discard = 0
           /\ HeaderLoopOK(file, codec)
           /\ file.delay \in Nat
           /\ file.codec \notin {"speex", "atrac9", "aac", "hca"} => file.delay = 0
  <1>1. file \in Files /\ SoundFile(file) /\ codec \in CodecRecord
        /\ HeadOK(file, vgm) /\ HeaderLoopOK(file, codec)
        /\ NoDiscard(file, vgm, codec, ds) /\ HeldInOrder(file, vgm, codec, ds)
        /\ NothingHeld
    BY DEF FrameInv, TypeOK, HeadInv
  <1>2. file \in FileRecord /\ file.delay \in Nat
    BY <1>1, FilesAssumption DEF FileRecord
  <1>3. vgm \in VgmRecord /\ vgm.loop_flag
        /\ vgm.loop_current_sample = vgm.loop_start_sample
        /\ vgm.loop_start_sample = file.loop_start_sample
    BY <1>1 DEF HeadOK
  <1>4. n \in Nat /\ vgm.loop_ch \in Nat
    BY <1>3 DEF VgmRecord
  <1>5. Left(codec.left) \in Nat
    BY <1>1 DEF HeldInOrder, CodecRecord, Span, Left
  <1>6. file.codec # "vorbis" => Left(codec.left) = 0
    BY <1>1, <1>5 DEF HeldInOrder
  <1>7. KeepsDecoder(file, n) => codec.primed /\ Left(codec.left) = 0
    BY <1>1, <1>3, <1>5 DEF NothingHeld, NeedsFrame
  <1>8. /\ file.codec = "relic" => vgm.loop_ch = 0
        /\ file.codec \in {"relic", "binka"} => codec.discard = 0
    BY <1>1, <1>3 DEF NoDiscard
  <1>9. file.codec \notin {"speex", "atrac9", "aac", "hca"} => file.delay = 0
    BY <1>1 DEF SoundFile
  <1> QED  BY <1>1, <1>2, <1>3, <1>4, <1>6, <1>7, <1>8, <1>9

\* Codecs that start over and discard up to the place.
LEMMA SeekFromStart ==
    ASSUME FrameInv, vgm.hit_loop, pc # "frames",
           NEW n, n = vgm.loop_current_sample,
           file.codec \in {"speex", "binka", "aac", "relic"},
           NEW s, s = DecodeSeek(n)
    PROVE  Landing(file, s.loop_ch, s.codec, s.discard, n + file.delay)
  <1>1. /\ file \in Files /\ n \in Nat /\ n = file.loop_start_sample
        /\ codec \in CodecRecord /\ vgm.loop_ch \in Nat
        /\ Left(codec.left) = 0
        /\ file.codec = "relic" => vgm.loop_ch = 0
        /\ file.codec \in {"relic", "binka"} => codec.discard = 0
        /\ file.delay \in Nat
        /\ file.codec \notin {"speex", "atrac9", "aac", "hca"} => file.delay = 0
        /\ SoundFile(file)
    BY BeforeJump
  <1>2. RawStart(file, 0) = 0
    BY <1>1, PacketSpans
  <1>3. CASE file.codec = "speex"
    <2>1. PICK c : c = [codec EXCEPT !.discard = file.delay]
      OBVIOUS
    <2>2. s = Sought(c, n, 0)
      BY <1>3, <2>1 DEF DecodeSeek, SeekSpeex, CodecReset
    <2>3. s.codec = c /\ s.discard = n /\ s.loop_ch = 0
      BY <2>2 DEF Sought
    <2>4. c \in CodecRecord /\ c.left = codec.left /\ c.discard = file.delay
      BY <1>1, <2>1 DEF CodecRecord
    <2>5. 0 + file.delay + n = n + file.delay
      BY <1>1
    <2> QED  BY <1>1, <1>2, <1>3, <2>3, <2>4, <2>5 DEF Landing, HeaderLoopOK
  <1>4. CASE file.codec = "binka"
    <2>1. s = Sought(codec, n, 0)
      BY <1>4 DEF DecodeSeek, SeekBinka, CodecReset
    <2>2. s.codec = codec /\ s.discard = n /\ s.loop_ch = 0
      BY <2>1 DEF Sought
    <2>3. 0 + 0 + n = n + file.delay
      BY <1>1, <1>4
    <2> QED  BY <1>1, <1>2, <1>4, <2>2, <2>3 DEF Landing, HeaderLoopOK
  <1>5. CASE file.codec = "aac"
    <2>1. PICK c : c = [codec EXCEPT !.discard = n + file.delay]
      OBVIOUS
    <2>2. s = Sought(c, 0, 0)
      BY <1>5, <2>1 DEF DecodeSeek, SeekAac, CodecReset
    <2>3. s.codec = c /\ s.discard = 0 /\ s.loop_ch = 0
      BY <2>2 DEF Sought
    <2>4. c \in CodecRecord /\ c.left = codec.left /\ c.discard = n + file.delay
      BY <1>1, <2>1 DEF CodecRecord
    <2>5. 0 + (n + file.delay) + 0 = n + file.delay
      BY <1>1
    <2> QED  BY <1>1, <1>2, <1>5, <2>3, <2>4, <2>5 DEF Landing, HeaderLoopOK
  <1>6. CASE file.codec = "relic"
    <2>1. PICK c : c = [codec EXCEPT !.discard = n]
      OBVIOUS
    <2>2. s = Sought(c, 0, vgm.loop_ch)
      BY <1>1, <1>6, <2>1 DEF DecodeSeek, SeekRelic, CodecReset, CodecRecord
    <2>3. s.codec = c /\ s.discard = 0 /\ s.loop_ch = 0
      BY <1>1, <1>6, <2>2 DEF Sought
    <2>4. n = 0
      BY <1>1, <1>6 DEF SoundFile
    <2>5. c \in CodecRecord /\ c.left = codec.left /\ c.discard = 0
      BY <1>1, <2>1, <2>4 DEF CodecRecord
    <2>6. 0 + 0 + 0 = n + file.delay
      BY <1>1, <1>6, <2>4
    <2> QED  BY <1>1, <1>2, <1>6, <2>3, <2>5, <2>6 DEF Landing, HeaderLoopOK
  <1> QED  BY <1>3, <1>4, <1>5, <1>6

\* atrac9 goes to the superframe before, and discards it too.
LEMMA SeekBySuperframe ==
    ASSUME FrameInv, vgm.hit_loop, pc # "frames",
           NEW n, n = vgm.loop_current_sample,
           file.codec = "atrac9",
           NEW s, s = DecodeSeek(n)
    PROVE  Landing(file, s.loop_ch, s.codec, s.discard, n + file.delay)
  <1>1. /\ file \in Files /\ n \in Nat /\ codec \in CodecRecord
        /\ Left(codec.left) = 0 /\ file.delay \in Nat
        /\ SoundFile(file)
    BY BeforeJump
  <1>2. EqualFrames(file)
    BY <1>1 DEF SoundFile, CountsFrames
  <1>3. PICK a \in Nat : a = n + file.delay
    BY <1>1
  <1>4. PICK back : back = SmallerOf(1, a \div FrameSize(file))
    OBVIOUS
  <1>5. a \div FrameSize(file) \in Nat
    BY <1>1, <1>2, FrameIsNumber
  <1>6. back \in {0, 1} /\ back <= a \div FrameSize(file)
        /\ (back = 0 => a \div FrameSize(file) = 0)
    BY <1>4, <1>5 DEF SmallerOf
  <1>7. PICK k \in Nat, into \in Nat, size \in Nat :
          /\ k = a \div FrameSize(file) /\ into = a % FrameSize(file)
          /\ size = FrameSize(file) /\ size > 0
          /\ k - back \in Nat
          /\ \/ RawStart(file, k - back) + into + back * size = a
             \/ /\ RawStart(file, k - back) = DataEnd(file)
                /\ DataEnd(file) + into + back * size <= a
    BY <1>1, <1>2, <1>6, FrameOf
  <1>8. PICK more \in Nat : more = back * size /\ (back = 1 => more = size)
                            /\ (back = 0 => more = 0)
    <2>1. back * size = IF back = 1 THEN size ELSE 0
      <3>1. 1 * size = size /\ 0 * size = 0
        BY <1>7
      <3> QED  BY <1>6, <3>1
    <2>2. size \in Nat
      BY <1>7
    <2> QED  BY <2>1, <2>2
  <1>9. PICK c : c = [codec EXCEPT !.discard = into + more]
    OBVIOUS
  <1>10. s = Sought(c, 0, k - back)
    <2>1. s = SeekAtrac9(n)
      BY DEF DecodeSeek
    <2>2. [CodecReset EXCEPT !.discard = into + more] = c
      BY <1>1, <1>9 DEF CodecReset, CodecRecord
    <2>3. FrameSamples = size
      BY <1>7 DEF FrameSamples
    <2> QED
      BY <1>3, <1>4, <1>7, <1>8, <2>1, <2>2, <2>3 DEF SeekAtrac9
  <1>11. s.codec = c /\ s.discard = 0 /\ s.loop_ch = k - back
    BY <1>10 DEF Sought
  <1>12. c \in CodecRecord /\ c.left = codec.left /\ c.discard = into + more
    BY <1>1, <1>7, <1>8, <1>9 DEF CodecRecord
  <1>13. PICK j \in Nat : j = k - back
    BY <1>7
  <1>14. RawStart(file, j) \in Nat /\ DataEnd(file) \in Nat
    BY <1>1, WithinData
  <1>15. \/ RawStart(file, j) + c.discard + 0 = a
         \/ /\ RawStart(file, j) = DataEnd(file)
            /\ DataEnd(file) + c.discard + 0 <= a
    BY <1>7, <1>8, <1>12, <1>13, <1>14
  <1>16. j = 0 \/ c.discard + 0 >= FrameSize(file)
    BY <1>6, <1>7, <1>8, <1>12, <1>13
  <1> QED
    BY <1>1, <1>3, <1>11, <1>12, <1>13, <1>15, <1>16 DEF Landing, HeaderLoopOK

\* hca goes to the frame the loop of its header starts in.
LEMMA SeekByHeader ==
    ASSUME FrameInv, vgm.hit_loop, pc # "frames",
           NEW n, n = vgm.loop_current_sample,
           file.codec = "hca",
           NEW s, s = DecodeSeek(n)
    PROVE  Landing(file, s.loop_ch, s.codec, s.discard, n + file.delay)
  <1>1. /\ file \in Files /\ n \in Nat /\ n = file.loop_start_sample
        /\ codec \in CodecRecord /\ vgm.loop_ch \in Nat
        /\ Left(codec.left) = 0 /\ file.delay \in Nat
        /\ SoundFile(file) /\ HeaderLoopOK(file, codec)
    BY BeforeJump
  <1>2. EqualFrames(file)
    BY <1>1 DEF SoundFile, CountsFrames
  <1>3. PICK a \in Nat : a = n + file.delay
    BY <1>1
  <1>4. PICK k \in Nat, into \in Nat :
          /\ k = a \div FrameSize(file) /\ into = a % FrameSize(file)
          /\ \/ RawStart(file, k) + into = a
             \/ /\ RawStart(file, k) = DataEnd(file)
                /\ DataEnd(file) + into <= a
    <2>1. PICK k \in Nat, into \in Nat, size \in Nat :
            /\ k = a \div FrameSize(file) /\ into = a % FrameSize(file)
            /\ size = FrameSize(file) /\ size > 0
            /\ k - 0 \in Nat
            /\ \/ RawStart(file, k - 0) + into + 0 * size = a
               \/ /\ RawStart(file, k - 0) = DataEnd(file)
                  /\ DataEnd(file) + into + 0 * size <= a
      <3>1. a \div FrameSize(file) \in Nat
        BY <1>1, <1>2, FrameIsNumber
      <3> QED  BY <1>1, <1>2, <1>3, <3>1, FrameOf
    <2>2. k - 0 = k /\ 0 * size = 0
      BY <2>1
    <2>3. RawStart(file, k) \in Nat /\ DataEnd(file) \in Nat
      BY <1>1, <2>1, WithinData
    <2> QED  BY <2>1, <2>2, <2>3
  <1>5. k = LoopBlock(n, file) /\ into = LoopDelay(n, file)
    BY <1>3, <1>4 DEF LoopBlock, LoopDelay
  <1>6. PICK c : c = [codec EXCEPT !.loop_block = k, !.loop_delay = into,
                                   !.next = k, !.discard = into]
    OBVIOUS
  <1>7. s = Sought(c, 0, vgm.loop_ch)
    <2>1. s = SeekHca(n)
      BY DEF DecodeSeek
    <2>2. PICK given \in BOOLEAN : given <=> codec.loop_block # 0
                                             \/ codec.loop_delay # 0
      OBVIOUS
    <2>3. given => codec.loop_block = k /\ codec.loop_delay = into
      BY <1>1, <1>5, <2>2 DEF HeaderLoopOK
    <2> QED  BY <1>5, <1>6, <2>1, <2>2, <2>3 DEF SeekHca
  <1>8. s.codec = c /\ s.discard = 0 /\ s.loop_ch = vgm.loop_ch
    BY <1>7 DEF Sought
  <1>9. /\ c \in CodecRecord /\ c.left = codec.left /\ c.discard = into
        /\ c.next = k /\ c.loop_block = k /\ c.loop_delay = into
    BY <1>1, <1>4, <1>6 DEF CodecRecord
  <1>10. RawStart(file, k) \in Nat /\ DataEnd(file) \in Nat
    BY <1>1, <1>4, WithinData
  <1>11. \/ RawStart(file, c.next) + c.discard + 0 = a
         \/ /\ RawStart(file, c.next) = DataEnd(file)
            /\ DataEnd(file) + c.discard + 0 <= a
    BY <1>4, <1>9, <1>10
  <1>12. HeaderLoopOK(file, c)
    BY <1>1, <1>5, <1>9 DEF HeaderLoopOK
  <1> QED  BY <1>1, <1>3, <1>8, <1>9, <1>11, <1>12 DEF Landing

\* tac divides if its header has the loop, and else discards from the start.
LEMMA SeekByLoop ==
    ASSUME FrameInv, vgm.hit_loop, pc # "frames",
           NEW n, n = vgm.loop_current_sample,
           file.codec = "tac",
           NEW s, s = DecodeSeek(n)
    PROVE  /\ Landing(file, s.loop_ch, s.codec, s.discard, n + file.delay)
           /\ s.codec.next < PacketCount
  <1>1. /\ file \in Files /\ n \in Nat /\ n = file.loop_start_sample
        /\ codec \in CodecRecord /\ vgm.loop_ch \in Nat
        /\ Left(codec.left) = 0 /\ file.delay = 0
        /\ SoundFile(file)
    BY BeforeJump
  <1>2. EqualFrames(file) /\ n < DataEnd(file)
    BY <1>1 DEF SoundFile, CountsFrames
  <1>3. PICK len \in Nat, size \in Nat :
          /\ len = PacketCount /\ size = FrameSamples /\ size > 0
          /\ DataEnd(file) = size * len
    BY <1>1, <1>2, FrameStarts DEF PacketCount, FrameSamples
  <1>4. PICK k \in Nat, into \in Nat :
          k = n \div size /\ into = n % size /\ n = size * k + into /\ into < size
    BY <1>1, <1>3, Division
  <1>5. k < len
    <2>1. SUFFICES ASSUME k >= len PROVE FALSE
      BY <1>3, <1>4
    <2>2. size * len \in Nat /\ size * k \in Nat /\ size * len <= size * k
      BY <1>3, <1>4, <2>1, ProductGrows
    <2>3. PICK sl \in Nat, sk \in Nat : sl = size * len /\ sk = size * k
      BY <2>2
    <2>4. n < sl /\ n = sk + into /\ sl <= sk
      BY <1>2, <1>3, <1>4, <2>2, <2>3
    <2>5. into \in Nat /\ n \in Nat
      BY <1>1, <1>4
    <2> QED  BY <2>3, <2>4, <2>5
  <1>6. /\ RawStart(file, k) = size * k
        /\ RawStart(file, 0) = 0
    <2>1. PICK len_1 \in Nat, size_1 \in Nat :
            /\ len_1 = Len(file.packets) /\ size_1 = FrameSize(file)
            /\ RawStart(file, k) = IF k <= len_1 THEN size_1 * k
                                   ELSE size_1 * len_1
      <3>1. k \in Nat /\ file \in Files /\ EqualFrames(file)
        BY <1>1, <1>2, <1>4
      <3>2. \E n_1 \in Nat, size_1 \in Nat :
              /\ n_1 = Len(file.packets) /\ size_1 = FrameSize(file) /\ size_1 > 0
              /\ DataEnd(file) = size_1 * n_1
              /\ RawStart(file, k) = IF k <= n_1 THEN size_1 * k
                                     ELSE size_1 * n_1
        BY <3>1, FrameStarts, Zenon
      <3> QED  BY <3>2, Zenon
    <2>2. len_1 = len /\ size_1 = size
      BY <1>3, <2>1 DEF PacketCount, FrameSamples
    <2>3. k <= len
      BY <1>3, <1>4, <1>5
    <2>4. RawStart(file, 0) = 0
      BY <1>1, PacketSpans
    <2> QED  BY <2>1, <2>2, <2>3, <2>4
  <1>7. 0 < len
    BY <1>3, <1>4, <1>5
  <1>8. PICK next \in Nat, discard \in Nat :
          /\ next = (IF n = file.header_loop THEN k ELSE 0)
          /\ discard = IF n = file.header_loop THEN into ELSE n
    BY <1>1, <1>4
  <1>9. PICK c : c = [codec EXCEPT !.next = next, !.discard = discard]
    OBVIOUS
  <1>10. s = Sought(c, 0, vgm.loop_ch)
    BY <1>3, <1>4, <1>8, <1>9 DEF DecodeSeek, SeekTac
  <1>11. s.codec = c /\ s.discard = 0 /\ s.loop_ch = vgm.loop_ch
    BY <1>10 DEF Sought
  <1>12. /\ c \in CodecRecord /\ c.left = codec.left
         /\ c.next = next /\ c.discard = discard
    BY <1>1, <1>8, <1>9 DEF CodecRecord
  <1>13. RawStart(file, next) + discard + 0 = n + file.delay
    <2>1. RawStart(file, k) \in Nat /\ n = RawStart(file, k) + into
      BY <1>1, <1>4, <1>6, WithinData
    <2>2. into \in Nat /\ n + file.delay = n
      BY <1>1, <1>4
    <2>3. CASE n = file.header_loop
      <3>1. next = k /\ discard = into
        BY <1>8, <2>3
      <3> QED  BY <2>1, <2>2, <3>1
    <2>4. CASE n # file.header_loop
      <3>1. next = 0 /\ discard = n
        BY <1>8, <2>4
      <3> QED  BY <1>1, <1>6, <2>2, <3>1
    <2> QED  BY <2>3, <2>4
  <1>14. Landing(file, s.loop_ch, s.codec, s.discard, n + file.delay)
    BY <1>1, <1>11, <1>12, <1>13 DEF Landing, HeaderLoopOK
  <1>15. next < len
    BY <1>5, <1>7, <1>8
  <1> QED  BY <1>3, <1>11, <1>12, <1>14, <1>15

\* vorbis goes to the last entry of its table that is not past the place.
LEMMA SeekByTable ==
    ASSUME FrameInv, vgm.hit_loop, pc # "frames",
           NEW n, n = vgm.loop_current_sample,
           file.codec = "vorbis",
           NEW s, s = DecodeSeek(n)
    PROVE  /\ Landing(file, s.loop_ch, s.codec, s.discard, n + file.delay)
           /\ KeepsDecoder(file, n) => s.codec.primed
  <1>1. /\ file \in Files /\ n \in Nat /\ codec \in CodecRecord
        /\ file.delay = 0 /\ SoundFile(file)
        /\ KeepsDecoder(file, n) => codec.primed /\ Left(codec.left) = 0
    BY BeforeJump
  <1>2. RawStart(file, 1) = 0 /\ TableIsRight(file)
    BY <1>1 DEF SoundFile
  <1>3. PICK i : i = SeekTableEntry(file, n)
    OBVIOUS
  <1>4. PICK fresh : fresh = [codec EXCEPT !.discard = 0, !.left = Nothing,
                                            !.primed = FALSE]
    OBVIOUS
  <1>5. /\ fresh \in CodecRecord /\ fresh.left = Nothing
        /\ fresh.primed = FALSE /\ CodecReset = fresh
    BY <1>1, <1>4 DEF CodecRecord, Nothing, Span, CodecReset
  <1>6. Left(Nothing) = 0
    BY DEF Left, Nothing
  <1>7. CASE i = 0
    <2>1. PICK c : c = [fresh EXCEPT !.discard = n]
      OBVIOUS
    <2>2. s = Sought(c, 0, 0)
      BY <1>3, <1>5, <1>7, <2>1 DEF DecodeSeek, SeekVorbis
    <2>3. s.codec = c /\ s.discard = 0 /\ s.loop_ch = 0
      BY <2>2 DEF Sought
    <2>4. /\ c \in CodecRecord /\ c.left = Nothing /\ c.primed = FALSE
          /\ c.discard = n
      BY <1>1, <1>5, <2>1 DEF CodecRecord
    <2>5. RawStart(file, 0 + 1) + n + 0 = n + file.delay
      BY <1>1, <1>2
    <2>6. ~KeepsDecoder(file, n)
      BY <1>3, <1>7 DEF KeepsDecoder
    <2> QED
      BY <1>1, <1>6, <2>3, <2>4, <2>5, <2>6 DEF Landing, HeaderLoopOK
  <1>8. CASE i # 0
    <2>1. PICK entry : entry = file.table[i]
      OBVIOUS
    <2>2. /\ i \in DOMAIN file.table
          /\ entry.sample \in Nat /\ entry.packet \in Nat /\ entry.sample <= n
      BY <1>1, <1>3, <1>8, <2>1, EntryNotPast
    <2>3. PICK restarts \in BOOLEAN : restarts <=> Restarts(file, entry)
      OBVIOUS
    <2>4. entry.sample = RawStart(file, IF restarts THEN entry.packet + 1
                                        ELSE entry.packet)
      BY <1>2, <2>1, <2>2, <2>3 DEF TableIsRight
    <2>5. KeepsDecoder(file, n) <=> ~restarts
      BY <1>3, <1>8, <2>1, <2>3 DEF KeepsDecoder
    <2>6. PICK was : was = IF restarts THEN fresh ELSE codec
      OBVIOUS
    <2>7. was \in CodecRecord /\ Left(was.left) = 0 /\ was.primed = ~restarts
      BY <1>1, <1>5, <1>6, <2>5, <2>6 DEF CodecRecord
    <2>8. PICK c : c = [was EXCEPT !.discard = n - entry.sample]
      OBVIOUS
    <2>9. s = Sought(c, 0, entry.packet)
      BY <1>3, <1>5, <1>8, <2>1, <2>3, <2>6, <2>8
         DEF DecodeSeek, SeekVorbis, Restarts
    <2>10. s.codec = c /\ s.discard = 0 /\ s.loop_ch = entry.packet
      BY <2>9 DEF Sought
    <2>11. /\ c \in CodecRecord /\ Left(c.left) = 0 /\ c.primed = ~restarts
           /\ c.discard = n - entry.sample
      BY <1>1, <2>2, <2>7, <2>8 DEF CodecRecord
    <2>12. entry.sample + (n - entry.sample) + 0 = n + file.delay
      BY <1>1, <2>2
    <2>13. RawStart(file, IF ~c.primed THEN entry.packet + 1 ELSE entry.packet)
             + c.discard + 0 = n + file.delay
      BY <2>4, <2>11, <2>12
    <2>14. Landing(file, s.loop_ch, s.codec, s.discard, n + file.delay)
      BY <1>1, <2>2, <2>10, <2>11, <2>13 DEF Landing, HeaderLoopOK
    <2> QED  BY <2>5, <2>10, <2>11, <2>14
  <1> QED  BY <1>7, <1>8

\* The eight kinds of codec.
LEMMA Codecs ==
    ASSUME NEW f \in Files
    PROVE  f.codec \in {"speex", "binka", "atrac9", "aac", "relic", "hca", "tac",
                        "vorbis"}
  BY FilesAssumption DEF FileRecord

\* A jump back puts the head on the loop start, and the codec with it.
LEMMA JumpLands ==
    ASSUME FrameInv, vgm.hit_loop, pc # "frames", LoopBack, file' = file
    PROVE  /\ HeadOK(file, vgm') /\ vgm'.hit_loop /\ vgm'.loop_flag
           /\ vgm'.current_sample < vgm'.loop_end_sample
           /\ codec' \in CodecRecord /\ ds' \in DecodeState
           /\ Left(ds'.samples) = 0
           /\ CodecOK(file, vgm', codec', ds', vgm'.current_sample + file.delay)
           /\ NothingHeld'
           /\ file.codec = "tac" => codec'.next < PacketCount
  <1>1. PICK n, s : n = vgm.loop_current_sample /\ s = DecodeSeek(n)
    OBVIOUS
  <1>2. file \in Files /\ n = vgm.loop_start_sample
    BY <1>1, BeforeJump
  <1>3. /\ vgm' = JumpedBack(vgm, s.loop_ch)
        /\ codec' = s.codec
        /\ ds' = [ResetDecodeState EXCEPT !.discard = s.discard]
    BY <1>1 DEF LoopBack, JumpedBack
  <1>4. /\ Landing(file, s.loop_ch, s.codec, s.discard, n + file.delay)
        /\ file.codec = "tac" => s.codec.next < PacketCount
        /\ KeepsDecoder(file, n) => s.codec.primed
    <2>1. CASE file.codec \in {"speex", "binka", "aac", "relic"}
      BY <1>1, <2>1, SeekFromStart DEF KeepsDecoder
    <2>2. CASE file.codec = "atrac9"
      BY <1>1, <2>2, SeekBySuperframe DEF KeepsDecoder
    <2>3. CASE file.codec = "hca"
      BY <1>1, <2>3, SeekByHeader DEF KeepsDecoder
    <2>4. CASE file.codec = "tac"
      BY <1>1, <2>4, SeekByLoop DEF KeepsDecoder
    <2>5. CASE file.codec = "vorbis"
      BY <1>1, <2>5, SeekByTable
    <2> QED  BY <1>2, <2>1, <2>2, <2>3, <2>4, <2>5, Codecs
  <1>5. PICK w : w = vgm'
    OBVIOUS
  <1>6. s.loop_ch \in Nat /\ (file.codec = "relic" => s.loop_ch = 0)
        /\ s.codec \in CodecRecord /\ Left(s.codec.left) = 0
    BY <1>4 DEF Landing
  <1>7. HeadOK(file, vgm)
    BY DEF FrameInv, HeadInv
  <1>8. w = JumpedBack(vgm, s.loop_ch)
    BY <1>3, <1>5
  <1>9. /\ HeadOK(file, w)
        /\ w.current_sample = vgm.loop_start_sample
        /\ w.ch = s.loop_ch /\ w.loop_ch = s.loop_ch /\ w.hit_loop
        /\ w.loop_flag /\ w.loop_start_sample = vgm.loop_start_sample
        /\ w.loop_end_sample = vgm.loop_end_sample
        /\ vgm.loop_start_sample < vgm.loop_end_sample
    BY <1>6, <1>7, <1>8, JumpedHead
  <1>10. PICK d : d = [ResetDecodeState EXCEPT !.discard = s.discard]
    OBVIOUS
  <1>11. /\ CodecOK(file, w, s.codec, d, n + file.delay)
         /\ d \in DecodeState /\ Left(d.samples) = 0
    <2>1. PICK c, raw, discard :
            c = s.codec /\ raw = n + file.delay /\ discard = s.discard
      OBVIOUS
    <2>2. w.ch \in Nat /\ Landing(file, w.ch, c, discard, raw)
      BY <1>4, <1>6, <1>9, <2>1
    <2>3. file.codec = "relic" /\ w.loop_flag =>
              IF w.hit_loop THEN w.loop_ch = 0 ELSE w.ch = 0
      BY <1>6, <1>9
    <2>4. d = [samples |-> Nothing, discard |-> discard, exact |-> TRUE]
      BY <1>10, <2>1 DEF ResetDecodeState
    <2>5. CodecOK(file, w, c, d, raw) /\ d \in DecodeState /\ Left(d.samples) = 0
      BY <1>2, <2>2, <2>3, <2>4, LandedStands
    <2> QED  BY <2>1, <2>5
  <1>12. NothingHeld'
    <2>1. KeepsDecoder(file', w.loop_start_sample) => codec'.primed
      BY <1>2, <1>3, <1>4, <1>9
    <2>2. Left(codec'.left) = 0
      BY <1>3, <1>6
    <2> QED  BY <1>5, <2>1, <2>2 DEF NothingHeld
  <1> QED
    BY <1>2, <1>3, <1>4, <1>5, <1>6, <1>9, <1>10, <1>11, <1>12

\* Every codec but aac is on the start after its reset.
LEMMA ResetLands ==
    ASSUME FrameInv, pc = "idle", file.codec # "aac"
    PROVE  /\ Landing(file, 0, CodecReset, 0, file.delay)
           /\ file.codec = "tac" => CodecReset.discard = 0
           /\ file.codec = "vorbis" => Left(CodecReset.left) = 0
  <1>1. file \in Files /\ SoundFile(file) /\ codec \in CodecRecord
        /\ HeaderLoopOK(file, codec) /\ NoDiscard(file, vgm, codec, ds)
        /\ HeldInOrder(file, vgm, codec, ds) /\ DiscardUsed
    BY DEF FrameInv, TypeOK
  <1>2. /\ file.delay \in Nat
        /\ file.codec \notin {"speex", "atrac9", "aac", "hca"} => file.delay = 0
    BY <1>1, FilesAssumption DEF FileRecord, SoundFile
  <1>3. RawStart(file, 0) = 0
    BY <1>1, PacketSpans
  <1>4. file.codec # "vorbis" => Left(codec.left) = 0
    <2>1. Left(codec.left) \in Nat
      BY <1>1 DEF HeldInOrder, CodecRecord, Span, Left
    <2> QED  BY <1>1, <2>1 DEF HeldInOrder
  <1>5. CASE file.codec \in {"speex", "atrac9"}
    <2>1. PICK c : c = [codec EXCEPT !.discard = file.delay]
      OBVIOUS
    <2>2. CodecReset = c
      BY <1>5, <2>1 DEF CodecReset
    <2>3. c \in CodecRecord /\ c.left = codec.left /\ c.discard = file.delay
      BY <1>1, <1>2, <2>1 DEF CodecRecord
    <2>4. 0 + file.delay + 0 = file.delay
      BY <1>2
    <2> QED  BY <1>3, <1>4, <1>5, <2>2, <2>3, <2>4 DEF Landing, HeaderLoopOK
  <1>6. CASE file.codec = "hca"
    <2>1. PICK c : c = [codec EXCEPT !.next = 0, !.discard = file.delay]
      OBVIOUS
    <2>2. CodecReset = c
      BY <1>6, <2>1 DEF CodecReset
    <2>3. /\ c \in CodecRecord /\ c.left = codec.left /\ c.discard = file.delay
          /\ c.next = 0
          /\ c.loop_block = codec.loop_block /\ c.loop_delay = codec.loop_delay
      BY <1>1, <1>2, <2>1 DEF CodecRecord
    <2>4. 0 + file.delay + 0 = file.delay
      BY <1>2
    <2> QED
      BY <1>1, <1>3, <1>4, <1>6, <2>2, <2>3, <2>4 DEF Landing, HeaderLoopOK
  <1>7. CASE file.codec = "tac"
    <2>1. PICK c : c = [codec EXCEPT !.next = 0]
      OBVIOUS
    <2>2. CodecReset = c
      BY <1>7, <2>1 DEF CodecReset
    <2>3. /\ c \in CodecRecord /\ c.left = codec.left
          /\ c.discard = codec.discard /\ c.next = 0
      BY <1>1, <2>1 DEF CodecRecord
    <2>4. codec.discard = 0
      BY <1>1, <1>7 DEF DiscardUsed, CodecRecord
    <2>5. 0 + 0 + 0 = file.delay
      BY <1>2, <1>7
    <2> QED
      BY <1>3, <1>4, <1>7, <2>2, <2>3, <2>4, <2>5 DEF Landing, HeaderLoopOK
  <1>8. CASE file.codec = "relic"
    <2>1. PICK c : c = [codec EXCEPT !.discard = 0]
      OBVIOUS
    <2>2. CodecReset = c
      BY <1>8, <2>1 DEF CodecReset
    <2>3. c \in CodecRecord /\ c.left = codec.left /\ c.discard = 0
      BY <1>1, <2>1 DEF CodecRecord
    <2>4. 0 + 0 + 0 = file.delay
      BY <1>2, <1>8
    <2> QED
      BY <1>3, <1>4, <1>8, <2>2, <2>3, <2>4 DEF Landing, HeaderLoopOK
  <1>9. CASE file.codec = "binka"
    <2>1. CodecReset = codec
      BY <1>9 DEF CodecReset
    <2>2. codec.discard = 0
      BY <1>1, <1>9 DEF NoDiscard
    <2>3. 0 + 0 + 0 = file.delay
      BY <1>2, <1>9
    <2> QED
      BY <1>1, <1>3, <1>4, <1>9, <2>1, <2>2, <2>3 DEF Landing, HeaderLoopOK
  <1>10. CASE file.codec = "vorbis"
    <2>1. PICK c : c = [codec EXCEPT !.discard = 0, !.left = Nothing,
                                     !.primed = FALSE]
      OBVIOUS
    <2>2. CodecReset = c
      BY <1>10, <2>1 DEF CodecReset
    <2>3. /\ c \in CodecRecord /\ c.left = Nothing /\ c.discard = 0
          /\ c.primed = FALSE
      BY <1>1, <2>1 DEF CodecRecord, Nothing, Span
    <2>4. Left(Nothing) = 0
      BY DEF Left, Nothing
    <2>5. RawStart(file, 0 + 1) = 0
      BY <1>1, <1>10 DEF SoundFile
    <2>6. 0 + 0 + 0 = file.delay
      BY <1>2, <1>10
    <2> QED
      BY <1>10, <2>2, <2>3, <2>4, <2>5, <2>6 DEF Landing, HeaderLoopOK
  <1> QED
    BY <1>1, <1>5, <1>6, <1>7, <1>8, <1>9, <1>10, Codecs

\* So is a codec that was just opened.
LEMMA InitLands ==
    ASSUME NEW f \in Files, SoundFile(f), NEW c, c = InitCodec(f)
    PROVE  /\ Landing(f, 0, c, 0, f.delay)
           /\ f.codec = "tac" => c.discard = 0
           /\ ~c.primed
  <1>1. /\ f \in FileRecord /\ f.delay \in Nat /\ f.header_loop \in Nat
        /\ f.loop_start_sample \in Nat
    BY FilesAssumption DEF FileRecord
  <1>2. /\ f.codec \notin {"speex", "atrac9", "aac", "hca"} => f.delay = 0
        /\ f.codec \notin {"hca", "tac"} => f.header_loop = 0
        /\ f.codec = "hca" => f.header_loop \in {0, f.loop_start_sample}
        /\ f.codec \in {"hca", "tac"} => EqualFrames(f)
        /\ f.codec = "vorbis" => RawStart(f, 1) = 0
    BY DEF SoundFile, CountsFrames
  <1>3. PICK block, delay :
          /\ block = IF f.header_loop > 0 THEN LoopBlock(f.header_loop, f) ELSE 0
          /\ delay = IF f.header_loop > 0 THEN LoopDelay(f.header_loop, f) ELSE 0
    OBVIOUS
  <1>4. block \in Nat /\ delay \in Nat
    <2>1. CASE f.header_loop > 0
      <3>1. EqualFrames(f)
        BY <1>1, <1>2, <2>1, Codecs
      <3>2. PICK size \in Nat : size = FrameSize(f) /\ size > 0
        BY <3>1, FrameIsNumber
      <3>3. PICK a \in Nat : a = f.header_loop + f.delay
        BY <1>1
      <3>4. a \div size \in Nat /\ a % size \in Nat
        BY <3>2, Division
      <3> QED  BY <1>3, <2>1, <3>2, <3>3, <3>4 DEF LoopBlock, LoopDelay
    <2> QED  BY <1>1, <1>3, <2>1
  <1>5. PICK discard \in Nat :
          discard = IF f.codec \in {"speex", "atrac9", "hca", "aac"}
                    THEN f.delay ELSE 0
    BY <1>1
  <1>6. c = [next |-> 0, discard |-> discard, left |-> Nothing, primed |-> FALSE,
             last |-> -1, loop_block |-> block, loop_delay |-> delay]
    BY <1>3, <1>5 DEF InitCodec
  <1>7. /\ c \in CodecRecord /\ c.left = Nothing /\ c.discard = discard
        /\ c.next = 0 /\ ~c.primed /\ c.loop_block = block /\ c.loop_delay = delay
    BY <1>4, <1>6 DEF CodecRecord, Nothing, Span
  <1>8. Left(Nothing) = 0
    BY DEF Left, Nothing
  <1>9. RawStart(f, 0) = 0
    BY PacketSpans
  <1>10. HeaderLoopOK(f, c)
    BY <1>1, <1>2, <1>3, <1>7 DEF HeaderLoopOK
  <1>11. 0 + discard + 0 = f.delay
    BY <1>1, <1>2, <1>5
  <1>12. f.codec \in {"relic", "binka"} => discard = 0
    BY <1>5
  <1> QED
    BY <1>2, <1>5, <1>7, <1>8, <1>9, <1>10, <1>11, <1>12 DEF Landing

-----------------------------------------------------------------------------
(* The invariant, in parts *)

\* What the steps read of a state that is well formed.
LEMMA Facts ==
    ASSUME FrameInv
    PROVE  /\ file \in Files /\ file \in FileRecord /\ file.delay \in Nat
           /\ SoundFile(file) /\ start_vgmstream = NewVgmstream(file)
           /\ HeadOK(file, vgm) /\ vgm \in VgmRecord
           /\ vgm.current_sample \in Nat /\ vgm.ch \in Nat
           /\ codec \in CodecRecord /\ codec.discard \in Nat /\ codec.next \in Nat
           /\ codec.left \in Span /\ codec.primed \in BOOLEAN
           /\ ds \in DecodeState /\ ds.samples \in Span /\ ds.discard \in Nat
           /\ Left(ds.samples) \in Nat /\ Left(codec.left) \in Nat
           /\ sbuf \in [samples : Nat, filled : Nat, from : Nat, limit : Nat]
           /\ num_empty \in Nat
           /\ CodecOK(file, vgm, codec, ds, PlayHead + file.delay)
  <1>1. file \in Files /\ codec \in CodecRecord /\ ds \in DecodeState
        /\ HeadOK(file, vgm)
        /\ HeldInOrder(file, vgm, codec, ds)
    BY DEF FrameInv, TypeOK, HeadInv
  <1>2. file \in FileRecord /\ file.delay \in Nat
    BY <1>1, FilesAssumption DEF FileRecord
  <1>3. vgm \in VgmRecord /\ vgm.current_sample \in Nat /\ vgm.ch \in Nat
    BY <1>1 DEF HeadOK, VgmRecord
  <1>4. /\ codec.discard \in Nat /\ codec.left \in Span /\ codec.next \in Nat
        /\ codec.primed \in BOOLEAN
        /\ ds.samples \in Span /\ ds.discard \in Nat
    BY <1>1 DEF CodecRecord, DecodeState
  <1>5. Left(ds.samples) \in Nat /\ Left(codec.left) \in Nat
    BY <1>1, <1>4 DEF HeldInOrder, Left, Span
  <1> QED
    BY <1>1, <1>2, <1>3, <1>4, <1>5 DEF FrameInv, TypeOK, CodecOK

\* The parts that a step has to keep.
LEMMA Assemble ==
    ASSUME FrameInv, UNCHANGED <<file, start_vgmstream>>,
           codec' \in CodecRecord, ds' \in DecodeState,
           sbuf' \in [samples : Nat, filled : Nat, from : Nat, limit : Nat],
           num_empty' \in Nat, pc' \in {"idle", "layout", "frames"},
           HeadInv',
           CodecOK(file, vgm', codec', ds', PlayHead' + file.delay),
           EmptyRun', DiscardUsed', NothingHeld', PlaysTheStream'
    PROVE  FrameInv'
  <1>1. TypeOK'
    BY DEF FrameInv, TypeOK
  <1>2. SoundFile(file)' /\ (start_vgmstream = NewVgmstream(file))'
    BY DEF FrameInv
  <1>3. /\ HeldInOrder(file, vgm, codec, ds)'
        /\ StandsAt(file, vgm, codec, ds, PlayHead + file.delay)'
        /\ FrameIsExact(file, vgm, codec, ds)'
        /\ HeaderLoopOK(file, codec)'
        /\ NoDiscard(file, vgm, codec, ds)'
    BY DEF CodecOK
  <1> QED  BY <1>1, <1>2, <1>3 DEF FrameInv

\* A history that is not written to stays right.
LEMMA RunKept ==
    ASSUME PlaysTheStream, UNCHANGED <<file, run>>
    PROVE  PlaysTheStream'
  BY DEF PlaysTheStream, PacketCount

\* The run of empty packets is that of the last packets read.
LEMMA EmptyRunKept ==
    ASSUME EmptyRun, UNCHANGED <<file, vgm, codec, num_empty, pc>>
    PROVE  EmptyRun'
  BY DEF EmptyRun, PacketOf, Packet, PacketCount

\* The codec's record depends on ch and, for relic, on the loop that was saved.
LEMMA SameDecoder ==
    ASSUME NEW f, NEW v, NEW w, NEW c, NEW d, NEW raw,
           CodecOK(f, v, c, d, raw), w.ch = v.ch,
           f.codec = "relic" /\ w.loop_flag =>
               IF w.hit_loop THEN w.loop_ch = 0 ELSE w.ch = 0
    PROVE  CodecOK(f, w, c, d, raw)
  <1>1. /\ PacketOf(f, w, c) = PacketOf(f, v, c)
        /\ NextPacket(f, w, c) = NextPacket(f, v, c)
    BY DEF PacketOf, NextPacket
  <1>2. /\ NextHeld(f, w, c) = NextHeld(f, v, c)
        /\ NextOut(f, w, c, d) = NextOut(f, v, c, d)
    BY <1>1 DEF NextHeld, NextOut
  <1>3. HeldInOrder(f, w, c, d) /\ StandsAt(f, w, c, d, raw)
    BY <1>2 DEF CodecOK, HeldInOrder, StandsAt
  <1>4. FrameIsExact(f, w, c, d) /\ HeaderLoopOK(f, c) /\ NoDiscard(f, w, c, d)
    BY DEF CodecOK, FrameIsExact, NoDiscard
  <1> QED  BY <1>3, <1>4 DEF CodecOK

-----------------------------------------------------------------------------
(* The steps of render_layout *)

\* The opened stream.
LEMMA InitKeepsInv ==
    ASSUME Init, \A f \in Files : SoundFile(f)
    PROVE  FrameInv
  <1>1. /\ file \in Files /\ SoundFile(file)
        /\ vgm = NewVgmstream(file) /\ start_vgmstream = vgm
        /\ codec = InitCodec(file) /\ ds = ResetDecodeState
        /\ sbuf = [samples |-> 0, filled |-> 0, from |-> 0, limit |-> 0]
        /\ num_empty = 0 /\ pc = "idle" /\ run = NoRun
    BY DEF Init
  <1>2. /\ HeadOK(file, vgm)
        /\ vgm.current_sample = 0 /\ vgm.ch = 0 /\ ~vgm.hit_loop
    BY <1>1, NewHead
  <1>3. PICK raw : raw = file.delay
    OBVIOUS
  <1>4. /\ Landing(file, vgm.ch, codec, 0, raw)
        /\ file.codec = "tac" => codec.discard = 0
        /\ ~codec.primed
    BY <1>1, <1>2, <1>3, InitLands
  <1>5. ds = [samples |-> Nothing, discard |-> 0, exact |-> TRUE]
    BY <1>1 DEF ResetDecodeState
  <1>6. CodecOK(file, vgm, codec, ds, raw) /\ ds \in DecodeState
        /\ Left(ds.samples) = 0
    <2>1. PICK f, v, c, d : f = file /\ v = vgm /\ c = codec /\ d = ds
      OBVIOUS
    <2>2. f \in Files /\ v.ch \in Nat /\ Landing(f, v.ch, c, 0, raw)
      BY <1>1, <1>2, <1>4, <2>1
    <2>3. f.codec = "relic" /\ v.loop_flag =>
              IF v.hit_loop THEN v.loop_ch = 0 ELSE v.ch = 0
      BY <1>2, <2>1
    <2>4. d = [samples |-> Nothing, discard |-> 0, exact |-> TRUE]
      BY <1>5, <2>1
    <2>5. CodecOK(f, v, c, d, raw) /\ d \in DecodeState /\ Left(d.samples) = 0
      BY <2>2, <2>3, <2>4, LandedStands
    <2> QED  BY <2>1, <2>5
  <1>7. PlayHead + file.delay = raw
    <2>1. file.delay \in Nat
      BY <1>1, FilesAssumption DEF FileRecord
    <2> QED  BY <1>1, <1>2, <1>3, <2>1 DEF PlayHead
  <1>8. TypeOK
    BY <1>1, <1>4, <1>6 DEF TypeOK, Landing
  <1>9. HeadInv /\ EmptyRun
    BY <1>1, <1>2 DEF HeadInv, EmptyRun
  <1>10. DiscardUsed
    BY <1>4 DEF DiscardUsed
  <1>11. NothingHeld
    BY <1>2, <1>4, <1>6 DEF NothingHeld, Landing
  <1>12. PlaysTheStream
    BY <1>1 DEF PlaysTheStream, NoRun
  <1> QED
    BY <1>1, <1>6, <1>7, <1>8, <1>9, <1>10, <1>11, <1>12 DEF FrameInv, CodecOK

\* A call with an empty buffer.
LEMMA StartRenderKeepsInv ==
    ASSUME FrameInv, NEW n \in Sizes, StartRender(n)
    PROVE  FrameInv'
  <1>1. /\ pc = "idle" /\ pc' = "layout"
        /\ sbuf' = [samples |-> n, filled |-> 0, from |-> 0, limit |-> 0]
        /\ UNCHANGED <<file, vgm, start_vgmstream, codec, ds, num_empty, run>>
    BY DEF StartRender
  <1>2. n \in Nat
    BY LimitsAssumption
  <1>3. PlayHead' = PlayHead
    BY <1>1 DEF PlayHead
  <1>4. HeadInv' /\ EmptyRun' /\ PlaysTheStream'
    BY <1>1, <1>2, RunKept DEF FrameInv, HeadInv, EmptyRun
  <1>5. CodecOK(file, vgm', codec', ds', PlayHead' + file.delay)
    BY <1>1, <1>3, Facts
  <1>6. DiscardUsed'
    BY <1>1 DEF FrameInv, DiscardUsed
  <1>7. NothingHeld'
    BY <1>1 DEF FrameInv, NothingHeld, NeedsFrame
  <1>8. sbuf' \in [samples : Nat, filled : Nat, from : Nat, limit : Nat]
    BY <1>1, <1>2
  <1> QED  BY <1>1, <1>4, <1>5, <1>6, <1>7, <1>8, Facts, Assemble

\* A jump back inside of a call.
LEMMA LoopKeepsInv ==
    ASSUME FrameInv, LoopIteration
    PROVE  FrameInv'
  <1>1. /\ pc = "layout" /\ Room > 0 /\ Looped(vgm) /\ LoopBack
        /\ UNCHANGED <<file, start_vgmstream, sbuf, num_empty, pc, run>>
    BY DEF LoopIteration
  <1>2. vgm.hit_loop
    BY <1>1, Facts, LoopedHit
  <1>3. /\ HeadOK(file, vgm') /\ vgm'.hit_loop /\ vgm'.loop_flag
        /\ vgm'.current_sample < vgm'.loop_end_sample
        /\ codec' \in CodecRecord /\ ds' \in DecodeState
        /\ Left(ds'.samples) = 0
        /\ CodecOK(file, vgm', codec', ds', vgm'.current_sample + file.delay)
        /\ NothingHeld'
        /\ file.codec = "tac" => codec'.next < PacketCount
    BY <1>1, <1>2, JumpLands
  <1>4. PlayHead' = vgm'.current_sample
    BY <1>1 DEF PlayHead
  <1>5. HeadInv' /\ EmptyRun' /\ PlaysTheStream'
    BY <1>1, <1>3, RunKept DEF FrameInv, HeadInv, EmptyRun
  <1>6. DiscardUsed'
    BY <1>1, <1>3 DEF DiscardUsed, PacketCount, Room
  <1> QED  BY <1>1, <1>3, <1>4, <1>5, <1>6, Facts, Assemble

\* The loop check before a decode, and what is to be decoded.
LEMMA StartDecodeKeepsInv ==
    ASSUME FrameInv, StartDecode
    PROVE  FrameInv'
  <1>1. PICK n : n = FlatSamplesToDo(vgm, Room)
    OBVIOUS
  <1>2. /\ pc = "layout" /\ Room > 0 /\ ~Looped(vgm) /\ n > 0
        /\ vgm' = LoopCheck(vgm)
        /\ sbuf' = [sbuf EXCEPT !.from = sbuf.filled, !.limit = sbuf.filled + n]
        /\ num_empty' = 0 /\ pc' = "frames"
        /\ UNCHANGED <<file, start_vgmstream, codec, ds, run>>
    BY <1>1 DEF StartDecode
  <1>3. PICK filled \in Nat, samples \in Nat :
          filled = sbuf.filled /\ samples = sbuf.samples /\ filled <= samples
          /\ Room = samples - filled
    BY Facts DEF FrameInv, HeadInv, Room
  <1>4. PICK room \in Nat : room = Room /\ room > 0
    BY <1>2, <1>3
  <1>5. n \in Nat /\ n <= room /\ HeadOK(file, Advanced(LoopCheck(vgm), n))
    BY <1>1, <1>2, <1>4, Facts, DecodeStopsAtLoop
  <1>6. PICK w : w = LoopCheck(vgm)
    OBVIOUS
  <1>7. /\ HeadOK(file, w)
        /\ w.current_sample = vgm.current_sample
        /\ w.ch = vgm.ch
        /\ w.loop_flag = vgm.loop_flag
        /\ w.loop_start_sample = vgm.loop_start_sample
        /\ w.loop_end_sample = vgm.loop_end_sample
        /\ vgm.hit_loop => w = vgm
        /\ ~vgm.hit_loop /\ w.hit_loop => w.loop_ch = vgm.ch
    BY <1>2, <1>6, Facts, CheckedHead
  <1>8. PICK limit \in Nat : limit = filled + n
    BY <1>5
  <1>9. /\ sbuf' \in [samples : Nat, filled : Nat, from : Nat, limit : Nat]
        /\ sbuf'.samples = samples /\ sbuf'.filled = filled
        /\ sbuf'.from = filled /\ sbuf'.limit = limit
    BY <1>2, <1>3, <1>8, Facts
  <1>10. limit - filled = n /\ filled < limit /\ limit <= samples
    BY <1>2, <1>3, <1>4, <1>5, <1>8
  <1>11. HeadInv'
    BY <1>2, <1>3, <1>5, <1>6, <1>7, <1>9, <1>10 DEF HeadInv
  <1>12. PlayHead' = vgm.current_sample /\ PlayHead = vgm.current_sample
    BY <1>2, <1>6, <1>7, <1>9, Facts DEF PlayHead, HeadAt
  <1>13. CodecOK(file, w, codec, ds, PlayHead + file.delay)
    <2>1. file.codec = "relic" /\ w.loop_flag =>
              IF w.hit_loop THEN w.loop_ch = 0 ELSE w.ch = 0
      <3>1. NoDiscard(file, vgm, codec, ds)
        BY DEF FrameInv
      <3>2. vgm.hit_loop \/ ~vgm.hit_loop
        OBVIOUS
      <3> QED  BY <1>7, <3>1, <3>2 DEF NoDiscard
    <2> QED  BY <1>7, <2>1, Facts, SameDecoder
  <1>14. ToDecode' > 0
    BY <1>9, <1>10 DEF ToDecode
  <1>15. DiscardUsed'
    <2>1. SUFFICES ASSUME file.codec = "tac", codec.discard > 0
                   PROVE  /\ codec.next < PacketCount
                          /\ w.loop_flag /\ w.current_sample < w.loop_end_sample
                          /\ Left(ds.samples) = 0
      BY <1>2, <1>6, <1>14 DEF DiscardUsed, PacketCount
    <2>2. /\ codec.next < PacketCount /\ vgm.loop_flag
          /\ vgm.current_sample < vgm.loop_end_sample
      BY <2>1 DEF FrameInv, DiscardUsed
    <2>3. Left(ds.samples) = 0
      BY <2>1, Facts DEF FrameInv, HeldInOrder
    <2> QED  BY <1>7, <2>2, <2>3
  <1>16. NothingHeld'
    <2>1. SUFFICES ASSUME KeepsDecoder(file, w.loop_start_sample)
                   PROVE  /\ Left(codec.left) = 0
                          /\ ~codec.primed => w.ch = 0 /\ Left(ds.samples) = 0
      BY <1>2, <1>6, <1>14 DEF NothingHeld, NeedsFrame
    <2>2. KeepsDecoder(file, vgm.loop_start_sample)
      BY <1>7, <2>1
    <2> QED  BY <1>2, <1>7, <2>2, Facts DEF FrameInv, NothingHeld, NeedsFrame
  <1>17. EmptyRun' /\ PlaysTheStream'
    BY <1>2, RunKept DEF FrameInv, EmptyRun
  <1> QED
    BY <1>2, <1>6, <1>9, <1>11, <1>12, <1>13, <1>15, <1>16, <1>17, Facts, Assemble

\* At the end of a stream that does not loop there is nothing to decode.
LEMMA ErrorKeepsInv ==
    ASSUME FrameInv, ErrorIteration
    PROVE  FrameInv'
  <1>1. PICK n : n = FlatSamplesToDo(vgm, Room)
    OBVIOUS
  <1>2. /\ pc = "layout" /\ Room > 0 /\ ~Looped(vgm) /\ n <= 0
        /\ vgm' = LoopCheck(vgm)
        /\ sbuf' = [sbuf EXCEPT !.filled = sbuf.samples]
        /\ run' = Silence(vgm.current_sample, Room)
        /\ UNCHANGED <<file, start_vgmstream, codec, ds, num_empty, pc>>
    BY <1>1 DEF ErrorIteration
  <1>3. PICK filled \in Nat, samples \in Nat :
          filled = sbuf.filled /\ samples = sbuf.samples /\ filled <= samples
          /\ Room = samples - filled
    BY Facts DEF FrameInv, HeadInv, Room
  <1>4. PICK room \in Nat : room = Room /\ room > 0
    BY <1>2, <1>3
  <1>5. vgm' = vgm /\ ~vgm.loop_flag /\ vgm.current_sample = vgm.num_samples
    BY <1>1, <1>2, <1>4, Facts, DecodeStopsAtLoop
  <1>6. /\ sbuf' \in [samples : Nat, filled : Nat, from : Nat, limit : Nat]
        /\ sbuf'.samples = samples /\ sbuf'.filled = samples
    BY <1>2, <1>3, Facts
  <1>7. HeadInv' /\ EmptyRun'
    BY <1>2, <1>5, <1>6 DEF FrameInv, HeadInv, EmptyRun
  <1>8. PlayHead' = PlayHead
    BY <1>2, <1>5 DEF PlayHead
  <1>9. CodecOK(file, vgm', codec', ds', PlayHead' + file.delay)
    BY <1>2, <1>5, <1>8, Facts
  <1>10. DiscardUsed'
    BY <1>2, <1>5 DEF FrameInv, DiscardUsed
  <1>11. NothingHeld'
    BY <1>2, <1>5 DEF FrameInv, NothingHeld, NeedsFrame
  <1>12. PlaysTheStream'
    <2>1. vgm.num_samples = file.num_samples /\ file.num_samples \in Nat
      BY Facts DEF HeadOK, FileRecord
    <2>2. run'.kind = "silent" /\ run'.at = file.num_samples /\ file' = file
      BY <1>2, <1>5, <2>1 DEF Silence
    <2> QED  BY <2>1, <2>2 DEF PlaysTheStream
  <1> QED
    BY <1>2, <1>6, <1>7, <1>9, <1>10, <1>11, <1>12, Facts, Assemble

\* The buffer is full.
LEMMA EndRenderKeepsInv ==
    ASSUME FrameInv, EndRender
    PROVE  FrameInv'
  <1>1. /\ pc = "layout" /\ Room = 0 /\ pc' = "idle"
        /\ UNCHANGED <<file, vgm, start_vgmstream, codec, ds, sbuf, num_empty, run>>
    BY DEF EndRender
  <1>2. PlayHead' = PlayHead
    BY <1>1 DEF PlayHead
  <1>3. HeadInv' /\ EmptyRun' /\ PlaysTheStream'
    BY <1>1, RunKept DEF FrameInv, HeadInv, EmptyRun
  <1>4. CodecOK(file, vgm', codec', ds', PlayHead' + file.delay)
    BY <1>1, <1>2, Facts
  <1>5. DiscardUsed'
    BY <1>1 DEF FrameInv, DiscardUsed
  <1>6. NothingHeld'
    BY <1>1 DEF FrameInv, NothingHeld, NeedsFrame
  <1> QED  BY <1>1, <1>3, <1>4, <1>5, <1>6, Facts, Assemble

\* The samples that were decoded move the head.
LEMMA EndDecodeKeepsInv ==
    ASSUME FrameInv, EndDecode
    PROVE  FrameInv'
  <1>1. /\ pc = "frames" /\ ToDecode = 0 /\ pc' = "layout"
        /\ vgm' = [vgm EXCEPT
                     !.current_sample = @ + (sbuf.filled - sbuf.from),
                     !.samples_into_block = @ + (sbuf.filled - sbuf.from)]
        /\ UNCHANGED <<file, start_vgmstream, codec, ds, sbuf, num_empty, run>>
    BY DEF EndDecode
  <1>2. PICK done : done = sbuf.filled - sbuf.from
    OBVIOUS
  <1>3. /\ sbuf.filled = sbuf.limit /\ sbuf.filled <= sbuf.samples
        /\ sbuf.from <= sbuf.filled
        /\ HeadOK(file, Advanced(vgm, sbuf.limit - sbuf.from))
    BY <1>1, Facts DEF FrameInv, HeadInv, ToDecode
  <1>4. vgm' = Advanced(vgm, done)
    BY <1>1, <1>2 DEF Advanced
  <1>5. PICK w : w = vgm'
    OBVIOUS
  <1>6. HeadOK(file, w)
    BY <1>2, <1>3, <1>4, <1>5
  <1>7. /\ w.ch = vgm.ch /\ w.loop_flag = vgm.loop_flag
        /\ w.hit_loop = vgm.hit_loop /\ w.loop_ch = vgm.loop_ch
        /\ w.loop_start_sample = vgm.loop_start_sample
        /\ w.current_sample = vgm.current_sample + done
    BY <1>2, <1>4, <1>5, Facts DEF Advanced, VgmRecord
  <1>8. PlayHead = w.current_sample /\ PlayHead' = w.current_sample
    BY <1>1, <1>2, <1>5, <1>7, Facts DEF PlayHead, HeadAt
  <1>9. CodecOK(file, w, codec, ds, PlayHead + file.delay)
    <2>1. file.codec = "relic" /\ w.loop_flag =>
              IF w.hit_loop THEN w.loop_ch = 0 ELSE w.ch = 0
      BY <1>7 DEF FrameInv, NoDiscard
    <2> QED  BY <1>7, <2>1, Facts, SameDecoder
  <1>10. HeadInv' /\ EmptyRun' /\ PlaysTheStream'
    BY <1>1, <1>3, <1>5, <1>6, RunKept DEF FrameInv, HeadInv, EmptyRun
  <1>11. DiscardUsed'
    BY <1>1 DEF FrameInv, DiscardUsed
  <1>12. NothingHeld'
    BY <1>1, <1>5, <1>7, Facts DEF FrameInv, NothingHeld, NeedsFrame
  <1> QED
    BY <1>1, <1>5, <1>8, <1>9, <1>10, <1>11, <1>12, Facts, Assemble

-----------------------------------------------------------------------------
(* What callers do between buffers *)

\* A rewind of a stream whose codec's reset is right.
LEMMA ResetKeepsInv ==
    ASSUME FrameInv, Reset, "aac" \notin Rewound
    PROVE  FrameInv'
  <1>1. /\ pc = "idle" /\ file.codec # "aac"
        /\ vgm' = ResetVgmstream(vgm, start_vgmstream)
        /\ ds' = ResetDecodeState /\ codec' = CodecReset /\ run' = NoRun
        /\ UNCHANGED <<file, start_vgmstream, sbuf, num_empty, pc>>
    BY DEF Reset
  <1>2. PICK f, w, c, d, raw :
          /\ f = file /\ w = vgm' /\ c = CodecReset /\ d = ResetDecodeState
          /\ raw = file.delay
    OBVIOUS
  <1>3. /\ HeadOK(f, w)
        /\ w.current_sample = 0 /\ w.ch = 0 /\ ~w.hit_loop
    BY <1>1, <1>2, Facts, ResetHead
  <1>4. /\ Landing(f, 0, c, 0, raw)
        /\ f.codec = "tac" => c.discard = 0
    BY <1>1, <1>2, ResetLands
  <1>5. c \in CodecRecord /\ Left(c.left) = 0
    BY <1>4 DEF Landing
  <1>6. d = [samples |-> Nothing, discard |-> 0, exact |-> TRUE]
    BY <1>2 DEF ResetDecodeState
  <1>7. CodecOK(f, w, c, d, raw) /\ d \in DecodeState /\ Left(d.samples) = 0
    <2>1. f \in Files /\ w.ch \in Nat /\ Landing(f, w.ch, c, 0, raw)
      BY <1>2, <1>3, <1>4, Facts
    <2>2. f.codec = "relic" /\ w.loop_flag =>
              IF w.hit_loop THEN w.loop_ch = 0 ELSE w.ch = 0
      BY <1>3
    <2> QED  BY <1>6, <2>1, <2>2, LandedStands
  <1>8. PlayHead' + file.delay = raw
    BY <1>1, <1>2, <1>3, Facts DEF PlayHead
  <1>9. HeadInv' /\ EmptyRun' /\ PlaysTheStream'
    BY <1>1, <1>2, <1>3
       DEF FrameInv, HeadInv, EmptyRun, PlaysTheStream, NoRun
  <1>10. DiscardUsed'
    BY <1>1, <1>2, <1>4 DEF DiscardUsed
  <1>11. NothingHeld'
    BY <1>1, <1>2, <1>3, <1>5, <1>7 DEF NothingHeld
  <1> QED
    BY <1>1, <1>2, <1>5, <1>7, <1>8, <1>9, <1>10, <1>11, Facts, Assemble

\* A seek past the loop start, of a codec whose resets use up its discard.
LEMMA ForceLoopEndKeepsInv ==
    ASSUME FrameInv, ForceLoopEnd, "tac" \notin Jumped
    PROVE  FrameInv'
  <1>1. /\ pc = "idle" /\ file.codec # "tac"
        /\ vgm.hit_loop /\ LoopBack /\ run' = NoRun
        /\ UNCHANGED <<file, start_vgmstream, sbuf, num_empty, pc>>
    BY DEF ForceLoopEnd
  <1>2. /\ HeadOK(file, vgm')
        /\ codec' \in CodecRecord /\ ds' \in DecodeState
        /\ CodecOK(file, vgm', codec', ds', vgm'.current_sample + file.delay)
        /\ NothingHeld'
    BY <1>1, JumpLands
  <1>3. PlayHead' = vgm'.current_sample
    BY <1>1 DEF PlayHead
  <1>4. HeadInv' /\ EmptyRun' /\ PlaysTheStream'
    BY <1>1, <1>2 DEF FrameInv, HeadInv, EmptyRun, PlaysTheStream, NoRun
  <1>5. DiscardUsed'
    BY <1>1 DEF DiscardUsed
  <1> QED  BY <1>1, <1>2, <1>3, <1>4, <1>5, Facts, Assemble

-----------------------------------------------------------------------------
(* The steps of decode_frames *)

\* What is buffered ends where the codec stands, before the end of the data.
LEMMA HeldWithinData ==
    ASSUME FrameInv, Left(ds.samples) > 0
    PROVE  /\ NextHeld(file, vgm, codec) \in Nat
           /\ ds.samples.to = NextHeld(file, vgm, codec)
           /\ ds.samples.from < ds.samples.to
           /\ codec.discard = 0
           /\ ds.samples.from + ds.discard = PlayHead + file.delay
  <1>1. HeldInOrder(file, vgm, codec, ds)
        /\ StandsAt(file, vgm, codec, ds, PlayHead + file.delay)
    BY DEF FrameInv
  <1>2. ds.samples.to = NextHeld(file, vgm, codec) /\ codec.discard = 0
    BY <1>1 DEF HeldInOrder
  <1>3. PICK from \in Nat, to \in Nat, discard \in Nat :
          /\ from = ds.samples.from /\ to = ds.samples.to /\ from < to
          /\ discard = ds.discard
    BY Facts DEF Span, Left
  <1>4. DataEnd(file) \in Nat /\ to <= DataEnd(file)
    <2>1. DataEnd(file) \in Nat /\ RawStart(file, vgm.ch) <= DataEnd(file)
          /\ RawStart(file, vgm.ch) \in Nat
      BY Facts, WithinData
    <2>2. CASE Left(codec.left) > 0
      <3>1. to = codec.left.from /\ codec.left.to = RawStart(file, vgm.ch)
        BY <1>1, <1>2, <1>3, <2>2 DEF NextHeld, HeldInOrder
      <3>2. codec.left.from < codec.left.to
        BY <2>2, Facts DEF Left, Span
      <3> QED  BY <1>3, <2>1, <3>1, <3>2
    <2>3. CASE ~(Left(codec.left) > 0)
      <3>1. PICK k : k = NextPacket(file, vgm, codec)
        OBVIOUS
      <3>2. k \in Nat
        BY <3>1, Facts DEF NextPacket, PacketOf
      <3>3. to = RawStart(file, k)
        BY <1>2, <1>3, <2>3, <3>1 DEF NextHeld
      <3> QED  BY <3>2, <3>3, Facts, WithinData
    <2> QED  BY <2>2, <2>3
  <1>5. NextOut(file, vgm, codec, ds) = from /\ Pending(codec, ds) = discard
    BY <1>2, <1>3, Facts DEF NextOut, Pending
  <1>6. from + discard = PlayHead + file.delay
    BY <1>1, <1>3, <1>4, <1>5 DEF StandsAt
  <1> QED  BY <1>2, <1>3, <1>6

\* Taking n samples of the buffer, m of which the head moves over and the others
\* were to be discarded.
LEMMA TakingKeepsCodec ==
    ASSUME FrameInv, Left(ds.samples) > 0,
           NEW n \in Nat, n <= Left(ds.samples),
           NEW m \in Nat, m = 0 \/ ds.discard = 0,
           NEW discard \in Nat, discard <= ds.discard,
           discard + n = ds.discard + m,
           NEW d \in DecodeState, d.discard = discard, d.exact = ds.exact,
           d.samples = Dropped(ds.samples, n)
    PROVE  CodecOK(file, vgm, codec, d, PlayHead + m + file.delay)
  <1>1. CodecOK(file, vgm, codec, ds, PlayHead + file.delay)
    BY Facts
  <1>2. PICK from \in Nat, to \in Nat, was \in Nat, delay \in Nat :
          /\ from = ds.samples.from /\ to = ds.samples.to
          /\ was = ds.discard /\ delay = file.delay
    BY Facts DEF Span
  <1>3. /\ NextHeld(file, vgm, codec) = to /\ from < to
        /\ codec.discard = 0
        /\ from + was = PlayHead + delay
    BY <1>2, HeldWithinData
  <1>4. Left(ds.samples) = to - from
    BY <1>2 DEF Left
  <1>5. d.samples.from = from + n /\ d.samples.to = to
    BY <1>2, Facts DEF Dropped, Span
  <1>6. Left(d.samples) = to - (from + n) /\ from + n <= to
    BY <1>2, <1>4, <1>5 DEF Left
  <1>7. HeldInOrder(file, vgm, codec, d)
    <2>1. /\ codec.left.from <= codec.left.to
          /\ Left(codec.left) > 0 =>
                /\ file.codec = "vorbis" /\ codec.primed
                /\ codec.left.to = RawStart(file, vgm.ch)
      BY <1>1 DEF CodecOK, HeldInOrder
    <2> QED  BY <1>3, <1>5, <1>6, <2>1 DEF HeldInOrder
  <1>8. NextOut(file, vgm, codec, d) = from + n
    BY <1>2, <1>3, <1>5, <1>6 DEF NextOut
  <1>9. Pending(codec, d) = discard
    BY <1>3 DEF Pending
  <1>10. PlayHead \in Int
    BY Facts DEF PlayHead, HeadAt
  <1>11. (from + n) + discard = PlayHead + m + delay
    BY <1>2, <1>3, <1>10
  <1>12. StandsAt(file, vgm, codec, d, PlayHead + m + file.delay)
    BY <1>2, <1>8, <1>9, <1>11 DEF StandsAt
  <1>13. FrameIsExact(file, vgm, codec, d)
    <2>1. CASE file.codec = "atrac9"
      <3>1. /\ ds.exact \/ was >= to - from
            /\ vgm.ch = 0 \/ codec.last = vgm.ch - 1
        BY <1>1, <1>2, <1>3, <1>4, <2>1 DEF CodecOK, FrameIsExact
      <3>2. ds.exact \/ discard >= to - (from + n)
        BY <1>2, <1>3, <3>1
      <3> QED  BY <1>6, <2>1, <3>1, <3>2 DEF FrameIsExact
    <2>2. CASE file.codec # "atrac9"
      BY <1>1, <2>2 DEF CodecOK, FrameIsExact
    <2> QED  BY <2>1, <2>2
  <1>14. HeaderLoopOK(file, codec) /\ NoDiscard(file, vgm, codec, d)
    <2>1. ds.discard = 0 => d.discard = 0
      OBVIOUS
    <2> QED  BY <1>1, <2>1 DEF CodecOK, NoDiscard
  <1> QED  BY <1>7, <1>12, <1>13, <1>14 DEF CodecOK

\* While samples are buffered, vorbis holds none that a seek would forget.
LEMMA TakingKeepsHeld ==
    ASSUME FrameInv, Left(ds.samples) > 0, UNCHANGED <<file, vgm, codec>>
    PROVE  NothingHeld' /\ DiscardUsed'
  <1>1. codec.discard = 0
    BY HeldWithinData
  <1>2. DiscardUsed'
    BY <1>1 DEF DiscardUsed
  <1>3. KeepsDecoder(file, vgm.loop_start_sample) =>
            codec.primed /\ Left(codec.left) = 0
    BY Facts DEF FrameInv, NothingHeld, NeedsFrame
  <1> QED  BY <1>2, <1>3 DEF NothingHeld

\* Samples that come before the head are dropped.
LEMMA DiscardKeepsInv ==
    ASSUME FrameInv, DiscardSamples
    PROVE  FrameInv'
  <1>1. PICK n : n = SmallerOf(ds.discard, Left(ds.samples))
    OBVIOUS
  <1>2. /\ pc = "frames" /\ Left(ds.samples) > 0 /\ ds.discard > 0
        /\ ds' = [ds EXCEPT !.samples = Dropped(@, n), !.discard = @ - n]
        /\ UNCHANGED <<file, vgm, start_vgmstream, codec, sbuf, num_empty, pc, run>>
    BY <1>1 DEF DiscardSamples
  <1>3. n \in Nat /\ n <= ds.discard /\ n <= Left(ds.samples)
    BY <1>1, Facts DEF SmallerOf
  <1>4. PICK d : d = ds'
    OBVIOUS
  <1>11. PICK discard \in Nat :
          discard = ds.discard - n /\ discard <= ds.discard
          /\ discard + n = ds.discard + 0
    <2>1. PICK was \in Nat : was = ds.discard
      BY Facts
    <2>2. was - n \in Nat /\ was - n <= was /\ (was - n) + n = was + 0
      BY <1>3, <2>1
    <2> QED  BY <2>1, <2>2
  <1>5. /\ d.samples = Dropped(ds.samples, n) /\ d.discard = discard
        /\ d.exact = ds.exact
        /\ d = [samples |-> Dropped(ds.samples, n), discard |-> discard,
                exact |-> ds.exact]
    BY <1>2, <1>4, <1>11, Facts DEF DecodeState
  <1>6. d \in DecodeState
    <2>1. Dropped(ds.samples, n) \in Span
      BY <1>3, Facts DEF Dropped, Span
    <2> QED  BY <1>5, <2>1, Facts DEF DecodeState
  <1>7. CodecOK(file, vgm, codec, d, PlayHead + 0 + file.delay)
    BY <1>2, <1>3, <1>5, <1>6, <1>11, TakingKeepsCodec
  <1>8. PlayHead' = PlayHead + 0
    BY <1>2, Facts DEF PlayHead, HeadAt
  <1>9. NothingHeld' /\ DiscardUsed'
    BY <1>2, TakingKeepsHeld
  <1>10. HeadInv' /\ EmptyRun' /\ PlaysTheStream'
    BY <1>2, RunKept, EmptyRunKept DEF FrameInv, HeadInv
  <1> QED
    BY <1>2, <1>4, <1>6, <1>7, <1>8, <1>9, <1>10, Facts, Assemble

\* A copy to the caller's buffer is of the samples at the head.
LEMMA CopyKeepsInv ==
    ASSUME FrameInv, CopySamples
    PROVE  FrameInv'
  <1>1. PICK n : n = SmallerOf(ToDecode, Left(ds.samples))
    OBVIOUS
  <1>2. /\ pc = "frames" /\ ToDecode > 0 /\ Left(ds.samples) > 0 /\ ds.discard = 0
        /\ ds' = [ds EXCEPT !.samples = Dropped(@, n)]
        /\ sbuf' = [sbuf EXCEPT !.filled = @ + n]
        /\ run' = [kind |-> "decoded", at |-> HeadAt,
                   src |-> ds.samples.from - file.delay, count |-> n,
                   exact |-> ds.exact]
        /\ UNCHANGED <<file, vgm, start_vgmstream, codec, num_empty, pc>>
    BY <1>1 DEF CopySamples
  <1>3. PICK filled \in Nat, limit \in Nat :
          filled = sbuf.filled /\ limit = sbuf.limit /\ ToDecode = limit - filled
    BY Facts DEF ToDecode
  <1>4. n \in Nat /\ n <= ToDecode /\ n <= Left(ds.samples)
    BY <1>1, <1>2, <1>3, Facts DEF SmallerOf
  <1>5. PICK d : d = ds'
    OBVIOUS
  <1>6. /\ d.samples = Dropped(ds.samples, n) /\ d.discard = 0
        /\ d.exact = ds.exact
        /\ d = [samples |-> Dropped(ds.samples, n), discard |-> 0,
                exact |-> ds.exact]
    BY <1>2, <1>5, Facts DEF DecodeState
  <1>7. d \in DecodeState
    <2>1. Dropped(ds.samples, n) \in Span
      BY <1>4, Facts DEF Dropped, Span
    <2> QED  BY <1>6, <2>1, Facts DEF DecodeState
  <1>8. CodecOK(file, vgm, codec, d, PlayHead + n + file.delay)
    <2>1. 0 <= ds.discard /\ 0 + n = ds.discard + n
      BY <1>2, <1>4
    <2> QED  BY <1>2, <1>4, <1>6, <1>7, <2>1, TakingKeepsCodec
  <1>9. /\ sbuf' \in [samples : Nat, filled : Nat, from : Nat, limit : Nat]
        /\ sbuf'.filled = filled + n /\ sbuf'.limit = limit
        /\ sbuf'.from = sbuf.from /\ sbuf'.samples = sbuf.samples
    BY <1>2, <1>3, <1>4, Facts
  <1>10. PlayHead' = PlayHead + n
    BY <1>2, <1>3, <1>4, <1>9, Facts DEF PlayHead, HeadAt
  <1>11. NothingHeld' /\ DiscardUsed'
    BY <1>2, TakingKeepsHeld
  <1>12. HeadInv'
    BY <1>2, <1>3, <1>4, <1>9, Facts DEF FrameInv, HeadInv
  <1>13. EmptyRun'
    BY <1>2, EmptyRunKept DEF FrameInv
  <1>14. PlaysTheStream'
    <2>1. PICK from \in Nat, delay \in Nat :
            from = ds.samples.from /\ delay = file.delay
      BY Facts DEF Span
    <2>2. from + 0 = HeadAt + delay /\ HeadAt \in Int
      BY <1>2, <2>1, Facts, HeldWithinData DEF PlayHead, HeadAt
    <2>3. from - delay = HeadAt
      BY <2>1, <2>2
    <2>4. ds.exact
      <3>1. FrameIsExact(file, vgm, codec, ds)
        BY DEF FrameInv
      <3> QED  BY <1>2, <3>1, Facts DEF FrameIsExact
    <2> QED  BY <1>2, <2>1, <2>3, <2>4 DEF PlaysTheStream
  <1> QED
    BY <1>2, <1>5, <1>7, <1>8, <1>9, <1>10, <1>11, <1>12, <1>13, <1>14, Facts,
       Assemble

\* Too many packets in a row without samples, or none left, is the data's end.
LEMMA NoFrameIsEnd ==
    ASSUME FrameInv, NeedsFrame, NoFrame
    PROVE  /\ Left(codec.left) = 0
           /\ NextOut(file, vgm, codec, ds) = DataEnd(file)
  <1>0. PICK f : f = file
    OBVIOUS
  <1>1. PICK k \in Nat, len \in Nat :
          /\ f = file /\ f \in Files /\ NoLongGap(f)
          /\ k = PacketOf(file, vgm, codec)
          /\ len = Len(f.packets)
    <2>1. PacketOf(file, vgm, codec) \in Nat
      BY Facts DEF PacketOf
    <2>2. f \in Files /\ NoLongGap(f)
      BY <1>0, Facts DEF SoundFile
    <2>3. Len(f.packets) \in Nat
      BY <2>2, PacketSpans
    <2> QED  BY <1>0, <2>1, <2>2, <2>3
  <1>2. Place = k /\ PacketCount = len
    BY <1>1 DEF Place, KeepsOwnPlace, PacketOf, PacketCount
  <1>3. Left(ds.samples) = 0 /\ pc = "frames"
    BY DEF NeedsFrame
  <1>4. PICK max \in Nat : max = MaxEmpty /\ max > 0
    BY LimitsAssumption
  <1>5. \A i \in Nat : i >= len => RawStart(f, i) = DataEnd(f)
    BY <1>1, PacketSpans
  \* from packet i up to packet j there were too many without samples
  <1>6. ASSUME NEW i \in Nat, NEW j \in Nat, i + max - 1 <= j, j <= len,
               RawStart(f, i) = RawStart(f, j)
        PROVE  RawStart(f, j) = DataEnd(f)
    <2>1. PICK m \in Nat : m = i + max - 1
      BY <1>4
    <2>2. i <= m /\ m <= j /\ i \in 0 .. len /\ m <= len
      BY <1>4, <1>6, <2>1
    <2>3. RawStart(f, i) <= RawStart(f, m) /\ RawStart(f, m) <= RawStart(f, j)
      BY <1>1, <2>2, LaterPackets
    <2>4. RawStart(f, i) \in Nat /\ RawStart(f, m) \in Nat /\ RawStart(f, j) \in Nat
      BY <1>1, WithinData
    <2>5. RawStart(f, m) = RawStart(f, i)
      BY <1>6, <2>3, <2>4
    <2>6. RawStart(f, i) = DataEnd(f)
      BY <1>1, <1>4, <2>1, <2>2, <2>5 DEF NoLongGap
    <2> QED  BY <1>6, <2>6
  <1>7. CASE num_empty > MaxEmpty
    <2>1. PICK empty \in Nat : empty = num_empty /\ empty > max
      BY <1>4, <1>7, Facts
    <2>2. CASE file.codec # "vorbis"
      <3>1. empty <= k /\ RawStart(f, k - empty) = RawStart(f, k)
        BY <1>1, <1>3, <1>4, <2>1, <2>2 DEF FrameInv, EmptyRun
      <3>2. PICK i \in Nat : i = k - empty /\ i + max - 1 <= k
        <4>1. k - empty \in Nat /\ (k - empty) + max - 1 <= k
          BY <1>4, <2>1, <3>1
        <4> QED  BY <4>1
      <3>3. RawStart(f, k) = DataEnd(f)
        BY <1>5, <1>6, <3>1, <3>2
      <3>4. Left(codec.left) = 0
        BY <2>2, Facts DEF FrameInv, HeldInOrder
      <3>5. NextOut(file, vgm, codec, ds) = RawStart(f, k)
        BY <1>1, <1>3, <2>2, <3>4 DEF NextOut, NextHeld, NextPacket
      <3> QED  BY <1>1, <3>3, <3>4, <3>5
    <2>3. CASE file.codec = "vorbis"
      <3>1. /\ codec.primed /\ empty <= k /\ k <= len
            /\ codec.left = Packet(k - 1)
            /\ RawStart(f, k - empty + 1) = RawStart(f, k - 1)
        <4>1. empty > 0 /\ empty > 1
          BY <1>4, <2>1
        <4> QED
          BY <1>1, <1>2, <1>3, <2>1, <2>3, <4>1 DEF FrameInv, EmptyRun
      <3>2. PICK j \in Nat : j = k - 1
        BY <1>4, <2>1, <3>1
      <3>3. PICK i \in Nat : i = k - empty + 1 /\ i + max - 1 <= j
        <4>1. (k - empty) + 1 \in Nat /\ (k - empty) + 1 + max - 1 <= j
          BY <1>4, <2>1, <3>1, <3>2
        <4> QED  BY <4>1
      <3>4. j < len /\ j + 1 = k
        BY <3>1, <3>2
      <3>5. RawStart(f, j) = DataEnd(f)
        BY <1>6, <3>1, <3>2, <3>3, <3>4
      <3>6. /\ codec.left.from = RawStart(f, j) /\ codec.left.to = RawStart(f, k)
            /\ RawStart(f, j) <= RawStart(f, k)
        <4>1. codec.left = f.packets[j + 1]
          BY <1>1, <3>1, <3>2 DEF Packet
        <4>2. /\ f.packets[j + 1].from = RawStart(f, j)
              /\ f.packets[j + 1].to = RawStart(f, j + 1)
              /\ RawStart(f, j) <= RawStart(f, j + 1)
          BY <1>1, <3>4, PacketSpans
        <4> QED  BY <3>4, <4>1, <4>2
      <3>7. /\ RawStart(f, k) <= DataEnd(f)
            /\ RawStart(f, k) \in Nat /\ DataEnd(f) \in Nat
        BY <1>1, WithinData
      <3>8. RawStart(f, k) = DataEnd(f) /\ Left(codec.left) = 0
        BY <3>5, <3>6, <3>7 DEF Left
      <3>9. NextOut(file, vgm, codec, ds) = RawStart(f, k)
        BY <1>1, <1>3, <3>1, <3>8 DEF NextOut, NextHeld, NextPacket
      <3> QED  BY <1>1, <3>8, <3>9
    <2> QED  BY <2>2, <2>3
  <1>8. CASE Place >= PacketCount /\ Left(codec.left) = 0
    <2>1. PICK next \in Nat : next = NextPacket(file, vgm, codec) /\ next >= k
      <3>1. NextPacket(file, vgm, codec) = k \/ NextPacket(file, vgm, codec) = k + 1
        BY <1>1 DEF NextPacket
      <3> QED  BY <3>1
    <2>2. RawStart(f, next) = DataEnd(f)
      BY <1>2, <1>5, <1>8, <2>1
    <2>3. NextOut(file, vgm, codec, ds) = RawStart(f, next)
      BY <1>1, <1>3, <1>8, <2>1 DEF NextOut, NextHeld
    <2> QED  BY <1>1, <1>8, <2>2, <2>3
  <1> QED  BY <1>7, <1>8 DEF NoFrame

\* A file whose table has an entry that does not restart the decoder has packets.
LEMMA KeptDecoderHasPackets ==
    ASSUME NEW f \in Files, SoundFile(f), NEW n \in Nat, KeepsDecoder(f, n)
    PROVE  Len(f.packets) > 0
  <1>1. PICK i, entry : i = SeekTableEntry(f, n) /\ entry = f.table[i]
    OBVIOUS
  <1>2. f.codec = "vorbis" /\ i # 0 /\ ~Restarts(f, entry)
    BY <1>1 DEF KeepsDecoder
  <1>3. i \in DOMAIN f.table /\ entry.packet \in Nat
    BY <1>1, <1>2, EntryNotPast
  <1>4. entry.sample = RawStart(f, entry.packet)
    BY <1>1, <1>2, <1>3 DEF SoundFile, TableIsRight
  <1>5. entry.sample # 0
    BY <1>2 DEF Restarts
  <1>6. Len(f.packets) \in Nat
    BY PacketSpans
  <1>7. Len(f.packets) = 0 => RawStart(f, entry.packet) = 0
    BY <1>3 DEF RawStart, SmallerOf
  <1> QED  BY <1>4, <1>5, <1>6, <1>7

\* Silence where decoding failed is where the data is over.
LEMMA FailKeepsInv ==
    ASSUME FrameInv, DecodeFail
    PROVE  FrameInv'
  <1>1. /\ NeedsFrame /\ NoFrame
        /\ sbuf' = [sbuf EXCEPT !.filled = sbuf.limit]
        /\ run' = Silence(HeadAt, ToDecode)
        /\ UNCHANGED <<file, vgm, start_vgmstream, codec, ds, num_empty, pc>>
    BY DEF DecodeFail
  <1>2. pc = "frames" /\ ToDecode > 0 /\ Left(ds.samples) = 0
    BY <1>1 DEF NeedsFrame
  <1>3. /\ Left(codec.left) = 0
        /\ NextOut(file, vgm, codec, ds) = DataEnd(file)
    BY <1>1, NoFrameIsEnd
  <1>4. PICK filled \in Nat, limit \in Nat :
          filled = sbuf.filled /\ limit = sbuf.limit /\ ToDecode = limit - filled
          /\ limit >= filled
    BY <1>2, Facts DEF ToDecode
  <1>5. /\ sbuf' \in [samples : Nat, filled : Nat, from : Nat, limit : Nat]
        /\ sbuf'.filled = limit /\ sbuf'.limit = limit
        /\ sbuf'.from = sbuf.from /\ sbuf'.samples = sbuf.samples
    BY <1>1, <1>4, Facts
  <1>6. PICK head \in Int, delay \in Nat, end \in Nat, pending \in Nat :
          /\ head = PlayHead /\ delay = file.delay /\ end = DataEnd(file)
          /\ pending = Pending(codec, ds)
    <2>1. PlayHead \in Int
      BY Facts DEF PlayHead, HeadAt
    <2>2. DataEnd(file) \in Nat
      BY Facts, WithinData
    <2>3. Pending(codec, ds) \in Nat
      BY Facts DEF Pending
    <2> QED  BY <2>1, <2>2, <2>3, Facts
  <1>7. end + pending <= head + delay
    <2>1. StandsAt(file, vgm, codec, ds, head + delay)
      BY <1>6 DEF FrameInv
    <2> QED  BY <1>3, <1>6, <2>1 DEF StandsAt
  <1>8. PICK later \in Int : later = PlayHead' /\ head <= later
    <2>1. PlayHead' = HeadAt' /\ PlayHead = HeadAt
      BY <1>1, <1>2 DEF PlayHead
    <2>2. HeadAt' \in Int /\ HeadAt <= HeadAt'
      BY <1>1, <1>4, <1>5, Facts DEF HeadAt
    <2> QED  BY <1>6, <2>1, <2>2
  <1>9. end + pending <= later + delay
    BY <1>6, <1>7, <1>8
  <1>10. CodecOK(file, vgm', codec', ds', PlayHead' + file.delay)
    <2>1. StandsAt(file, vgm, codec, ds, later + delay)
      BY <1>3, <1>6, <1>9 DEF StandsAt
    <2> QED  BY <1>1, <1>6, <1>8, <2>1, Facts DEF CodecOK
  <1>11. HeadInv'
    BY <1>1, <1>2, <1>4, <1>5, Facts DEF FrameInv, HeadInv
  <1>12. EmptyRun'
    BY <1>1, EmptyRunKept DEF FrameInv
  <1>13. MaxEmpty \in Nat /\ MaxEmpty > 0
    BY LimitsAssumption
  <1>14. DiscardUsed'
    <2>1. ~(file.codec = "tac" /\ codec.discard > 0)
      <3>1. SUFFICES ASSUME file.codec = "tac", codec.discard > 0 PROVE FALSE
        OBVIOUS
      <3>2. codec.next < PacketCount /\ num_empty = 0
        BY <1>2, <3>1 DEF FrameInv, DiscardUsed
      <3>3. Place = codec.next
        BY <3>1 DEF Place, KeepsOwnPlace
      <3>4. PacketCount \in Nat
        BY Facts, PacketSpans DEF PacketCount
      <3> QED  BY <1>1, <1>13, <3>2, <3>3, <3>4, Facts DEF NoFrame
    <2> QED  BY <1>1, <2>1 DEF DiscardUsed
  <1>15. NothingHeld'
    <2>1. SUFFICES ASSUME KeepsDecoder(file, vgm.loop_start_sample), ~codec.primed,
                          vgm.hit_loop
                   PROVE  FALSE
      BY <1>1, <1>2, <1>3 DEF FrameInv, NothingHeld
    <2>2. vgm.ch = 0 /\ num_empty = 0
      BY <2>1 DEF FrameInv, NothingHeld
    <2>3. file.codec = "vorbis"
      BY <2>1 DEF KeepsDecoder
    <2>4. Place = 0
      BY <2>2, <2>3 DEF Place, KeepsOwnPlace
    <2>5. vgm.loop_start_sample \in Nat
      BY Facts DEF VgmRecord
    <2>6. PacketCount > 0 /\ PacketCount \in Nat
      BY <2>1, <2>5, Facts, KeptDecoderHasPackets, PacketSpans DEF PacketCount
    <2> QED  BY <1>1, <1>13, <2>2, <2>4, <2>6 DEF NoFrame
  <1>16. PlaysTheStream'
    <2>1. HeadAt = head
      BY <1>2, <1>6 DEF PlayHead
    <2>2. head + delay >= end
      BY <1>6, <1>7
    <2>3. end = RawStart(file, PacketCount)
      BY <1>6 DEF DataEnd, PacketCount
    <2>4. run'.kind = "silent" /\ run'.at = head /\ file' = file
      BY <1>1, <2>1 DEF Silence
    <2> QED  BY <1>6, <2>2, <2>3, <2>4 DEF PlaysTheStream, PacketCount
  <1>17. /\ codec' \in CodecRecord /\ ds' \in DecodeState /\ num_empty' \in Nat
         /\ pc' \in {"idle", "layout", "frames"}
         /\ UNCHANGED <<file, start_vgmstream>>
    BY <1>1, <1>2, Facts
  <1> QED
    BY <1>5, <1>10, <1>11, <1>12, <1>14, <1>15, <1>16, <1>17, Assemble

\* A VGMSTREAM whose codec went on to another packet.
LEMMA MovedHead ==
    ASSUME NEW f, NEW v, HeadOK(f, v), NEW ch \in Nat,
           NEW w, w = [v EXCEPT !.ch = ch]
    PROVE  /\ HeadOK(f, w)
           /\ w.ch = ch
           /\ w.current_sample = v.current_sample
           /\ w.loop_flag = v.loop_flag /\ w.hit_loop = v.hit_loop
           /\ w.loop_ch = v.loop_ch
           /\ w.loop_start_sample = v.loop_start_sample
           /\ w.loop_end_sample = v.loop_end_sample
  <1>1. v \in VgmRecord
    BY DEF HeadOK
  <1>2. w \in VgmRecord
    BY <1>1 DEF VgmRecord
  <1>3. /\ w.ch = ch
        /\ w.num_samples = v.num_samples
        /\ w.current_sample = v.current_sample
        /\ w.samples_into_block = v.samples_into_block
        /\ w.loop_flag = v.loop_flag /\ w.hit_loop = v.hit_loop
        /\ w.loop_ch = v.loop_ch
        /\ w.loop_start_sample = v.loop_start_sample
        /\ w.loop_end_sample = v.loop_end_sample
        /\ w.loop_current_sample = v.loop_current_sample
        /\ w.loop_samples_into_block = v.loop_samples_into_block
    BY <1>1 DEF VgmRecord
  <1> QED  BY <1>2, <1>3 DEF HeadOK

\* The head stays in its loop while the codec reads packets.
LEMMA ReadingKeepsHead ==
    ASSUME FrameInv, pc = "frames", pc' = pc, NEW ch \in Nat,
           vgm' = [vgm EXCEPT !.ch = ch], UNCHANGED <<file, sbuf>>
    PROVE  /\ HeadInv'
           /\ vgm'.ch = ch
           /\ PlayHead' = PlayHead
           /\ vgm'.loop_flag = vgm.loop_flag /\ vgm'.hit_loop = vgm.hit_loop
           /\ vgm'.loop_ch = vgm.loop_ch
           /\ vgm'.current_sample = vgm.current_sample
           /\ vgm'.loop_start_sample = vgm.loop_start_sample
           /\ vgm'.loop_end_sample = vgm.loop_end_sample
           /\ file.codec = "relic" /\ vgm'.loop_flag =>
                 vgm'.hit_loop /\ vgm'.loop_ch = 0
  <1>1. PICK n, v, w, u :
          /\ n = sbuf.limit - sbuf.from /\ v = vgm /\ w = vgm'
          /\ u = Advanced(v, n)
    OBVIOUS
  <1>2. /\ HeadOK(file, v) /\ HeadOK(file, u) /\ sbuf.from < sbuf.limit
    BY <1>1 DEF FrameInv, HeadInv
  <1>3. w = [v EXCEPT !.ch = ch]
    BY <1>1
  <1>4. /\ HeadOK(file, w)
        /\ w.ch = ch
        /\ w.current_sample = v.current_sample
        /\ w.loop_flag = v.loop_flag /\ w.hit_loop = v.hit_loop
        /\ w.loop_ch = v.loop_ch
        /\ w.loop_start_sample = v.loop_start_sample
        /\ w.loop_end_sample = v.loop_end_sample
    BY <1>2, <1>3, MovedHead
  <1>5. v \in VgmRecord /\ u \in VgmRecord
    BY <1>2 DEF HeadOK
  <1>6. Advanced(w, n) = [u EXCEPT !.ch = ch]
    BY <1>1, <1>3, <1>5 DEF Advanced, VgmRecord
  <1>7. PICK x : x = Advanced(w, n)
    OBVIOUS
  <1>8. HeadOK(file, x)
    BY <1>2, <1>6, <1>7, MovedHead
  <1>9. HeadInv'
    BY <1>1, <1>4, <1>7, <1>8 DEF FrameInv, HeadInv
  <1>10. PlayHead' = PlayHead
    BY <1>1, <1>4 DEF PlayHead, HeadAt
  <1>11. ASSUME file.codec = "relic", w.loop_flag
         PROVE  w.hit_loop /\ w.loop_ch = 0
    <2>1. n \in Nat /\ n > 0
      BY <1>1, <1>2, Facts
    <2>2. u.current_sample = v.current_sample + n /\ u.loop_flag = v.loop_flag
          /\ u.hit_loop = v.hit_loop
      BY <1>1, <1>5 DEF Advanced, VgmRecord
    <2>3. u.loop_flag /\ u.loop_start_sample = 0
      <3>1. file.loop_start_sample = 0
        BY <1>11, Facts DEF SoundFile
      <3> QED  BY <1>2, <1>4, <1>11, <2>2, <3>1 DEF HeadOK
    <2>4. v.hit_loop
      <3>1. ~u.hit_loop => u.current_sample <= 0
        BY <1>2, <2>3 DEF HeadOK
      <3>2. v.current_sample \in Nat
        BY <1>5 DEF VgmRecord
      <3> QED  BY <2>1, <2>2, <3>1, <3>2
    <2>5. NoDiscard(file, v, codec, ds)
      BY <1>1 DEF FrameInv
    <2> QED  BY <1>4, <1>11, <2>4, <2>5 DEF NoDiscard
  <1> QED  BY <1>1, <1>4, <1>9, <1>10, <1>11

\* A frame that a codec decoded, or a packet that gave none.
LEMMA FrameKeepsInv ==
    ASSUME FrameInv, DecodeFrame
    PROVE  FrameInv'
  <1>0. PICK f, packet : f = file /\ packet = Packet(Place)
    OBVIOUS
  <1>1. PICK k \in Nat, len \in Nat :
          /\ f = file /\ f \in Files
          /\ k = Place /\ len = PacketCount /\ packet = Packet(k)
    <2>1. f \in Files
      BY <1>0, Facts
    <2>2. Place \in Nat
      BY Facts DEF Place
    <2>3. PacketCount \in Nat
      BY <1>0, <2>1, PacketSpans DEF PacketCount
    <2> QED  BY <1>0, <2>1, <2>2, <2>3
  <1>2. PICK moved :
          moved = [codec EXCEPT !.next = IF KeepsOwnPlace THEN k + 1 ELSE @,
                                !.last = IF file.codec = "atrac9" THEN k ELSE @]
    OBVIOUS
  <1>3. /\ NeedsFrame /\ num_empty <= MaxEmpty /\ f.codec # "vorbis" /\ k < len
        /\ vgm' = [vgm EXCEPT !.ch = IF KeepsOwnPlace THEN @ ELSE k + 1]
        /\ CountEmpty(packet)
        /\ IF Left(packet) = 0
           THEN codec' = moved /\ UNCHANGED ds
           ELSE Out(packet, f.codec = "atrac9" => k \in {0, codec.last + 1}, moved)
        /\ UNCHANGED <<file, start_vgmstream, sbuf, pc, run>>
    BY <1>1, <1>2 DEF DecodeFrame
  <1>4. pc = "frames" /\ ToDecode > 0 /\ Left(ds.samples) = 0 /\ ds.samples \in Span
    BY <1>3, Facts DEF NeedsFrame
  <1>5. /\ packet \in Span
        /\ packet.from = RawStart(f, k) /\ packet.to = RawStart(f, k + 1)
        /\ RawStart(f, k) <= RawStart(f, k + 1)
        /\ RawStart(f, k) \in Nat /\ RawStart(f, k + 1) \in Nat
    <2>1. k < Len(f.packets) /\ packet = f.packets[k + 1]
      BY <1>1, <1>3 DEF Packet, PacketCount
    <2>2. /\ f.packets[k + 1] \in Span
          /\ f.packets[k + 1].from = RawStart(f, k)
          /\ f.packets[k + 1].to = RawStart(f, k + 1)
          /\ RawStart(f, k) <= RawStart(f, k + 1)
      BY <1>1, <2>1, PacketSpans
    <2>3. RawStart(f, k) \in Nat /\ RawStart(f, k + 1) \in Nat
      BY <1>1, WithinData
    <2> QED  BY <2>1, <2>2, <2>3
  <1>6. /\ Left(packet) = RawStart(f, k + 1) - RawStart(f, k)
        /\ Left(packet) \in Nat
    BY <1>5 DEF Left
  <1>7. PICK ch \in Nat : ch = IF KeepsOwnPlace THEN vgm.ch ELSE k + 1
    BY Facts
  <1>8. vgm' = [vgm EXCEPT !.ch = ch]
    BY <1>3, <1>7
  <1>9. PICK w : w = vgm'
    OBVIOUS
  <1>10. /\ HeadInv'
         /\ w.ch = ch
         /\ PlayHead' = PlayHead
         /\ w.loop_flag = vgm.loop_flag
         /\ w.current_sample = vgm.current_sample
         /\ w.loop_end_sample = vgm.loop_end_sample
         /\ f.codec = "relic" /\ w.loop_flag => w.hit_loop /\ w.loop_ch = 0
    BY <1>1, <1>3, <1>4, <1>8, <1>9, ReadingKeepsHead
  <1>11. /\ moved \in CodecRecord
         /\ moved.next = IF KeepsOwnPlace THEN k + 1 ELSE codec.next
         /\ moved.last = IF f.codec = "atrac9" THEN k ELSE codec.last
         /\ moved.discard = codec.discard /\ moved.left = codec.left
         /\ moved.loop_block = codec.loop_block
         /\ moved.loop_delay = codec.loop_delay
    <2>1. PICK next, last :
            /\ next = IF KeepsOwnPlace THEN k + 1 ELSE codec.next
            /\ last = IF f.codec = "atrac9" THEN k ELSE codec.last
      OBVIOUS
    <2>2. next \in Nat /\ last \in Nat \cup {-1}
      BY <1>1, <2>1, Facts DEF CodecRecord
    <2>3. moved = [codec EXCEPT !.next = next, !.last = last]
      BY <1>1, <1>2, <2>1
    <2> QED  BY <2>1, <2>2, <2>3, Facts DEF CodecRecord
  <1>12. Left(codec.left) = 0
    BY <1>1, <1>3, Facts DEF FrameInv, HeldInOrder
  <1>13. \A c : c.next = moved.next => PacketOf(f, w, c) = k + 1
                                      /\ NextPacket(f, w, c) = k + 1
    BY <1>1, <1>3, <1>7, <1>10, <1>11 DEF PacketOf, NextPacket, KeepsOwnPlace
  <1>14. PacketOf(f, vgm, codec) = k /\ NextPacket(f, vgm, codec) = k
    BY <1>1, <1>3 DEF PacketOf, NextPacket, Place, KeepsOwnPlace
  <1>15. PICK raw : raw = PlayHead + file.delay
    OBVIOUS
  <1>16. NextOut(f, vgm, codec, ds) = RawStart(f, k)
    BY <1>4, <1>12, <1>14 DEF NextOut, NextHeld
  <1>17. /\ HeldInOrder(f, vgm, codec, ds) /\ StandsAt(f, vgm, codec, ds, raw)
         /\ FrameIsExact(f, vgm, codec, ds) /\ HeaderLoopOK(f, codec)
         /\ NoDiscard(f, vgm, codec, ds)
    BY <1>1, <1>15 DEF FrameInv
  <1>18. \/ RawStart(f, k) + Pending(codec, ds) = raw
         \/ /\ RawStart(f, k) = DataEnd(f)
            /\ DataEnd(f) + Pending(codec, ds) <= raw
    BY <1>16, <1>17 DEF StandsAt
  <1>19. f.codec \in {"atrac9", "tac"} => Left(packet) # 0
    <2>1. SUFFICES ASSUME f.codec \in {"atrac9", "tac"} PROVE Left(packet) # 0
      OBVIOUS
    <2>2. EqualFrames(f)
      BY <1>1, <2>1, Facts DEF SoundFile, CountsFrames
    <2>3. k < Len(f.packets)
      BY <1>1, <1>3 DEF PacketCount
    <2>4. RawStart(f, k + 1) - RawStart(f, k) = FrameSize(f)
      BY <1>1, <2>2, <2>3, FullFrames
    <2>5. FrameSize(f) \in Nat /\ FrameSize(f) > 0
      BY <1>1, <2>2, FrameIsNumber
    <2> QED  BY <1>6, <2>4, <2>5
  <1>20. NothingHeld'
    BY <1>1, <1>3 DEF NothingHeld, KeepsDecoder
  <1>21. PlaysTheStream'
    BY <1>3, RunKept DEF FrameInv
  <1>22. num_empty' \in Nat
         /\ num_empty' = IF Left(packet) = 0 THEN num_empty + 1 ELSE 0
    BY <1>3, Facts DEF CountEmpty
  <1>23. CASE Left(packet) = 0
    <2>1. codec' = moved /\ ds' = ds
      BY <1>3, <1>23
    <2>2. RawStart(f, k + 1) = RawStart(f, k)
      BY <1>5, <1>6, <1>23
    <2>3. NextOut(f, w, moved, ds) = RawStart(f, k)
      BY <1>4, <1>11, <1>12, <1>13, <2>2 DEF NextOut, NextHeld
    <2>4. Pending(moved, ds) = Pending(codec, ds)
      BY <1>11 DEF Pending
    <2>5. StandsAt(f, w, moved, ds, raw)
      BY <1>18, <2>3, <2>4 DEF StandsAt
    <2>6. HeldInOrder(f, w, moved, ds)
      BY <1>4, <1>11, <1>12, <1>17 DEF HeldInOrder
    <2>7. FrameIsExact(f, w, moved, ds)
      BY <1>17, <1>19, <1>23 DEF FrameIsExact
    <2>8. HeaderLoopOK(f, moved) /\ NoDiscard(f, w, moved, ds)
      BY <1>10, <1>11, <1>17 DEF HeaderLoopOK, NoDiscard
    <2>9. CodecOK(file, vgm', codec', ds', PlayHead' + file.delay)
      BY <1>1, <1>9, <1>10, <1>15, <2>1, <2>5, <2>6, <2>7, <2>8 DEF CodecOK
    <2>10. EmptyRun'
      <3>1. PacketOf(file', vgm', codec') = k + 1
        BY <1>1, <1>3, <1>9, <1>11, <1>13, <2>1
      <3>2. PICK was \in Nat : was = num_empty /\ num_empty' = was + 1
        BY <1>22, <1>23, Facts
      <3>3. was <= k /\ RawStart(f, k - was) = RawStart(f, k)
        <4>1. was > 0 => was <= k /\ RawStart(f, k - was) = RawStart(f, k)
          BY <1>1, <1>3, <1>4, <1>14, <3>2 DEF FrameInv, EmptyRun
        <4>2. k - 0 = k
          OBVIOUS
        <4> QED  BY <4>1, <4>2
      <3>4. was + 1 <= k + 1 /\ (k + 1) - (was + 1) = k - was
        BY <3>3
      <3>5. RawStart(file', (k + 1) - num_empty') = RawStart(file', k + 1)
        BY <1>1, <1>3, <2>2, <3>2, <3>3, <3>4
      <3>6. num_empty' <= k + 1 /\ file'.codec # "vorbis"
        BY <1>1, <1>3, <3>2, <3>4
      <3> QED  BY <3>1, <3>5, <3>6 DEF EmptyRun
    <2>11. DiscardUsed'
      BY <1>1, <1>3, <1>19, <1>23 DEF DiscardUsed
    <2>12. /\ codec' \in CodecRecord /\ ds' \in DecodeState
           /\ UNCHANGED <<file, start_vgmstream>> /\ pc' = "frames"
           /\ sbuf' \in [samples : Nat, filled : Nat, from : Nat, limit : Nat]
      BY <1>3, <1>4, <1>11, <2>1, Facts
    <2> QED
      BY <1>10, <1>20, <1>21, <1>22, <2>9, <2>10, <2>11, <2>12, Assemble
  <1>24. CASE Left(packet) # 0
    <2>1. PICK exact, asked, was :
            /\ exact = (f.codec = "atrac9" => k \in {0, codec.last + 1})
            /\ asked = codec.discard /\ was = ds.discard
      OBVIOUS
    <2>2. /\ exact \in BOOLEAN /\ asked \in Nat /\ was \in Nat
          /\ f.codec = "relic" => asked = 0 /\ was = 0
      BY <1>17, <2>1, Facts DEF NoDiscard
    <2>3. PICK d, c : d = ds' /\ c = codec'
      OBVIOUS
    <2>4. /\ d = [samples |-> packet, discard |-> was + asked, exact |-> exact]
          /\ c = [moved EXCEPT !.discard = 0]
      BY <1>1, <1>3, <1>24, <2>1, <2>2, <2>3 DEF Out
    <2>5. /\ d \in DecodeState /\ d.samples = packet /\ d.discard = was + asked
          /\ d.exact = exact
      BY <1>5, <2>2, <2>4 DEF DecodeState
    <2>6. /\ c \in CodecRecord /\ c.discard = 0 /\ c.left = codec.left
          /\ c.next = moved.next /\ c.last = moved.last
          /\ c.loop_block = codec.loop_block /\ c.loop_delay = codec.loop_delay
      BY <1>11, <2>4 DEF CodecRecord
    <2>7. NextHeld(f, w, c) = RawStart(f, k + 1)
      BY <1>12, <1>13, <2>6 DEF NextHeld
    <2>8. Left(d.samples) > 0
      BY <1>6, <1>24, <2>5
    <2>9. HeldInOrder(f, w, c, d)
      BY <1>5, <1>12, <1>17, <2>5, <2>6, <2>7 DEF HeldInOrder
    <2>10. NextOut(f, w, c, d) = RawStart(f, k)
      BY <1>5, <2>5, <2>8 DEF NextOut
    <2>11. Pending(c, d) = Pending(codec, ds) /\ Pending(c, d) = was + asked
      BY <2>1, <2>2, <2>5, <2>6 DEF Pending
    <2>12. StandsAt(f, w, c, d, raw)
      BY <1>18, <2>10, <2>11 DEF StandsAt
    <2>13. FrameIsExact(f, w, c, d)
      <3>1. CASE f.codec = "atrac9"
        <4>1. w.ch = k + 1 /\ c.last = k /\ vgm.ch = k
          BY <1>1, <1>7, <1>10, <1>11, <2>6, <3>1 DEF KeepsOwnPlace, Place
        <4>2. c.last = w.ch - 1
          BY <4>1
        <4>3. d.exact \/ d.discard >= Left(d.samples)
          <5>1. \/ k = 0
                \/ codec.last = k - 1
                \/ Pending(codec, ds) >= FrameSize(f)
            BY <1>17, <3>1, <4>1 DEF FrameIsExact
          <5>2. codec.last = k - 1 => k = codec.last + 1
            OBVIOUS
          <5>3. k = 0 \/ codec.last = k - 1 => d.exact
            BY <2>1, <2>5, <5>2
          <5>4. Left(d.samples) = FrameSize(f)
            <6>1. EqualFrames(f)
              BY <1>1, <3>1, Facts DEF SoundFile, CountsFrames
            <6>2. k < Len(f.packets)
              BY <1>1, <1>3 DEF PacketCount
            <6> QED  BY <1>1, <1>6, <2>5, <6>1, <6>2, FullFrames
          <5> QED  BY <2>5, <2>11, <5>1, <5>3, <5>4
        <4> QED  BY <3>1, <4>2, <4>3 DEF FrameIsExact
      <3>2. CASE f.codec # "atrac9"
        BY <2>1, <2>5, <3>2 DEF FrameIsExact
      <3> QED  BY <3>1, <3>2
    <2>14. HeaderLoopOK(f, c) /\ NoDiscard(f, w, c, d)
      BY <1>10, <1>17, <2>2, <2>5, <2>6 DEF HeaderLoopOK, NoDiscard
    <2>15. CodecOK(file, vgm', codec', ds', PlayHead' + file.delay)
      BY <1>1, <1>9, <1>10, <1>15, <2>3, <2>9, <2>12, <2>13, <2>14 DEF CodecOK
    <2>16. EmptyRun' /\ DiscardUsed'
      BY <1>22, <1>24, <2>3, <2>6 DEF EmptyRun, DiscardUsed
    <2>17. /\ codec' \in CodecRecord /\ ds' \in DecodeState
           /\ UNCHANGED <<file, start_vgmstream>> /\ pc' = "frames"
           /\ sbuf' \in [samples : Nat, filled : Nat, from : Nat, limit : Nat]
      BY <1>3, <1>4, <2>3, <2>5, <2>6, Facts
    <2> QED
      BY <1>10, <1>20, <1>21, <1>22, <2>15, <2>16, <2>17, Assemble
  <1> QED  BY <1>23, <1>24

\* Some of what libvorbis holds of a packet, at most a call's samples.
LEMMA TakeLeftKeepsInv ==
    ASSUME FrameInv, TakeLeft
    PROVE  FrameInv'
  <1>1. PICK n, part :
          /\ n = SmallerOf(Left(codec.left), CallSamples)
          /\ part = [codec.left EXCEPT !.to = codec.left.from + n]
    OBVIOUS
  <1>2. /\ NeedsFrame /\ file.codec = "vorbis" /\ Left(codec.left) > 0
        /\ ds' = [samples |-> part, discard |-> ds.discard + codec.discard,
                  exact |-> TRUE]
        /\ codec' = [codec EXCEPT !.left = Dropped(@, n), !.discard = 0]
        /\ num_empty' = IF Left(part) = 0 THEN num_empty + 1 ELSE 0
        /\ UNCHANGED <<file, vgm, start_vgmstream, sbuf, pc, run>>
    <2>1. PICK moved : moved = [codec EXCEPT !.left = Dropped(@, n)]
      OBVIOUS
    <2>2. /\ NeedsFrame /\ file.codec = "vorbis" /\ Left(codec.left) > 0
          /\ Out(part, TRUE, moved) /\ CountEmpty(part)
          /\ UNCHANGED <<file, vgm, start_vgmstream, sbuf, pc, run>>
      BY <1>1, <2>1 DEF TakeLeft
    <2>3. codec' = [moved EXCEPT !.discard = 0]
      BY <2>2 DEF Out
    <2>4. codec' = [codec EXCEPT !.left = Dropped(@, n), !.discard = 0]
      BY <2>1, <2>3, Facts DEF CodecRecord
    <2> QED  BY <2>2, <2>4 DEF Out, CountEmpty
  <1>3. pc = "frames" /\ ToDecode > 0 /\ Left(ds.samples) = 0
        /\ ds.samples \in Span
    BY <1>2, Facts DEF NeedsFrame
  <1>4. PICK from \in Nat, to \in Nat, asked \in Nat, was \in Nat, call \in Nat :
          /\ from = codec.left.from /\ to = codec.left.to
          /\ asked = codec.discard /\ was = ds.discard
          /\ call = CallSamples /\ call > 0
    BY Facts, LimitsAssumption DEF Span
  <1>5. Left(codec.left) = to - from /\ from < to
    BY <1>2, <1>4 DEF Left
  <1>6. n \in Nat /\ n > 0 /\ from + n <= to
        /\ (to - from <= call => from + n = to)
    BY <1>1, <1>4, <1>5 DEF SmallerOf
  <1>7. PICK d, c, k : d = ds' /\ c = codec' /\ k = vgm.ch
    OBVIOUS
  <1>8. /\ d \in DecodeState /\ d.discard = was + asked /\ d.exact = TRUE
        /\ d.samples.from = from /\ d.samples.to = from + n
        /\ Left(d.samples) = n /\ Left(part) = n
    <2>1. part = [from |-> from, to |-> from + n]
      BY <1>1, <1>4, Facts DEF Span
    <2>2. part \in Span /\ part.from = from /\ part.to = from + n
      BY <1>6, <2>1 DEF Span
    <2>3. Left(part) = n
      BY <1>4, <1>6, <2>2 DEF Left
    <2> QED  BY <1>2, <1>4, <1>7, <2>2, <2>3 DEF DecodeState
  <1>9. /\ c \in CodecRecord /\ c.discard = 0 /\ c.primed = codec.primed
        /\ c.left.from = from + n /\ c.left.to = to
        /\ Left(c.left) = to - (from + n)
        /\ c.loop_block = codec.loop_block /\ c.loop_delay = codec.loop_delay
    <2>1. PICK rest : rest = Dropped(codec.left, n)
      OBVIOUS
    <2>2. rest \in Span /\ rest.from = from + n /\ rest.to = to
      BY <1>4, <1>6, <2>1, Facts DEF Dropped, Span
    <2>3. c = [codec EXCEPT !.left = rest, !.discard = 0]
      BY <1>2, <1>7, <2>1
    <2>4. c \in CodecRecord /\ c.discard = 0 /\ c.primed = codec.primed
          /\ c.left = rest
          /\ c.loop_block = codec.loop_block /\ c.loop_delay = codec.loop_delay
      BY <2>2, <2>3, Facts DEF CodecRecord
    <2> QED  BY <2>2, <2>4 DEF Left
  <1>10. /\ HeldInOrder(file, vgm, codec, ds)
         /\ StandsAt(file, vgm, codec, ds, PlayHead + file.delay)
    BY DEF FrameInv
  <1>11. codec.primed /\ to = RawStart(file, k)
    BY <1>2, <1>4, <1>7, <1>10 DEF HeldInOrder
  <1>12. NextHeld(file, vgm, c) = from + n
    <2>1. NextPacket(file, vgm, c) = k
      BY <1>2, <1>7, <1>9, <1>11 DEF NextPacket, PacketOf
    <2>2. CASE Left(c.left) > 0
      BY <1>9, <2>2 DEF NextHeld
    <2>3. CASE ~(Left(c.left) > 0)
      <3>1. from + n = to
        BY <1>4, <1>6, <1>9, <2>3
      <3> QED  BY <1>11, <2>1, <2>3, <3>1 DEF NextHeld
    <2> QED  BY <2>2, <2>3
  <1>13. HeldInOrder(file, vgm, c, d)
    BY <1>2, <1>4, <1>6, <1>7, <1>8, <1>9, <1>11, <1>12 DEF HeldInOrder
  <1>14. PlayHead' = PlayHead
    BY <1>2 DEF PlayHead, HeadAt
  <1>15. StandsAt(file, vgm, c, d, PlayHead + file.delay)
    <2>1. NextOut(file, vgm, codec, ds) = from
      BY <1>2, <1>3, <1>4 DEF NextOut, NextHeld
    <2>2. NextOut(file, vgm, c, d) = from
      BY <1>6, <1>8 DEF NextOut
    <2>3. Pending(c, d) = Pending(codec, ds)
      BY <1>4, <1>8, <1>9 DEF Pending
    <2> QED  BY <1>10, <2>1, <2>2, <2>3 DEF StandsAt
  <1>16. CodecOK(file, vgm', codec', ds', PlayHead' + file.delay)
    <2>1. FrameIsExact(file, vgm, c, d)
      BY <1>2, <1>8 DEF FrameIsExact
    <2>2. HeaderLoopOK(file, c) /\ NoDiscard(file, vgm, c, d)
      BY <1>2 DEF HeaderLoopOK, NoDiscard
    <2> QED  BY <1>2, <1>7, <1>13, <1>14, <1>15, <2>1, <2>2 DEF CodecOK
  <1>17. num_empty' = 0
    BY <1>2, <1>6, <1>8
  <1>18. EmptyRun' /\ DiscardUsed'
    BY <1>2, <1>17 DEF EmptyRun, DiscardUsed
  <1>19. NothingHeld'
    <2>1. SUFFICES ASSUME KeepsDecoder(file, vgm.loop_start_sample)
                   PROVE  c.primed /\ ~(Left(c.left) > 0)
      BY <1>2, <1>7 DEF NothingHeld
    <2>2. to - from <= call
      BY <1>2, <1>4, <1>5, <2>1 DEF FrameInv, NothingHeld
    <2> QED  BY <1>4, <1>6, <1>9, <1>11, <2>2
  <1>20. HeadInv' /\ PlaysTheStream'
    BY <1>2, RunKept DEF FrameInv, HeadInv
  <1>21. /\ codec' \in CodecRecord /\ ds' \in DecodeState /\ num_empty' \in Nat
         /\ pc' \in {"idle", "layout", "frames"}
         /\ UNCHANGED <<file, start_vgmstream>>
         /\ sbuf' \in [samples : Nat, filled : Nat, from : Nat, limit : Nat]
    BY <1>2, <1>3, <1>7, <1>8, <1>9, <1>17, Facts
  <1> QED  BY <1>16, <1>18, <1>19, <1>20, <1>21, Assemble

\* A packet that libvorbis is given, whose samples the next call takes; the first
\* one after a restart gives none.
LEMMA ReadPacketKeepsInv ==
    ASSUME FrameInv, ReadPacket
    PROVE  FrameInv'
  <1>0. PICK f, packet, held :
          /\ f = file /\ packet = Packet(Place)
          /\ held = IF codec.primed THEN packet ELSE Nothing
    OBVIOUS
  <1>1. PICK k \in Nat, len \in Nat :
          /\ f = file /\ f \in Files /\ f.codec = "vorbis"
          /\ k = Place /\ k = vgm.ch /\ len = PacketCount /\ k < len
    <2>1. f \in Files
      BY <1>0, Facts
    <2>2. f.codec = "vorbis" /\ Place < PacketCount
      BY <1>0 DEF ReadPacket
    <2>3. Place = vgm.ch /\ Place \in Nat
      BY <1>0, <2>2, Facts DEF Place, KeepsOwnPlace
    <2>4. PacketCount \in Nat
      BY <1>0, <2>1, PacketSpans DEF PacketCount
    <2> QED  BY <1>0, <2>1, <2>2, <2>3, <2>4
  <1>2. /\ NeedsFrame /\ Left(codec.left) = 0
        /\ codec' = [codec EXCEPT !.primed = TRUE, !.left = held]
        /\ vgm' = [vgm EXCEPT !.ch = k + 1]
        /\ num_empty' = num_empty + 1
        /\ UNCHANGED <<file, start_vgmstream, ds, sbuf, pc, run>>
    <2>1. vgm' = [vgm EXCEPT !.ch = vgm.ch + 1]
      BY DEF ReadPacket
    <2> QED  BY <1>0, <1>1, <2>1 DEF ReadPacket
  <1>3. pc = "frames" /\ ToDecode > 0 /\ Left(ds.samples) = 0
    BY <1>2 DEF NeedsFrame
  <1>4. /\ packet \in Span
        /\ packet.from = RawStart(f, k) /\ packet.to = RawStart(f, k + 1)
        /\ RawStart(f, k) <= RawStart(f, k + 1)
        /\ RawStart(f, k) \in Nat /\ RawStart(f, k + 1) \in Nat
        /\ k + 1 \in DOMAIN f.packets /\ packet = f.packets[k + 1]
    <2>1. k < Len(f.packets) /\ packet = f.packets[k + 1]
      BY <1>0, <1>1 DEF Packet, PacketCount
    <2>2. /\ f.packets[k + 1] \in Span /\ k + 1 \in DOMAIN f.packets
          /\ f.packets[k + 1].from = RawStart(f, k)
          /\ f.packets[k + 1].to = RawStart(f, k + 1)
          /\ RawStart(f, k) <= RawStart(f, k + 1)
      BY <1>1, <2>1, PacketSpans
    <2>3. RawStart(f, k) \in Nat /\ RawStart(f, k + 1) \in Nat
      BY <1>1, WithinData
    <2> QED  BY <2>1, <2>2, <2>3
  <1>5. PICK w, c, raw : w = vgm' /\ c = codec' /\ raw = PlayHead + file.delay
    OBVIOUS
  <1>6. HeadInv' /\ w.ch = k + 1 /\ PlayHead' = PlayHead
        /\ w.loop_start_sample = vgm.loop_start_sample
    <2>1. k + 1 \in Nat
      OBVIOUS
    <2> QED  BY <1>2, <1>3, <1>5, <2>1, ReadingKeepsHead
  <1>7. /\ c \in CodecRecord /\ c.primed = TRUE /\ c.left = held
        /\ c.discard = codec.discard
    <2>1. held \in Span
      BY <1>0, <1>4 DEF Nothing, Span
    <2> QED  BY <1>2, <1>5, <2>1, Facts DEF CodecRecord
  <1>8. /\ HeldInOrder(f, vgm, codec, ds) /\ StandsAt(f, vgm, codec, ds, raw)
        /\ FrameIsExact(f, vgm, codec, ds)
    BY <1>1, <1>5 DEF FrameInv
  <1>9. Left(packet) = RawStart(f, k + 1) - RawStart(f, k)
    BY <1>4 DEF Left
  <1>10. Left(Nothing) = 0 /\ Nothing.from <= Nothing.to
    BY DEF Left, Nothing
  <1>11. NextPacket(f, w, c) = k + 1
    BY <1>1, <1>6, <1>7 DEF NextPacket, PacketOf
  <1>12. HeldInOrder(f, w, c, ds)
    <2>1. c.left.from <= c.left.to
      BY <1>0, <1>4, <1>7, <1>10
    <2>2. Left(c.left) > 0 => c.left = packet
      BY <1>0, <1>7, <1>10
    <2> QED
      BY <1>1, <1>3, <1>4, <1>6, <1>7, <1>8, <2>1, <2>2 DEF HeldInOrder
  <1>13. NextHeld(f, w, c) = NextHeld(f, vgm, codec)
    <2>1. CASE codec.primed
      <3>1. NextHeld(f, vgm, codec) = RawStart(f, k)
        BY <1>1, <1>2, <2>1 DEF NextHeld, NextPacket, PacketOf
      <3>2. c.left = packet
        BY <1>0, <1>7, <2>1
      <3>3. CASE Left(packet) > 0
        BY <1>4, <3>1, <3>2, <3>3 DEF NextHeld
      <3>4. CASE ~(Left(packet) > 0)
        <4>1. RawStart(f, k + 1) = RawStart(f, k)
          BY <1>4, <1>9, <3>4
        <4> QED  BY <1>11, <3>1, <3>2, <3>4, <4>1 DEF NextHeld
      <3> QED  BY <3>3, <3>4
    <2>2. CASE ~codec.primed
      <3>1. NextHeld(f, vgm, codec) = RawStart(f, k + 1)
        BY <1>1, <1>2, <2>2 DEF NextHeld, NextPacket, PacketOf
      <3>2. c.left = Nothing
        BY <1>0, <1>7, <2>2
      <3> QED  BY <1>10, <1>11, <3>1, <3>2 DEF NextHeld
    <2> QED  BY <2>1, <2>2
  <1>14. StandsAt(f, w, c, ds, raw)
    <2>1. NextOut(f, w, c, ds) = NextOut(f, vgm, codec, ds)
      BY <1>13 DEF NextOut
    <2>2. Pending(c, ds) = Pending(codec, ds)
      BY <1>7 DEF Pending
    <2> QED  BY <1>8, <2>1, <2>2 DEF StandsAt
  <1>15. CodecOK(file, vgm', codec', ds', PlayHead' + file.delay)
    <2>1. FrameIsExact(f, w, c, ds)
      BY <1>1, <1>8 DEF FrameIsExact
    <2>2. HeaderLoopOK(f, c) /\ NoDiscard(f, w, c, ds)
      BY <1>1 DEF HeaderLoopOK, NoDiscard
    <2> QED
      BY <1>1, <1>2, <1>5, <1>6, <1>12, <1>14, <2>1, <2>2 DEF CodecOK
  <1>16. EmptyRun'
    <2>1. PICK was \in Nat : was = num_empty /\ num_empty' = was + 1
      BY <1>2, Facts
    <2>2. was > 0 => codec.primed /\ was <= k
      BY <1>1, <1>3, <2>1 DEF FrameInv, EmptyRun, PacketOf
    <2>3. was > 1 => RawStart(f, k - was + 1) = RawStart(f, k)
      <3>1. SUFFICES ASSUME was > 1
                     PROVE  RawStart(f, k - was + 1) = RawStart(f, k)
        OBVIOUS
      <3>2. codec.left = Packet(k - 1)
            /\ RawStart(f, k - was + 1) = RawStart(f, k - 1)
        <4>1. was > 0
          BY <3>1
        <4> QED
          BY <1>1, <1>3, <2>1, <3>1, <4>1 DEF FrameInv, EmptyRun, PacketOf
      <3>3. PICK j \in Nat : j = k - 1 /\ j + 1 = k /\ j < len
        <4>1. k - 1 \in Nat /\ (k - 1) + 1 = k /\ k - 1 < len
          BY <1>1, <2>2, <3>1
        <4> QED  BY <4>1
      <3>4. /\ f.packets[j + 1].from = RawStart(f, j)
            /\ f.packets[j + 1].to = RawStart(f, j + 1)
        <4>1. j < Len(f.packets)
          BY <1>1, <3>3 DEF PacketCount
        <4> QED  BY <1>1, <4>1, PacketSpans
      <3>5. codec.left = f.packets[j + 1]
        BY <1>1, <3>2, <3>3 DEF Packet
      <3>6. RawStart(f, j) \in Nat /\ RawStart(f, j + 1) \in Nat
        BY <1>1, WithinData
      <3>7. RawStart(f, j + 1) - RawStart(f, j) = 0
        BY <1>2, <3>4, <3>5 DEF Left
      <3>8. RawStart(f, j) = RawStart(f, k)
        BY <3>3, <3>6, <3>7
      <3> QED  BY <3>2, <3>3, <3>8
    <2>4. was > 0 => RawStart(f, k - was + 1) = RawStart(f, k)
      <3>1. CASE was = 1
        <4>1. k - was + 1 = k
          BY <3>1
        <4> QED  BY <4>1
      <3>2. CASE was # 1
        <4>1. was > 0 => was > 1
          BY <3>2
        <4> QED  BY <2>3, <4>1
      <3> QED  BY <3>1, <3>2
    <2>5. PICK next \in Nat :
            next = k + 1 /\ next = PacketOf(f, w, c) /\ next - 1 = k
            /\ next <= len /\ was + 1 <= next
            /\ next - (was + 1) + 1 = k - was + 1
      <3>1. PacketOf(f, w, c) = k + 1
        BY <1>1, <1>6 DEF PacketOf
      <3>2. was <= k
        BY <2>2
      <3>3. /\ k + 1 \in Nat /\ (k + 1) - 1 = k /\ k + 1 <= len
            /\ was + 1 <= k + 1
            /\ (k + 1) - (was + 1) + 1 = k - was + 1
        BY <1>1, <3>2
      <3> QED  BY <3>1, <3>3
    <2>6. was + 1 > 1 => /\ c.left = Packet(next - 1)
                         /\ RawStart(f, next - (was + 1) + 1) = RawStart(f, next - 1)
      <3>1. was + 1 > 1 => was > 0
        OBVIOUS
      <3>2. packet = Packet(next - 1)
        BY <1>0, <1>1, <2>5
      <3> QED  BY <1>0, <1>7, <2>2, <2>4, <2>5, <3>1, <3>2
    <2>7. UNCHANGED file /\ codec'.primed
          /\ next = PacketOf(file', vgm', codec')
      BY <1>1, <1>2, <1>5, <1>7, <2>5
    <2>8. next <= PacketCount'
      BY <1>1, <2>5, <2>7 DEF PacketCount
    <2>9. num_empty' > 1 =>
            /\ codec'.left = Packet(next - 1)'
            /\ RawStart(file', next - num_empty' + 1) = RawStart(file', next - 1)
      BY <1>1, <1>5, <2>1, <2>6, <2>7 DEF Packet
    <2> QED  BY <1>1, <2>1, <2>5, <2>7, <2>8, <2>9 DEF EmptyRun
  <1>17. NothingHeld'
    <2>1. PICK n : n = vgm.loop_start_sample
      OBVIOUS
    <2>2. SUFFICES ASSUME KeepsDecoder(f, n)
                   PROVE  Left(c.left) > 0 =>
                            NeedsFrame' /\ num_empty' > 0
                            /\ Left(c.left) <= CallSamples
      BY <1>1, <1>2, <1>5, <1>6, <1>7, <2>1 DEF NothingHeld
    <2>3. NeedsFrame' /\ num_empty' > 0
      BY <1>2, Facts DEF NeedsFrame, ToDecode
    <2>4. n \in Nat
      BY <2>1, Facts DEF VgmRecord
    <2>5. PICK i : i = SeekTableEntry(f, n) /\ i # 0 /\ ~Restarts(f, f.table[i])
      BY <2>2 DEF KeepsDecoder
    <2>6. i \in DOMAIN f.table
      BY <1>1, <2>4, <2>5, EntryNotPast
    <2>7. TableIsRight(f)
      BY <1>1, Facts DEF SoundFile
    <2>8. Left(packet) <= CallSamples
      BY <1>4, <2>5, <2>6, <2>7 DEF TableIsRight
    <2>9. Left(c.left) > 0 => c.left = packet
      BY <1>0, <1>7, <1>10
    <2> QED  BY <2>3, <2>8, <2>9
  <1>18. PlaysTheStream' /\ DiscardUsed'
    BY <1>1, <1>2, RunKept DEF FrameInv, DiscardUsed
  <1>19. /\ codec' \in CodecRecord /\ ds' \in DecodeState /\ num_empty' \in Nat
         /\ pc' \in {"idle", "layout", "frames"}
         /\ UNCHANGED <<file, start_vgmstream>>
         /\ sbuf' \in [samples : Nat, filled : Nat, from : Nat, limit : Nat]
    BY <1>2, <1>3, <1>5, <1>7, Facts
  <1> QED  BY <1>6, <1>15, <1>16, <1>17, <1>18, <1>19, Assemble

-----------------------------------------------------------------------------
(* The specification *)

\* One step of the decoder or of its caller, whatever it is.
LEMMA NextKeepsInv ==
    ASSUME FrameInv, [Next]_vars, "aac" \notin Rewound, "tac" \notin Jumped
    PROVE  FrameInv'
  <1>1. CASE \E n \in Sizes : StartRender(n)
    BY <1>1, StartRenderKeepsInv
  <1>2. CASE RenderStep
    <2>1. CASE LoopIteration
      BY <2>1, LoopKeepsInv
    <2>2. CASE StartDecode
      BY <2>2, StartDecodeKeepsInv
    <2>3. CASE ErrorIteration
      BY <2>3, ErrorKeepsInv
    <2>4. CASE EndRender
      BY <2>4, EndRenderKeepsInv
    <2>5. CASE DecodeFrame
      BY <2>5, FrameKeepsInv
    <2>6. CASE TakeLeft
      BY <2>6, TakeLeftKeepsInv
    <2>7. CASE ReadPacket
      BY <2>7, ReadPacketKeepsInv
    <2>8. CASE DiscardSamples
      BY <2>8, DiscardKeepsInv
    <2>9. CASE CopySamples
      BY <2>9, CopyKeepsInv
    <2>10. CASE DecodeFail
      BY <2>10, FailKeepsInv
    <2>11. CASE EndDecode
      BY <2>11, EndDecodeKeepsInv
    <2> QED
      BY <1>2, <2>1, <2>2, <2>3, <2>4, <2>5, <2>6, <2>7, <2>8, <2>9, <2>10,
         <2>11 DEF RenderStep
  <1>3. CASE Reset
    BY <1>3, ResetKeepsInv
  <1>4. CASE ForceLoopEnd
    BY <1>4, ForceLoopEndKeepsInv
  <1>5. CASE UNCHANGED vars
    <2>1. /\ UNCHANGED <<file, vgm, start_vgmstream, codec, ds>>
          /\ UNCHANGED <<sbuf, num_empty, pc, run>>
      BY <1>5 DEF vars
    <2>2. CodecOK(file, vgm', codec', ds', PlayHead' + file.delay)
      BY <2>1, Facts DEF PlayHead, HeadAt
    <2>3. HeadInv' /\ EmptyRun' /\ PlaysTheStream'
      BY <2>1, EmptyRunKept, RunKept DEF FrameInv, HeadInv
    <2>4. NothingHeld' /\ DiscardUsed'
      BY <2>1 DEF FrameInv, NothingHeld, DiscardUsed, NeedsFrame, Room, ToDecode,
                  PacketCount
    <2>5. /\ codec' \in CodecRecord /\ ds' \in DecodeState /\ num_empty' \in Nat
          /\ pc' \in {"idle", "layout", "frames"}
          /\ sbuf' \in [samples : Nat, filled : Nat, from : Nat, limit : Nat]
      BY <2>1 DEF FrameInv, TypeOK
    <2> QED  BY <2>1, <2>2, <2>3, <2>4, <2>5, Assemble
  <1> QED  BY <1>1, <1>2, <1>3, <1>4, <1>5 DEF Next

\* Where the codec stands and what it has to discard always lead to the head: for
\* streams that are as the codecs suppose, when callers do not rewind aac nor
\* seek to tac's loop from outside a decode, which the codecs get wrong.
THEOREM FrameInvariant ==
    ASSUME \A f \in Files : SoundFile(f),
           "aac" \notin Rewound, "tac" \notin Jumped
    PROVE  Spec => []FrameInv
  <1>1. Init => FrameInv
    BY InitKeepsInv
  <1>2. FrameInv /\ [Next]_vars => FrameInv'
    BY NextKeepsInv
  <1> QED  BY <1>1, <1>2, PTL DEF Spec

\* So callers get sample p of the stream at place p of the head, decoded after
\* the frame it depends on, and silence only where the file has nothing
\* (decode_frames with the seek and reset of each codec, decode_do_loop).
THEOREM FramePlaysTheStream ==
    ASSUME \A f \in Files : SoundFile(f),
           "aac" \notin Rewound, "tac" \notin Jumped
    PROVE  Spec => []PlaysTheStream
  <1>1. FrameInv => PlaysTheStream
    BY DEF FrameInv
  <1> QED  BY <1>1, FrameInvariant, PTL
=============================================================================
