--------------------------- MODULE Streamfile_proofs ---------------------------
(***************************************************************************)
(* Proofs about the streamfiles that have a state.                          *)
(*                                                                          *)
(* BufferedFile: the stdio and buffer streamfiles, for files, buffers and   *)
(* reads of any size: a read returns the bytes at its offset, and all that  *)
(* there are.  Readers that start from their last offset ("cache") are left *)
(* out by the hypothesis of every lemma: TLC shows what they return.        *)
(*                                                                          *)
(* JoinedFile: any number of sections of any sizes read like one *)
(* file.                                                                    *)
(***************************************************************************)
EXTENDS BufferedFile, JoinedFile, WellFoundedInduction, TLAPS

-----------------------------------------------------------------------------
(* Streamfiles with a buffer *)

\* An opened streamfile, with its buffer empty or holding the whole file.
LEMMA OpenedInv == Init => FileInv
  <1> SUFFICES ASSUME Init PROVE FileInv
    OBVIOUS
  <1> USE FileSizesAssumption, BufSizesAssumption, OffsetsAssumption
  <1>1. file_size \in Nat /\ buf_size \in Nat /\ buf_size > 0
    BY DEF Init
  <1>2. valid_size \in Nat /\ valid_size <= buf_size
    <2>1. CASE FitsBuffer(reader, file_size, buf_size)
      <3>1. inner = FALSE
        BY <2>1 DEF Init
      <3>2. valid_size \in 0 .. file_size
        BY <3>1 DEF Init
      <3> QED  BY <1>1, <2>1, <3>2 DEF FitsBuffer
    <2>2. CASE ~FitsBuffer(reader, file_size, buf_size)
      <3>1. inner = TRUE
        BY <2>2 DEF Init
      <3> QED  BY <1>1, <3>1 DEF Init
    <2> QED  BY <2>1, <2>2
  <1>3. BufferInFile
    <2>1. CASE inner
      BY <1>1, <2>1 DEF Init, BufferInFile
    <2>2. CASE ~inner
      <3>1. valid_size \in 0 .. file_size /\ buf_offset = 0
        BY <2>2 DEF Init
      <3>2. fell_short \/ ~(valid_size < file_size)
        BY <2>2 DEF Init
      <3> QED  BY <1>1, <2>2, <3>1, <3>2 DEF BufferInFile
    <2> QED  BY <2>1, <2>2
  <1>4. TypeOK
    BY <1>1, <1>2 DEF Init, TypeOK, FitsBuffer, NoCopy
  <1> QED
    BY <1>1, <1>3, <1>4
       DEF Init, FileInv, Advances, GivesUpAtEnd, CopiesWhatWasAsked,
           ReadsAllThereIs, There, Less, NoCopy

\* Starting a read, a refused one too, keeps the invariant.
LEMMA StartReadKeepsInv ==
    ASSUME FileInv, "cache" \notin Readers,
           NEW o \in Offsets, NEW n \in 0 .. MaxLength, StartRead(o, n)
    PROVE  FileInv'
  <1> USE FileSizesAssumption, BufSizesAssumption, OffsetsAssumption,
          MaxLengthAssumption
  <1>1. o \in Int /\ n \in Nat /\ at' = o
    BY DEF StartRead, FileInv, TypeOK
  <1>2. file_size \in Nat /\ file_size' = file_size
    BY DEF StartRead, file, FileInv, TypeOK
  <1>3. TypeOK'
    BY <1>1 DEF StartRead, FileInv, TypeOK, file, buffer, NoCopy
  <1>4. BufferInFile'
    BY DEF StartRead, FileInv, TypeOK, BufferInFile, file, buffer
  <1>5. Advances' /\ GivesUpAtEnd' /\ CopiesWhatWasAsked'
    BY <1>1, <1>2 DEF StartRead, Advances, GivesUpAtEnd, CopiesWhatWasAsked, NoCopy
  <1>6. ReadsAllThereIs'
    BY <1>1, <1>2 DEF StartRead, ReadsAllThereIs, There, Less
  <1> QED  BY <1>3, <1>4, <1>5, <1>6 DEF FileInv

\* What is taken from the buffer is part of the file, and all the buffer has.
LEMMA CopyFromBufferKeepsInv ==
    ASSUME FileInv, CopyFromBuffer
    PROVE  FileInv'
  <1> USE FileSizesAssumption, BufSizesAssumption
  <1> DEFINE c == Less(Buffered, length)
  <1>1. /\ file_size \in Nat /\ at \in Nat /\ length \in Nat /\ length > 0
        /\ buf_offset \in Nat /\ valid_size \in Nat
        /\ asked.offset \in Nat /\ asked.length \in Nat
        /\ read_total = 0 /\ at = asked.offset /\ length = asked.length
    BY DEF CopyFromBuffer, FileInv, TypeOK, Advances, GivesUpAtEnd
  <1>2. UNCHANGED <<file, offset, buffer, asked, fell_short>> /\ pc' = "rest"
    BY DEF CopyFromBuffer
  <1>3. CASE InBuffer
    <2>1. CopyOut(c)
      BY <1>3 DEF CopyFromBuffer
    <2>2. /\ c \in Nat /\ c > 0 /\ c <= length
          /\ at + c <= file_size
          /\ ~inner /\ ~fell_short /\ c < length => at + c = file_size
      BY <1>1, <1>3 DEF InBuffer, Buffered, Less, FileInv, BufferInFile
    <2>3. /\ read_total' = c /\ length' = length - c /\ at' = at + c
          /\ copied' = [into |-> 0, from |-> at, count |-> c]
      BY <1>1, <2>1, <2>2 DEF CopyOut, Copy
    <2>4. TypeOK'
      BY <1>1, <1>2, <2>2, <2>3 DEF FileInv, TypeOK, file, buffer
    <2>5. BufferInFile'
      BY <1>2 DEF FileInv, BufferInFile, file, buffer
    <2>6. Advances' /\ GivesUpAtEnd'
      BY <1>1, <1>2, <2>2, <2>3 DEF FileInv, Advances, GivesUpAtEnd, file
    <2>7. CopiesWhatWasAsked' /\ ReadsAllThereIs'
      BY <1>1, <1>2, <2>2, <2>3 DEF CopiesWhatWasAsked, ReadsAllThereIs, file
    <2> QED  BY <2>4, <2>5, <2>6, <2>7 DEF FileInv
  <1>4. CASE ~InBuffer
    <2>1. UNCHANGED <<copied, read_total, length, at>>
      BY <1>4 DEF CopyFromBuffer
    <2>2. ~inner /\ ~fell_short => at >= file_size
      BY <1>1, <1>4 DEF InBuffer, FileInv, BufferInFile
    <2>3. TypeOK' /\ BufferInFile'
      BY <1>2, <2>1 DEF FileInv, TypeOK, BufferInFile, file, buffer
    <2>4. Advances' /\ GivesUpAtEnd'
      BY <1>1, <1>2, <2>1, <2>2 DEF FileInv, Advances, GivesUpAtEnd, file
    <2>5. CopiesWhatWasAsked' /\ ReadsAllThereIs'
      BY <1>2, <2>1 DEF FileInv, CopiesWhatWasAsked, ReadsAllThereIs, file
    <2> QED  BY <2>3, <2>4, <2>5 DEF FileInv
  <1> QED  BY <1>3, <1>4

\* A refill goes on from where the read is, and gives up at the end of the file.
LEMMA RefillKeepsInv ==
    ASSUME FileInv, Refill
    PROVE  FileInv'
  <1> USE FileSizesAssumption, BufSizesAssumption
  <1>1. /\ file_size \in Nat /\ buf_size \in Nat /\ buf_size > 0
        /\ at \in Nat /\ at < file_size
        /\ length \in Nat /\ length > 0 /\ read_total \in Nat
        /\ asked.offset \in Nat /\ asked.length \in Nat
        /\ at = asked.offset + read_total /\ length = asked.length - read_total
        /\ inner
    BY DEF Refill, Finished, Eof, FileInv, TypeOK, Advances
  <1>2. PICK got \in 0 .. InBlock :
          /\ buf_offset' = at
          /\ valid_size' = got
          /\ fell_short' = (fell_short \/ got < InBlock)
          /\ CopyOut(Less(got, Limit))
          /\ pc' = IF GivesUp(got) THEN "end" ELSE "rest"
    BY DEF Refill
  <1>3. UNCHANGED <<file, offset, asked>>
    BY DEF Refill
  <1>4a. fell_short' \/ ~(got < InBlock)
    BY <1>2
  <1>4. /\ got \in Nat /\ got <= buf_size /\ at + got <= file_size
        /\ ~fell_short' => got = Less(buf_size, file_size - at)
    BY <1>1, <1>4a DEF InBlock, Less
  <1> DEFINE c == Less(got, Limit)
  <1>5. /\ c \in Nat /\ c <= length /\ at + c <= file_size
        /\ GivesUp(got) => c = got
        /\ GivesUp(got) /\ ~fell_short' => at + c = file_size
        /\ ~GivesUp(got) => c > 0
    BY <1>1, <1>4 DEF Less, Limit, GivesUp
  <1>6. /\ read_total' = read_total + c /\ length' = length - c /\ at' = at + c
        /\ copied' = [into |-> read_total, from |-> at, count |-> c]
    BY <1>2 DEF CopyOut, Copy
  <1>7. pc' \in {"end", "rest"} /\ (pc' = "end" => GivesUp(got))
    BY <1>2
  <1> HIDE DEF c
  <1>8. TypeOK'
    BY <1>1, <1>2, <1>3, <1>4, <1>5, <1>6, <1>7 DEF FileInv, TypeOK, file
  <1>9. BufferInFile'
    BY <1>1, <1>2, <1>3, <1>4 DEF BufferInFile, file
  <1>10. Advances' /\ GivesUpAtEnd'
    BY <1>1, <1>3, <1>5, <1>6, <1>7 DEF FileInv, Advances, GivesUpAtEnd, file
  <1>11. CopiesWhatWasAsked'
    BY <1>1, <1>3, <1>5, <1>6 DEF CopiesWhatWasAsked, file
  <1>12. ReadsAllThereIs'
    BY <1>7 DEF ReadsAllThereIs
  <1> QED  BY <1>8, <1>9, <1>10, <1>11, <1>12 DEF FileInv

\* A read ends with all that was asked or at the end of the file.
LEMMA EndReadKeepsInv ==
    ASSUME FileInv, EndRead
    PROVE  FileInv'
  <1> USE FileSizesAssumption, BufSizesAssumption
  <1>1. /\ file_size \in Nat /\ at \in Int /\ length \in Nat
        /\ read_total \in Nat
        /\ asked.offset \in Nat /\ asked.length \in Nat /\ asked.length > 0
        /\ at = asked.offset + read_total /\ length = asked.length - read_total
    BY DEF EndRead, FileInv, TypeOK, Advances
  <1>2. /\ UNCHANGED <<file, buffer, at, length, read_total, asked, copied,
                       fell_short, odd>>
        /\ pc' = "idle"
    BY DEF EndRead
  <1>3. TypeOK'
    <2>1. offset' \in Int
      BY <1>1 DEF EndRead, FileInv, TypeOK
    <2> QED  BY <1>2, <2>1 DEF FileInv, TypeOK, file, buffer
  <1>4. BufferInFile' /\ Advances' /\ GivesUpAtEnd' /\ CopiesWhatWasAsked'
    BY <1>2 DEF FileInv, BufferInFile, Advances, GivesUpAtEnd,
                CopiesWhatWasAsked, file, buffer
  <1>5. ReadsAllThereIs'
    <2> SUFFICES ASSUME ~fell_short
                 PROVE  read_total = IF There < 0 THEN 0 ELSE There
      BY <1>2 DEF ReadsAllThereIs, There, file
    <2>1. CASE length = 0
      BY <1>1, <2>1 DEF EndRead, FileInv, GivesUpAtEnd, There, Less
    <2>2. CASE length > 0
      <3>1. at >= file_size
        BY <1>1, <2>2 DEF EndRead, Finished, Eof, FileInv, GivesUpAtEnd
      <3>2. read_total > 0 => at = file_size
        BY <1>1, <3>1 DEF EndRead, FileInv, GivesUpAtEnd
      <3> QED  BY <1>1, <2>2, <3>1, <3>2 DEF There, Less
    <2> QED  BY <1>1, <2>1, <2>2
  <1> QED  BY <1>3, <1>4, <1>5 DEF FileInv

\* The invariant of stdio and buffer streamfiles, for every file, buffer and read.
THEOREM FileInvariant == "cache" \notin Readers /\ Spec => []FileInv
  <1> SUFFICES ASSUME "cache" \notin Readers PROVE Spec => []FileInv
    OBVIOUS
  <1>1. Init => FileInv
    BY OpenedInv
  <1>2. FileInv /\ [Next]_vars => FileInv'
    <2> SUFFICES ASSUME FileInv, [Next]_vars PROVE FileInv'
      OBVIOUS
    <2>1. CASE \E o \in Offsets, n \in 0 .. MaxLength : StartRead(o, n)
      BY <2>1, StartReadKeepsInv
    <2>2. CASE CopyFromBuffer
      BY <2>2, CopyFromBufferKeepsInv
    <2>3. CASE Refill
      BY <2>3, RefillKeepsInv
    <2>4. CASE EndRead
      BY <2>4, EndReadKeepsInv
    <2>5. CASE UNCHANGED vars
      BY <2>5 DEF vars, file, buffer, FileInv, TypeOK, Advances, BufferInFile,
                  GivesUpAtEnd, CopiesWhatWasAsked, ReadsAllThereIs, There
    <2> QED  BY <2>1, <2>2, <2>3, <2>4, <2>5 DEF Next
  <1> QED  BY <1>1, <1>2, PTL DEF Spec

\* Every byte delivered is the one at its place in the file.
THEOREM FileCopiesWhatWasAsked ==
    "cache" \notin Readers /\ Spec => []CopiesWhatWasAsked
  <1>1. FileInv => CopiesWhatWasAsked
    BY DEF FileInv
  <1> QED  BY <1>1, FileInvariant, PTL

\* A read is short only at the end of the file, or if the file below was.
THEOREM FileReadsAllThereIs ==
    "cache" \notin Readers /\ Spec => []ReadsAllThereIs
  <1>1. FileInv => ReadsAllThereIs
    BY DEF FileInv
  <1> QED  BY <1>1, FileInvariant, PTL

-----------------------------------------------------------------------------
(* Natural numbers *)

Before == {pair \in Nat \X Nat : pair[1] < pair[2]}

\* A set of numbers has a least one.
LEMMA Smallest ==
    ASSUME NEW T, T \subseteq Nat, T # {}
    PROVE  \E x \in T : \A y \in T : x <= y
  <1>1. IsWellFoundedOn(Before, Nat)
    BY NatLessThanWellFounded DEF OpToRel, Before
  <1>2. PICK x \in T : \A y \in T : ~(<<y, x>> \in Before)
    BY <1>1, WFMin
  <1>3. ASSUME NEW y \in T PROVE x <= y
    <2>1. x \in Nat /\ y \in Nat /\ ~(<<y, x>> \in Before)
      BY <1>2
    <2>2. y < x => <<y, x>> \in Before
      BY <2>1 DEF Before
    <2> QED  BY <2>1, <2>2
  <1> QED  BY <1>3

\* Induction, on a set.
LEMMA Induction ==
    ASSUME NEW S, 0 \in S, \A n \in Nat : n \in S => n + 1 \in S
    PROVE  Nat \subseteq S
  <1> SUFFICES ASSUME Nat \ S # {} PROVE FALSE
    OBVIOUS
  <1>1. PICK x \in Nat \ S : \A y \in Nat \ S : x <= y
    BY Smallest
  <1>2. x # 0 /\ x - 1 \in Nat
    BY <1>1
  <1>3. x - 1 \in S
    BY <1>1, <1>2
  <1> QED  BY <1>1, <1>2, <1>3

-----------------------------------------------------------------------------
(* Where sections start *)

\* A section is where open_clamp_streamfile lets it be.
LEMMA SectionNumbers ==
    ASSUME NEW s \in Seq(Section), NEW i \in 1 .. Len(s)
    PROVE  s[i].start \in Nat /\ s[i].size \in Nat /\ s[i].size > 0
  <1>1. s[i] \in Section
    OBVIOUS
  <1> QED  BY <1>1 DEF Section

\* The starts that StartOf defines by recursion are there ...
LEMMA StartsExist ==
    ASSUME NEW s \in Seq(Section), NEW n \in Nat, n = Len(s)
    PROVE  \E f \in [1 .. n + 1 -> Nat] :
              f = [k \in 1 .. n + 1 |->
                     IF k = 1 THEN 0 ELSE f[k - 1] + s[k - 1].size]
  <1> DEFINE Starts(k, f) == f[1] = 0 /\ \A i \in 1 .. k : f[i + 1] = f[i] + s[i].size
             Steps == {k \in Nat : k <= n => \E f \in [1 .. k + 1 -> Nat] : Starts(k, f)}
  <1>1. 0 \in Steps
    <2>1. PICK f : f = [i \in 1 .. 0 + 1 |-> 0]
      OBVIOUS
    <2>2. f \in [1 .. 0 + 1 -> Nat] /\ Starts(0, f)
      BY <2>1
    <2> QED  BY <2>2
  <1>2. ASSUME NEW k \in Nat, k \in Steps PROVE k + 1 \in Steps
    <2> SUFFICES ASSUME k + 1 <= n
                 PROVE  \E f \in [1 .. (k + 1) + 1 -> Nat] : Starts(k + 1, f)
      OBVIOUS
    <2>1. PICK g \in [1 .. k + 1 -> Nat] : Starts(k, g)
      <3>1. k <= n
        OBVIOUS
      <3>2. k <= n => \E f \in [1 .. k + 1 -> Nat] : Starts(k, f)
        <4> HIDE DEF Starts
        <4> QED  BY <1>2
      <3> QED  BY <3>1, <3>2
    <2>2. PICK size \in Nat : size = s[k + 1].size
      <3>1. k + 1 \in 1 .. Len(s)
        OBVIOUS
      <3> QED  BY <3>1, SectionNumbers
    <2>3. PICK f : f = [i \in 1 .. (k + 1) + 1 |->
                          IF i <= k + 1 THEN g[i] ELSE g[k + 1] + size]
      OBVIOUS
    <2>4. f \in [1 .. (k + 1) + 1 -> Nat]
      BY <2>3
    <2>5. \A i \in 1 .. k + 1 : f[i] = g[i]
      BY <2>3
    <2>6. f[(k + 1) + 1] = g[k + 1] + size
      BY <2>3
    <2>7. ASSUME NEW i \in 1 .. k + 1 PROVE f[i + 1] = f[i] + s[i].size
      <3>1. CASE i = k + 1
        BY <2>2, <2>5, <2>6, <3>1
      <3>2. CASE i <= k
        <4>1. i \in 1 .. k /\ i + 1 \in 1 .. k + 1
          BY <3>2
        <4> QED  BY <2>1, <2>5, <4>1
      <3> QED  BY <3>1, <3>2
    <2>8. f[1] = 0
      BY <2>1, <2>5
    <2> QED  BY <2>4, <2>7, <2>8
  <1>3. n \in Steps
    <2> HIDE DEF Steps
    <2> QED  BY <1>1, <1>2, Induction
  <1>4. PICK f \in [1 .. n + 1 -> Nat] : Starts(n, f)
    BY <1>3
  <1>5. ASSUME NEW k \in 1 .. n + 1
        PROVE  f[k] = IF k = 1 THEN 0 ELSE f[k - 1] + s[k - 1].size
    <2>1. CASE k = 1
      BY <1>4, <2>1
    <2>2. CASE k # 1
      <3>1. PICK i \in 1 .. n : i = k - 1 /\ i + 1 = k
        <4>1. k - 1 \in 1 .. n /\ (k - 1) + 1 = k
          BY <2>2
        <4> QED  BY <4>1
      <3> QED  BY <1>4, <2>2, <3>1
    <2> QED  BY <2>1, <2>2
  <1> QED  BY <1>5

\* ... each the end of the section before.
LEMMA StartsFollow ==
    ASSUME NEW s \in Seq(Section)
    PROVE  /\ StartOf(s, 1) = 0
           /\ \A i \in 1 .. Len(s) + 1 : StartOf(s, i) \in Nat
           /\ \A i \in 1 .. Len(s) :
                StartOf(s, i + 1) = StartOf(s, i) + s[i].size
  <1> DEFINE Right(f) == f = [k \in 1 .. Len(s) + 1 |->
                                IF k = 1 THEN 0 ELSE f[k - 1] + s[k - 1].size]
  <1>1. PICK n \in Nat : n = Len(s)
    OBVIOUS
  <1>2. PICK f \in [1 .. n + 1 -> Nat] : Right(f)
    BY <1>1, StartsExist
  <1>3. PICK g : g = CHOOSE h : Right(h)
    OBVIOUS
  <1>4. Right(g)
    BY <1>2, <1>3
  <1>5. \A i : StartOf(s, i) = g[i]
    BY <1>3 DEF StartOf
  <1>6. g[1] = 0 /\ \A i \in 1 .. n : g[i + 1] = g[i] + s[i].size
    <2>1. \A k \in 1 .. n + 1 : g[k] = IF k = 1 THEN 0 ELSE g[k - 1] + s[k - 1].size
      BY <1>1, <1>4
    <2>2. ASSUME NEW i \in 1 .. n PROVE g[i + 1] = g[i] + s[i].size
      <3>1. i + 1 \in 1 .. n + 1 /\ i + 1 # 1 /\ (i + 1) - 1 = i
        OBVIOUS
      <3> QED  BY <2>1, <3>1
    <2> QED  BY <2>1, <2>2
  <1>7. \A i \in 1 .. n + 1 : g[i] \in Nat
    <2> DEFINE Steps == {k \in Nat : k <= n => g[k + 1] \in Nat}
    <2>1. 0 \in Steps
      BY <1>6
    <2>2. ASSUME NEW k \in Nat, k \in Steps PROVE k + 1 \in Steps
      <3> SUFFICES ASSUME k + 1 <= n PROVE g[(k + 1) + 1] \in Nat
        OBVIOUS
      <3>1. g[k + 1] \in Nat /\ k + 1 \in 1 .. n
        BY <2>2
      <3>2. s[k + 1].size \in Nat
        BY <1>1, <3>1, SectionNumbers
      <3> QED  BY <1>6, <3>1, <3>2
    <2>3. Nat \subseteq Steps
      <3> HIDE DEF Steps
      <3> QED  BY <2>1, <2>2, Induction
    <2>4. ASSUME NEW i \in 1 .. n + 1 PROVE g[i] \in Nat
      <3>1. PICK k \in Nat : k = i - 1 /\ k <= n /\ k + 1 = i
        <4>1. i - 1 \in Nat /\ i - 1 <= n /\ (i - 1) + 1 = i
          OBVIOUS
        <4> QED  BY <4>1
      <3> QED  BY <2>3, <3>1
    <2> QED  BY <2>4
  <1> QED  BY <1>1, <1>5, <1>6, <1>7

\* No section starts after the end.
LEMMA StartsInFile ==
    ASSUME NEW s \in Seq(Section), NEW i \in 1 .. Len(s) + 1
    PROVE  /\ SizeOf(s) \in Nat
           /\ StartOf(s, i) \in Nat
           /\ StartOf(s, i) <= SizeOf(s)
  <1>1. PICK n \in Nat : n = Len(s)
    OBVIOUS
  <1> DEFINE start(k) == StartOf(s, k)
             Steps == {k \in Nat : k <= n => start(n + 1 - k) <= start(n + 1)}
  <1>2. \A k \in 1 .. n + 1 : start(k) \in Nat
    BY <1>1, StartsFollow
  <1>3. 0 \in Steps
    <2>1. n + 1 \in 1 .. n + 1 /\ n + 1 - 0 = n + 1
      OBVIOUS
    <2> QED  BY <1>2, <2>1
  <1>4. ASSUME NEW k \in Nat, k \in Steps PROVE k + 1 \in Steps
    <2> SUFFICES ASSUME k + 1 <= n PROVE start(n + 1 - (k + 1)) <= start(n + 1)
      OBVIOUS
    <2>1. PICK j \in 1 .. n : j = n + 1 - (k + 1) /\ j + 1 = n + 1 - k
      <3>1. n + 1 - (k + 1) \in 1 .. n /\ n + 1 - (k + 1) + 1 = n + 1 - k
        OBVIOUS
      <3> QED  BY <3>1
    <2>2. start(j + 1) <= start(n + 1)
      BY <1>4, <2>1
    <2>3. start(j + 1) = start(j) + s[j].size /\ s[j].size \in Nat
      BY <1>1, StartsFollow, SectionNumbers
    <2>4. start(j) \in Nat /\ start(n + 1) \in Nat
      BY <1>2
    <2> HIDE DEF start
    <2> QED  BY <2>1, <2>2, <2>3, <2>4
  <1>5. Nat \subseteq Steps
    <2> HIDE DEF Steps
    <2> QED  BY <1>3, <1>4, Induction
  <1>6. PICK k \in Nat : k = n + 1 - i /\ k <= n /\ i = n + 1 - k
    <2>1. n + 1 - i \in Nat /\ n + 1 - i <= n /\ i = n + 1 - (n + 1 - i)
      BY <1>1
    <2> QED  BY <2>1
  <1>7. start(i) <= start(n + 1)
    BY <1>5, <1>6
  <1> QED  BY <1>1, <1>2, <1>7 DEF SizeOf

-----------------------------------------------------------------------------
(* Reads *)

\* The search finds the section of an offset in the file.
LEMMA SearchFinds ==
    ASSUME NEW s \in Seq(Section), NEW o \in Nat, o < SizeOf(s),
           NEW r, r = FirstRead(s, o)
    PROVE  /\ r.segment \in 1 .. Len(s)
           /\ r.offset \in Nat
           /\ r.offset < s[r.segment].size
           /\ o = StartOf(s, r.segment) + r.offset
  <1> DEFINE start(i) == StartOf(s, i)
             Is(i) == InSegment(s, o, i)
             First(i) == Is(i) /\ \A k \in 1 .. i - 1 : ~Is(k)
  <1>1. PICK n \in Nat : n = Len(s) /\ DOMAIN s = 1 .. n
    OBVIOUS
  <1>2. /\ start(1) = 0 /\ \A i \in 1 .. n + 1 : start(i) \in Nat
        /\ \A i \in 1 .. n : start(i + 1) = start(i) + s[i].size
        /\ o < start(n + 1)
    BY <1>1, StartsFollow DEF SizeOf
  <1>3. \E i \in 1 .. n : Is(i)
    <2> DEFINE Later == {i \in 1 .. n + 1 : o < start(i)}
    <2>1. Later \subseteq Nat /\ n + 1 \in Later
      BY <1>2
    <2>2. PICK m \in Later : \A i \in Later : m <= i
      <3> HIDE DEF Later
      <3> QED  BY <2>1, Smallest
    <2>3. m \in 1 .. n + 1 /\ o < start(m)
      OBVIOUS
    <2>4. m # 1
      BY <1>2, <2>3
    <2>5. PICK i \in 1 .. n : i = m - 1 /\ i + 1 = m
      <3>1. m - 1 \in 1 .. n /\ (m - 1) + 1 = m
        BY <2>3, <2>4
      <3> QED  BY <3>1
    <2>6. i \notin Later
      BY <2>1, <2>2, <2>5
    <2>7. start(i) <= o
      BY <1>2, <2>6
    <2>8. o < start(i) + s[i].size
      BY <1>2, <2>3, <2>5
    <2> QED  BY <2>7, <2>8 DEF InSegment
  <1>4. \E i \in 1 .. n : First(i)
    <2> DEFINE Found == {i \in 1 .. n : Is(i)}
    <2>1. Found \subseteq Nat /\ Found # {}
      BY <1>3
    <2>2. PICK m \in Found : \A i \in Found : m <= i
      <3> HIDE DEF Found
      <3> QED  BY <2>1, Smallest
    <2>3. ASSUME NEW k \in 1 .. m - 1 PROVE ~Is(k)
      <3>1. k \in 1 .. n /\ ~(m <= k)
        OBVIOUS
      <3> HIDE DEF Is
      <3> QED  BY <2>2, <3>1
    <2> QED  BY <2>2, <2>3
  <1>5. PICK i : i = CHOOSE j \in DOMAIN s : First(j)
    OBVIOUS
  <1>6. i \in 1 .. n /\ Is(i)
    <2> HIDE DEF Is
    <2> QED  BY <1>1, <1>4, <1>5
  <1>7. r = [segment |-> i, offset |-> o - start(i)]
    BY <1>1, <1>3, <1>5 DEF FirstRead
  <1>8. start(i) \in Nat /\ start(i) <= o /\ o < start(i) + s[i].size
    BY <1>2, <1>6 DEF InSegment
  <1>9. s[i].size \in Nat
    BY <1>1, <1>6, SectionNumbers
  <1>10. r.segment = i /\ r.offset = o - start(i)
    BY <1>7
  <1> QED  BY <1>1, <1>6, <1>8, <1>9, <1>10

\* What an inner read returns: what was asked for, or else the rest of the
\* section.
IsSectionRead(bytes, section, o, rest) ==
    /\ Len(bytes) \in Nat /\ Len(bytes) > 0
    /\ Len(bytes) <= rest /\ o + Len(bytes) <= section.size
    /\ Len(bytes) < rest => o + Len(bytes) = section.size
    /\ DOMAIN bytes = 1 .. Len(bytes)
    /\ \A k \in 1 .. Len(bytes) : bytes[k] = section.start + o + k - 1

\* clamp_read stops at the end of the section, and the archive goes on to there.
LEMMA SectionBytes ==
    ASSUME NEW s \in Sections, SectionsInArchive, ArchiveSize \in Nat,
           NEW i \in 1 .. Len(s), NEW o \in Nat, o < s[i].size,
           NEW rest \in Nat, rest > 0,
           NEW bytes, bytes = ClampRead(s[i], o, rest)
    PROVE  IsSectionRead(bytes, s[i], o, rest)
  <1>1. s \in Seq(Section) /\ s[i].start + s[i].size <= ArchiveSize
    BY DEF SectionsInArchive
  <1>2. PICK first \in Nat, size \in Nat :
          first = s[i].start /\ size = s[i].size
    BY <1>1, SectionNumbers
  <1>3. PICK n \in Nat : /\ n > 0 /\ n <= rest /\ o + n <= size
                         /\ n < rest => o + n = size
                         /\ n = ClampLength(s[i], o, rest)
    <2>1. ClampLength(s[i], o, rest)
            = IF o + rest > size THEN size - o ELSE rest
      BY <1>2 DEF ClampLength
    <2>2. CASE o + rest > size
      <3>1. /\ size - o \in Nat /\ size - o > 0 /\ size - o <= rest
            /\ o + (size - o) <= size /\ o + (size - o) = size
        BY <1>2, <2>2
      <3>2. size - o = ClampLength(s[i], o, rest)
        BY <2>1, <2>2
      <3> QED  BY <3>1, <3>2
    <2>3. CASE ~(o + rest > size)
      <3>1. rest = ClampLength(s[i], o, rest)
        BY <2>1, <2>3
      <3> QED  BY <1>2, <2>3, <3>1
    <2> QED  BY <2>2, <2>3
  <1>4. PICK from \in Nat : from = first + o /\ from + n <= ArchiveSize
    <2>1. first + o \in Nat /\ first + o + n <= ArchiveSize
      BY <1>1, <1>2, <1>3
    <2> QED  BY <2>1
  <1>5. Least(n, ArchiveSize - from) = n
    BY <1>4 DEF Least
  <1>6. bytes = [k \in 1 .. n |-> from + k - 1]
    BY <1>2, <1>3, <1>4, <1>5 DEF ClampRead, ArchiveBytes
  <1>7. Len(bytes) = n /\ DOMAIN bytes = 1 .. n
    BY <1>6
  <1>8. \A k \in 1 .. n : bytes[k] = first + o + k - 1
    BY <1>4, <1>6
  <1> QED  BY <1>2, <1>3, <1>7, <1>8 DEF IsSectionRead

-----------------------------------------------------------------------------
(* The invariant of multifile_read *)

\* What the theorems about joined files suppose: sections that could be opened,
\* and callers that do not read right at the end.
JoinedFilesSound ==
    SectionsInArchive /\ ReadsAreInFiles /\ ReadsAtEnd = FALSE

\* Nothing was read yet.
LEMMA JoinedStart ==
    ASSUME JoinedFilesSound, JoinedInit
    PROVE  JoinedInv
  <1>1. /\ sections \in Sections /\ reading = FALSE /\ done = 0
        /\ asked = [offset |-> 0, length |-> 0] /\ copied = <<>>
    BY DEF JoinedInit
  <1>2. sections \in Seq(Section)
    BY <1>1 DEF JoinedFilesSound, SectionsInArchive
  <1>3. SizeOf(sections) \in Nat
    <2>1. 1 \in 1 .. Len(sections) + 1
      BY <1>2
    <2> QED  BY <1>2, <2>1, StartsInFile
  <1>4. JoinsInOrder
    BY <1>1 DEF JoinsInOrder
  <1>5. ReadsAllSegments
    <2>1. PICK size \in Nat : size = SizeOf(sections)
      BY <1>3
    <2>2. size - 0 = size /\ 0 <= size
      BY <2>1
    <2>3. asked.offset = 0 /\ asked.length = 0
      BY <1>1
    <2>4. Least(0, size - 0) = 0
      BY <2>2 DEF Least
    <2> QED  BY <1>1, <2>1, <2>3, <2>4 DEF ReadsAllSegments
  <1>6. asked \in [offset : Nat, length : Nat] /\ done \in 0 .. asked.length
    BY <1>1
  <1> QED  BY <1>1, <1>4, <1>5, <1>6 DEF JoinedInv

\* A read beyond the end returns nothing.
LEMMA ReadPastEndKeepsInv ==
    ASSUME JoinedFilesSound, JoinedInv,
           NEW o \in Offsets, NEW n \in 0 .. MaxLength, ReadPastEnd(o, n)
    PROVE  JoinedInv'
  <1>1. /\ ~reading /\ o > SizeOf(sections)
        /\ asked' = [offset |-> o, length |-> n]
        /\ done' = 0 /\ copied' = <<>>
        /\ sections' = sections /\ reading' = reading
    BY DEF ReadPastEnd
  <1>2. o \in Nat /\ n \in Nat
    BY DEF JoinedFilesSound, ReadsAreInFiles
  <1>3. sections \in Seq(Section)
    BY DEF JoinedFilesSound, SectionsInArchive, JoinedInv
  <1>4. SizeOf(sections) \in Nat
    <2>1. 1 \in 1 .. Len(sections) + 1
      BY <1>3
    <2> QED  BY <1>3, <2>1, StartsInFile
  <1>5. asked'.offset = o /\ asked' \in [offset : Nat, length : Nat]
        /\ done' \in 0 .. asked'.length
    BY <1>1, <1>2
  <1>6. JoinsInOrder'
    BY <1>1 DEF JoinsInOrder
  <1>7. ReadsAllSegments'
    <2>1. ~(asked'.offset <= SizeOf(sections))
      BY <1>1, <1>2, <1>4, <1>5
    <2> QED  BY <1>1, <2>1 DEF ReadsAllSegments
  <1>8. sections' \in Sections /\ reading' \in BOOLEAN /\ ~reading'
    BY <1>1 DEF JoinedInv
  <1> QED  BY <1>5, <1>6, <1>7, <1>8 DEF JoinedInv

\* A read starts in the section that has its offset.
LEMMA StartJoinedKeepsInv ==
    ASSUME JoinedFilesSound, JoinedInv,
           NEW o \in Offsets, NEW n \in 0 .. MaxLength, StartJoined(o, n)
    PROVE  JoinedInv'
  <1>1. /\ o <= SizeOf(sections)
        /\ o = SizeOf(sections) => ReadsAtEnd
        /\ asked' = [offset |-> o, length |-> n]
        /\ reading' = TRUE
        /\ segment' = FirstRead(sections, o).segment
        /\ segment_offset' = FirstRead(sections, o).offset
        /\ done' = 0 /\ copied' = <<>> /\ sections' = sections
    BY DEF StartJoined
  <1>2. PICK s, r : s = sections /\ r = FirstRead(s, o)
    OBVIOUS
  <1>3. s \in Sections /\ s \in Seq(Section)
    BY <1>2 DEF JoinedFilesSound, SectionsInArchive, JoinedInv
  <1>4. o \in Nat /\ n \in Nat
    BY DEF JoinedFilesSound, ReadsAreInFiles
  <1>5. SizeOf(s) \in Nat
    <2>1. 1 \in 1 .. Len(s) + 1
      BY <1>3
    <2> QED  BY <1>3, <2>1, StartsInFile
  <1>6. o < SizeOf(s)
    BY <1>1, <1>2, <1>4, <1>5 DEF JoinedFilesSound
  <1>7. /\ r.segment \in 1 .. Len(s)
        /\ r.offset \in Nat
        /\ r.offset < s[r.segment].size
        /\ o = StartOf(s, r.segment) + r.offset
    BY <1>2, <1>3, <1>4, <1>6, SearchFinds
  <1>8. /\ asked'.offset = o /\ asked'.length = n
        /\ asked' \in [offset : Nat, length : Nat]
    BY <1>1, <1>4
  <1>9. /\ sections' = s /\ segment' = r.segment /\ segment_offset' = r.offset
        /\ done' = 0 /\ o + 0 = o
    BY <1>1, <1>2, <1>4
  <1>10. ReadsOn'
    <2>1. r.segment \in 1 .. Len(s) + 1 /\ r.segment <= Len(s)
      BY <1>3, <1>7
    <2>2. asked'.offset + done' = o /\ o <= SizeOf(s)
      BY <1>4, <1>5, <1>6, <1>8, <1>9
    <2>3. StartOf(sections', segment') + segment_offset' = o
      BY <1>7, <1>9
    <2>4. asked'.offset + done' <= SizeOf(sections')
      BY <1>9, <2>2
    <2>5. /\ segment' \in 1 .. Len(sections') + 1
          /\ segment' <= Len(sections')
          /\ segment_offset' \in Nat
          /\ segment_offset' < sections'[segment'].size
      BY <1>7, <1>9, <2>1
    <2> QED  BY <2>2, <2>3, <2>4, <2>5 DEF ReadsOn
  <1>11. JoinsInOrder' /\ ReadsAllSegments'
    BY <1>1 DEF JoinsInOrder, ReadsAllSegments
  <1>12. done' \in 0 .. asked'.length
    BY <1>4, <1>8, <1>9
  <1> QED  BY <1>1, <1>3, <1>8, <1>9, <1>10, <1>11, <1>12 DEF JoinedInv

\* An inner read copies what comes next, and the next one begins where it ended.
LEMMA ReadSegmentKeepsInv ==
    ASSUME JoinedFilesSound, JoinedInv, ReadSegment
    PROVE  JoinedInv'
  <1>1. /\ reading /\ ~(done >= asked.length) /\ ~(segment > Len(sections))
        /\ copied' = ClampRead(sections[segment], segment_offset,
                                      asked.length - done)
        /\ done' = done + Len(copied')
        /\ segment' = segment + 1
        /\ segment_offset' = 0
        /\ sections' = sections /\ reading' = reading /\ asked' = asked
    BY DEF ReadSegment, JoinedFinished, Rest, NextOffset
  <1>2. PICK s, i, o, from, length_, before, bytes :
          /\ s = sections /\ i = segment /\ o = segment_offset
          /\ from = asked.offset /\ length_ = asked.length /\ before = done
          /\ bytes = copied'
    OBVIOUS
  <1>3. s \in Sections /\ s \in Seq(Section)
    BY <1>2 DEF JoinedFilesSound, SectionsInArchive, JoinedInv
  <1>4. from \in Nat /\ length_ \in Nat /\ before \in Nat /\ before < length_
    <2>1. asked \in [offset : Nat, length : Nat] /\ done \in 0 .. asked.length
      BY DEF JoinedInv
    <2> QED  BY <1>1, <1>2, <2>1
  <1>5. /\ i \in 1 .. Len(s) /\ o \in Nat /\ o < s[i].size
        /\ from + before = StartOf(s, i) + o
    <2>1. ReadsOn
      BY <1>1 DEF JoinedInv
    <2>2. i \in 1 .. Len(s) + 1 /\ ~(i > Len(s)) /\ Len(s) \in Nat
      BY <1>1, <1>2, <1>3, <2>1 DEF ReadsOn
    <2>3. i \in 1 .. Len(s) /\ i <= Len(s)
      BY <2>2
    <2> QED  BY <1>2, <1>4, <2>1, <2>3 DEF ReadsOn
  <1>6. PICK rest \in Nat : rest = length_ - before /\ rest > 0
    <2>1. length_ - before \in Nat /\ length_ - before > 0
      BY <1>4
    <2> QED  BY <2>1
  <1>7. PICK n \in Nat :
          /\ n = Len(bytes) /\ n > 0 /\ n <= rest /\ o + n <= s[i].size
          /\ n < rest => o + n = s[i].size
          /\ DOMAIN bytes = 1 .. n
          /\ \A k \in 1 .. n : bytes[k] = s[i].start + o + k - 1
    <2>1. bytes = ClampRead(s[i], o, rest)
      BY <1>1, <1>2, <1>6
    <2>2. ArchiveSize \in Nat /\ SectionsInArchive
      BY DEF JoinedFilesSound, ReadsAreInFiles
    <2>3. IsSectionRead(bytes, s[i], o, rest)
      BY <1>3, <1>5, <1>6, <2>1, <2>2, SectionBytes
    <2> QED  BY <2>3 DEF IsSectionRead
  <1>8. PICK start \in Nat, size \in Nat, first \in Nat :
          /\ start = StartOf(s, i) /\ size = s[i].size /\ size > 0
          /\ first = s[i].start
          /\ StartOf(s, i + 1) = start + size
    <2>1. i \in 1 .. Len(s) + 1
      BY <1>3, <1>5
    <2> QED  BY <1>3, <1>5, <2>1, StartsFollow, SectionNumbers
  <1>9. /\ i + 1 \in 1 .. Len(s) + 1
        /\ SizeOf(s) \in Nat /\ start + size <= SizeOf(s)
    <2>1. i + 1 \in 1 .. Len(s) + 1
      BY <1>3, <1>5
    <2> QED  BY <1>3, <1>8, <2>1, StartsInFile
  <1>10. /\ sections' = s /\ segment' = i + 1 /\ segment_offset' = 0
         /\ asked' = asked /\ asked'.offset = from /\ asked'.length = length_
         /\ done' = before + n /\ copied' = bytes /\ reading' = TRUE
    <2>1. reading = TRUE
      BY <1>1 DEF JoinedInv
    <2> QED  BY <1>1, <1>2, <1>7, <2>1
  <1>11. before + n \in Nat /\ before + n <= length_
    BY <1>4, <1>6, <1>7
  <1>12. ReadsOn'
    <2>1. from + (before + n) <= SizeOf(s)
      <3>1. PICK end \in Nat : end = SizeOf(s) /\ start + size <= end
        BY <1>9
      <3>2. o + n <= size /\ n \in Nat /\ o \in Nat
        BY <1>5, <1>7, <1>8
      <3>3. from + before = start + o
        BY <1>5, <1>8
      <3>4. from + (before + n) <= end
        BY <1>4, <1>8, <3>1, <3>2, <3>3
      <3> QED  BY <3>1, <3>4
    <2>2. before + n < length_ =>
            from + (before + n) = StartOf(s, i + 1) + 0
      <3> SUFFICES ASSUME before + n < length_
                   PROVE  from + (before + n) = StartOf(s, i + 1) + 0
        OBVIOUS
      <3>1. n < rest
        BY <1>4, <1>6, <1>7
      <3>2. o + n = size
        BY <1>7, <1>8, <3>1
      <3>3. from + before = start + o
        BY <1>5, <1>8
      <3>4. n \in Nat /\ o \in Nat
        BY <1>5, <1>7
      <3>5. from + (before + n) = (start + size) + 0
        BY <1>4, <1>8, <3>2, <3>3, <3>4
      <3> QED  BY <1>8, <3>5
    <2>3. i + 1 <= Len(s) => 0 < s[i + 1].size
      <3>1. i + 1 <= Len(s) => i + 1 \in 1 .. Len(s)
        BY <1>9
      <3> QED  BY <1>3, <3>1, SectionNumbers
    <2>4. 0 \in Nat
      OBVIOUS
    <2> QED  BY <1>9, <1>10, <2>1, <2>2, <2>3, <2>4 DEF ReadsOn
  <1>13. JoinsInOrder'
    <2>1. ASSUME NEW k \in 1 .. n
          PROVE  IsJoined(s, from + (before + n) - n + k - 1, bytes[k])
      <3>1. PICK at_ \in Nat : at_ = start + o + k - 1
        <4>1. start + o + k - 1 \in Nat
          BY <1>5, <1>8
        <4> QED  BY <4>1
      <3>2. from + (before + n) - n + k - 1 = at_
        BY <1>4, <1>5, <1>7, <1>8, <3>1
      <3>3. start <= at_ /\ at_ < start + size
        <4>1. o + n <= size
          BY <1>7, <1>8
        <4>2. k \in Nat /\ k >= 1 /\ k <= n /\ n \in Nat
          BY <1>7
        <4>3. start \in Nat /\ size \in Nat /\ o \in Nat
          BY <1>5, <1>8
        <4> QED  BY <3>1, <4>1, <4>2, <4>3
      <3>4. bytes[k] = first + at_ - start
        <4>1. bytes[k] = first + o + k - 1
          BY <1>7, <1>8
        <4>2. k \in Nat /\ o \in Nat
          BY <1>5, <1>7
        <4>3. first + o + k - 1 = first + at_ - start
          BY <1>8, <3>1, <4>2
        <4> QED  BY <4>1, <4>3
      <3>5. i \in DOMAIN s
        BY <1>3, <1>5
      <3> QED  BY <1>8, <3>2, <3>3, <3>4, <3>5
               DEF IsJoined, InSegment
    <2> QED  BY <1>7, <1>10, <2>1 DEF JoinsInOrder
  <1>14. ReadsAllSegments'
    BY <1>10 DEF ReadsAllSegments
  <1>15. asked' \in [offset : Nat, length : Nat] /\ done' \in 0 .. asked'.length
    <2>1. asked \in [offset : Nat, length : Nat]
      BY DEF JoinedInv
    <2> QED  BY <1>4, <1>10, <1>11, <2>1
  <1> QED  BY <1>3, <1>10, <1>12, <1>13, <1>14, <1>15 DEF JoinedInv

\* A read that is done has all that was asked for, or all there is.
LEMMA EndJoinedKeepsInv ==
    ASSUME JoinedFilesSound, JoinedInv, EndJoined
    PROVE  JoinedInv'
  <1>1. /\ reading /\ (done >= asked.length \/ segment > Len(sections))
        /\ reading' = FALSE
        /\ sections' = sections /\ done' = done /\ asked' = asked
        /\ copied' = copied
    BY DEF EndJoined, JoinedFinished
  <1>2. PICK s, i, from, length_, before :
          /\ s = sections /\ i = segment
          /\ from = asked.offset /\ length_ = asked.length /\ before = done
    OBVIOUS
  <1>3. s \in Seq(Section)
    BY <1>2 DEF JoinedFilesSound, SectionsInArchive, JoinedInv
  <1>4. from \in Nat /\ length_ \in Nat /\ before \in Nat /\ before <= length_
    <2>1. asked \in [offset : Nat, length : Nat] /\ done \in 0 .. asked.length
      BY DEF JoinedInv
    <2> QED  BY <1>2, <2>1
  <1>5. PICK size \in Nat : size = SizeOf(s)
    <2>1. 1 \in 1 .. Len(s) + 1
      BY <1>3
    <2> QED  BY <1>3, <2>1, StartsInFile
  <1>6. ReadsOn
    BY <1>1 DEF JoinedInv
  <1>7. before = length_ \/ from + before = size
    <2>1. CASE i > Len(s) /\ before < length_
      <3>1. i \in 1 .. Len(s) + 1 /\ Len(s) \in Nat
        BY <1>2, <1>3, <1>6 DEF ReadsOn
      <3>2. i = Len(s) + 1 /\ ~(i <= Len(s))
        BY <2>1, <3>1
      <3>3. from + before = StartOf(s, i) + 0
        BY <1>2, <1>6, <2>1, <3>2 DEF ReadsOn
      <3> QED  BY <1>5, <3>2, <3>3 DEF SizeOf
    <2>2. CASE ~(before < length_)
      BY <1>4, <2>2
    <2>3. CASE ~(i > Len(s))
      BY <1>1, <1>2, <1>4, <2>3
    <2> QED  BY <2>1, <2>2, <2>3
  <1>8. from + before <= size
    BY <1>2, <1>5, <1>6 DEF ReadsOn
  <1>9. before = Least(length_, size - from)
    BY <1>4, <1>5, <1>7, <1>8 DEF Least
  <1>10. ReadsAllSegments'
    BY <1>1, <1>2, <1>5, <1>9 DEF ReadsAllSegments
  <1>11. JoinsInOrder'
    BY <1>1 DEF JoinedInv, JoinsInOrder
  <1> QED  BY <1>1, <1>10, <1>11 DEF JoinedInv

\* Sections of any number and size, read in any way but right at the end.
THEOREM JoinedInvariant ==
    ASSUME JoinedFilesSound
    PROVE  JoinedSpec => []JoinedInv
  <1>1. JoinedInit => JoinedInv
    BY JoinedStart
  <1>2. JoinedInv /\ [JoinedNext]_joined_vars => JoinedInv'
    <2> SUFFICES ASSUME JoinedInv, [JoinedNext]_joined_vars
                 PROVE  JoinedInv'
      OBVIOUS
    <2>1. ASSUME NEW o \in Offsets, NEW n \in 0 .. MaxLength,
                 ReadPastEnd(o, n)
          PROVE  JoinedInv'
      BY <2>1, ReadPastEndKeepsInv
    <2>2. ASSUME NEW o \in Offsets, NEW n \in 0 .. MaxLength,
                 StartJoined(o, n)
          PROVE  JoinedInv'
      BY <2>2, StartJoinedKeepsInv
    <2>3. CASE ReadSegment
      BY <2>3, ReadSegmentKeepsInv
    <2>4. CASE EndJoined
      BY <2>4, EndJoinedKeepsInv
    <2>5. CASE UNCHANGED joined_vars
      BY <2>5 DEF joined_vars, JoinedInv, ReadsOn,
                  JoinsInOrder, ReadsAllSegments
    <2> QED  BY <2>1, <2>2, <2>3, <2>4, <2>5 DEF JoinedNext
  <1> QED  BY <1>1, <1>2, PTL DEF JoinedSpec

\* What an inner read copies is what the joined file has there, across however
\* many edges.
THEOREM FileJoinsInOrder ==
    ASSUME JoinedFilesSound
    PROVE  JoinedSpec => []JoinsInOrder
  <1>1. JoinedInv => JoinsInOrder
    BY DEF JoinedInv
  <1>2. JoinedSpec => []JoinedInv
    BY JoinedInvariant
  <1> QED  BY <1>1, <1>2, PTL

\* A read that returns has gone through all sections it takes.
THEOREM FileReadsAllSegments ==
    ASSUME JoinedFilesSound
    PROVE  JoinedSpec => []ReadsAllSegments
  <1>1. JoinedInv => ReadsAllSegments
    BY DEF JoinedInv
  <1>2. JoinedSpec => []JoinedInv
    BY JoinedInvariant
  <1> QED  BY <1>1, <1>2, PTL
=============================================================================
