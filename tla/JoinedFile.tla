------------------------------ MODULE JoinedFile ------------------------------
(***************************************************************************)
(* A MULTIFILE_STREAMFILE over CLAMP_STREAMFILEs, as parsers build it for   *)
(* streams whose header, prefetched data and main data are sections of      *)
(* bigger files (meta/nub.c, meta/ea_eaac.c): the sections are to read like *)
(* one file.                                                                *)
(*                                                                          *)
(* One action per inner read, whose bytes are `copied`.  A byte of the      *)
(* sections is known by its place in the archive they are cut from, which   *)
(* may overlap and be in any order.                                         *)
(***************************************************************************)
EXTENDS StreamfileRead, Sequences

CONSTANTS
    ArchiveSize,
    Sections,       \* sequences of sections, [start, size]
    ReadsAtEnd      \* may callers read right at the end of the file?

Section == [start : Nat, size : Nat \ {0}]

\* open_multifile_streamfile and open_clamp_streamfile refuse anything else.
SectionsInArchive ==
    \A s \in Sections :
        /\ s \in Seq(Section) \ {<<>>}
        /\ \A i \in DOMAIN s : s[i].start + s[i].size <= ArchiveSize

\* Callers of joined files do not read from negative offsets.
ReadsAreInFiles ==
    Offsets \subseteq Nat /\ ArchiveSize \in Nat

ASSUME SectionsAssumption == SectionsInArchive
ASSUME ReadsAtEndAssumption == ReadsAtEnd \in BOOLEAN

VARIABLES
    sections,         \* inner_sfs, and sizes read at open
    reading,          \* inside multifile_read
    segment,          \* 1 for inner_sfs[0]
    segment_offset,
    done              \* bytes read so far

joined_vars ==
    <<sections, offset, reading, segment, segment_offset, done, asked, copied>>

-----------------------------------------------------------------------------
Least(a, b) == IF a <= b THEN a ELSE b

\* Where segment i starts, and where the last one ends.
StartOf(s, i) ==
    LET start[k \in 1 .. Len(s) + 1] ==
          IF k = 1 THEN 0 ELSE start[k - 1] + s[k - 1].size
    IN  start[i]

SizeOf(s) == StartOf(s, Len(s) + 1)

\* clamp_read on a section: what it passes on to the archive.
ClampLength_Whole(section, o, n) == n                             \* mutant
ClampLength(section, o, n) ==
    IF o + n > section.size
    THEN IF o >= section.size THEN 0 ELSE section.size - o
    ELSE n

\* Bytes of the archive, whose read stops at its end.
ArchiveBytes(start, n) ==
    [i \in 1 .. Least(n, ArchiveSize - start) |-> start + i - 1]

ClampRead(section, o, n) ==
    ArchiveBytes(section.start + o, ClampLength(section, o, n))

\* multifile_read's search: an offset no segment has leaves `segment` at the
\* first one and segment_offset at the total.
InSegment(s, o, i) == StartOf(s, i) <= o /\ o < StartOf(s, i) + s[i].size

FirstRead(s, o) ==
    IF \E i \in DOMAIN s : InSegment(s, o, i)
    THEN LET i == CHOOSE j \in DOMAIN s :
                    /\ InSegment(s, o, j)
                    /\ \A k \in 1 .. j - 1 : ~InSegment(s, o, k)
         IN  [segment |-> i, offset |-> o - StartOf(s, i)]
    ELSE [segment |-> 1, offset |-> SizeOf(s)]

-----------------------------------------------------------------------------
JoinedInit ==
    /\ sections \in Sections
    /\ offset = 0
    /\ reading = FALSE
    /\ segment = 1
    /\ segment_offset = 0
    /\ done = 0
    /\ asked = [offset |-> 0, length |-> 0]
    /\ copied = <<>>

ReadPastEnd(o, n) ==
    /\ ~reading
    /\ o > SizeOf(sections)
    /\ asked' = [offset |-> o, length |-> n]
    /\ offset' = SizeOf(sections)
    /\ done' = 0
    /\ copied' = <<>>
    /\ UNCHANGED <<sections, reading, segment, segment_offset>>

StartJoined(o, n) ==
    /\ ~reading
    /\ o <= SizeOf(sections)
    /\ o = SizeOf(sections) => ReadsAtEnd
    /\ asked' = [offset |-> o, length |-> n]
    /\ reading' = TRUE
    /\ segment' = FirstRead(sections, o).segment
    /\ segment_offset' = FirstRead(sections, o).offset
    /\ done' = 0
    /\ copied' = <<>>
    /\ UNCHANGED <<sections, offset>>

JoinedFinished_AtLast ==                                                \* mutant
    done >= asked.length \/ segment >= Len(sections)
JoinedFinished == done >= asked.length \/ segment > Len(sections)

Rest == asked.length - done

NextOffset_Same == segment_offset                                 \* mutant
NextOffset == 0

\* "reads over segment size are ok, will return smaller value and continue
\* next segment"
ReadSegment ==
    /\ reading
    /\ ~JoinedFinished
    /\ copied' = ClampRead(sections[segment], segment_offset, Rest)
    /\ done' = done + Len(copied')
    /\ segment' = segment + 1
    /\ segment_offset' = NextOffset
    /\ UNCHANGED <<sections, offset, reading, asked>>

EndJoined ==
    /\ reading
    /\ JoinedFinished
    /\ reading' = FALSE
    /\ offset' = asked.offset + done
    /\ UNCHANGED <<sections, segment, segment_offset, done, asked, copied>>

JoinedNext ==
    \/ \E o \in Offsets, n \in 0 .. MaxLength : ReadPastEnd(o, n) \/ StartJoined(o, n)
    \/ ReadSegment
    \/ EndJoined

JoinedSpec == JoinedInit /\ [][JoinedNext]_joined_vars

-----------------------------------------------------------------------------
\* The byte that the joined file has at `at`.
IsJoined(s, at, byte) ==
    \E i \in DOMAIN s : /\ InSegment(s, at, i)
                       /\ byte = s[i].start + at - StartOf(s, i)

\* "their data joined during reads": what an inner read puts in dst is what the
\* joined file has there, across the edges of the segments.
JoinsInOrder ==
    \A i \in DOMAIN copied :
        IsJoined(sections, asked.offset + done - Len(copied) + i - 1, copied[i])

\* A read that returns has all there is from its offset to the end of the last
\* segment: no segment is skipped, whatever sizes the segments have.
ReadsAllSegments ==
    ~reading /\ asked.offset <= SizeOf(sections) =>
        done = Least(asked.length, SizeOf(sections) - asked.offset)

-----------------------------------------------------------------------------
(* Why it holds: the inductive invariant (Streamfile_proofs) *)

\* What the rest of a read will be taken from: the bytes done so far end where
\* the next inner read begins, or at the end of the file.
ReadsOn ==
    /\ segment \in 1 .. Len(sections) + 1
    /\ segment_offset \in Nat
    /\ IF segment <= Len(sections)
       THEN segment_offset < sections[segment].size
       ELSE segment_offset = 0
    /\ asked.offset + done <= SizeOf(sections)
    /\ done < asked.length =>
         asked.offset + done = StartOf(sections, segment) + segment_offset

JoinedInv ==
    /\ sections \in Sections
    /\ reading \in BOOLEAN
    /\ asked \in [offset : Nat, length : Nat]
    /\ done \in 0 .. asked.length
    /\ reading => ReadsOn
    /\ JoinsInOrder
    /\ ReadsAllSegments
=============================================================================
