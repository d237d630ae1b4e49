----------------------------- MODULE BufferedFile -----------------------------
(***************************************************************************)
(* The three streamfiles that read through a buffer of their own:           *)
(*   "stdio"   STDIO_STREAMFILE over a FILE (streamfile_stdio.c)            *)
(*   "buffer"  BUFFER_STREAMFILE over another streamfile                    *)
(*   "cache"   what libstreamfile_open_buffered makes of a custom           *)
(*             libstreamfile_t (api_libsf_cache.c)                          *)
(*                                                                          *)
(* Their read functions are the same loop, apart from where "cache" starts. *)
(* One action per step of the loop.  A byte is known by its position in the *)
(* file, and bytes that move together are a range of positions.             *)
(***************************************************************************)
EXTENDS StreamfileRead

CONSTANTS
    Readers,       \* which of the three
    FileSizes,
    BufSizes

ASSUME ReadersAssumption   == Readers \subseteq {"stdio", "buffer", "cache"}
ASSUME FileSizesAssumption == FileSizes \subseteq Nat
ASSUME BufSizesAssumption  == BufSizes \subseteq Nat \ {0}

VARIABLES
    reader, file_size, buf_size,
    inner,         \* infile, inner_sf or libsf is there
    buf_offset,    \* file position the buffer starts at
    valid_size,    \* bytes in the buffer
    pc,            \* where in the read function
    at,            \* its offset, as it advances
    length,        \* its length, as it goes down
    read_total,
    fell_short,    \* history: an inner read of this call, or the one that read
                   \* a small file whole, returned less than there is
    odd            \* history: flips with every inner read, so that one that
                   \* returns nothing is a step too

file == <<reader, file_size, buf_size, inner>>
buffer == <<buf_offset, valid_size>>
vars == <<file, offset, buffer, pc, at, length, read_total, asked, copied,
          fell_short, odd>>

-----------------------------------------------------------------------------
Less(a, b) == IF a <= b THEN a ELSE b

\* `copied` is the last memcpy.
NoCopy == [into |-> 0, from |-> 0, count |-> 0]
Copy(into, from, count) == [into |-> into, from |-> from, count |-> count]

\* A small file is read whole by open_stdio_streamfile_buffer_by_file, and its
\* FILE closed.
FitsBuffer(r, size, buf) == r = "stdio" /\ size > 0 /\ size < buf

Init ==
    /\ reader \in Readers
    /\ file_size \in FileSizes
    /\ buf_size \in BufSizes
    /\ inner = ~FitsBuffer(reader, file_size, buf_size)
    /\ valid_size \in IF inner THEN {0} ELSE 0 .. file_size
    /\ fell_short = (~inner /\ valid_size < file_size)
    /\ offset = 0
    /\ buf_offset = 0
    /\ pc = "idle"
    /\ at = 0
    /\ length = 0
    /\ read_total = 0
    /\ asked = [offset |-> 0, length |-> 0]
    /\ copied = NoCopy
    /\ odd = FALSE

\* Negative offsets and empty reads return at once.
StartRead(o, n) ==
    /\ pc = "idle"
    /\ asked' = [offset |-> o, length |-> n]
    /\ at' = IF reader = "cache" THEN offset ELSE o
    /\ length' = n
    /\ read_total' = 0
    /\ copied' = NoCopy
    /\ fell_short' = (~inner /\ fell_short)
    /\ pc' = IF o < 0 \/ n = 0 THEN "idle" ELSE "copy"
    /\ UNCHANGED <<file, offset, buffer, odd>>

\* memcpy to dst, and what it does to the locals
CopyOut(count) ==
    /\ copied' = Copy(read_total, at, count)
    /\ read_total' = read_total + count
    /\ length' = length - count
    /\ at' = at + count

InBuffer == at >= buf_offset /\ at < buf_offset + valid_size

Buffered_Whole == valid_size                                      \* mutant
Buffered == valid_size - (at - buf_offset)

CopyFromBuffer ==
    /\ pc = "copy"
    /\ IF InBuffer
       THEN CopyOut(Less(Buffered, length))
       ELSE UNCHANGED <<copied, read_total, length, at>>
    /\ pc' = "rest"
    /\ UNCHANGED <<file, offset, buffer, asked, fell_short, odd>>

Eof == at >= file_size
Finished == length = 0 \/ ~inner \/ Eof

\* An inner read returns what there is, or less: it may fail, or the file may
\* have been cut since.
InBlock == Less(buf_size, file_size - at)

Limit_Length == length                                            \* mutant
Limit_BufSize == buf_size                                         \* mutant
Limit == Less(length, buf_size)

\* "give up on partial reads (EOF)"
GivesUp_Never(got) == FALSE                                       \* mutant
GivesUp(got) == got < Limit

Refill ==
    /\ pc = "rest"
    /\ ~Finished
    /\ \E got \in 0 .. InBlock :
         /\ buf_offset' = at
         /\ valid_size' = got
         /\ fell_short' = (fell_short \/ got < InBlock)
         /\ CopyOut(Less(got, Limit))
         /\ pc' = IF GivesUp(got) THEN "end" ELSE "rest"
    /\ odd' = ~odd
    /\ UNCHANGED <<file, offset, asked>>

\* "possible if all data was copied to buf and FD closed" leaves offset alone.
EndRead ==
    /\ pc = "end" \/ (pc = "rest" /\ Finished)
    /\ pc' = "idle"
    /\ offset' = IF ~inner THEN offset
                 ELSE IF reader = "cache" THEN asked.offset ELSE at
    /\ UNCHANGED <<file, buffer, at, length, read_total, asked, copied,
                   fell_short, odd>>

ReadStep == CopyFromBuffer \/ Refill \/ EndRead

Next ==
    \/ \E o \in Offsets, n \in 0 .. MaxLength : StartRead(o, n)
    \/ CopyFromBuffer
    \/ Refill
    \/ EndRead

\* A thread inside read keeps running.
Spec == Init /\ [][Next]_vars /\ WF_vars(ReadStep)

-----------------------------------------------------------------------------
\* Shape of the state: the length goes down to zero, never below, and the buffer
\* holds no more than it can.
TypeOK ==
    /\ reader \in Readers
    /\ file_size \in FileSizes
    /\ buf_size \in BufSizes
    /\ inner \in BOOLEAN
    /\ offset \in Int
    /\ buf_offset \in Nat
    /\ valid_size \in Nat
    /\ valid_size <= buf_size
    /\ pc \in {"idle", "copy", "rest", "end"}
    /\ at \in Int
    /\ length \in Nat
    /\ read_total \in Nat
    /\ asked \in [offset : Int, length : Nat]
    /\ copied \in [into : Nat, from : Int, count : Nat]
    /\ fell_short \in BOOLEAN

\* "read 'length' data at 'offset' to 'dst'": every byte put in dst is the file's
\* byte for its place, whether it was in the buffer, was left there by another
\* read, or came from the file, and no byte past the end of the file is.
CopiesWhatWasAsked ==
    copied.count > 0 =>
        /\ copied.from = asked.offset + copied.into
        /\ copied.from + copied.count <= file_size
        /\ copied.into + copied.count <= asked.length

There == Less(asked.length, file_size - asked.offset)

\* A read that returns has all there is between offset and the end of the file,
\* unless the file below failed it in this very call: what earlier reads, whole
\* or short, left in the buffer makes no difference.
ReadsAllThereIs ==
    pc = "idle" /\ asked.offset >= 0 /\ ~fell_short =>
        read_total = IF There < 0 THEN 0 ELSE There

\* A read returns, also when the file below returns nothing.
ReadReturns == pc # "idle" ~> pc = "idle"

-----------------------------------------------------------------------------
(* Why it holds: module Streamfile_proofs *)

Advances ==
    pc # "idle" =>
        /\ asked.offset >= 0
        /\ asked.length > 0
        /\ at = asked.offset + read_total
        /\ length = asked.length - read_total

BufferInFile ==
    /\ valid_size > 0 => buf_offset + valid_size <= file_size
    /\ ~inner => buf_offset = 0 /\ (fell_short \/ valid_size = file_size)

\* A read that gives up early had a short inner read.
GivesUpAtEnd ==
    /\ pc = "copy" => read_total = 0
    /\ pc = "end" /\ ~fell_short => at = file_size
    /\ pc # "idle" /\ read_total > 0 => at <= file_size
    /\ pc = "rest" /\ ~inner /\ ~fell_short /\ length > 0 => at >= file_size

FileInv ==
    /\ TypeOK
    /\ Advances
    /\ BufferInFile
    /\ GivesUpAtEnd
    /\ CopiesWhatWasAsked
    /\ ReadsAllThereIs
=============================================================================
