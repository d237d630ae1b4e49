---------------------------- MODULE StreamfileRead ----------------------------
(***************************************************************************)
(* What a read of any streamfile is to its caller: an offset, a length, and *)
(* the bytes copied.  BufferedFile and JoinedFile are two ways to do it.    *)
(***************************************************************************)
EXTENDS Integers

CONSTANTS
    Offsets,       \* offsets callers read from
    MaxLength      \* longest read

ASSUME OffsetsAssumption   == Offsets \subseteq Int
ASSUME MaxLengthAssumption == MaxLength \in Nat

VARIABLES
    offset,        \* sf->offset, the last read offset
    asked,         \* history: what the caller asked for
    copied         \* history: what was last put in dst
=============================================================================
