----------------------------- MODULE WinampPlayer -----------------------------
(***************************************************************************)
(* The Winamp plugin: Winamp's thread starts, seeks, pauses and stops a     *)
(* song, a decode thread plays it, and they talk through plain fields of    *)
(* `state`: no lock, no atomics.  One action here touches the shared fields *)
(* once, so the threads interleave at every read and every write (fields    *)
(* are ints, and calls between most accesses keep a compiler from merging   *)
(* them; merged reads are an interleaving of the separate ones).            *)
(*                                                                          *)
(* Time is counted in buffers of SAMPLE_BUFFER_SIZE samples, the play head  *)
(* of the library and the output plugin are as small as the threads can     *)
(* tell, and songs end (one that plays forever only skips the check for     *)
(* seeks past its end).                                                     *)
(***************************************************************************)
EXTENDS Integers, Sequences

CONSTANTS
    Songs,                 \* play_samples of what is played
    INTERNAL_BUF_SAMPLES,  \* what libvgmstream_render decodes at once
    Capacity,              \* what the output plugin buffers
    Seeks,                 \* positions winamp_SetOutputTime is called with
    MaxSeeks               \* bound on the seeks in a song

ASSUME SongsAssumption == Songs \subseteq Nat \ {0}
ASSUME SizesAssumption ==
    /\ INTERNAL_BUF_SAMPLES \in Nat \ {0}
    /\ Capacity \in Nat \ {0}
ASSUME SeeksAssumption == Seeks \subseteq Nat /\ MaxSeeks \in Nat

VARIABLES
    vgmstream,    \* libvgmstream_t: what it plays and where it is, or NoStream
    state,        \* winamp_state_t: decode_abort, seek_sample, decode_pos
    pc,           \* line the decode thread is at
    seek_sample,  \* do_seek's local
    out,          \* output plugin: places it was given and has not played, paused
    stopping,     \* Winamp's thread waits in winamp_Stop
    asked,        \* history: last seek asked for, until the thread takes it
    mishaps,      \* history: what was asked for at an unlucky moment
    seeks         \* seeks in this song

winamp == <<stopping, seeks>>
vars == <<vgmstream, state, pc, seek_sample, out, winamp, asked, mishaps>>

NoStream == [play_samples |-> 0]
NoSeek == -1
Opened == vgmstream # NoStream

Running == pc \notin {"none", "returned"}

SmallerOf(a, b) == IF a <= b THEN a ELSE b

-----------------------------------------------------------------------------
(* The library (LibApi): the next place to hand out, places decoded and not   *)
(* handed out, the handle's own decode_done and decoder->done                 *)

NewStream(song) ==
    [play_samples |-> song, place |-> 0, unread |-> 0,
     decode_done |-> FALSE, done |-> FALSE]

Rendered(v) ==
    LET n == SmallerOf(INTERNAL_BUF_SAMPLES, v.play_samples - v.place)
    IN  IF v.unread > 0 \/ v.decode_done THEN v
        ELSE [v EXCEPT !.unread = n,
                       !.decode_done = (v.place + n >= v.play_samples)]

\* libvgmstream_fill of one buffer; nothing is filled after the end.
Filled(v) ==
    LET r == Rendered(v)
        copied == SmallerOf(1, r.unread)
    IN  [r EXCEPT !.place = @ + copied,
                  !.unread = @ - copied,
                  !.done = r.decode_done /\ r.unread = copied]

\* libvgmstream_seek: decode_done is not cleared.
Sought(v, sample) ==
    [v EXCEPT !.place = SmallerOf(sample, v.play_samples),
              !.unread = 0,
              !.done = v.decode_done]

-----------------------------------------------------------------------------
(* The output plugin *)

NoOutput == [buffered |-> <<>>, paused |-> FALSE]
CanWrite == Len(out.buffered) < Capacity
IsPlaying == out.buffered # <<>>

OutputPlays ==
    /\ IsPlaying
    /\ ~out.paused
    /\ out' = [out EXCEPT !.buffered = Tail(@)]
    /\ UNCHANGED <<vgmstream, state, pc, seek_sample, winamp, asked, mishaps>>

-----------------------------------------------------------------------------
(* Winamp's thread *)

NewState == [decode_abort |-> FALSE, seek_sample |-> -1, decode_pos |-> 0]

Init ==
    /\ vgmstream = NoStream
    /\ state = NewState
    /\ pc = "none"
    /\ seek_sample = -1
    /\ out = NoOutput
    /\ stopping = FALSE
    /\ asked = NoSeek
    /\ mishaps = {}
    /\ seeks = 0

\* winamp_Play, with CreateThread last
Play(song) ==
    /\ ~Opened
    /\ vgmstream' = NewStream(song)
    /\ state' = NewState
    /\ pc' = "loop"
    /\ seek_sample' = -1
    /\ out' = NoOutput
    /\ asked' = NoSeek
    /\ mishaps' = {}
    /\ seeks' = 0
    /\ UNCHANGED stopping

\* winamp_Pause, winamp_UnPause
Pause(paused) ==
    /\ Opened
    /\ ~stopping
    /\ out.paused # paused
    /\ out' = [out EXCEPT !.paused = paused]
    /\ UNCHANGED <<vgmstream, state, pc, seek_sample, winamp, asked, mishaps>>

\* do_seek is past its comparison, and is about to clear what is asked for.
ClearsSeeks == pc \in {"clear past", "clear"}

\* winamp_SetOutputTime
SetOutputTime(t) ==
    /\ Opened
    /\ ~stopping
    /\ seeks < MaxSeeks
    /\ seeks' = seeks + 1
    /\ state' = [state EXCEPT !.seek_sample = t]
    /\ asked' = t
    /\ mishaps' = mishaps \cup (IF ClearsSeeks THEN {"sought during a clear"} ELSE {})
    /\ UNCHANGED <<vgmstream, pc, seek_sample, out, stopping>>

\* winamp_Stop, up to the wait for the thread
Stop ==
    /\ Opened
    /\ ~stopping
    /\ stopping' = TRUE
    /\ state' = [state EXCEPT !.decode_abort = TRUE]
    /\ UNCHANGED <<vgmstream, pc, seek_sample, out, asked, mishaps, seeks>>

\* The wait ends with the thread.  (After 5 seconds it gives up, and
\* TerminateThread ends the thread wherever it is: StopTimesOut.)
ThreadGone == ~Running

Close ==
    /\ vgmstream' = NoStream
    /\ out' = NoOutput
    /\ stopping' = FALSE
    /\ UNCHANGED <<state, seek_sample, asked, mishaps, seeks>>

Stopped ==
    /\ stopping
    /\ ThreadGone
    /\ Close
    /\ UNCHANGED pc

StopTimesOut ==
    /\ stopping
    /\ Running
    /\ pc' = "none"
    /\ Close

-----------------------------------------------------------------------------
(* The decode thread *)

Goes(from, to) == pc = from /\ pc' = to

\* while (!state.decode_abort)
Loop ==
    /\ Goes("loop", IF state.decode_abort THEN "returned" ELSE "done?")
    /\ UNCHANGED <<vgmstream, state, seek_sample, out, winamp, asked, mishaps>>

\* "track finished and not seeking"
CheckDone ==
    /\ Goes("done?", IF vgmstream.done /\ state.seek_sample < 0
                     THEN "playing?" ELSE "seek?")
    /\ UNCHANGED <<vgmstream, state, seek_sample, out, winamp, asked, mishaps>>

AfterPlaying_Now == "returned"                                    \* mutant
\* WM_WA_MPEG_EOF is posted when all was played, which may be a while.
AfterPlaying == IF IsPlaying THEN "loop" ELSE "returned"

CheckPlaying ==
    /\ Goes("playing?", AfterPlaying)
    /\ UNCHANGED <<vgmstream, state, seek_sample, out, winamp, asked, mishaps>>

CheckSeek ==
    /\ Goes("seek?", IF state.seek_sample >= 0 THEN "local" ELSE "write?")
    /\ UNCHANGED <<vgmstream, state, seek_sample, out, winamp, asked, mishaps>>

\* do_seek: "local due to threads/race conditions"
ReadSeek ==
    /\ Goes("local", "past?")
    /\ seek_sample' = state.seek_sample
    /\ UNCHANGED <<vgmstream, state, out, winamp, asked, mishaps>>

CheckPast ==
    /\ Goes("past?", IF state.seek_sample > vgmstream.play_samples
                     THEN "clear past" ELSE "seek")
    /\ UNCHANGED <<vgmstream, state, seek_sample, out, winamp, asked, mishaps>>

\* "ignore seeking past file": the decoder stays, decode_pos does not.
ClearPast ==
    /\ Goes("clear past", "flush?")
    /\ state' = [state EXCEPT !.seek_sample = -1,
                              !.decode_pos = vgmstream.play_samples]
    /\ asked' = IF asked > vgmstream.play_samples THEN NoSeek ELSE asked
    /\ mishaps' = mishaps \cup {"sought past the end"}
    /\ UNCHANGED <<vgmstream, seek_sample, out, winamp>>

\* libvgmstream_seek and the position shown
SeekStream ==
    /\ Goes("seek", "same?")
    /\ vgmstream' = Sought(vgmstream, seek_sample)
    /\ state' = [state EXCEPT !.decode_pos = seek_sample]
    /\ mishaps' = (mishaps \ {"sought past the end"})
                    \cup (IF vgmstream.decode_done THEN {"sought when done"} ELSE {})
    /\ UNCHANGED <<seek_sample, out, winamp, asked>>

SameSeek_Any == TRUE                                              \* mutant
SameSeek_Never == FALSE                                           \* mutant
\* "different sample: other seek may have been requested during seek"
SameSeek == state.seek_sample = seek_sample

CompareSeek ==
    /\ Goes("same?", IF SameSeek THEN "clear" ELSE "flush?")
    /\ asked' = IF asked = seek_sample THEN NoSeek ELSE asked
    /\ UNCHANGED <<vgmstream, state, seek_sample, out, winamp, mishaps>>

ClearSeek ==
    /\ Goes("clear", "flush?")
    /\ state' = [state EXCEPT !.seek_sample = -1]
    /\ UNCHANGED <<vgmstream, seek_sample, out, winamp, asked, mishaps>>

Flushed_Kept == out.buffered                                      \* mutant
Flushed == IF state.seek_sample < 0 THEN <<>> ELSE out.buffered

\* "flush Winamp buffers *after* fully seeking"
Flush ==
    /\ Goes("flush?", "loop")
    /\ out' = [out EXCEPT !.buffered = Flushed]
    /\ UNCHANGED <<vgmstream, state, seek_sample, winamp, asked, mishaps>>

WhenFull_Waits == "write?"                                        \* mutant
WhenFull == "loop"

CheckWrite ==
    /\ Goes("write?", IF CanWrite THEN "fill" ELSE WhenFull)
    /\ UNCHANGED <<vgmstream, state, seek_sample, out, winamp, asked, mishaps>>

\* libvgmstream_fill and outMod->Write
FillAndWrite ==
    LET filled == Filled(vgmstream)
        written == filled.place > vgmstream.place
    IN  /\ Goes("fill", IF written THEN "count" ELSE "loop")
        /\ vgmstream' = filled
        /\ out' = IF written
                  THEN [out EXCEPT !.buffered = Append(@, vgmstream.place)]
                  ELSE out
        /\ UNCHANGED <<state, seek_sample, winamp, asked, mishaps>>

CountWritten ==
    /\ Goes("count", "loop")
    /\ state' = [state EXCEPT !.decode_pos = @ + 1]
    /\ UNCHANGED <<vgmstream, seek_sample, out, winamp, asked, mishaps>>

Decode ==
    \/ Loop \/ CheckDone \/ CheckPlaying
    \/ CheckSeek \/ ReadSeek \/ CheckPast \/ ClearPast
    \/ SeekStream \/ CompareSeek \/ ClearSeek \/ Flush
    \/ CheckWrite \/ FillAndWrite \/ CountWritten

Next ==
    \/ \E song \in Songs : Play(song)
    \/ \E paused \in BOOLEAN : Pause(paused)
    \/ \E t \in Seeks : SetOutputTime(t)
    \/ Stop
    \/ Stopped
    \/ StopTimesOut
    \/ Decode
    \/ OutputPlays

\* The system runs the decode thread, and Winamp's when its wait is over; the
\* output plugin plays what it has.
Spec == Init /\ [][Next]_vars /\ WF_vars(Decode) /\ WF_vars(Stopped)
             /\ WF_vars(OutputPlays)

-----------------------------------------------------------------------------
\* winamp_GetOutputTime
GetOutputTime ==
    (IF state.seek_sample >= 0 THEN state.seek_sample ELSE state.decode_pos)
        - Len(out.buffered)

\* A seek that is asked for while another is done is done next: do_seek loses it
\* only between its comparison and the assignment that follows (lines 675-676 and
\* 690-691), which are not one step.
SeeksAreTaken ==
    pc = "loop" /\ state.seek_sample < 0 =>
        asked = NoSeek \/ "sought during a clear" \in mishaps

\* The position shown is that of the next sample to be heard, whatever seeks,
\* flushes and buffers came before, unless the last seek was past the end
\* ("ignored", but decode_pos is moved).
ShowsWhatIsHeard ==
    pc = "loop" /\ state.seek_sample < 0 /\ IsPlaying =>
        GetOutputTime = Head(out.buffered) \/ "sought past the end" \in mishaps

\* A thread that ends a song by itself has played it to its end and waited for
\* the output to be heard.  (A seek back from the end, while the last buffers
\* play, ends the song at once: decoder->done stays.)
SongIsHeardOut ==
    pc = "returned" /\ ~state.decode_abort =>
        /\ out.buffered = <<>>
        /\ vgmstream.place = vgmstream.play_samples \/ "sought when done" \in mishaps

\* Stop gets its thread back without TerminateThread, paused or not, in whatever
\* wait the thread is.
StopEnds == stopping ~> ~stopping

\* Without pauses a song ends, and no seek makes the thread go round forever.
SongEnds == Opened /\ []~out.paused ~> ~Running

-----------------------------------------------------------------------------
(* Why it holds: module WinampPlayer_proofs *)

Lines == {"none", "returned", "loop", "done?", "playing?", "seek?", "local",
          "past?", "clear past", "seek", "same?", "clear", "flush?", "write?",
          "fill", "count"}

Stream ==
    [play_samples : Nat \ {0}, place : Nat, unread : Nat,
     decode_done : BOOLEAN, done : BOOLEAN]

\* Fields have their types, and a thread that runs has a stream; what is decoded
\* and unread never goes past the end of the song.
TypeOK ==
    /\ state \in [decode_abort : BOOLEAN, seek_sample : Nat \cup {-1},
                  decode_pos : Nat]
    /\ pc \in Lines
    /\ seek_sample \in Nat \cup {-1}
    /\ out \in [buffered : Seq(Nat), paused : BOOLEAN]
    /\ stopping \in BOOLEAN
    /\ asked \in Nat \cup {NoSeek}
    /\ Running \/ stopping => Opened
    /\ Opened =>
        /\ vgmstream \in Stream
        /\ vgmstream.place + vgmstream.unread <= vgmstream.play_samples

\* do_seek works on a position that was asked for: only it takes requests away.
SeekIsAsked ==
    /\ pc \in {"local", "past?", "clear past", "seek"} => state.seek_sample >= 0
    /\ pc \in {"past?", "clear past", "seek"} => seek_sample >= 0

\* What is asked for is in the shared field, unless that is about to be cleared.
RequestIsShared ==
    "sought during a clear" \notin mishaps =>
        /\ asked \in {NoSeek, state.seek_sample}
        /\ pc = "clear" => asked = NoSeek
        /\ pc = "clear past" => asked = NoSeek \/ asked > vgmstream.play_samples

\* Place after what was written last; decode_pos follows a step later.
AfterWritten ==
    IF pc = "count" THEN state.decode_pos + 1 ELSE state.decode_pos

\* That is where the library is; a seek too far leaves the library at the end.
PlaceIsShown ==
    Running /\ "sought past the end" \notin mishaps =>
        \/ vgmstream.place = AfterWritten
        \/ /\ pc # "count"
           /\ vgmstream.place = vgmstream.play_samples

\* A seek is under way, and what the output has is to be flushed after it.
SeekUnderWay == pc \in {"same?", "clear", "flush?"} \/ state.seek_sample >= 0

\* Otherwise the output has the places up to the one shown, without gaps.
PlacesUpTo(s, place) ==
    \A i \in 1 .. Len(s) : s[i] = place - Len(s) + i - 1

OutputIsUpToPlace ==
    Running /\ "sought past the end" \notin mishaps /\ ~SeekUnderWay =>
        PlacesUpTo(out.buffered, AfterWritten)

\* Done means that all of the song was handed out, but for seeks back.
DoneIsTheEnd ==
    /\ Running /\ "sought when done" \notin mishaps /\ vgmstream.decode_done =>
          vgmstream.place + vgmstream.unread = vgmstream.play_samples
    /\ Running /\ "sought when done" \notin mishaps /\ vgmstream.done =>
          vgmstream.decode_done /\ vgmstream.unread = 0
    /\ pc = "playing?" => vgmstream.done
    /\ stopping => state.decode_abort

PlayerInv ==
    /\ TypeOK
    /\ SeekIsAsked
    /\ RequestIsShared
    /\ PlaceIsShown
    /\ OutputIsUpToPlace
    /\ DoneIsTheEnd
    /\ SongIsHeardOut
=============================================================================
