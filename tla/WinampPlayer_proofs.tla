-------------------------- MODULE WinampPlayer_proofs --------------------------
(***************************************************************************)
(* Proofs about the Winamp plugin, for songs, buffers and seeks of any size *)
(* and number: what is said here holds for every interleaving of Winamp's   *)
(* thread, the decode thread and the output.                                *)
(***************************************************************************)
EXTENDS WinampPlayer, SequenceTheorems, TLAPS

\* Nothing runs before the first song.
LEMMA InitInv == Init => PlayerInv
  <1> SUFFICES ASSUME Init PROVE PlayerInv
    OBVIOUS
  <1>1. TypeOK
    <2>1. ~Running /\ ~Opened
      BY DEF Init, Running, Opened
    <2>2. <<>> \in Seq(Nat)
      OBVIOUS
    <2> QED  BY <2>1, <2>2 DEF Init, TypeOK, NewState, NoOutput, Lines
  <1> QED  BY <1>1 DEF Init, PlayerInv, SeekIsAsked, RequestIsShared,
         PlaceIsShown, OutputIsUpToPlace, DoneIsTheEnd, SongIsHeardOut,
         Running

\* The output's buffers, when one is played and when one is written.
LEMMA PlayedPlaces ==
    ASSUME NEW s \in Seq(Nat), s # <<>>, NEW place \in Nat
    PROVE  /\ Tail(s) \in Seq(Nat)
           /\ PlacesUpTo(s, place) => PlacesUpTo(Tail(s), place)
  <1>1. Tail(s) \in Seq(Nat) /\ Len(Tail(s)) = Len(s) - 1 /\ Len(s) \in Nat
    BY HeadTailProperties
  <1>2. \A i \in 1 .. Len(Tail(s)) : Tail(s)[i] = s[i + 1]
    BY HeadTailProperties
  <1>3. ASSUME PlacesUpTo(s, place) PROVE PlacesUpTo(Tail(s), place)
    <2> SUFFICES ASSUME NEW i \in 1 .. Len(Tail(s))
                 PROVE  Tail(s)[i] = place - Len(Tail(s)) + i - 1
      BY DEF PlacesUpTo
    <2>1. i + 1 \in 1 .. Len(s)
      BY <1>1
    <2>2. s[i + 1] = place - Len(s) + (i + 1) - 1
      BY <1>3, <2>1 DEF PlacesUpTo
    <2> QED  BY <1>1, <1>2, <2>2
  <1> QED  BY <1>1, <1>3

\* A write appends the next place to the output.
LEMMA WrittenPlaces ==
    ASSUME NEW s \in Seq(Nat), NEW place \in Nat
    PROVE  /\ Append(s, place) \in Seq(Nat)
           /\ PlacesUpTo(s, place) => PlacesUpTo(Append(s, place), place + 1)
  <1>1. /\ Append(s, place) \in Seq(Nat) /\ Len(s) \in Nat
        /\ Len(Append(s, place)) = Len(s) + 1
        /\ \A i \in 1 .. Len(s) : Append(s, place)[i] = s[i]
        /\ Append(s, place)[Len(s) + 1] = place
    BY AppendProperties
  <1>2. ASSUME PlacesUpTo(s, place)
        PROVE  PlacesUpTo(Append(s, place), place + 1)
    <2> DEFINE t == Append(s, place)
    <2> HIDE DEF t
    <2>0. Len(t) = Len(s) + 1
      BY <1>1 DEF t
    <2> SUFFICES ASSUME NEW i \in 1 .. Len(t)
                 PROVE  t[i] = (place + 1) - Len(t) + i - 1
      BY DEF PlacesUpTo, t
    <2>1. CASE i \in 1 .. Len(s)
      <3>1. s[i] = place - Len(s) + i - 1
        BY <1>2, <2>1 DEF PlacesUpTo
      <3> QED  BY <1>1, <2>0, <2>1, <3>1 DEF t
    <2>2. CASE i = Len(s) + 1
      BY <1>1, <2>0, <2>2 DEF t
    <2> QED  BY <1>1, <2>0, <2>1, <2>2
  <1> QED  BY <1>1, <1>2

\* A new song.
LEMMA PlayKeepsInv ==
    ASSUME PlayerInv, NEW song \in Songs, Play(song)
    PROVE  PlayerInv'
  <1> USE SongsAssumption DEF Play, NoSeek
  <1>1. song \in Nat \ {0}
    OBVIOUS
  <1>2. vgmstream' \in Stream
    BY <1>1 DEF NewStream, Stream
  <1>3. /\ vgmstream'.place = 0 /\ vgmstream'.unread = 0
        /\ vgmstream'.play_samples = song
        /\ ~vgmstream'.decode_done /\ ~vgmstream'.done
    BY DEF NewStream
  <1>4. Opened'
    BY <1>1, <1>3 DEF Opened, NoStream
  <1>5. /\ state'.seek_sample = -1 /\ state'.decode_pos = 0
        /\ ~state'.decode_abort
        /\ state' \in [decode_abort : BOOLEAN, seek_sample : Nat \cup {-1},
                       decode_pos : Nat]
    BY DEF NewState
  <1>6. out'.buffered = <<>> /\ out' \in [buffered : Seq(Nat), paused : BOOLEAN]
    BY DEF NoOutput
  <1>a. stopping = FALSE
    BY DEF PlayerInv, TypeOK
  <1>7. TypeOK'
    <2>1. pc' \in Lines /\ stopping' = FALSE
      BY <1>a DEF Lines
    <2>2. seek_sample' \in Nat \cup {-1} /\ asked' \in Nat \cup {NoSeek}
      OBVIOUS
    <2>3. vgmstream'.place + vgmstream'.unread <= vgmstream'.play_samples
      BY <1>1, <1>3
    <2> QED  BY <1>2, <1>4, <1>5, <1>6, <2>1, <2>2, <2>3 DEF TypeOK
  <1>8. SeekIsAsked' /\ RequestIsShared' /\ SongIsHeardOut'
    BY <1>5 DEF SeekIsAsked, RequestIsShared, SongIsHeardOut
  <1>9. PlaceIsShown'
    BY <1>3, <1>5 DEF PlaceIsShown, AfterWritten
  <1>10. OutputIsUpToPlace'
    <2>1. Len(out'.buffered) = 0
      BY <1>6
    <2> QED  BY <2>1 DEF OutputIsUpToPlace, PlacesUpTo
  <1>11. DoneIsTheEnd'
    BY <1>3, <1>a DEF DoneIsTheEnd
  <1> QED  BY <1>7, <1>8, <1>9, <1>10, <1>11 DEF PlayerInv

\* A pause.
LEMMA PauseKeepsInv ==
    ASSUME PlayerInv, NEW paused \in BOOLEAN, Pause(paused)
    PROVE  PlayerInv'
  <1> USE DEF PlayerInv
  <1>1. TypeOK'
    BY DEF Pause, winamp, TypeOK, Opened
  <1>2. SeekIsAsked'
    BY DEF Pause, SeekIsAsked
  <1>3. RequestIsShared'
    BY DEF Pause, RequestIsShared
  <1>4. PlaceIsShown'
    BY DEF Pause, PlaceIsShown, AfterWritten, Running
  <1>5. OutputIsUpToPlace'
    BY DEF Pause, OutputIsUpToPlace, AfterWritten, SeekUnderWay, Running,
           TypeOK
  <1>6. DoneIsTheEnd'
    BY DEF Pause, winamp, DoneIsTheEnd, Running
  <1>7. SongIsHeardOut'
    BY DEF Pause, SongIsHeardOut, TypeOK
  <1> QED  BY <1>1, <1>2, <1>3, <1>4, <1>5, <1>6, <1>7

\* A request: from here on a seek is under way.
LEMMA SetOutputTimeKeepsInv ==
    ASSUME PlayerInv, NEW t \in Seeks, SetOutputTime(t)
    PROVE  PlayerInv'
  <1> USE SeeksAssumption DEF PlayerInv
  <1>a. t \in Nat /\ t >= 0
    OBVIOUS
  <1>b. state'.seek_sample = t
    BY DEF SetOutputTime, TypeOK
  <1>c. pc' = pc /\ seek_sample' = seek_sample
    BY DEF SetOutputTime
  <1>1. TypeOK'
    BY DEF SetOutputTime, ClearsSeeks, TypeOK, Opened
  <1>2. SeekIsAsked'
    BY <1>a, <1>b, <1>c DEF SeekIsAsked
  <1>3. RequestIsShared'
    BY DEF SetOutputTime, ClearsSeeks, RequestIsShared, TypeOK
  <1>4. PlaceIsShown'
    BY DEF SetOutputTime, ClearsSeeks, PlaceIsShown, AfterWritten, Running,
           TypeOK
  <1>5. OutputIsUpToPlace'
    <2>1. SeekUnderWay'
      BY <1>a, <1>b DEF SeekUnderWay
    <2> QED  BY <2>1 DEF OutputIsUpToPlace
  <1>6. DoneIsTheEnd'
    BY DEF SetOutputTime, ClearsSeeks, DoneIsTheEnd, Running
  <1>7. SongIsHeardOut'
    BY DEF SetOutputTime, ClearsSeeks, SongIsHeardOut, TypeOK
  <1> QED  BY <1>1, <1>2, <1>3, <1>4, <1>5, <1>6, <1>7

\* The request to stop.
LEMMA StopKeepsInv ==
    ASSUME PlayerInv, Stop
    PROVE  PlayerInv'
  <1> USE DEF PlayerInv
  <1>1. TypeOK'
    BY DEF Stop, TypeOK, Opened
  <1>2. SeekIsAsked'
    BY DEF Stop, SeekIsAsked, TypeOK
  <1>3. RequestIsShared'
    BY DEF Stop, RequestIsShared, TypeOK
  <1>4. PlaceIsShown'
    BY DEF Stop, PlaceIsShown, AfterWritten, Running, TypeOK
  <1>5. OutputIsUpToPlace'
    BY DEF Stop, OutputIsUpToPlace, AfterWritten, SeekUnderWay, Running,
           TypeOK
  <1>6. DoneIsTheEnd'
    BY DEF Stop, DoneIsTheEnd, Running, TypeOK
  <1>7. SongIsHeardOut'
    BY DEF Stop, SongIsHeardOut, TypeOK
  <1> QED  BY <1>1, <1>2, <1>3, <1>4, <1>5, <1>6, <1>7

\* The end of a song that was stopped, or had ended.
LEMMA StoppedKeepsInv ==
    ASSUME PlayerInv, Stopped
    PROVE  PlayerInv'
  <1> USE DEF PlayerInv
  <1>1. TypeOK'
    <2>1. vgmstream' = NoStream /\ stopping' = FALSE /\ pc' \in {"none", "returned"}
      BY DEF Stopped, Close, ThreadGone, Running
    <2>2. out'.buffered = <<>> /\ out' \in [buffered : Seq(Nat), paused : BOOLEAN]
      BY DEF Stopped, Close, NoOutput
    <2>3. ~Opened' /\ ~Running' /\ pc' \in Lines
      BY <2>1 DEF Opened, Running, Lines
    <2> QED  BY <2>1, <2>2, <2>3 DEF Stopped, Close, TypeOK
  <1>2. SeekIsAsked'
    BY DEF Stopped, Close, ThreadGone, SeekIsAsked
  <1>3. RequestIsShared'
    <2>1. pc \in {"none", "returned"} /\ pc' = pc
      BY DEF Stopped, ThreadGone, Running
    <2> QED  BY <2>1 DEF Stopped, Close, RequestIsShared
  <1>4. PlaceIsShown'
    BY DEF Stopped, ThreadGone, PlaceIsShown, Running
  <1>5. OutputIsUpToPlace'
    BY DEF Stopped, ThreadGone, OutputIsUpToPlace, Running
  <1>6. DoneIsTheEnd'
    BY DEF Stopped, Close, ThreadGone, DoneIsTheEnd, Running
  <1>7. SongIsHeardOut'
    <2>1. state.decode_abort /\ state' = state
      BY DEF Stopped, Close, DoneIsTheEnd
    <2> QED  BY <2>1 DEF SongIsHeardOut
  <1> QED  BY <1>1, <1>2, <1>3, <1>4, <1>5, <1>6, <1>7

\* The end of a thread that is terminated.
LEMMA StopTimesOutKeepsInv ==
    ASSUME PlayerInv, StopTimesOut
    PROVE  PlayerInv'
  <1> USE DEF PlayerInv
  <1>1. TypeOK'
    <2>1. vgmstream' = NoStream /\ stopping' = FALSE /\ pc' \in {"none", "returned"}
      BY DEF StopTimesOut, Close
    <2>2. out'.buffered = <<>> /\ out' \in [buffered : Seq(Nat), paused : BOOLEAN]
      BY DEF StopTimesOut, Close, NoOutput
    <2>3. ~Opened' /\ ~Running' /\ pc' \in Lines
      BY <2>1 DEF Opened, Running, Lines
    <2> QED  BY <2>1, <2>2, <2>3 DEF StopTimesOut, Close, TypeOK
  <1>2. SeekIsAsked'
    BY DEF StopTimesOut, SeekIsAsked
  <1>3. RequestIsShared'
    BY DEF StopTimesOut, Close, RequestIsShared
  <1>4. PlaceIsShown'
    BY DEF StopTimesOut, PlaceIsShown, Running
  <1>5. OutputIsUpToPlace'
    BY DEF StopTimesOut, OutputIsUpToPlace, Running
  <1>6. DoneIsTheEnd'
    BY DEF StopTimesOut, Close, DoneIsTheEnd, Running
  <1>7. SongIsHeardOut'
    BY DEF StopTimesOut, SongIsHeardOut
  <1> QED  BY <1>1, <1>2, <1>3, <1>4, <1>5, <1>6, <1>7

\* The output loses its first buffer, the others keep their places.
LEMMA OutputPlaysKeepsInv ==
    ASSUME PlayerInv, OutputPlays
    PROVE  PlayerInv'
  <1> USE DEF PlayerInv
  <1>a. out \in [buffered : Seq(Nat), paused : BOOLEAN] /\ out.buffered # <<>>
    BY DEF OutputPlays, IsPlaying, TypeOK
  <1>b. Tail(out.buffered) \in Seq(Nat)
    BY <1>a, PlayedPlaces
  <1>c. out' = [out EXCEPT !.buffered = Tail(out.buffered)]
    BY DEF OutputPlays
  <1>d. out'.buffered = Tail(out.buffered)
    BY <1>a, <1>c
  <1>e. out' \in [buffered : Seq(Nat), paused : BOOLEAN]
    BY <1>a, <1>b, <1>c
  <1>1. TypeOK'
    BY <1>e DEF OutputPlays, winamp, TypeOK, Opened, Running
  <1>2. SeekIsAsked'
    BY DEF OutputPlays, SeekIsAsked
  <1>3. RequestIsShared'
    BY DEF OutputPlays, RequestIsShared
  <1>4. PlaceIsShown'
    BY DEF OutputPlays, PlaceIsShown, AfterWritten, Running
  <1>5. OutputIsUpToPlace'
    <2>1. UNCHANGED <<state, pc, mishaps>>
      BY DEF OutputPlays
    <2>2. AfterWritten \in Nat /\ AfterWritten' = AfterWritten
      BY <2>1 DEF AfterWritten, TypeOK
    <2>3. PlacesUpTo(out.buffered, AfterWritten)
            => PlacesUpTo(Tail(out.buffered), AfterWritten)
      BY <1>a, <2>2, PlayedPlaces
    <2> QED  BY <1>d, <2>1, <2>2, <2>3
             DEF OutputIsUpToPlace, Running, SeekUnderWay
  <1>6. DoneIsTheEnd'
    BY DEF OutputPlays, winamp, DoneIsTheEnd, Running
  <1>7. SongIsHeardOut'
    BY DEF OutputPlays, IsPlaying, SongIsHeardOut
  <1> QED  BY <1>1, <1>2, <1>3, <1>4, <1>5, <1>6, <1>7

\* Steps of the thread that only look at shared fields.
LEMMA LookKeepsInv ==
    ASSUME PlayerInv,
           Loop \/ CheckDone \/ CheckSeek \/ CheckPast \/ CheckWrite
    PROVE  PlayerInv'
  <1> USE DEF PlayerInv
  <1>1. TypeOK'
    BY DEF Loop, CheckDone, CheckSeek, CheckPast, CheckWrite, Goes, winamp,
           WhenFull, TypeOK, Lines, Opened, Running
  <1>2. SeekIsAsked'
    BY DEF Loop, CheckDone, CheckSeek, CheckPast, CheckWrite, Goes, WhenFull,
           SeekIsAsked
  <1>3. RequestIsShared'
    BY DEF Loop, CheckDone, CheckSeek, CheckPast, CheckWrite, Goes, WhenFull,
           RequestIsShared
  <1>4. PlaceIsShown'
    BY DEF Loop, CheckDone, CheckSeek, CheckPast, CheckWrite, Goes, WhenFull,
           PlaceIsShown, AfterWritten, Running
  <1>5. OutputIsUpToPlace'
    BY DEF Loop, CheckDone, CheckSeek, CheckPast, CheckWrite, Goes, WhenFull,
           OutputIsUpToPlace, AfterWritten, SeekUnderWay, Running
  <1>6. DoneIsTheEnd'
    <2>0. UNCHANGED <<vgmstream, mishaps, stopping, state>>
      BY DEF Loop, CheckDone, CheckSeek, CheckPast, CheckWrite, winamp
    <2>1. Running
      BY DEF Loop, CheckDone, CheckSeek, CheckPast, CheckWrite, Goes, Running
    <2>2. pc' = "playing?" => vgmstream.done
      BY DEF Loop, CheckDone, CheckSeek, CheckPast, CheckWrite, Goes, WhenFull
    <2> QED  BY <2>0, <2>1, <2>2 DEF DoneIsTheEnd
  <1>7. SongIsHeardOut'
    BY DEF Loop, CheckDone, CheckSeek, CheckPast, CheckWrite, Goes, WhenFull,
           SongIsHeardOut
  <1> QED  BY <1>1, <1>2, <1>3, <1>4, <1>5, <1>6, <1>7

\* The end of a song that is done and heard.
LEMMA CheckPlayingKeepsInv ==
    ASSUME PlayerInv, CheckPlaying
    PROVE  PlayerInv'
  <1> USE DEF PlayerInv
  <1>1. TypeOK'
    BY DEF CheckPlaying, Goes, winamp, AfterPlaying, TypeOK, Lines, Opened,
           Running
  <1>2. SeekIsAsked'
    BY DEF CheckPlaying, Goes, AfterPlaying, SeekIsAsked
  <1>3. RequestIsShared'
    BY DEF CheckPlaying, Goes, AfterPlaying, RequestIsShared
  <1>4. PlaceIsShown'
    BY DEF CheckPlaying, Goes, AfterPlaying, PlaceIsShown, AfterWritten,
           Running
  <1>5. OutputIsUpToPlace'
    BY DEF CheckPlaying, Goes, AfterPlaying, OutputIsUpToPlace, AfterWritten,
           SeekUnderWay, Running
  <1>6. DoneIsTheEnd'
    BY DEF CheckPlaying, Goes, winamp, AfterPlaying, DoneIsTheEnd, Running
  <1>7. SongIsHeardOut'
    <2> SUFFICES ASSUME pc' = "returned"
                 PROVE  /\ out.buffered = <<>>
                        /\ \/ vgmstream.place = vgmstream.play_samples
                           \/ "sought when done" \in mishaps
      BY DEF SongIsHeardOut, CheckPlaying
    <2>1. pc = "playing?" /\ out.buffered = <<>>
      BY DEF CheckPlaying, Goes, AfterPlaying, IsPlaying
    <2>2. Opened /\ Running
      BY <2>1 DEF TypeOK, Running
    <2>3. vgmstream.done
      BY <2>1 DEF DoneIsTheEnd
    <2>4. "sought when done" \notin mishaps =>
            vgmstream.decode_done /\ vgmstream.unread = 0
      BY <2>2, <2>3 DEF DoneIsTheEnd
    <2>5. "sought when done" \notin mishaps =>
            vgmstream.place + vgmstream.unread = vgmstream.play_samples
      BY <2>2, <2>4 DEF DoneIsTheEnd
    <2>6. vgmstream.place \in Nat
      <3>1. vgmstream \in Stream
        BY <2>2 DEF TypeOK
      <3> QED  BY <3>1 DEF Stream
    <2>7. CASE "sought when done" \notin mishaps
      <3>1. vgmstream.unread = 0
        BY <2>4, <2>7
      <3>2. vgmstream.place + vgmstream.unread = vgmstream.play_samples
        BY <2>5, <2>7
      <3>3. vgmstream.place + 0 = vgmstream.play_samples
        BY <3>1, <3>2
      <3>4. vgmstream.place = vgmstream.play_samples
        BY <2>6, <3>3
      <3> QED  BY <2>1, <3>4
    <2> QED  BY <2>1, <2>7
  <1> QED  BY <1>1, <1>2, <1>3, <1>4, <1>5, <1>6, <1>7

\* The request is read.
LEMMA ReadSeekKeepsInv ==
    ASSUME PlayerInv, ReadSeek
    PROVE  PlayerInv'
  <1> USE DEF PlayerInv
  <1>1. TypeOK'
    BY DEF ReadSeek, Goes, winamp, TypeOK, Lines, Opened, Running
  <1>2. SeekIsAsked'
    BY DEF ReadSeek, Goes, SeekIsAsked
  <1>3. RequestIsShared'
    BY DEF ReadSeek, Goes, RequestIsShared
  <1>4. PlaceIsShown'
    BY DEF ReadSeek, Goes, PlaceIsShown, AfterWritten, Running
  <1>5. OutputIsUpToPlace'
    BY DEF ReadSeek, Goes, OutputIsUpToPlace, AfterWritten, SeekUnderWay,
           Running
  <1>6. DoneIsTheEnd'
    BY DEF ReadSeek, Goes, winamp, DoneIsTheEnd, Running
  <1>7. SongIsHeardOut'
    BY DEF ReadSeek, Goes, SongIsHeardOut
  <1> QED  BY <1>1, <1>2, <1>3, <1>4, <1>5, <1>6, <1>7

\* A request past the end is dropped.
LEMMA ClearPastKeepsInv ==
    ASSUME PlayerInv, ClearPast
    PROVE  PlayerInv'
  <1> USE DEF PlayerInv
  <1>1. TypeOK'
    BY DEF ClearPast, Goes, winamp, TypeOK, Lines, Opened, Running, Stream
  <1>2. SeekIsAsked'
    BY DEF ClearPast, Goes, SeekIsAsked
  <1>3. RequestIsShared'
    BY DEF ClearPast, Goes, RequestIsShared
  <1>4. PlaceIsShown'
    BY DEF ClearPast, PlaceIsShown
  <1>5. OutputIsUpToPlace'
    BY DEF ClearPast, OutputIsUpToPlace
  <1>6. DoneIsTheEnd'
    BY DEF ClearPast, Goes, winamp, DoneIsTheEnd, Running, TypeOK
  <1>7. SongIsHeardOut'
    BY DEF ClearPast, Goes, SongIsHeardOut
  <1> QED  BY <1>1, <1>2, <1>3, <1>4, <1>5, <1>6, <1>7

\* A stream with other values in some fields.
LEMMA ChangedStream ==
    ASSUME NEW v \in Stream, NEW place \in Nat, NEW unread \in Nat,
           NEW done \in BOOLEAN
    PROVE  [v EXCEPT !.place = place, !.unread = unread, !.done = done]
              \in Stream
  BY DEF Stream

\* The library seeks: what the output has is from before.
LEMMA SeekStreamKeepsInv ==
    ASSUME PlayerInv, SeekStream
    PROVE  PlayerInv'
  <1> USE DEF PlayerInv
  <1>a. seek_sample \in Nat
    <2>1. seek_sample \in Nat \cup {-1}
      BY DEF TypeOK
    <2>2. seek_sample >= 0
      BY DEF SeekStream, Goes, SeekIsAsked
    <2> QED  BY <2>1, <2>2
  <1>1. TypeOK'
    <2>1. state' \in [decode_abort : BOOLEAN, seek_sample : Nat \cup {-1},
                      decode_pos : Nat]
      <3>1. state \in [decode_abort : BOOLEAN, seek_sample : Nat \cup {-1},
                        decode_pos : Nat]
        BY DEF TypeOK
      <3>2. state' = [state EXCEPT !.decode_pos = seek_sample]
        BY DEF SeekStream
      <3> QED  BY <1>a, <3>1, <3>2
    <2>2. /\ vgmstream \in Stream /\ vgmstream' = Sought(vgmstream, seek_sample)
          /\ pc' = "same?"
      BY DEF SeekStream, Goes, TypeOK, Running
    <2> DEFINE sample == SmallerOf(seek_sample, vgmstream.play_samples)
    <2>3. sample \in Nat /\ sample <= vgmstream.play_samples
      BY <1>a, <2>2 DEF SmallerOf, Stream
    <2>4. vgmstream' = [vgmstream EXCEPT !.place = sample, !.unread = 0,
                                         !.done = vgmstream.decode_done]
      BY <2>2 DEF Sought
    <2> HIDE DEF sample
    <2>5. /\ vgmstream' \in Stream
          /\ vgmstream'.place + vgmstream'.unread <= vgmstream'.play_samples
      <3>1. vgmstream.decode_done \in BOOLEAN
        BY <2>2 DEF Stream
      <3>2. vgmstream' \in Stream
        <4>1. [vgmstream EXCEPT !.place = sample, !.unread = 0,
                                !.done = vgmstream.decode_done] \in Stream
          BY <2>2, <2>3, <3>1, ChangedStream
        <4> QED  BY <2>4, <4>1
      <3>3. /\ vgmstream'.place = sample /\ vgmstream'.unread = 0
            /\ vgmstream'.play_samples = vgmstream.play_samples
        BY <2>2, <2>4
      <3> QED  BY <2>3, <3>2, <3>3
    <2>6. Opened' /\ pc' \in Lines
      BY <2>2, <2>5 DEF Opened, NoStream, Stream, Lines
    <2> QED  BY <2>1, <2>5, <2>6 DEF SeekStream, winamp, TypeOK
  <1>2. SeekIsAsked'
    BY DEF SeekStream, Goes, Sought, SmallerOf, SeekIsAsked
  <1>3. RequestIsShared'
    BY DEF SeekStream, Goes, Sought, SmallerOf, RequestIsShared, TypeOK
  <1>4. PlaceIsShown'
    BY DEF SeekStream, Goes, Sought, SmallerOf, PlaceIsShown, AfterWritten,
           Running, TypeOK, Stream
  <1>5. OutputIsUpToPlace'
    BY DEF SeekStream, Goes, Sought, SmallerOf, OutputIsUpToPlace,
           SeekUnderWay
  <1>6. DoneIsTheEnd'
    BY DEF SeekStream, Goes, winamp, Sought, SmallerOf, DoneIsTheEnd, Running,
           TypeOK, Stream
  <1>7. SongIsHeardOut'
    BY DEF SeekStream, Goes, Sought, SmallerOf, SongIsHeardOut
  <1> QED  BY <1>1, <1>2, <1>3, <1>4, <1>5, <1>6, <1>7

\* A request that was served.
LEMMA CompareSeekKeepsInv ==
    ASSUME PlayerInv, CompareSeek
    PROVE  PlayerInv'
  <1> USE DEF PlayerInv
  <1>1. TypeOK'
    BY DEF CompareSeek, Goes, winamp, SameSeek, TypeOK, Lines, Opened, Running
  <1>2. SeekIsAsked'
    BY DEF CompareSeek, Goes, SameSeek, SeekIsAsked
  <1>3. RequestIsShared'
    BY DEF CompareSeek, Goes, SameSeek, RequestIsShared
  <1>4. PlaceIsShown'
    BY DEF CompareSeek, Goes, SameSeek, PlaceIsShown, AfterWritten, Running
  <1>5. OutputIsUpToPlace'
    BY DEF CompareSeek, Goes, SameSeek, OutputIsUpToPlace, SeekUnderWay
  <1>6. DoneIsTheEnd'
    BY DEF CompareSeek, Goes, winamp, SameSeek, DoneIsTheEnd, Running
  <1>7. SongIsHeardOut'
    BY DEF CompareSeek, Goes, SameSeek, SongIsHeardOut
  <1> QED  BY <1>1, <1>2, <1>3, <1>4, <1>5, <1>6, <1>7

\* It is taken away.
LEMMA ClearSeekKeepsInv ==
    ASSUME PlayerInv, ClearSeek
    PROVE  PlayerInv'
  <1> USE DEF PlayerInv
  <1>1. TypeOK'
    BY DEF ClearSeek, Goes, winamp, TypeOK, Lines, Opened, Running
  <1>2. SeekIsAsked'
    BY DEF ClearSeek, Goes, SeekIsAsked
  <1>3. RequestIsShared'
    BY DEF ClearSeek, Goes, RequestIsShared
  <1>4. PlaceIsShown'
    BY DEF ClearSeek, Goes, PlaceIsShown, AfterWritten, Running, TypeOK
  <1>5. OutputIsUpToPlace'
    BY DEF ClearSeek, Goes, OutputIsUpToPlace, SeekUnderWay
  <1>6. DoneIsTheEnd'
    BY DEF ClearSeek, Goes, winamp, DoneIsTheEnd, Running, TypeOK
  <1>7. SongIsHeardOut'
    BY DEF ClearSeek, Goes, SongIsHeardOut
  <1> QED  BY <1>1, <1>2, <1>3, <1>4, <1>5, <1>6, <1>7

\* The output is emptied, or the next seek is under way.
LEMMA FlushKeepsInv ==
    ASSUME PlayerInv, Flush
    PROVE  PlayerInv'
  <1> USE DEF PlayerInv
  <1>1. TypeOK'
    <2>1. out' \in [buffered : Seq(Nat), paused : BOOLEAN]
      <3>1. out \in [buffered : Seq(Nat), paused : BOOLEAN]
        BY DEF TypeOK
      <3>2. Flushed \in Seq(Nat) /\ out' = [out EXCEPT !.buffered = Flushed]
        BY <3>1 DEF Flush, Flushed
      <3> QED  BY <3>1, <3>2
    <2>2. pc' \in Lines /\ Running
      BY DEF Flush, Goes, Lines, Running
    <2> QED  BY <2>1, <2>2 DEF Flush, winamp, TypeOK, Opened
  <1>2. SeekIsAsked'
    BY DEF Flush, Goes, Flushed, SeekIsAsked
  <1>3. RequestIsShared'
    BY DEF Flush, Goes, Flushed, RequestIsShared
  <1>4. PlaceIsShown'
    BY DEF Flush, Goes, Flushed, PlaceIsShown, AfterWritten, Running
  <1>5. OutputIsUpToPlace'
    <2>1. CASE state.seek_sample < 0
      <3>1. out'.buffered = <<>>
        BY <2>1 DEF Flush, Flushed
      <3>2. PlacesUpTo(<<>>, AfterWritten')
        BY DEF PlacesUpTo
      <3> QED  BY <3>1, <3>2 DEF OutputIsUpToPlace
    <2>2. CASE ~(state.seek_sample < 0)
      <3>1. SeekUnderWay'
        BY <2>2 DEF Flush, SeekUnderWay, TypeOK
      <3> QED  BY <3>1 DEF OutputIsUpToPlace
    <2> QED  BY <2>1, <2>2
  <1>6. DoneIsTheEnd'
    BY DEF Flush, Goes, winamp, Flushed, DoneIsTheEnd, Running
  <1>7. SongIsHeardOut'
    BY DEF Flush, Goes, Flushed, SongIsHeardOut
  <1> QED  BY <1>1, <1>2, <1>3, <1>4, <1>5, <1>6, <1>7

\* What libvgmstream_fill leaves: at most one more place handed out, and no more
\* places lost or found.
LEMMA FilledStream ==
    ASSUME NEW v \in Stream, v.place + v.unread <= v.play_samples
    PROVE  /\ Filled(v) \in Stream
           /\ Filled(v).play_samples = v.play_samples
           /\ Filled(v).place + Filled(v).unread <= v.play_samples
           /\ \/ Filled(v).place = v.place
              \/ /\ Filled(v).place = v.place + 1
                 /\ v.place # v.play_samples
           /\ Filled(v).done => Filled(v).decode_done /\ Filled(v).unread = 0
           /\ Filled(v).decode_done =>
                \/ v.decode_done /\ Filled(v).place + Filled(v).unread
                                      = v.place + v.unread
                \/ Filled(v).place + Filled(v).unread = v.play_samples
  <1> DEFINE r == Rendered(v)
  <1> USE SizesAssumption
  <1>1. /\ r \in Stream /\ r.play_samples = v.play_samples /\ r.place = v.place
        /\ r.place + r.unread <= v.play_samples
        /\ r.decode_done => \/ v.decode_done /\ r.unread = v.unread
                            \/ r.place + r.unread = v.play_samples
    <2>1. CASE v.unread > 0 \/ v.decode_done
      BY <2>1 DEF Rendered
    <2>2. CASE ~(v.unread > 0 \/ v.decode_done)
      <3> DEFINE n == SmallerOf(INTERNAL_BUF_SAMPLES, v.play_samples - v.place)
      <3>1. /\ n \in Nat /\ v.place + n <= v.play_samples
            /\ v.place + n >= v.play_samples => v.place + n = v.play_samples
        BY DEF SmallerOf, Stream
      <3>2. r = [v EXCEPT !.unread = n,
                          !.decode_done = (v.place + n >= v.play_samples)]
        BY <2>2 DEF Rendered
      <3> HIDE DEF r, n
      <3>3. (v.place + n >= v.play_samples) \in BOOLEAN
        OBVIOUS
      <3>4. r \in Stream
        BY <3>1, <3>2, <3>3 DEF Stream
      <3>5. /\ r.play_samples = v.play_samples /\ r.place = v.place
            /\ r.unread = n /\ r.decode_done = (v.place + n >= v.play_samples)
        BY <3>2
      <3> QED  BY <3>1, <3>4, <3>5
    <2> QED  BY <2>1, <2>2
  <1> DEFINE copied == SmallerOf(1, r.unread)
  <1>2. copied \in {0, 1} /\ copied <= r.unread
    BY <1>1 DEF SmallerOf, Stream
  <1>3. Filled(v) = [r EXCEPT !.place = @ + copied, !.unread = @ - copied,
                              !.done = r.decode_done /\ r.unread = copied]
    BY DEF Filled
  <1> HIDE DEF r, copied
  <1> DEFINE f == Filled(v)
  <1> HIDE DEF f
  <1>4. (r.decode_done /\ r.unread = copied) \in BOOLEAN
    OBVIOUS
  <1>5. r.place + copied \in Nat /\ r.unread - copied \in Nat
    BY <1>1, <1>2 DEF Stream
  <1>6. f = [r EXCEPT !.place = r.place + copied, !.unread = r.unread - copied,
                      !.done = (r.decode_done /\ r.unread = copied)]
    BY <1>3 DEF f
  <1>7. f \in Stream
    BY <1>1, <1>4, <1>5, <1>6 DEF Stream
  <1>8. /\ f.play_samples = r.play_samples /\ f.place = r.place + copied
        /\ f.unread = r.unread - copied /\ f.decode_done = r.decode_done
        /\ f.done = (r.decode_done /\ r.unread = copied)
    BY <1>1, <1>6
  <1>9. f.place + f.unread = r.place + r.unread
    BY <1>1, <1>2, <1>8 DEF Stream
  <1>10. \/ f.place = v.place
         \/ f.place = v.place + 1 /\ v.place # v.play_samples
    <2>1. /\ r.place \in Nat /\ r.unread \in Nat /\ v.play_samples \in Nat
          /\ v.place \in Nat
      BY <1>1 DEF Stream
    <2>2. CASE copied = 0
      BY <1>1, <1>8, <2>1, <2>2
    <2>3. CASE copied = 1
      <3>1. v.place # v.play_samples
        BY <1>1, <1>2, <2>1, <2>3
      <3> QED  BY <1>1, <1>8, <2>3, <3>1
    <2> QED  BY <1>2, <2>2, <2>3
  <1>11. f.done => f.decode_done /\ f.unread = 0
    <2>1. f.done => r.decode_done /\ r.unread = copied
      BY <1>8
    <2>2. r.unread = copied => f.unread = 0
      BY <1>2, <1>8
    <2> QED  BY <1>8, <2>1, <2>2
  <1>12. f.decode_done =>
           \/ v.decode_done /\ f.place + f.unread = v.place + v.unread
           \/ f.place + f.unread = v.play_samples
    BY <1>1, <1>8, <1>9
  <1> QED  BY <1>1, <1>7, <1>8, <1>9, <1>10, <1>11, <1>12 DEF f

\* A buffer is handed out, if there is one, and written.
LEMMA FillAndWriteKeepsInv ==
    ASSUME PlayerInv, FillAndWrite
    PROVE  PlayerInv'
  <1> USE DEF PlayerInv
  <1>a. /\ pc = "fill" /\ Running /\ Opened
        /\ vgmstream \in Stream
        /\ vgmstream.place + vgmstream.unread <= vgmstream.play_samples
        /\ vgmstream' = Filled(vgmstream)
        /\ UNCHANGED <<state, seek_sample, stopping, asked, mishaps>>
    BY DEF FillAndWrite, Goes, winamp, TypeOK, Running
  <1>b. /\ vgmstream' \in Stream
        /\ vgmstream'.play_samples = vgmstream.play_samples
        /\ vgmstream'.place + vgmstream'.unread <= vgmstream'.play_samples
        /\ \/ vgmstream'.place = vgmstream.place
           \/ /\ vgmstream'.place = vgmstream.place + 1
              /\ vgmstream.place # vgmstream.play_samples
        /\ vgmstream'.done => vgmstream'.decode_done /\ vgmstream'.unread = 0
        /\ vgmstream'.decode_done =>
             \/ /\ vgmstream.decode_done
                /\ vgmstream'.place + vgmstream'.unread
                     = vgmstream.place + vgmstream.unread
             \/ vgmstream'.place + vgmstream'.unread = vgmstream'.play_samples
    BY <1>a, FilledStream
  <1> DEFINE written == vgmstream'.place > vgmstream.place
  <1>c. ASSUME written
        PROVE  /\ pc' = "count"
               /\ out' = [out EXCEPT !.buffered = Append(@, vgmstream.place)]
               /\ vgmstream'.place = vgmstream.place + 1
               /\ vgmstream.place # vgmstream.play_samples
    BY <1>a, <1>b, <1>c DEF FillAndWrite, Goes, Stream
  <1>d. ASSUME ~written
        PROVE  pc' = "loop" /\ out' = out /\ vgmstream'.place = vgmstream.place
    BY <1>a, <1>b, <1>d DEF FillAndWrite, Goes, Stream
  <1> HIDE DEF written
  <1>e. vgmstream.place \in Nat /\ vgmstream.play_samples \in Nat
    BY <1>a DEF Stream
  <1>f. /\ out \in [buffered : Seq(Nat), paused : BOOLEAN]
        /\ state.decode_pos \in Nat
    BY DEF TypeOK
  <1>1. TypeOK'
    <2>1. CASE written
      <3>1. Append(out.buffered, vgmstream.place) \in Seq(Nat)
        BY <1>e, <1>f, WrittenPlaces
      <3>2. out' \in [buffered : Seq(Nat), paused : BOOLEAN]
        BY <1>c, <1>f, <2>1, <3>1
      <3>3. pc' \in Lines
        BY <1>c, <2>1 DEF Lines
      <3>4. Opened'
        BY <1>b DEF Opened, NoStream, Stream
      <3> QED  BY <1>a, <1>b, <3>2, <3>3, <3>4 DEF TypeOK
    <2>2. CASE ~written
      <3>1. pc' \in Lines /\ out' = out
        BY <1>d, <2>2 DEF Lines
      <3>2. Opened'
        BY <1>b DEF Opened, NoStream, Stream
      <3> QED  BY <1>a, <1>b, <3>1, <3>2 DEF TypeOK
    <2> QED  BY <2>1, <2>2
  <1>2. SeekIsAsked' /\ RequestIsShared' /\ SongIsHeardOut'
    <2>1. pc' \in {"count", "loop"}
      BY <1>c, <1>d
    <2> QED  BY <1>a, <2>1 DEF SeekIsAsked, RequestIsShared, SongIsHeardOut
  <1>3. ASSUME "sought past the end" \notin mishaps
        PROVE  \/ vgmstream.place = state.decode_pos
               \/ vgmstream.place = vgmstream.play_samples
    BY <1>a, <1>3 DEF PlaceIsShown, AfterWritten
  <1>4. PlaceIsShown'
    <2> SUFFICES ASSUME "sought past the end" \notin mishaps
                 PROVE  \/ vgmstream'.place = AfterWritten'
                        \/ /\ pc' # "count"
                           /\ vgmstream'.place = vgmstream'.play_samples
      BY <1>a DEF PlaceIsShown
    <2>1. CASE written
      <3>1. vgmstream.place = state.decode_pos
        <4>1. vgmstream.place # vgmstream.play_samples
          BY <1>c, <2>1
        <4> QED  BY <1>3, <4>1
      <3> QED  BY <1>a, <1>c, <2>1, <3>1 DEF AfterWritten
    <2>2. CASE ~written
      <3>1. pc' = "loop" /\ AfterWritten' = state.decode_pos
        BY <1>a, <1>d, <2>2 DEF AfterWritten
      <3> QED  BY <1>b, <1>d, <1>3, <2>2, <3>1
    <2> QED  BY <2>1, <2>2
  <1>5. OutputIsUpToPlace'
    <2> SUFFICES ASSUME "sought past the end" \notin mishaps, ~SeekUnderWay'
                 PROVE  PlacesUpTo(out'.buffered, AfterWritten')
      BY <1>a DEF OutputIsUpToPlace
    <2>1. ~SeekUnderWay
      BY <1>a DEF SeekUnderWay
    <2>2. AfterWritten = state.decode_pos
      BY <1>a DEF AfterWritten
    <2>3. PlacesUpTo(out.buffered, state.decode_pos)
      BY <1>a, <2>1, <2>2 DEF OutputIsUpToPlace
    <2>4. CASE written
      <3>1. vgmstream.place = state.decode_pos
        <4>1. vgmstream.place # vgmstream.play_samples
          BY <1>c, <2>4
        <4> QED  BY <1>3, <4>1
      <3>2. AfterWritten' = state.decode_pos + 1
        BY <1>a, <1>c, <2>4 DEF AfterWritten
      <3>3. out'.buffered = Append(out.buffered, state.decode_pos)
        BY <1>c, <1>f, <2>4, <3>1
      <3> QED  BY <1>f, <2>3, <3>2, <3>3, WrittenPlaces
    <2>5. CASE ~written
      <3>1. AfterWritten' = state.decode_pos
        BY <1>a, <1>d, <2>5 DEF AfterWritten
      <3> QED  BY <1>d, <2>3, <2>5, <3>1
    <2> QED  BY <2>4, <2>5
  <1>6. DoneIsTheEnd'
    <2>1. pc' # "playing?"
      BY <1>c, <1>d
    <2> QED  BY <1>a, <1>b, <2>1 DEF DoneIsTheEnd
  <1> QED  BY <1>1, <1>2, <1>4, <1>5, <1>6

\* And counted.
LEMMA CountWrittenKeepsInv ==
    ASSUME PlayerInv, CountWritten
    PROVE  PlayerInv'
  <1> USE DEF PlayerInv
  <1>1. TypeOK'
    BY DEF CountWritten, Goes, winamp, TypeOK, Lines, Opened, Running, NoSeek,
           Stream
  <1>2. SeekIsAsked'
    BY DEF CountWritten, Goes, SeekIsAsked
  <1>3. RequestIsShared'
    BY DEF CountWritten, Goes, RequestIsShared, TypeOK
  <1>4. PlaceIsShown'
    BY DEF CountWritten, Goes, PlaceIsShown, AfterWritten, Running, TypeOK
  <1>5. OutputIsUpToPlace'
    BY DEF CountWritten, Goes, OutputIsUpToPlace, AfterWritten, SeekUnderWay,
           Running, TypeOK
  <1>6. DoneIsTheEnd'
    BY DEF CountWritten, Goes, winamp, DoneIsTheEnd, Running, TypeOK
  <1>7. SongIsHeardOut'
    BY DEF CountWritten, Goes, SongIsHeardOut
  <1> QED  BY <1>1, <1>2, <1>3, <1>4, <1>5, <1>6, <1>7

\* Nothing changes.
LEMMA NothingKeepsInv ==
    ASSUME PlayerInv, UNCHANGED vars
    PROVE  PlayerInv'
  <1> USE DEF PlayerInv, vars, winamp
  <1>1. TypeOK'
    BY DEF TypeOK, Running, Opened
  <1>2. SeekIsAsked' /\ RequestIsShared'
    BY DEF SeekIsAsked, RequestIsShared
  <1>3. PlaceIsShown'
    BY DEF PlaceIsShown, AfterWritten, Running
  <1>4. OutputIsUpToPlace'
    BY DEF OutputIsUpToPlace, AfterWritten, SeekUnderWay, Running
  <1>5. DoneIsTheEnd'
    BY DEF DoneIsTheEnd, Running
  <1>6. SongIsHeardOut'
    BY DEF SongIsHeardOut
  <1> QED  BY <1>1, <1>2, <1>3, <1>4, <1>5, <1>6

-----------------------------------------------------------------------------
\* The invariant holds for every song, buffer and seek, and every interleaving.
THEOREM WinampInvariant == Spec => []PlayerInv
  <1>1. PlayerInv /\ [Next]_vars => PlayerInv'
    <2> SUFFICES ASSUME PlayerInv, [Next]_vars PROVE PlayerInv'
      OBVIOUS
    <2>1. CASE \E song \in Songs : Play(song)
      BY <2>1, PlayKeepsInv
    <2>2. CASE \E paused \in BOOLEAN : Pause(paused)
      BY <2>2, PauseKeepsInv
    <2>3. CASE \E t \in Seeks : SetOutputTime(t)
      BY <2>3, SetOutputTimeKeepsInv
    <2>4. CASE Stop
      BY <2>4, StopKeepsInv
    <2>5. CASE Stopped
      BY <2>5, StoppedKeepsInv
    <2>6. CASE StopTimesOut
      BY <2>6, StopTimesOutKeepsInv
    <2>7. CASE Decode
      BY <2>7, LookKeepsInv, CheckPlayingKeepsInv, ReadSeekKeepsInv,
         ClearPastKeepsInv, SeekStreamKeepsInv, CompareSeekKeepsInv,
         ClearSeekKeepsInv, FlushKeepsInv, FillAndWriteKeepsInv,
         CountWrittenKeepsInv DEF Decode
    <2>8. CASE OutputPlays
      BY <2>8, OutputPlaysKeepsInv
    <2>9. CASE UNCHANGED vars
      BY <2>9, NothingKeepsInv
    <2> QED  BY <2>1, <2>2, <2>3, <2>4, <2>5, <2>6, <2>7, <2>8, <2>9 DEF Next
  <1> QED  BY <1>1, InitInv, PTL DEF Spec

\* seek_sample is below zero only when nothing is asked for.
LEMMA NothingAsked ==
    ASSUME NEW x \in Nat \cup {-1}, x < 0
    PROVE  x = -1 /\ ~(x >= 0)
  OBVIOUS

\* The first buffer that the output has.
LEMMA FirstPlace ==
    ASSUME NEW s \in Seq(Nat), s # <<>>, NEW place \in Nat, PlacesUpTo(s, place)
    PROVE  Head(s) = place - Len(s)
  <1>1. 1 \in 1 .. Len(s) /\ Len(s) \in Nat /\ Head(s) = s[1]
    OBVIOUS
  <1>2. s[1] = place - Len(s) + 1 - 1
    BY <1>1 DEF PlacesUpTo
  <1> QED  BY <1>1, <1>2

\* No seek asked for during another one is lost, but in do_seek's two windows
\* between a comparison and the assignment after it.
THEOREM WinampSeeksAreTaken == Spec => []SeeksAreTaken
  <1>1. PlayerInv => SeeksAreTaken
    <2> SUFFICES ASSUME PlayerInv, state.seek_sample < 0,
                        "sought during a clear" \notin mishaps
                 PROVE  asked = NoSeek
      BY DEF SeeksAreTaken
    <2>1. state.seek_sample \in Nat \cup {-1}
      BY DEF PlayerInv, TypeOK
    <2>2. state.seek_sample = NoSeek
      BY <2>1, NothingAsked DEF NoSeek
    <2> QED  BY <2>2 DEF PlayerInv, RequestIsShared
  <1> QED  BY <1>1, WinampInvariant, PTL

\* The position shown is that of the next sample heard.
THEOREM WinampShowsWhatIsHeard == Spec => []ShowsWhatIsHeard
  <1>1. PlayerInv => ShowsWhatIsHeard
    <2> SUFFICES ASSUME PlayerInv, pc = "loop", state.seek_sample < 0, IsPlaying,
                        "sought past the end" \notin mishaps
                 PROVE  GetOutputTime = Head(out.buffered)
      BY DEF ShowsWhatIsHeard
    <2>1. ~(state.seek_sample >= 0)
      <3>1. state.seek_sample \in Nat \cup {-1}
        BY DEF PlayerInv, TypeOK
      <3> QED  BY <3>1, NothingAsked
    <2>2. ~SeekUnderWay /\ Running
      BY <2>1 DEF SeekUnderWay, Running
    <2>3. out.buffered \in Seq(Nat) /\ out.buffered # <<>>
      BY DEF IsPlaying, PlayerInv, TypeOK
    <2>4. AfterWritten = state.decode_pos /\ state.decode_pos \in Nat
      BY DEF AfterWritten, PlayerInv, TypeOK
    <2>5. PlacesUpTo(out.buffered, state.decode_pos)
      BY <2>2, <2>4 DEF PlayerInv, OutputIsUpToPlace
    <2>6. Head(out.buffered) = state.decode_pos - Len(out.buffered)
      BY <2>3, <2>4, <2>5, FirstPlace
    <2>7. GetOutputTime = state.decode_pos - Len(out.buffered)
      BY <2>1 DEF GetOutputTime
    <2> QED  BY <2>6, <2>7
  <1> QED  BY <1>1, WinampInvariant, PTL

\* A song that ends by itself was heard to its end.
THEOREM WinampSongIsHeardOut == Spec => []SongIsHeardOut
  <1>1. PlayerInv => SongIsHeardOut
    BY DEF PlayerInv
  <1> QED  BY <1>1, WinampInvariant, PTL
=============
