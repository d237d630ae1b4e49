----------------------------- MODULE LibApi_proofs -----------------------------
(***************************************************************************)
(* Proofs about the library handle, for songs, configs and buffers of any   *)
(* size and any order of calls.  What clients must not do for a property to *)
(* hold is a hypothesis about Habits.                                       *)
(***************************************************************************)
EXTENDS LibApi, SequenceTheorems, TLAPS

\* Records of the handle.
LEMMA IsBuf ==
    ASSUME NEW b \in BufRecord, NEW n \in Nat
    PROVE  /\ [initialized |-> TRUE, consumed |-> n] \in BufRecord
           /\ [b EXCEPT !.consumed = n] \in BufRecord
  BY DEF BufRecord

\* What the decoder reports is a record of its shape.
LEMMA IsDec ==
    ASSUME NEW n \in Nat, NEW done \in BOOLEAN
    PROVE  [samples |-> n, done |-> done] \in DecRecord
  BY DEF DecRecord

\* The fields of a well-typed handle, and the lengths of what was filled.
LEMMA Fields ==
    ASSUME TypeOK
    PROVE  /\ sbuf.song \in Songs \cup {NoSong}
           /\ sbuf.at \in Nat /\ sbuf.filled \in Nat
           /\ buf.consumed \in Nat /\ buf.initialized \in BOOLEAN
           /\ Unread \in Int
           /\ Len(filled) \in Nat /\ Len(got) \in Nat
  <1>1. sbuf.song \in Songs \cup {NoSong} /\ sbuf.at \in Nat /\ sbuf.filled \in Nat
    BY DEF TypeOK, SbufRecord
  <1>2. buf.consumed \in Nat /\ buf.initialized \in BOOLEAN
    BY DEF TypeOK, BufRecord
  <1>3. Len(filled) \in Nat /\ Len(got) \in Nat
    BY DEF TypeOK
  <1> QED  BY <1>1, <1>2, <1>3 DEF Unread

\* The parts of libvgmstream_render that all its callers see.
LEMMA Rendered ==
    ASSUME HandleOK, Opened, RenderBuffer
    PROVE  /\ setup_done' = TRUE /\ decode_done' \in BOOLEAN
           /\ applied' \in KnownCfgs
           /\ start_head' \in Nat /\ head' \in Nat /\ play_position' \in Nat
           /\ sbuf' \in SbufRecord /\ sbuf'.filled \in Nat
           /\ sbuf'.song = song /\ sbuf'.at = head
           /\ buf' = [initialized |-> TRUE, consumed |-> 0]
           /\ buf' \in BufRecord
           /\ play_position' <= Duration(song, applied')
           /\ play_position'
                = (IF setup_done THEN play_position ELSE 0) + sbuf'.filled
           /\ decode_done' = (play_position' >= Duration(song, applied'))
  <1> DEFINE c == IF setup_done THEN applied ELSE cfg
             position == IF setup_done THEN play_position ELSE 0
             n == Lesser(INTERNAL_BUF_SAMPLES, Duration(song, c) - position)
  <1> USE DEF HandleOK
  <1>1. song \in Songs /\ c \in KnownCfgs
    BY DEF TypeOK, Opened
  <1>2. Duration(song, c) \in 0 .. Length(song) /\ Length(song) \in Nat
    BY <1>1, SongsAssumption
  <1>3. position \in Nat /\ position <= Duration(song, c)
    BY <1>2 DEF TypeOK, PositionInSong
  <1>4. INTERNAL_BUF_SAMPLES \in Nat \ {0}
    BY SizesAssumption
  <1> HIDE DEF c, position
  <1>5. n \in Nat /\ position + n <= Duration(song, c)
    BY <1>2, <1>3, <1>4 DEF Lesser
  <1> HIDE DEF n
  <1>6. /\ applied' = c /\ setup_done' = TRUE
        /\ sbuf' = [song |-> song, at |-> head, filled |-> n]
        /\ buf' = [initialized |-> TRUE, consumed |-> 0]
        /\ start_head' = IF setup_done THEN start_head ELSE head
        /\ head' = Lesser(head + INTERNAL_BUF_SAMPLES, Length(song))
        /\ play_position' = position + n
        /\ decode_done' = (position + n >= Duration(song, c))
    BY DEF RenderBuffer, c, position, n
  <1>7. head' \in Nat
    BY <1>2, <1>4, <1>6 DEF TypeOK, Lesser
  <1>8. start_head' \in Nat
    BY <1>6 DEF TypeOK
  <1>9. sbuf' \in SbufRecord
    BY <1>1, <1>5, <1>6 DEF TypeOK, SbufRecord
  <1>10. position = IF setup_done THEN play_position ELSE 0
    BY DEF position
  <1>12. buf' \in BufRecord
    BY <1>6 DEF BufRecord
  <1>11. decode_done' = (play_position' >= Duration(song, applied'))
    BY <1>6
  <1> QED
    BY <1>1, <1>2, <1>3, <1>5, <1>6, <1>7, <1>8, <1>9, <1>10, <1>11,
       <1>12

\* Samples of a song, one after the other.
LEMMA RunIsSamples ==
    ASSUME NEW s \in Songs \cup {NoSong}, NEW at \in Nat, NEW n \in Nat
    PROVE  /\ Run(s, at, n) \in Seq(Samples)
           /\ Len(Run(s, at, n)) = n
           /\ \A i \in 1 .. n : Run(s, at, n)[i] = Sample(s, at + i - 1)
  <1>1. \A i \in 1 .. n : Sample(s, at + i - 1) \in Samples
    BY DEF Sample, Samples
  <1> QED  BY <1>1 DEF Run
-----------------------------------------------------------------------------
(* What holds whatever clients do *)

\* An empty buffer is a buffer of samples.
LEMMA Empty == <<>> \in Seq(Samples) /\ Len(<<>>) = 0
  OBVIOUS

\* What closing and resetting leave in the handle.
LEMMA Nothing ==
    /\ NoBuf \in BufRecord
    /\ NoDec \in DecRecord
    /\ NoSamples \in SbufRecord
  BY DEF NoBuf, NoDec, NoSamples, BufRecord, DecRecord, SbufRecord

\* libvgmstream_init leaves a well-formed handle.
LEMMA InitHandleOK == Init => HandleOK
  <1> SUFFICES ASSUME Init PROVE HandleOK
    OBVIOUS
  <1>1. TypeOK
    BY Empty, Nothing DEF Init, TypeOK, KnownCfgs
  <1>2. SongOpen /\ PositionInSong
    BY DEF Init, SongOpen, PositionInSong, NoBuf, InCall
  <1> QED  BY <1>1, <1>2 DEF HandleOK

\* libvgmstream_setup keeps the handle well formed, whether it applies the
\* config at once or stores it.
LEMMA SetupKeepsHandleOK ==
    ASSUME HandleOK, NEW c \in KnownCfgs, Setup(c)
    PROVE  HandleOK'
  <1> USE DEF HandleOK
  <1>1. CASE setup_done \/ ~Opened
    BY <1>1 DEF Setup, StoreConfig, handle, stream, TypeOK, SongOpen,
         PositionInSong, InCall, Opened
  <1>2. CASE ~setup_done /\ Opened
    <2>1. /\ song' = song /\ song \in Songs
          /\ applied' = c /\ play_position' = 0
      BY <1>2 DEF Setup, ApplyConfig, TypeOK, Opened
    <2>2. PositionInSong'
      BY <2>1, SongsAssumption DEF PositionInSong
    <2>3. TypeOK'
      <3>1. config_loaded' \in BOOLEAN /\ setup_done' \in BOOLEAN
        BY <1>2 DEF Setup, StoreConfig, ApplyConfig
      <3>2. cfg' = c /\ asked' = c /\ start_head' = head /\ head' = head
        BY <1>2 DEF Setup, StoreConfig, ApplyConfig
      <3> QED  BY <2>1, <3>1, <3>2 DEF Setup, TypeOK
    <2>4. SongOpen'
      BY <1>2 DEF Setup, ApplyConfig, SongOpen, InCall, Opened
    <2> QED  BY <2>2, <2>3, <2>4
  <1> QED  BY <1>1, <1>2

\* libvgmstream_open_stream keeps the handle well formed.
LEMMA OpenKeepsHandleOK ==
    ASSUME HandleOK, NEW s \in Songs, OpenStream(s)
    PROVE  HandleOK'
  <1> USE DEF HandleOK
  <1>1. song' = s /\ s # NoSong
    BY SongsAssumption DEF OpenStream
  <1>2. TypeOK'
    BY <1>1, Empty, Nothing DEF OpenStream, Closed, TypeOK
  <1>3. SongOpen'
    BY <1>1 DEF OpenStream, Closed, SongOpen, NoBuf, InCall, Opened
  <1>4. PositionInSong'
    BY <1>1, <1>2, SongsAssumption DEF OpenStream, PositionInSong, TypeOK
  <1> QED  BY <1>2, <1>3, <1>4

\* libvgmstream_close_stream, and an open that fails, keep it well formed.
LEMMA CloseKeepsHandleOK ==
    ASSUME HandleOK, CloseStream \/ OpenFails
    PROVE  HandleOK'
  <1> USE DEF HandleOK, CloseStream, OpenFails
  <1>1. TypeOK'
    <2>1. Closed /\ song' = NoSong /\ setup_done' = FALSE
      OBVIOUS
    <2>2. UNCHANGED <<cfg, config_loaded, applied, stream, sbuf, fill, filled,
                      mode, asked>>
      OBVIOUS
    <2> QED  BY <2>1, <2>2, Empty, Nothing DEF Closed, TypeOK, stream
  <1>2. SongOpen' /\ PositionInSong'
    BY DEF Closed, SongOpen, PositionInSong, NoBuf, InCall, Opened
  <1> QED  BY <1>1, <1>2

\* libvgmstream_render keeps the handle well formed.
LEMMA RenderKeepsHandleOK ==
    ASSUME HandleOK, Render
    PROVE  HandleOK'
  <1> USE DEF HandleOK
  <1>1. RenderBuffer /\ Opened /\ song \in Songs
    BY DEF Render, TypeOK, Opened
  <1>2. song' = song /\ cfg' = cfg /\ config_loaded' = config_loaded
    BY DEF Render, RenderBuffer
  <1>3. got' \in Seq(Samples)
    <2>1. sbuf'.at \in Nat /\ sbuf'.filled \in Nat
      BY <1>1, Rendered DEF TypeOK
    <2> QED  BY <1>1, <2>1, RunIsSamples DEF Render
  <1>4. dec' \in DecRecord /\ next' \in Nat
    <2>1. sbuf'.filled \in Nat /\ decode_done' \in BOOLEAN
      BY <1>1, Rendered
    <2> QED  BY <2>1, IsDec DEF Render, TypeOK
  <1>8. buf' \in BufRecord
    BY <1>1, Rendered
  <1>9. /\ sbuf' \in SbufRecord
        /\ setup_done' \in BOOLEAN
    BY <1>1, Rendered
  <1>5. TypeOK'
    BY <1>1, <1>2, <1>3, <1>4, <1>8, <1>9, Rendered DEF Render, TypeOK
  <1>6. SongOpen'
    BY <1>1, <1>2, Rendered DEF Render, SongOpen, InCall, Opened
  <1>7. PositionInSong'
    BY <1>1, <1>2, Rendered DEF PositionInSong
  <1> QED  BY <1>5, <1>6, <1>7

\* Entering libvgmstream_fill keeps the handle well formed.
LEMMA FillKeepsHandleOK ==
    ASSUME HandleOK, NEW size \in FillSizes, Fill(size)
    PROVE  HandleOK'
  <1>1. size \in Nat
    BY SizesAssumption
  <1> QED
    BY <1>1 DEF Fill, HandleOK, TypeOK, SongOpen, PositionInSong, InCall,
         Opened, handle, stream

\* A render inside of a fill keeps the handle well formed.
LEMMA FillRenderKeepsHandleOK ==
    ASSUME HandleOK, FillRender
    PROVE  HandleOK'
  <1> USE DEF HandleOK
  <1>1. RenderBuffer /\ Opened
    BY DEF FillRender, SongOpen
  <1>2. song' = song /\ cfg' = cfg /\ config_loaded' = config_loaded
    BY <1>1 DEF RenderBuffer
  <1>3. dec' \in DecRecord
    BY <1>1, Rendered, IsDec DEF FillRender
  <1>7. buf' \in BufRecord
    BY <1>1, Rendered
  <1>8. /\ sbuf' \in SbufRecord
        /\ setup_done' \in BOOLEAN
    BY <1>1, Rendered
  <1>4. TypeOK'
    BY <1>1, <1>2, <1>3, <1>7, <1>8, Rendered DEF FillRender, TypeOK
  <1>5. SongOpen'
    BY <1>1, <1>2, Rendered DEF FillRender, SongOpen, InCall, Opened
  <1>6. PositionInSong'
    BY <1>1, <1>2, Rendered DEF PositionInSong
  <1> QED  BY <1>4, <1>5, <1>6

\* One copy of libvgmstream_fill: from the internal buffer, if it is there.
LEMMA Copied ==
    ASSUME HandleOK, FillCopy
    PROVE  \E n \in Nat :
             /\ n > 0 /\ n <= Unread
             /\ buf' = [buf EXCEPT !.consumed = @ + n]
             /\ filled' \in Seq(Samples)
             /\ Len(filled') = Len(filled) + n
             /\ \A i \in 1 .. Len(filled) : filled'[i] = filled[i]
             /\ buf.initialized =>
                  \A i \in 1 .. n :
                    filled'[Len(filled) + i]
                      = Sample(sbuf.song, sbuf.at + buf.consumed + i - 1)
  <1> DEFINE n == Lesser(Unread, fill - Len(filled))
             from == sbuf.at + buf.consumed
             copied == IF buf.initialized
                       THEN Run(sbuf.song, from, n)
                       ELSE [i \in 1 .. n |-> Garbage]
  <1> USE DEF HandleOK
  <1>1. /\ filled \in Seq(Samples) /\ Len(filled) \in Nat /\ fill \in Nat
        /\ from \in Nat /\ Unread \in Int
        /\ sbuf.song \in Songs \cup {NoSong}
    BY Fields DEF TypeOK
  <1>2. n \in Nat /\ n > 0 /\ n <= Unread
    BY <1>1, Fields DEF FillCopy, Drained, Unread, Lesser
  <1>3. filled' = filled \o copied /\ buf' = [buf EXCEPT !.consumed = @ + n]
    BY DEF FillCopy
  <1> HIDE DEF n, from
  <1>4. Garbage \in Samples
    BY DEF Garbage, Samples
  <1>5. copied \in Seq(Samples) /\ Len(copied) = n
    <2>1. CASE buf.initialized
      BY <1>1, <1>2, <2>1, RunIsSamples
    <2>2. CASE ~buf.initialized
      BY <1>2, <1>4, <2>2
    <2> QED  BY <2>1, <2>2
  <1>6. buf.initialized =>
            \A i \in 1 .. n : copied[i] = Sample(sbuf.song, from + i - 1)
    BY <1>1, <1>2, RunIsSamples
  <1> HIDE DEF copied
  <1>7. /\ filled' \in Seq(Samples) /\ Len(filled') = Len(filled) + n
        /\ \A i \in 1 .. Len(filled) + n :
              filled'[i] = IF i <= Len(filled) THEN filled[i]
                           ELSE copied[i - Len(filled)]
    BY <1>1, <1>3, <1>5, ConcatProperties
  <1>8. \A i \in 1 .. Len(filled) : filled'[i] = filled[i]
    BY <1>1, <1>2, <1>7
  <1>9. \A i \in 1 .. n : filled'[Len(filled) + i] = copied[i]
    <2> TAKE i \in 1 .. n
    <2>1. Len(filled) + i \in 1 .. Len(filled) + n /\ ~(Len(filled) + i <= Len(filled))
      BY <1>1, <1>2
    <2>2. (Len(filled) + i) - Len(filled) = i
      BY <1>1
    <2> QED  BY <1>7, <2>1, <2>2
  <1>10. from = sbuf.at + buf.consumed
    BY DEF from
  <1>11. buf.initialized =>
            \A i \in 1 .. n :
              filled'[Len(filled) + i]
                = Sample(sbuf.song, sbuf.at + buf.consumed + i - 1)
    BY <1>6, <1>9, <1>10
  <1>12. n \in Nat /\ n > 0 /\ n <= Unread
    BY <1>2
  <1>13. /\ buf' = [buf EXCEPT !.consumed = @ + n]
         /\ filled' \in Seq(Samples) /\ Len(filled') = Len(filled) + n
    BY <1>3, <1>7
  <1> USE <1>12
  <1> WITNESS n \in Nat
  <1> QED  BY <1>8, <1>11, <1>13

\* A copy to the client inside of a fill keeps the handle well formed.
LEMMA FillCopyKeepsHandleOK ==
    ASSUME HandleOK, FillCopy
    PROVE  HandleOK'
  <1> USE DEF HandleOK
  <1>1. PICK n \in Nat : /\ buf' = [buf EXCEPT !.consumed = @ + n]
                         /\ filled' \in Seq(Samples)
    BY Copied
  <1>2. buf' \in BufRecord
    <2>1. buf.consumed + n \in Nat /\ buf \in BufRecord
      BY Fields DEF TypeOK
    <2> QED  BY <1>1, <2>1, IsBuf
  <1>4. TypeOK'
    BY <1>1, <1>2 DEF FillCopy, TypeOK, handle, stream
  <1>3. SongOpen' /\ PositionInSong'
    BY <1>1 DEF FillCopy, TypeOK, SongOpen, PositionInSong, InCall, Opened,
         handle, stream
  <1> QED  BY <1>3, <1>4

\* Returning from a fill keeps the handle well formed.
LEMMA FillEndKeepsHandleOK ==
    ASSUME HandleOK, FillEnd
    PROVE  HandleOK'
  <1>1. Len(filled) \in Nat /\ FillDone \in BOOLEAN
    BY DEF HandleOK, TypeOK, FillDone, Drained
  <1>2. <<>> \in Seq(Samples)
    OBVIOUS
  <1>3. dec' \in DecRecord
    BY <1>1, IsDec DEF FillEnd
  <1>4. TypeOK'
    BY <1>1, <1>2, <1>3 DEF FillEnd, HandleOK, TypeOK, handle, stream
  <1>5. SongOpen' /\ PositionInSong'
    BY DEF FillEnd, HandleOK, SongOpen, PositionInSong, InCall, Opened, handle,
         stream
  <1> QED  BY <1>4, <1>5 DEF HandleOK

\* Where a seek leaves the head and the play position.
LEMMA Sought ==
    ASSUME HandleOK, NEW t \in Seeks, Seek(t)
    PROVE  \E s \in Nat :
             /\ head' = HeadAfterSeek(s) /\ head' \in Nat
             /\ next' = s
             /\ setup_done => s <= Duration(song, applied)
             /\ play_position' = IF setup_done THEN s ELSE play_position
             /\ song \in Songs /\ Duration(song, applied) \in Nat
             /\ Length(song) \in Nat
             /\ Duration(song, applied) <= Length(song)
  <1> DEFINE s == IF setup_done
                  THEN Lesser(NotNegative(t), Duration(song, applied))
                  ELSE NotNegative(t)
  <1> USE DEF HandleOK
  <1>1. t \in Int
    BY SizesAssumption
  <1>2. song \in Songs /\ applied \in KnownCfgs
    BY DEF Seek, TypeOK, Opened
  <1>3. /\ Duration(song, applied) \in Nat /\ Length(song) \in Nat
        /\ Duration(song, applied) <= Length(song)
    BY <1>2, SongsAssumption
  <1>4. s \in Nat /\ (setup_done => s <= Duration(song, applied))
    BY <1>1, <1>3 DEF Lesser, NotNegative
  <1>5. /\ head' = HeadAfterSeek(s) /\ next' = s
        /\ play_position' = IF setup_done THEN s ELSE play_position
    BY DEF Seek
  <1> HIDE DEF s
  <1>6. HeadAfterSeek(s) \in Nat
    BY <1>3, <1>4 DEF HeadAfterSeek, Lesser, TypeOK
  <1> QED  BY <1>2, <1>3, <1>4, <1>5, <1>6

\* libvgmstream_seek keeps the handle well formed.
LEMMA SeekKeepsHandleOK ==
    ASSUME HandleOK, NEW t \in Seeks, Seek(t)
    PROVE  HandleOK'
  <1> USE DEF HandleOK
  <1>1. PICK s \in Nat :
             /\ head' \in Nat /\ next' = s
             /\ setup_done => s <= Duration(song, applied)
             /\ play_position' = IF setup_done THEN s ELSE play_position
    BY Sought
  <1>2. <<>> \in Seq(Samples)
    OBVIOUS
  <1>6. sbuf' \in SbufRecord
    BY Fields DEF Seek, TypeOK, SbufRecord
  <1>7. dec' \in DecRecord
    BY IsDec DEF Seek, TypeOK
  <1>3. TypeOK'
    BY <1>1, <1>2, <1>6, <1>7 DEF Seek, TypeOK, handle
  <1>4. SongOpen'
    BY DEF Seek, SongOpen, InCall, Opened, handle
  <1>5. PositionInSong'
    BY <1>1 DEF Seek, PositionInSong, handle
  <1> QED  BY <1>3, <1>4, <1>5

\* libvgmstream_reset keeps the handle well formed.
LEMMA ResetKeepsHandleOK ==
    ASSUME HandleOK, Reset
    PROVE  HandleOK'
  <1> USE DEF HandleOK
  <1>1. <<>> \in Seq(Samples)
    OBVIOUS
  <1>5. buf' \in BufRecord
    BY IsBuf, Fields DEF Reset, TypeOK, Discarded
  <1>6. head' \in Nat /\ start_head' \in Nat /\ play_position' \in Nat
    BY DEF Reset, TypeOK, stream
  <1>2. TypeOK'
    BY <1>1, <1>5, <1>6, Nothing DEF Reset, TypeOK, handle
  <1>3. SongOpen'
    BY DEF Reset, SongOpen, InCall, Opened, handle, Discarded, TypeOK
  <1>4. PositionInSong'
    <2>1. CASE setup_done
      <3>1. song \in Songs /\ applied \in KnownCfgs
        BY <2>1 DEF SongOpen, TypeOK, Opened
      <3>2. Duration(song, applied) >= 0
        BY <3>1, SongsAssumption
      <3> QED  BY <2>1, <3>2 DEF Reset, PositionInSong, SongOpen, handle
    <2>2. CASE ~setup_done
      BY <2>2 DEF Reset, PositionInSong, handle
    <2> QED  BY <2>1, <2>2
  <1> QED  BY <1>2, <1>3, <1>4

\* Counters stay natural and the play position in the song for every client.
THEOREM LibHandleOK == Spec => []HandleOK
  <1>1. HandleOK /\ [Next]_vars => HandleOK'
    <2> SUFFICES ASSUME HandleOK, [Next]_vars PROVE HandleOK'
      OBVIOUS
    <2>1. CASE UNCHANGED vars
      BY <2>1 DEF vars, handle, stream, HandleOK, TypeOK, SongOpen,
           PositionInSong, InCall, Opened
    <2>2. CASE Next
      BY <2>2, SetupKeepsHandleOK, OpenKeepsHandleOK, CloseKeepsHandleOK,
           RenderKeepsHandleOK, FillKeepsHandleOK, FillRenderKeepsHandleOK,
           FillCopyKeepsHandleOK, FillEndKeepsHandleOK, SeekKeepsHandleOK,
           ResetKeepsHandleOK
         DEF Next, FillStep
    <2> QED  BY <2>1, <2>2
  <1> QED  BY InitHandleOK, <1>1, PTL DEF Spec
-----------------------------------------------------------------------------
(* The config asked for *)

\* Whatever else a client does, songs play with the config passed last, if it is
\* not passed while a song plays with another.
LEMMA ConfigStep ==
    ASSUME "setup again" \notin Habits, HandleOK, ConfigInv, [Next]_vars
    PROVE  ConfigInv'
  <1> USE DEF ConfigInv
  <1>1. ASSUME NEW c \in KnownCfgs, Setup(c) PROVE ConfigInv'
    BY <1>1, SetupKeepsHandleOK
       DEF Setup, StoreConfig, ApplyConfig, HandleOK, handle
  <1>2. ASSUME NEW s \in Songs, OpenStream(s) PROVE ConfigInv'
    BY <1>2, OpenKeepsHandleOK DEF OpenStream, HandleOK
  <1>3. CASE CloseStream \/ OpenFails
    BY <1>3, CloseKeepsHandleOK DEF CloseStream, OpenFails, HandleOK
  <1>4. CASE Render
    BY <1>4, RenderKeepsHandleOK DEF Render, RenderBuffer, HandleOK
  <1>5. ASSUME NEW size \in FillSizes, Fill(size) PROVE ConfigInv'
    BY <1>5, FillKeepsHandleOK DEF Fill, HandleOK, handle
  <1>6. CASE FillRender
    BY <1>6, FillRenderKeepsHandleOK DEF FillRender, RenderBuffer, HandleOK
  <1>7. CASE FillCopy
    BY <1>7, FillCopyKeepsHandleOK DEF FillCopy, HandleOK, handle
  <1>8. CASE FillEnd
    BY <1>8, FillEndKeepsHandleOK DEF FillEnd, HandleOK, handle
  <1>9. ASSUME NEW t \in Seeks, Seek(t) PROVE ConfigInv'
    BY <1>9, SeekKeepsHandleOK DEF Seek, HandleOK, handle
  <1>10. CASE Reset
    BY <1>10, ResetKeepsHandleOK DEF Reset, HandleOK, handle
  <1>11. CASE UNCHANGED vars
    BY <1>11 DEF vars, handle, SongOpen, InCall, Opened
  <1> QED
    BY <1>1, <1>2, <1>3, <1>4, <1>5, <1>6, <1>7, <1>8, <1>9, <1>10, <1>11
       DEF Next, FillStep

\* The config a song plays with is the one that was last asked for, by whichever
\* of the three ways it got there, unless a config was there already.
THEOREM LibConfigIsTheOneAsked ==
    ASSUME "setup again" \notin Habits
    PROVE  Spec => []ConfigIsTheOneAsked
  <1>1. Init => ConfigInv
    BY InitHandleOK DEF Init, ConfigInv, HandleOK
  <1>2. HandleOK /\ ConfigInv /\ [Next]_vars => ConfigInv'
    BY ConfigStep
  <1>3. ConfigInv => ConfigIsTheOneAsked
    BY DEF ConfigInv, ConfigIsTheOneAsked
  <1> QED  BY LibHandleOK, <1>1, <1>2, <1>3, PTL DEF Spec

-----------------------------------------------------------------------------
(* The order of the samples *)

\* Samples from the internal buffer carry on where those before them end.
LEMMA OrderGoesOn ==
    ASSUME NEW f \in Seq(Samples), NEW g \in Seq(Samples), NEW n \in Nat,
           NEW at \in Nat, InOrder(f, at), Len(g) = Len(f) + n,
           \A i \in 1 .. Len(f) : g[i] = f[i],
           \A i \in 1 .. n : g[Len(f) + i] = Sample(song, at + Len(f) + i - 1)
    PROVE  InOrder(g, at)
  <1> SUFFICES ASSUME NEW i \in 1 .. Len(g)
               PROVE  g[i] = Sample(song, at + i - 1)
    BY DEF InOrder
  <1>1. Len(f) \in Nat
    OBVIOUS
  <1>2. CASE i <= Len(f)
    <2>1. i \in 1 .. Len(f)
      BY <1>1, <1>2
    <2> QED  BY <2>1 DEF InOrder
  <1>3. CASE i > Len(f)
    <2>1. i - Len(f) \in 1 .. n /\ Len(f) + (i - Len(f)) = i
          /\ at + Len(f) + (i - Len(f)) - 1 = at + i - 1
      BY <1>1, <1>3
    <2> QED  BY <2>1
  <1> QED  BY <1>1, <1>2, <1>3

\* A run of the song is in order.
LEMMA RunInOrder ==
    ASSUME NEW at \in Nat, NEW n \in Nat, song \in Songs \cup {NoSong}
    PROVE  InOrder(Run(song, at, n), at) /\ Len(Run(song, at, n)) = n
  BY RunIsSamples DEF InOrder

\* What libvgmstream_render decodes is what the client is to get next, if there
\* is nothing the client has not got yet.
LEMMA RenderedInOrder ==
    ASSUME HandleOK, OrderInv, Opened, RenderBuffer, Pending = 0
    PROVE  /\ start_head' = 0
           /\ play_position' = next + Len(filled) + sbuf'.filled
           /\ sbuf'.filled > 0 => sbuf'.at = next + Len(filled)
           /\ play_position' < Duration(song, applied') => head' = play_position'
  <1> DEFINE c == IF setup_done THEN applied ELSE cfg
             position == IF setup_done THEN play_position ELSE 0
             n == Lesser(INTERNAL_BUF_SAMPLES, Duration(song, c) - position)
  <1> USE DEF HandleOK
  <1>1. song \in Songs /\ c \in KnownCfgs
    BY DEF TypeOK, Opened
  <1>2. /\ Duration(song, c) \in Nat /\ Length(song) \in Nat
        /\ Duration(song, c) <= Length(song)
    BY <1>1, SongsAssumption
  <1>3. position \in Nat /\ position <= Duration(song, c)
    BY <1>2 DEF TypeOK, PositionInSong
  <1>4. next \in Nat /\ Len(filled) \in Nat
    BY DEF TypeOK
  <1>5. position = next + Len(filled)
    BY <1>4, Empty DEF OrderInv, PositionAhead, FreshUntilSetup
  <1>6. position < Duration(song, c) => head = position
    BY DEF OrderInv, HeadAtPosition, FreshUntilSetup
  <1>7. INTERNAL_BUF_SAMPLES \in Nat \ {0}
    BY SizesAssumption
  <1>8. start_head' = 0
    BY DEF RenderBuffer, OrderInv, RewindsToStart, FreshUntilSetup
  <1>9. /\ applied' = c
        /\ sbuf' = [song |-> song, at |-> head, filled |-> n]
        /\ head' = Lesser(head + INTERNAL_BUF_SAMPLES, Length(song))
        /\ play_position' = position + n
    BY DEF RenderBuffer
  <1> HIDE DEF c, position
  <1>10. n > 0 => position < Duration(song, c)
    BY <1>2, <1>3, <1>7 DEF Lesser
  <1>11. position + n < Duration(song, c) =>
            /\ n = INTERNAL_BUF_SAMPLES
            /\ head = position
            /\ Lesser(head + INTERNAL_BUF_SAMPLES, Length(song)) = position + n
    BY <1>2, <1>3, <1>6, <1>7 DEF Lesser
  <1>12. sbuf'.filled = n /\ sbuf'.at = head
    BY <1>9
  <1> HIDE DEF n
  <1> QED  BY <1>5, <1>6, <1>8, <1>9, <1>10, <1>11, <1>12

\* Nothing was delivered yet, so all of it was in order.
LEMMA InitOrder == Init => OrderInv
  <1> SUFFICES ASSUME Init PROVE OrderInv
    OBVIOUS
  <1>1. HandleOK
    BY InitHandleOK
  <1>2. FreshUntilSetup /\ RewindsToStart /\ HeadAtPosition /\ PositionAhead
        /\ NothingStale
    BY DEF Init, FreshUntilSetup, RewindsToStart, HeadAtPosition, PositionAhead,
           NothingStale, NoBuf, InCall, Opened
  <1>3. BufferIsNext
    BY DEF Init, BufferIsNext, Pending, NoBuf
  <1>4. InOrder(filled, next) /\ InOrder(got, next - Len(got))
    BY DEF Init, InOrder
  <1> QED  BY <1>1, <1>2, <1>3, <1>4 DEF OrderInv

\* Setup keeps the order: it may rewind only what was not played yet.
LEMMA SetupKeepsOrder ==
    ASSUME OrderInv, NEW c \in KnownCfgs, Setup(c)
    PROVE  OrderInv'
  <1> USE DEF OrderInv
  <1>1. HandleOK /\ HandleOK'
    BY SetupKeepsHandleOK
  <1>2. CASE setup_done \/ ~Opened
    <2>1. UNCHANGED <<song, setup_done, head, decode_done, sbuf, buf, fill,
                      filled, mode, next, got>>
      BY <1>2 DEF Setup, handle, stream
    <2>2. setup_done => UNCHANGED <<applied, start_head, play_position>>
      BY DEF Setup, handle, stream
    <2>3. setup_done => Opened
      BY <1>1 DEF HandleOK, SongOpen
    <2>4. FreshUntilSetup' /\ RewindsToStart'
      BY <1>2, <2>1, <2>2 DEF FreshUntilSetup, RewindsToStart, Opened
    <2>5. HeadAtPosition' /\ PositionAhead'
      BY <2>1, <2>2 DEF HeadAtPosition, PositionAhead, Pending, Unread
    <2>6. NothingStale' /\ BufferIsNext'
      BY <2>1 DEF NothingStale, BufferIsNext, Pending, Unread, InCall
    <2>7. InOrder(filled, next)' /\ InOrder(got, next - Len(got))'
      BY <2>1 DEF InOrder
    <2> QED  BY <1>1, <2>4, <2>5, <2>6, <2>7
  <1>3. CASE ~setup_done /\ Opened
    <2>1. /\ UNCHANGED <<song, head, decode_done, sbuf, buf, fill, filled, mode,
                         next, got>>
          /\ start_head' = head /\ play_position' = 0
      BY <1>3 DEF Setup, ApplyConfig
    <2>2. /\ head = 0 /\ next = 0 /\ filled = <<>> /\ ~buf.initialized
      BY <1>3 DEF FreshUntilSetup
    <2>3. FreshUntilSetup' /\ RewindsToStart' /\ HeadAtPosition'
      BY <2>1, <2>2 DEF FreshUntilSetup, RewindsToStart, HeadAtPosition, Opened
    <2>4. PositionAhead'
      BY <2>1, <2>2, Empty DEF PositionAhead, Pending
    <2>5. NothingStale' /\ BufferIsNext' /\ InOrder(filled, next)'
          /\ InOrder(got, next - Len(got))'
      BY <2>1, <2>2
         DEF NothingStale, BufferIsNext, Pending, Unread, InOrder, InCall
    <2> QED  BY <1>1, <2>3, <2>4, <2>5
  <1> QED  BY <1>2, <1>3

\* Opening, closing and failing to open.
LEMMA ClosedKeepsOrder ==
    ASSUME OrderInv, ~InCall, Closed, HandleOK', UNCHANGED <<sbuf, fill, filled, mode>>,
           \/ song' = NoSong /\ setup_done' = FALSE
           \/ head' = 0 /\ start_head' = 0 /\ play_position' = 0
    PROVE  OrderInv'
  <1>1. buf' = NoBuf /\ next' = 0 /\ got' = <<>> /\ filled' = <<>>
    BY DEF Closed, OrderInv, HandleOK, SongOpen
  <1>2. ~buf'.initialized /\ ~InCall'
    BY <1>1 DEF NoBuf, InCall
  <1>3. Pending' = 0
    BY <1>2 DEF Pending
  <1>4. FreshUntilSetup' /\ RewindsToStart'
    BY <1>1, <1>2 DEF FreshUntilSetup, RewindsToStart, Opened
  <1>5. HeadAtPosition' /\ PositionAhead'
    <2>1. CASE song' = NoSong /\ setup_done' = FALSE
      BY <2>1 DEF HeadAtPosition, PositionAhead
    <2>2. CASE head' = 0 /\ start_head' = 0 /\ play_position' = 0
      BY <1>1, <1>3, <2>2, Empty DEF HeadAtPosition, PositionAhead
    <2> QED  BY <2>1, <2>2
  <1>6. NothingStale' /\ BufferIsNext'
    BY <1>2, <1>3 DEF NothingStale, BufferIsNext
  <1>7. InOrder(filled, next)' /\ InOrder(got, next - Len(got))'
    BY <1>1 DEF InOrder
  <1> QED  BY <1>4, <1>5, <1>6, <1>7 DEF OrderInv

\* Opening a song keeps the order: it begins at its start.
LEMMA OpenKeepsOrder ==
    ASSUME OrderInv, NEW s \in Songs, OpenStream(s)
    PROVE  OrderInv'
  <1>1. HandleOK'
    BY OpenKeepsHandleOK DEF OrderInv
  <1> QED  BY <1>1, ClosedKeepsOrder DEF OpenStream

\* Closing a song keeps the order: nothing of it is left to deliver.
LEMMA CloseKeepsOrder ==
    ASSUME OrderInv, CloseStream \/ OpenFails
    PROVE  OrderInv'
  <1>1. HandleOK'
    BY CloseKeepsHandleOK DEF OrderInv
  <1> QED  BY <1>1, ClosedKeepsOrder DEF CloseStream, OpenFails

\* A render delivers the samples after those of the call before.
LEMMA RenderKeepsOrder ==
    ASSUME OrderInv, Render
    PROVE  OrderInv'
  <1> USE DEF OrderInv
  <1>1. HandleOK /\ HandleOK' /\ TypeOK
    BY RenderKeepsHandleOK DEF HandleOK
  <1>2. /\ mode = "render" /\ Opened /\ RenderBuffer /\ filled = <<>>
        /\ ~InCall /\ Pending = 0
    BY <1>1 DEF Render, HandleOK, SongOpen, Pending
  <1>3. /\ start_head' = 0
        /\ play_position' = next + sbuf'.filled
        /\ sbuf'.filled > 0 => sbuf'.at = next
        /\ play_position' < Duration(song, applied') => head' = play_position'
    <2>1. next \in Nat
      BY <1>1 DEF TypeOK
    <2> QED  BY <1>1, <1>2, <2>1, RenderedInOrder, Empty
  <1>4. /\ setup_done' = TRUE /\ sbuf'.filled \in Nat
        /\ sbuf'.at \in Nat /\ song \in Songs
    BY <1>1, <1>2, Rendered DEF TypeOK, Opened
  <1>5. /\ UNCHANGED <<song, fill, filled, mode>>
        /\ got' = Run(song, sbuf'.at, sbuf'.filled)
        /\ next' = next + sbuf'.filled
    BY <1>2 DEF Render, RenderBuffer
  <1>6. Pending' = 0 /\ ~InCall'
    BY <1>2, <1>5 DEF Pending, InCall
  <1>7. FreshUntilSetup' /\ RewindsToStart' /\ HeadAtPosition'
    BY <1>3, <1>4, <1>5 DEF FreshUntilSetup, RewindsToStart, HeadAtPosition
  <1>8. PositionAhead'
    BY <1>1, <1>2, <1>3, <1>4, <1>5, <1>6, Empty DEF PositionAhead, TypeOK
  <1>9. NothingStale' /\ BufferIsNext'
    BY <1>6 DEF NothingStale, BufferIsNext
  <1>10. InOrder(filled, next)'
    BY <1>2, <1>5 DEF InOrder
  <1>11. InOrder(got, next - Len(got))'
    <2>1. /\ InOrder(Run(song, sbuf'.at, sbuf'.filled), sbuf'.at)
          /\ Len(got') = sbuf'.filled
      BY <1>4, <1>5, RunInOrder
    <2>2. InOrder(got, sbuf.at)'
      BY <1>5, <2>1 DEF InOrder
    <2>3. CASE sbuf'.filled > 0
      <3>1. next' - Len(got') = sbuf'.at
        BY <1>1, <1>3, <1>4, <1>5, <2>1, <2>3 DEF TypeOK
      <3> QED  BY <2>2, <3>1 DEF InOrder
    <2>4. CASE sbuf'.filled = 0
      BY <2>1, <2>4 DEF InOrder
    <2> QED  BY <1>4, <2>3, <2>4
  <1> QED  BY <1>1, <1>7, <1>8, <1>9, <1>10, <1>11

\* Entering a fill keeps the order.
LEMMA FillKeepsOrder ==
    ASSUME OrderInv, NEW size \in FillSizes, Fill(size), ~StaleSamples
    PROVE  OrderInv'
  <1>1. HandleOK'
    BY FillKeepsHandleOK DEF OrderInv
  <1>2. /\ UNCHANGED <<handle, stream, sbuf, buf, mode, next>>
        /\ filled' = <<>> /\ got' = <<>> /\ filled = <<>>
    BY DEF Fill, OrderInv, HandleOK, SongOpen
  <1>3. NothingStale'
    <2>1. Unread \in Int /\ buf.initialized \in BOOLEAN
      BY Fields DEF OrderInv, HandleOK
    <2>2. buf.initialized \/ Unread <= 0
      BY <2>1 DEF StaleSamples
    <2> QED  BY <1>2, <2>2 DEF NothingStale, Unread
  <1>4. InOrder(filled, next)' /\ InOrder(got, next - Len(got))'
    <2>1. Len(filled') = 0 /\ Len(got') = 0
      BY <1>2
    <2> QED  BY <2>1 DEF InOrder
  <1> QED
    BY <1>1, <1>2, <1>3, <1>4
       DEF OrderInv, FreshUntilSetup, RewindsToStart, HeadAtPosition,
           PositionAhead, BufferIsNext, Pending, Unread, Opened, handle, stream

\* A render inside of a fill refills the internal buffer with the next samples.
LEMMA FillRenderKeepsOrder ==
    ASSUME OrderInv, FillRender
    PROVE  OrderInv'
  <1> USE DEF OrderInv
  <1>1. HandleOK /\ HandleOK' /\ TypeOK
    BY FillRenderKeepsHandleOK DEF HandleOK
  <1>2. /\ mode = "fill" /\ Opened /\ RenderBuffer /\ Pending = 0
    BY <1>1, Fields
       DEF FillRender, HandleOK, SongOpen, Pending, Drained, Unread
  <1>3. /\ start_head' = 0
        /\ play_position' = next + Len(filled) + sbuf'.filled
        /\ sbuf'.filled > 0 => sbuf'.at = next + Len(filled)
        /\ play_position' < Duration(song, applied') => head' = play_position'
    BY <1>1, <1>2, RenderedInOrder
  <1>4. /\ setup_done' = TRUE /\ sbuf'.filled \in Nat /\ sbuf'.song = song
        /\ buf' = [initialized |-> TRUE, consumed |-> 0]
        /\ sbuf'.at \in Nat
    BY <1>1, <1>2, Rendered DEF TypeOK
  <1>5. UNCHANGED <<song, fill, filled, mode, next, got>>
    BY <1>2 DEF FillRender, RenderBuffer
  <1>6. buf'.initialized /\ buf'.consumed = 0
    BY <1>4
  <1>7. Unread' = sbuf'.filled /\ Pending' = sbuf'.filled
    BY <1>2, <1>4, <1>5, <1>6 DEF Pending, Unread
  <1>8. FreshUntilSetup' /\ RewindsToStart' /\ HeadAtPosition' /\ NothingStale'
    BY <1>3, <1>4, <1>5, <1>6
       DEF FreshUntilSetup, RewindsToStart, HeadAtPosition, NothingStale
  <1>9. PositionAhead'
    BY <1>3, <1>5, <1>7 DEF PositionAhead
  <1>10. BufferIsNext'
    BY <1>3, <1>4, <1>5, <1>6, <1>7 DEF BufferIsNext
  <1>11. InOrder(filled, next)' /\ InOrder(got, next - Len(got))'
    BY <1>5 DEF InOrder
  <1> QED  BY <1>1, <1>8, <1>9, <1>10, <1>11

\* A copy takes the next samples of the internal buffer.
LEMMA FillCopyKeepsOrder ==
    ASSUME OrderInv, FillCopy
    PROVE  OrderInv'
  <1> USE DEF OrderInv
  <1>1. HandleOK /\ HandleOK' /\ TypeOK /\ TypeOK'
    BY FillCopyKeepsHandleOK DEF HandleOK
  <1>2. PICK n \in Nat :
             /\ n > 0 /\ n <= Unread
             /\ buf' = [buf EXCEPT !.consumed = @ + n]
             /\ filled' \in Seq(Samples)
             /\ Len(filled') = Len(filled) + n
             /\ \A i \in 1 .. Len(filled) : filled'[i] = filled[i]
             /\ buf.initialized =>
                  \A i \in 1 .. n :
                    filled'[Len(filled) + i]
                      = Sample(sbuf.song, sbuf.at + buf.consumed + i - 1)
    BY <1>1, Copied
  <1>3. UNCHANGED <<handle, stream, sbuf, fill, mode, next, got>>
    BY DEF FillCopy
  <1>4. /\ sbuf.at \in Nat /\ sbuf.filled \in Nat /\ buf.consumed \in Nat
        /\ Len(filled) \in Nat /\ next \in Nat /\ filled \in Seq(Samples)
    BY <1>1, Fields DEF TypeOK
  <1>5. buf.initialized /\ mode = "fill" /\ setup_done
    BY <1>1, <1>2, <1>4
       DEF FillCopy, NothingStale, HandleOK, SongOpen, Unread
  <1>6. /\ buf'.initialized = buf.initialized
        /\ buf'.consumed = buf.consumed + n
    BY <1>1, <1>2 DEF TypeOK, BufRecord
  <1>7. Unread' = Unread - n /\ Pending = Unread /\ Pending' = Unread - n
    BY <1>2, <1>3, <1>4, <1>5, <1>6 DEF Unread, Pending
  <1>8. sbuf.song = song /\ sbuf.at + buf.consumed = next + Len(filled)
    BY <1>1, <1>2, <1>7, Fields DEF BufferIsNext
  <1>9. FreshUntilSetup' /\ RewindsToStart' /\ HeadAtPosition' /\ NothingStale'
    BY <1>3, <1>5, <1>6
       DEF FreshUntilSetup, RewindsToStart, HeadAtPosition, NothingStale,
           handle, stream, Opened
  <1>10. PositionAhead'
    BY <1>2, <1>3, <1>4, <1>5, <1>7 DEF PositionAhead, Unread, handle, stream
  <1>11. BufferIsNext'
    <2>1. sbuf'.song = song' /\ sbuf'.at = sbuf.at /\ next' = next
      BY <1>3, <1>8 DEF handle
    <2>2. sbuf.at + (buf.consumed + n) = next + (Len(filled) + n)
      BY <1>4, <1>8
    <2> QED  BY <1>2, <1>6, <2>1, <2>2 DEF BufferIsNext
  <1>12. InOrder(filled, next)'
    <2>2. \A i \in 1 .. n : filled'[Len(filled) + i]
                               = Sample(song, next + Len(filled) + i - 1)
      BY <1>2, <1>5, <1>8
    <2>1. InOrder(filled', next)
      BY <1>2, <1>4, <2>2, OrderGoesOn
    <2> QED  BY <1>3, <2>1 DEF InOrder, handle
  <1>13. InOrder(got, next - Len(got))'
    BY <1>3 DEF InOrder, handle
  <1> QED  BY <1>1, <1>9, <1>10, <1>11, <1>12, <1>13

\* A fill that returns has delivered what it copied, in order.
LEMMA FillEndKeepsOrder ==
    ASSUME OrderInv, FillEnd
    PROVE  OrderInv'
  <1> USE DEF OrderInv
  <1>1. HandleOK /\ HandleOK' /\ TypeOK
    BY FillEndKeepsHandleOK DEF HandleOK
  <1>2. /\ UNCHANGED <<handle, stream, sbuf, buf, mode>>
        /\ got' = filled /\ next' = next + Len(filled)
        /\ fill' = 0 /\ filled' = <<>> /\ InCall
    BY DEF FillEnd
  <1>3. next \in Nat /\ Len(filled) \in Nat /\ Len(filled') = 0
    BY <1>1, <1>2, Empty DEF TypeOK
  <1>4. Pending' = Pending
    BY <1>2 DEF Pending, Unread
  <1>5. FreshUntilSetup' /\ RewindsToStart' /\ HeadAtPosition' /\ NothingStale'
    BY <1>2, <1>3, Empty
       DEF FreshUntilSetup, RewindsToStart, HeadAtPosition, NothingStale, InCall,
           handle, stream, Opened
  <1>6. PositionAhead' /\ BufferIsNext'
    BY <1>2, <1>3, <1>4 DEF PositionAhead, BufferIsNext, handle, stream
  <1>7. InOrder(filled, next)' /\ InOrder(got, next - Len(got))'
    <2>1. (next + Len(filled)) - Len(filled) = next
      BY <1>3
    <2> QED  BY <1>2, <2>1 DEF InOrder, handle
  <1> QED  BY <1>1, <1>5, <1>6, <1>7

\* Where the client seeks to is where the head goes.
LEMMA SeekKeepsOrder ==
    ASSUME OrderInv, NEW t \in Seeks, Seek(t), setup_done
    PROVE  OrderInv'
  <1> USE DEF OrderInv
  <1>1. HandleOK /\ HandleOK' /\ TypeOK
    BY SeekKeepsHandleOK DEF HandleOK
  <1>2. setup_done /\ Opened /\ ~InCall
    BY DEF Seek
  <1>3. PICK s \in Nat :
             /\ head' = HeadAfterSeek(s) /\ next' = s
             /\ s <= Duration(song, applied)
             /\ play_position' = s
             /\ Duration(song, applied) \in Nat /\ Length(song) \in Nat
             /\ Duration(song, applied) <= Length(song)
    BY <1>1, <1>2, Sought
  <1>4. /\ UNCHANGED <<handle, start_head, buf, fill, filled, mode>>
        /\ got' = <<>> /\ filled = <<>> /\ sbuf'.filled = 0
    BY <1>1, <1>2, Fields DEF Seek, HandleOK, SongOpen, TypeOK, SbufRecord
  <1>5. start_head = 0 /\ head \in Nat /\ play_position \in Nat
    BY <1>1, <1>2 DEF RewindsToStart, TypeOK
  <1>6. FreshUntilSetup' /\ RewindsToStart'
    BY <1>2, <1>4 DEF FreshUntilSetup, RewindsToStart, handle, Opened
  <1>7. HeadAtPosition'
    <2>1. s < Duration(song, applied) => HeadAfterSeek(s) = s
      BY <1>2, <1>3, <1>5 DEF HeadAfterSeek, HeadAtPosition, Lesser
    <2> QED  BY <1>3, <1>4, <2>1 DEF HeadAtPosition, handle
  <1>8. Pending' = 0
    <2>1. buf'.consumed \in Nat
      BY <1>1, <1>4, Fields
    <2> QED  BY <1>4, <2>1 DEF Pending, Unread
  <1>9. PositionAhead' /\ BufferIsNext'
    <2>1. Len(filled') = 0
      BY <1>4, Empty
    <2> QED  BY <1>3, <1>8, <2>1 DEF PositionAhead, BufferIsNext
  <1>10. NothingStale'
    BY <1>2, <1>4 DEF NothingStale, InCall
  <1>11. InOrder(filled, next)' /\ InOrder(got, next - Len(got))'
    <2>1. Len(filled') = 0 /\ Len(got') = 0
      BY <1>4, Empty
    <2> QED  BY <2>1 DEF InOrder
  <1> QED  BY <1>1, <1>6, <1>7, <1>9, <1>10, <1>11

\* A reset starts the song anew and drops what the internal buffer held.
LEMMA ResetKeepsOrder ==
    ASSUME OrderInv, Reset
    PROVE  OrderInv'
  <1> USE DEF OrderInv
  <1>1. HandleOK /\ HandleOK' /\ TypeOK
    BY ResetKeepsHandleOK DEF HandleOK
  <1>2. /\ UNCHANGED <<handle, start_head, sbuf, fill, filled, mode>> /\ ~InCall
        /\ next' = 0 /\ got' = <<>> /\ filled = <<>>
    BY <1>1 DEF Reset, HandleOK, SongOpen, stream
  <1>3. Opened => head' = 0 /\ play_position' = 0
    BY <1>1 DEF Reset, RewindsToStart
  <1>4. /\ buf'.initialized = buf.initialized
        /\ buf'.consumed = sbuf.filled
    BY <1>1 DEF Reset, Discarded, TypeOK, BufRecord
  <1>5. Pending' = 0
    BY <1>1, <1>2, <1>4, Fields DEF Pending, Unread
  <1>6. Len(filled') = 0 /\ Len(got') = 0
    BY <1>2, Empty
  <1>7. FreshUntilSetup' /\ RewindsToStart'
    BY <1>2, <1>3, <1>4 DEF FreshUntilSetup, RewindsToStart, handle, Opened
  <1>8. HeadAtPosition' /\ PositionAhead'
    BY <1>1, <1>2, <1>3, <1>5, <1>6
       DEF HeadAtPosition, PositionAhead, HandleOK, SongOpen, handle, Opened
  <1>9. NothingStale' /\ BufferIsNext'
    BY <1>2, <1>5 DEF NothingStale, BufferIsNext, InCall
  <1>10. InOrder(filled, next)' /\ InOrder(got, next - Len(got))'
    BY <1>6 DEF InOrder
  <1> QED  BY <1>1, <1>7, <1>8, <1>9, <1>10

\* Every call keeps the order, for clients without the two habits.
LEMMA OrderStep ==
    ASSUME "fill after reopen" \notin Habits, "seek before setup" \notin Habits,
           OrderInv, [Next]_vars
    PROVE  OrderInv'
  <1>1. CASE UNCHANGED vars
    BY <1>1
       DEF vars, handle, stream, OrderInv, HandleOK, TypeOK, SongOpen,
           PositionInSong, FreshUntilSetup, RewindsToStart, HeadAtPosition,
           PositionAhead, NothingStale, BufferIsNext, Pending, Unread, InOrder,
           InCall, Opened
  <1>2. ASSUME NEW size \in FillSizes, Fill(size) PROVE OrderInv'
    BY <1>2, FillKeepsOrder DEF Fill
  <1>3. ASSUME NEW t \in Seeks, Seek(t) PROVE OrderInv'
    BY <1>3, SeekKeepsOrder DEF Seek
  <1>4. CASE Next
    BY <1>2, <1>3, <1>4, SetupKeepsOrder, OpenKeepsOrder, CloseKeepsOrder,
       RenderKeepsOrder, FillRenderKeepsOrder, FillCopyKeepsOrder,
       FillEndKeepsOrder, ResetKeepsOrder
       DEF Next, FillStep
  <1> QED  BY <1>1, <1>4

\* The order is kept forever.
LEMMA OrderAlways ==
    ASSUME "fill after reopen" \notin Habits, "seek before setup" \notin Habits
    PROVE  Spec => []OrderInv
  <1>1. OrderInv /\ [Next]_vars => OrderInv'
    BY OrderStep
  <1> QED  BY InitOrder, <1>1, PTL DEF Spec

\* Every call delivers the song's samples in order, each once: for any sizes of
\* the internal and of the client's buffers, and any order of calls but the two.
THEOREM LibDeliversInOrder ==
    ASSUME "fill after reopen" \notin Habits, "seek before setup" \notin Habits
    PROVE  Spec => []DeliversInOrder
  <1>1. OrderInv => DeliversInOrder
    BY DEF OrderInv, InOrder, DeliversInOrder
  <1> QED  BY <1>1, OrderAlways, PTL

\* What is held back is the distance from the client to the decoder.
LEMMA OrderGivesPosition == OrderInv => PositionIsKnown
  <1> SUFFICES ASSUME OrderInv, Opened, setup_done, ~InCall
               PROVE  play_position
                        = next + (IF mode = "fill" /\ buf.initialized
                                  THEN NotNegative(sbuf.filled - buf.consumed)
                                  ELSE 0)
    BY DEF PositionIsKnown
  <1>1. Len(filled) = 0
    BY Empty DEF OrderInv, HandleOK, SongOpen
  <1>2. sbuf.filled \in Nat /\ buf.consumed \in Nat /\ next \in Nat
    BY Fields DEF OrderInv, HandleOK, TypeOK
  <1>3. play_position = next + Pending
    <2>1. Pending \in Nat
      BY <1>2 DEF Pending, Unread
    <2> QED  BY <1>1, <1>2, <2>1 DEF OrderInv, PositionAhead
  <1> QED  BY <1>2, <1>3 DEF Pending, Unread, NotNegative

\* The reported position is the client's, under the same conditions.
THEOREM LibPositionIsKnown ==
    ASSUME "fill after reopen" \notin Habits, "seek before setup" \notin Habits
    PROVE  Spec => []PositionIsKnown
  BY OrderGivesPosition, OrderAlways, PTL
-----------------------------------------------------------------------------
(* When it is done *)

\* Nothing decoded, nothing delivered and nothing held back: any end will do.
LEMMA NothingYet ==
    ASSUME decode_done' = FALSE, dec'.done = FALSE, dec'.samples = 0,
           setup_done' \/ dec' = NoDec, filled' = <<>>, Pending' = 0
    PROVE  DoneWithLast' /\ DoneAtEndOnly'
  BY DEF DoneWithLast, DoneAtEndOnly

\* What the decoder reports before it decoded.
LEMMA NoDecIsEmpty == NoDec.done = FALSE /\ NoDec.samples = 0
  BY DEF NoDec

\* A new handle is not done.
LEMMA InitDone == Init => DoneInv
  <1> SUFFICES ASSUME Init PROVE DoneInv
    OBVIOUS
  <1>1. dec = NoDec /\ decode_done = FALSE /\ setup_done = FALSE
    BY DEF Init
  <1> QED
    BY <1>1, InitOrder, NoDecIsEmpty DEF DoneInv, DoneWithLast, DoneAtEndOnly

\* Setup does not make a song done.
LEMMA SetupKeepsDone ==
    ASSUME DoneInv, NEW c \in KnownCfgs, Setup(c)
    PROVE  DoneWithLast' /\ DoneAtEndOnly'
  <1> USE DEF DoneInv
  <1>1. UNCHANGED <<decode_done, sbuf, buf, dec, fill, filled, mode, next>>
    BY DEF Setup
  <1>2. Pending' = Pending
    BY <1>1 DEF Pending, Unread
  <1>3. CASE setup_done
    <2>1. UNCHANGED <<song, setup_done, applied, play_position>>
      BY <1>3 DEF Setup, handle, stream
    <2> QED
      BY <1>1, <1>2, <2>1 DEF DoneWithLast, DoneAtEndOnly, AtEnd, InCall
  <1>4. CASE ~setup_done /\ Opened
    <2>1. /\ dec' = NoDec /\ decode_done' = FALSE
          /\ filled' = <<>> /\ ~buf.initialized
      BY <1>1, <1>4, Fields
         DEF DoneWithLast, OrderInv, FreshUntilSetup, HandleOK, TypeOK
    <2>2. Pending' = 0
      BY <1>2, <2>1 DEF Pending
    <2> QED  BY <2>1, <2>2, NothingYet, NoDecIsEmpty
  <1>5. CASE ~setup_done /\ ~Opened
    <2>1. setup_done' = setup_done
      BY <1>5 DEF Setup
    <2> QED
      BY <1>1, <1>5, <2>1, NoDecIsEmpty DEF DoneWithLast, DoneAtEndOnly
  <1> QED  BY <1>3, <1>4, <1>5

\* Closing clears done.
LEMMA ClosedKeepsDone ==
    ASSUME DoneInv, ~InCall, Closed, filled' = filled
    PROVE  DoneWithLast' /\ DoneAtEndOnly'
  <1>1. dec' = NoDec /\ decode_done' = FALSE /\ buf' = NoBuf /\ filled' = <<>>
    BY DEF Closed, DoneInv, OrderInv, HandleOK, SongOpen
  <1>2. Pending' = 0
    BY <1>1 DEF Pending, NoBuf
  <1> QED  BY <1>1, <1>2, NothingYet, NoDecIsEmpty

\* render: what it says with the samples is what it has just decided.
LEMMA RenderKeepsDone ==
    ASSUME DoneInv, Render, OrderInv'
    PROVE  DoneWithLast' /\ DoneAtEndOnly'
  <1>1. HandleOK /\ Opened /\ RenderBuffer /\ filled' = <<>> /\ ~InCall'
    BY DEF DoneInv, OrderInv, HandleOK, Render, SongOpen, InCall
  <1>2. setup_done'
    BY <1>1, Rendered
  <1>5. decode_done' <=> AtEnd'
    <2>1. song' = song
      BY <1>1 DEF RenderBuffer
    <2> QED  BY <1>1, <2>1, Rendered DEF AtEnd
  <1>3. dec'.done = decode_done'
    BY DEF Render
  <1>4. play_position' = next'
    <2>1. Pending' = 0 /\ Len(filled') = 0
      BY <1>1, Empty DEF Render, Pending
    <2>2. next' \in Nat /\ play_position' \in Nat
      BY DEF OrderInv, HandleOK, TypeOK
    <2>3. play_position' = next' + Len(filled') + Pending'
      BY <1>2 DEF OrderInv, PositionAhead
    <2>4. \A p \in Nat : p + 0 + 0 = p
      OBVIOUS
    <2> QED  BY <2>1, <2>2, <2>3, <2>4
  <1> QED  BY <1>2, <1>3, <1>4, <1>5 DEF DoneWithLast, DoneAtEndOnly, AtEnd

\* fill, until it returns.
LEMMA FillingKeepsDone ==
    ASSUME DoneInv, OrderInv',
           \/ \E size \in FillSizes : Fill(size)
           \/ FillRender
           \/ FillCopy
    PROVE  DoneWithLast' /\ DoneAtEndOnly'
  <1> USE DEF DoneInv
  <1>1. CASE \E size \in FillSizes : Fill(size)
    <2>1. PICK size \in FillSizes : Fill(size)
      BY <1>1
    <2>2. UNCHANGED <<handle, stream, decode_done, sbuf, buf, dec, mode>>
          /\ fill' = size /\ filled' = filled
      BY <2>1 DEF Fill, OrderInv, HandleOK, SongOpen
    <2>3. InCall'
      BY <2>2, SizesAssumption DEF InCall
    <2>4. Pending' = Pending
      BY <2>2 DEF Pending, Unread
    <2> QED
      BY <2>2, <2>3, <2>4 DEF DoneWithLast, DoneAtEndOnly, AtEnd, handle, stream
  <1>2. CASE FillRender
    <2>1. HandleOK /\ Opened /\ RenderBuffer /\ InCall'
      BY <1>2 DEF OrderInv, HandleOK, FillRender, SongOpen, InCall
    <2>2. setup_done' /\ (decode_done' <=> AtEnd')
      <3>1. song' = song
        BY <2>1 DEF RenderBuffer
      <3> QED  BY <2>1, <3>1, Rendered DEF AtEnd
    <2> QED  BY <2>1, <2>2 DEF DoneWithLast, DoneAtEndOnly
  <1>3. CASE FillCopy
    <2>1. UNCHANGED <<handle, stream, decode_done, dec, fill, mode>> /\ InCall
      BY <1>3 DEF FillCopy
    <2>2. Pending > 0
      <3>1. ~Drained /\ sbuf.filled \in Nat /\ buf.consumed \in Nat
            /\ buf.initialized \in BOOLEAN
        BY <1>3, Fields DEF FillCopy, OrderInv, HandleOK
      <3>2. Unread > 0
        BY <3>1 DEF Drained, Unread
      <3>3. buf.initialized /\ mode = "fill"
        BY <2>1, <3>1, <3>2
           DEF OrderInv, NothingStale, HandleOK, SongOpen, Unread
      <3> QED  BY <3>2, <3>3 DEF Pending
    <2> QED
      BY <2>1, <2>2
         DEF DoneWithLast, DoneAtEndOnly, AtEnd, handle, stream, InCall
  <1> QED  BY <1>1, <1>2, <1>3

\* fill returning: it is done when decoding is and nothing is held back, and as
\* the position is the song's last one then, it is done no earlier.
LEMMA FillEndKeepsDone ==
    ASSUME DoneInv, FillEnd
    PROVE  DoneWithLast' /\ DoneAtEndOnly'
  <1> USE DEF DoneInv
  <1>1. /\ UNCHANGED <<handle, stream, decode_done, sbuf, buf, mode>>
        /\ dec' = [samples |-> Len(filled), done |-> FillDone]
        /\ next' = next + Len(filled) /\ filled' = <<>> /\ InCall
        /\ Len(filled) = fill \/ FillDone
    BY DEF FillEnd
  <1>2. /\ sbuf.filled \in Nat /\ buf.consumed \in Nat /\ next \in Nat
        /\ Len(filled) \in Nat /\ play_position \in Nat
        /\ filled \in Seq(Samples) /\ buf.initialized \in BOOLEAN
        /\ decode_done \in BOOLEAN
    BY Fields DEF OrderInv, HandleOK, TypeOK
  <1>3. setup_done
    <2> SUFFICES ASSUME ~setup_done PROVE FALSE
      OBVIOUS
    <2>1. Opened
      BY <1>1 DEF OrderInv, HandleOK, SongOpen
    <2>2. filled = <<>> /\ ~decode_done
      BY <2>1 DEF OrderInv, FreshUntilSetup, DoneWithLast
    <2>3. Len(filled) # fill
      BY <1>1, <2>2, Empty DEF InCall
    <2> QED  BY <1>1, <2>2, <2>3 DEF FillDone
  <1>4. /\ play_position = next' + Pending
        /\ play_position <= Duration(song, applied)
    BY <1>1, <1>3 DEF OrderInv, PositionAhead, HandleOK, PositionInSong
  <1>5. Duration(song, applied) \in Nat
    <2>1. song \in Songs /\ applied \in KnownCfgs
      BY <1>3 DEF OrderInv, HandleOK, SongOpen, TypeOK, Opened
    <2> QED  BY <2>1, SongsAssumption
  <1>6. Pending' = Pending /\ Pending \in Nat
    BY <1>1, <1>2 DEF Pending, Unread
  <1>7. Drained <=> Pending = 0
    <2>1. mode = "fill" /\ (buf.initialized \/ Unread <= 0)
      BY <1>1 DEF OrderInv, HandleOK, SongOpen, NothingStale
    <2> QED  BY <1>2, <2>1 DEF Drained, Pending, Unread
  <1>8. DoneWithLast'
    BY <1>1, <1>3, <1>6 DEF DoneWithLast, AtEnd, handle, stream
  <1>9. dec'.done = FillDone /\ dec'.samples = Len(filled)
    BY <1>1
  <1>10. next' \in Nat
    BY <1>1, <1>2
  <1>11. FillDone => next' >= Duration(song, applied)
    <2>1. FillDone => play_position >= Duration(song, applied) /\ Pending = 0
      BY <1>3, <1>7 DEF FillDone, DoneWithLast, AtEnd
    <2> QED  BY <1>4, <1>10, <2>1
  <1>12. Len(filled) > 0 /\ next' >= Duration(song, applied) => FillDone
    <2> SUFFICES ASSUME Len(filled) > 0, next' >= Duration(song, applied)
                 PROVE  FillDone
      OBVIOUS
    <2>1. Pending = 0 /\ play_position >= Duration(song, applied)
      BY <1>4, <1>5, <1>6, <1>10
    <2>2. filled # <<>>
      BY Empty
    <2> QED  BY <1>3, <1>7, <2>1, <2>2 DEF FillDone, DoneWithLast, AtEnd
  <1>13. DoneAtEndOnly'
    <2>1. song' = song /\ applied' = applied
      BY <1>1 DEF handle
    <2> QED  BY <1>9, <1>11, <1>12, <2>1 DEF DoneAtEndOnly
  <1> QED  BY <1>8, <1>13

\* A seek of a song that is not done leaves it so.
LEMMA SeekKeepsDone ==
    ASSUME DoneInv, NEW t \in Seeks, Seek(t), setup_done, ~decode_done
    PROVE  DoneWithLast' /\ DoneAtEndOnly'
  <1>1. HandleOK
    BY DEF DoneInv, OrderInv
  <1>2. /\ sbuf'.filled = 0 /\ buf' = buf /\ filled' = <<>>
        /\ decode_done' = FALSE /\ setup_done' = setup_done
        /\ dec' = [samples |-> 0, done |-> decode_done]
    BY <1>1 DEF Seek, HandleOK, SongOpen, TypeOK, SbufRecord, handle
  <1>3. dec'.done = FALSE /\ dec'.samples = 0
    BY <1>1, <1>2 DEF HandleOK, TypeOK
  <1>4. Pending' = 0
    <2>1. buf'.consumed \in Nat
      BY <1>1, <1>2, Fields DEF HandleOK
    <2> QED  BY <1>2, <2>1 DEF Pending, Unread
  <1> QED  BY <1>2, <1>3, <1>4, NothingYet

\* A reset clears done.
LEMMA ResetKeepsDone ==
    ASSUME DoneInv, Reset
    PROVE  DoneWithLast' /\ DoneAtEndOnly'
  <1>1. HandleOK
    BY DEF DoneInv, OrderInv
  <1>2. /\ dec' = NoDec /\ decode_done' = FALSE /\ filled' = <<>>
        /\ sbuf' = sbuf /\ buf'.consumed = sbuf.filled
    BY <1>1 DEF Reset, Discarded, HandleOK, SongOpen, TypeOK, BufRecord
  <1>3. Pending' = 0
    BY <1>1, <1>2, Fields DEF Pending, Unread, HandleOK
  <1> QED  BY <1>2, <1>3, NothingYet, NoDecIsEmpty

\* Every call keeps done with the last sample, for clients without the habits.
LEMMA DoneStep ==
    ASSUME "fill after reopen" \notin Habits, "seek before setup" \notin Habits,
           "seek when done" \notin Habits, DoneInv, [Next]_vars
    PROVE  DoneInv'
  <1>1. OrderInv'
    BY OrderStep DEF DoneInv
  <1>2. CASE UNCHANGED vars
    BY <1>1, <1>2
       DEF vars, handle, stream, DoneInv, DoneWithLast, DoneAtEndOnly, AtEnd,
           Pending, Unread, InCall
  <1>3. ASSUME NEW s \in Songs, OpenStream(s) PROVE DoneInv'
    BY <1>1, <1>3, ClosedKeepsDone DEF OpenStream, DoneInv
  <1>4. CASE CloseStream \/ OpenFails
    BY <1>1, <1>4, ClosedKeepsDone DEF CloseStream, OpenFails, DoneInv
  <1>5. ASSUME NEW t \in Seeks, Seek(t) PROVE DoneInv'
    BY <1>1, <1>5, SeekKeepsDone DEF Seek, DoneInv
  <1>6. ASSUME NEW c \in KnownCfgs, Setup(c) PROVE DoneInv'
    BY <1>1, <1>6, SetupKeepsDone DEF DoneInv
  <1>7. CASE Render \/ FillEnd \/ Reset
    BY <1>1, <1>7, RenderKeepsDone, FillEndKeepsDone, ResetKeepsDone
       DEF DoneInv
  <1>8. CASE (\E size \in FillSizes : Fill(size)) \/ FillRender \/ FillCopy
    BY <1>1, <1>8, FillingKeepsDone DEF DoneInv
  <1>9. CASE Next
    BY <1>3, <1>4, <1>5, <1>6, <1>7, <1>8, <1>9 DEF Next, FillStep
  <1> QED  BY <1>2, <1>9

\* done is reported with the last sample and only then, unless clients seek
\* after it (which does not take it back), or render or fill are out of order.
THEOREM LibDoneAtEndOnly ==
    ASSUME "fill after reopen" \notin Habits, "seek before setup" \notin Habits,
           "seek when done" \notin Habits
    PROVE  Spec => []DoneAtEndOnly
  <1>1. DoneInv /\ [Next]_vars => DoneInv'
    BY DoneStep
  <1>2. DoneInv => DoneAtEndOnly
    BY DEF DoneInv
  <1> QED  BY InitDone, <1>1, <1>2, PTL DEF Spec

\* The inductive invariant itself, for clients without any of the habits.
THEOREM LibHandleInv ==
    ASSUME Habits = {}
    PROVE  Spec => []HandleInv
  <1>1. /\ "fill after reopen" \notin Habits /\ "seek before setup" \notin Habits
        /\ "seek when done" \notin Habits /\ "setup again" \notin Habits
    OBVIOUS
  <1>2. Init => HandleInv
    BY InitDone, InitHandleOK DEF HandleInv, Init, ConfigInv, HandleOK
  <1>3. HandleInv /\ [Next]_vars => HandleInv'
    BY <1>1, ConfigStep, DoneStep DEF HandleInv, DoneInv, OrderInv
  <1> QED  BY <1>2, <1>3, PTL DEF Spec
=============================================================================
