-------------------------------- MODULE LibApi --------------------------------
(***************************************************************************)
(* The libvgmstream_t handle: setup, open and close, render and fill, seek  *)
(* and reset, in any order a client may call them.                          *)
(*                                                                          *)
(* What is behind render_main is kept as small as the handle can tell: a    *)
(* decoder head that moves over the samples of an unlooped song, the play   *)
(* position of the config, and the snapshot reset_vgmstream goes back to    *)
(* (module Player has the rest).  A config decides how much of the song is  *)
(* played.                                                                  *)
(***************************************************************************)
EXTENDS Integers, Sequences

CONSTANTS
    Songs,                  \* what can be opened
    NoSong,
    Cfgs,                   \* configs a client passes to libvgmstream_setup
    DefaultCfg,             \* config of libvgmstream_init and of setup(NULL)
    Length(_),              \* num_samples of a song
    Duration(_, _),         \* play_duration of a song with a config
    INTERNAL_BUF_SAMPLES,
    FillSizes,              \* buffers passed to libvgmstream_fill
    Seeks,                  \* positions passed to libvgmstream_seek
    Habits                  \* what clients do that the handle gets wrong

ASSUME SizesAssumption ==
    /\ INTERNAL_BUF_SAMPLES \in Nat \ {0}
    /\ FillSizes \subseteq Nat \ {0}
    /\ Seeks \subseteq Int
\* What cfg can be.
KnownCfgs == Cfgs \cup {DefaultCfg}

ASSUME SongsAssumption ==
    /\ NoSong \notin Songs
    /\ \A s \in Songs : Length(s) \in Nat
    /\ \A s \in Songs, c \in KnownCfgs : Duration(s, c) \in 0 .. Length(s)
ASSUME HabitsAssumption ==
    Habits \subseteq {"seek when done", "fill after reopen",
                      "setup again", "seek before setup"}

VARIABLES
    song,            \* priv->vgmstream
    cfg, config_loaded, setup_done,
    applied,         \* config of the open song, once setup_done
    head,            \* vgmstream->current_sample
    start_head,      \* ... in the start_vgmstream snapshot
    play_position,   \* pstate.play_position
    decode_done,
    sbuf,            \* priv->sbuf: song and first sample in it, samples filled
    buf,             \* priv->buf: initialized, samples consumed
    dec,             \* priv->dec: samples, done
    fill,            \* libvgmstream_fill in progress: size of the buffer or 0
    filled,          \* samples fill copied so far
    mode,            \* history: the client uses render or fill
    asked,           \* history: config last passed to setup
    next,            \* history: sample the client is to get next
    got              \* history: samples the last call delivered

handle == <<song, cfg, config_loaded, setup_done, applied>>
stream == <<head, start_head, play_position>>
vars == <<handle, stream, decode_done, sbuf, buf, dec, fill, filled,
          mode, asked, next, got>>

-----------------------------------------------------------------------------
NoSamples == [song |-> NoSong, at |-> 0, filled |-> 0]
NoBuf == [initialized |-> FALSE, consumed |-> 0]
NoDec == [samples |-> 0, done |-> FALSE]

\* A sample as a client sees it.  Garbage is what its buffer held before.
Sample(s, at) == [song |-> s, at |-> at]
Garbage == [song |-> NoSong, at |-> -1]
Run(s, at, n) == [i \in 1 .. n |-> Sample(s, at + i - 1)]

Lesser(a, b) == IF a <= b THEN a ELSE b
NotNegative(n) == IF n < 0 THEN 0 ELSE n

\* libvgmstream_init
Init ==
    /\ song = NoSong
    /\ cfg = DefaultCfg
    /\ config_loaded = FALSE
    /\ setup_done = FALSE
    /\ applied = DefaultCfg
    /\ head = 0
    /\ start_head = 0
    /\ play_position = 0
    /\ decode_done = FALSE
    /\ sbuf = NoSamples
    /\ buf = NoBuf
    /\ dec = NoDec
    /\ fill = 0
    /\ filled = <<>>
    /\ mode \in {"render", "fill"}
    /\ asked = DefaultCfg
    /\ next = 0
    /\ got = <<>>

InCall == fill > 0
Opened == song # NoSong

-----------------------------------------------------------------------------
(* api_decode_open.c, api_decode_base.c *)

\* api_apply_config: vgmstream_apply_config starts the play state and takes the
\* snapshot, wherever the decoder is.
ApplyConfig(c) ==
    /\ applied' = c
    /\ setup_done' = TRUE
    /\ start_head' = head
    /\ play_position' = 0

\* The config of the next songs; libvgmstream_setup(NULL) clears it.
Setup_NullIgnored(c) ==                                           \* mutant
    IF c = DefaultCfg THEN UNCHANGED <<cfg, config_loaded>>
    ELSE cfg' = c /\ config_loaded' = TRUE
StoreConfig(c) ==
    /\ cfg' = c
    /\ config_loaded' = (c # DefaultCfg)

Setup(c) ==
    /\ ~InCall
    /\ setup_done => "setup again" \in Habits
    /\ asked' = c
    /\ IF setup_done
       THEN UNCHANGED <<handle, stream>>
       ELSE /\ StoreConfig(c)
            /\ IF Opened
               THEN ApplyConfig(c)
               ELSE UNCHANGED <<applied, setup_done, start_head, play_position>>
            /\ UNCHANGED <<song, head>>
    /\ UNCHANGED <<decode_done, sbuf, buf, dec, fill, filled, mode, next, got>>

\* libvgmstream_close_stream with libvgmstream_priv_reset(priv, true): the
\* internal buffer is freed, priv->sbuf stays.
Closed ==
    /\ buf' = NoBuf
    /\ dec' = NoDec
    /\ decode_done' = FALSE
    /\ next' = 0
    /\ got' = <<>>

CloseStream ==
    /\ ~InCall
    /\ Closed
    /\ song' = NoSong
    /\ setup_done' = FALSE
    /\ UNCHANGED <<cfg, config_loaded, applied, stream, sbuf, fill, filled,
                   mode, asked>>

OpenStream(s) ==
    /\ ~InCall
    /\ Closed
    /\ song' = s
    /\ head' = 0
    /\ start_head' = 0
    /\ play_position' = 0
    /\ IF config_loaded
       THEN applied' = cfg /\ setup_done' = TRUE
       ELSE setup_done' = FALSE /\ UNCHANGED applied
    /\ UNCHANGED <<cfg, config_loaded, sbuf, fill, filled, mode, asked>>

\* A file no parser knows, or a subsong it does not have: the open song is
\* closed before this is known.
OpenFails ==
    /\ ~InCall
    /\ Opened
    /\ Closed
    /\ song' = NoSong
    /\ setup_done' = FALSE
    /\ UNCHANGED <<cfg, config_loaded, applied, stream, sbuf, fill, filled,
                   mode, asked>>

-----------------------------------------------------------------------------
(* api_decode_play.c *)

\* libvgmstream_render: the config is applied if it was not, the head moves,
\* the play position stops at the song's duration, and with it decoding.
RenderBuffer ==
    LET c == IF setup_done THEN applied ELSE cfg
        position == IF setup_done THEN play_position ELSE 0
        n == Lesser(INTERNAL_BUF_SAMPLES, Duration(song, c) - position)
    IN  /\ ~decode_done
        /\ applied' = c
        /\ setup_done' = TRUE
        /\ start_head' = IF setup_done THEN start_head ELSE head
        /\ sbuf' = [song |-> song, at |-> head, filled |-> n]
        /\ buf' = [initialized |-> TRUE, consumed |-> 0]
        /\ head' = Lesser(head + INTERNAL_BUF_SAMPLES, Length(song))
        /\ play_position' = position + n
        /\ decode_done' = (position + n >= Duration(song, c))
        /\ UNCHANGED <<song, cfg, config_loaded>>

Render ==
    /\ mode = "render"
    /\ Opened
    /\ RenderBuffer
    /\ dec' = [samples |-> sbuf'.filled, done |-> decode_done']
    /\ got' = Run(song, sbuf'.at, sbuf'.filled)
    /\ next' = next + sbuf'.filled
    /\ UNCHANGED <<fill, filled, mode, asked>>

\* What is left to copy of the internal buffer.
Unread == sbuf.filled - buf.consumed

\* A buffer of an earlier song is still waiting in priv->sbuf.
StaleSamples == ~buf.initialized /\ Unread > 0

Fill(size) ==
    /\ mode = "fill"
    /\ Opened
    /\ ~InCall
    /\ StaleSamples => "fill after reopen" \in Habits
    /\ fill' = size
    /\ filled' = <<>>
    /\ got' = <<>>
    /\ UNCHANGED <<handle, stream, decode_done, sbuf, buf, dec, mode, asked, next>>

Drained_Never == buf.consumed > sbuf.filled                       \* mutant
Drained == buf.consumed >= sbuf.filled

\* libvgmstream_fill's done, which update_decoder_info is corrected to
FillDone_Eager == decode_done                                     \* mutant
FillDone == decode_done /\ Drained

FillRender ==
    /\ InCall
    /\ Len(filled) < fill
    /\ Drained
    /\ RenderBuffer
    /\ dec' = [samples |-> sbuf'.filled, done |-> decode_done']
    /\ UNCHANGED <<fill, filled, mode, asked, next, got>>

\* Nothing is copied while sample_size and channels are those of a zeroed buf.
FillCopy ==
    /\ InCall
    /\ Len(filled) < fill
    /\ ~Drained
    /\ LET n == Lesser(Unread, fill - Len(filled))
       IN  /\ filled' = filled \o
                (IF buf.initialized
                 THEN Run(sbuf.song, sbuf.at + buf.consumed, n)
                 ELSE [i \in 1 .. n |-> Garbage])
           /\ buf' = [buf EXCEPT !.consumed = @ + n]
    /\ UNCHANGED <<handle, stream, decode_done, sbuf, dec, fill, mode, asked,
                   next, got>>

FillEnd ==
    /\ InCall
    /\ Len(filled) = fill \/ FillDone
    /\ dec' = [samples |-> Len(filled), done |-> FillDone]
    /\ got' = filled
    /\ next' = next + Len(filled)
    /\ fill' = 0
    /\ filled' = <<>>
    /\ UNCHANGED <<handle, stream, decode_done, sbuf, buf, mode, asked>>

\* Going back without the reset.
HeadAfterSeek_NoReset(s) ==                                       \* mutant
    IF s = play_position \/ s = head THEN head
    ELSE IF s < head THEN Lesser(head + s, Length(song))
    ELSE s

\* seek_vgmstream on an unlooped song, with and without a config.
HeadAfterSeek(s) ==
    IF ~setup_done
    THEN Lesser(s + (IF s < head THEN start_head ELSE 0), Length(song))
    ELSE IF s = play_position \/ s = head THEN head
    ELSE IF s < head THEN Lesser(start_head + s, Length(song))
    ELSE IF s < Length(song) THEN s
    ELSE Length(song) + 1

Seek(t) ==
    LET s == IF setup_done
             THEN Lesser(NotNegative(t), Duration(song, applied))
             ELSE NotNegative(t)
    IN  /\ ~InCall
        /\ Opened
        /\ ~setup_done => "seek before setup" \in Habits
        /\ decode_done => "seek when done" \in Habits
        /\ head' = HeadAfterSeek(s)
        /\ play_position' = IF setup_done THEN s ELSE play_position
        /\ sbuf' = [sbuf EXCEPT !.filled = 0]
        /\ dec' = [samples |-> 0, done |-> decode_done]
        /\ next' = s
        /\ got' = <<>>
        /\ UNCHANGED <<handle, start_head, decode_done, buf, fill, filled, mode,
                       asked>>

\* libvgmstream_priv_reset(priv, false) drops what is unread.
Discarded_Kept == buf                                             \* mutant
Discarded == [buf EXCEPT !.consumed = sbuf.filled]

\* libvgmstream_reset: with no song only the handle is reset.
Reset ==
    /\ ~InCall
    /\ IF Opened
       THEN head' = start_head /\ play_position' = 0 /\ UNCHANGED start_head
       ELSE UNCHANGED stream
    /\ dec' = NoDec
    /\ buf' = Discarded
    /\ decode_done' = FALSE
    /\ next' = 0
    /\ got' = <<>>
    /\ UNCHANGED <<handle, sbuf, fill, filled, mode, asked>>

-----------------------------------------------------------------------------
FillStep == FillRender \/ FillCopy \/ FillEnd

Next ==
    \/ \E c \in KnownCfgs : Setup(c)
    \/ \E s \in Songs : OpenStream(s)
    \/ OpenFails
    \/ CloseStream
    \/ Render
    \/ \E size \in FillSizes : Fill(size)
    \/ FillStep
    \/ \E t \in Seeks : Seek(t)
    \/ Reset

\* A thread inside libvgmstream_fill keeps running.
Spec == Init /\ [][Next]_vars /\ WF_vars(FillStep)

-----------------------------------------------------------------------------
\* A call delivers the open song's samples, each once, in order, from where the
\* client opened, sought or rewound to: nothing of an earlier song or position,
\* nothing skipped at the edges of the internal buffer.
DeliversInOrder ==
    \A i \in 1 .. Len(got) :
        got[i] = Sample(song, next - Len(got) + i - 1)

\* "when stream is done, based on config" (libvgmstream_decoder_t.done): done is
\* reported with the last sample of the configured duration, and only then.
DoneAtEndOnly ==
    /\ dec.done /\ ~InCall => next >= Duration(song, applied)
    /\ dec.samples > 0 /\ ~InCall /\ next >= Duration(song, applied) => dec.done

\* The config a song plays with is the one the client passed to setup last.
ConfigIsTheOneAsked == Opened /\ setup_done => applied = asked

\* libvgmstream_get_play_position tells where the client is: next minus what
\* fill still holds back.
PositionIsKnown ==
    Opened /\ setup_done /\ ~InCall =>
        play_position = next + (IF mode = "fill" /\ buf.initialized
                                THEN NotNegative(sbuf.filled - buf.consumed)
                                ELSE 0)

\* Every call of libvgmstream_fill returns.
FillReturns == InCall ~> ~InCall
-----------------------------------------------------------------------------
(* Why it holds.  The first part holds whatever clients do, the others unless *)
(* they have some of the habits.                                              *)

Samples == [song : Songs \cup {NoSong}, at : Nat \cup {-1}]
SbufRecord == [song : Songs \cup {NoSong}, at : Nat, filled : Nat]
BufRecord == [initialized : BOOLEAN, consumed : Nat]
DecRecord == [samples : Nat, done : BOOLEAN]

\* Shape of the state: no counter goes below zero.
TypeOK ==
    /\ song \in Songs \cup {NoSong}
    /\ cfg \in KnownCfgs /\ applied \in KnownCfgs /\ asked \in KnownCfgs
    /\ config_loaded \in BOOLEAN /\ setup_done \in BOOLEAN
    /\ decode_done \in BOOLEAN
    /\ head \in Nat /\ start_head \in Nat /\ play_position \in Nat
    /\ sbuf \in SbufRecord /\ buf \in BufRecord /\ dec \in DecRecord
    /\ fill \in Nat /\ next \in Nat
    /\ filled \in Seq(Samples) /\ got \in Seq(Samples)
    /\ mode \in {"render", "fill"}

\* What belongs to a song goes with it.
SongOpen ==
    /\ setup_done => Opened
    /\ buf.initialized => setup_done
    /\ InCall => Opened /\ mode = "fill"
    /\ ~InCall => filled = <<>>

\* The play position never passes the duration, so that what is left of it is
\* a number of samples.
PositionInSong == setup_done => play_position <= Duration(song, applied)

HandleOK == TypeOK /\ SongOpen /\ PositionInSong

\* No config but the last one is waiting or in use, "setup again" apart.
ConfigInv ==
    /\ SongOpen
    /\ cfg = asked
    /\ setup_done => applied = asked

\* The decoder of a song without a config has not moved.
FreshUntilSetup ==
    Opened /\ ~setup_done =>
        head = 0 /\ next = 0 /\ filled = <<>> /\ ~buf.initialized

\* Rewinding goes to the start of the song.
RewindsToStart == Opened => start_head = 0

\* What is heard next is what the decoder decodes next, to the end.
HeadAtPosition ==
    setup_done /\ play_position < Duration(song, applied) =>
        head = play_position

\* Decoded, and not yet copied to the client.
Pending ==
    IF mode = "fill" /\ buf.initialized /\ Unread > 0 THEN Unread ELSE 0

\* The play position is ahead of the client by what the call in progress and
\* the internal buffer hold.
PositionAhead ==
    setup_done => play_position = next + Len(filled) + Pending

NothingStale == InCall => buf.initialized \/ Unread <= 0

\* What the internal buffer holds back is what the client is to get next.
BufferIsNext ==
    Pending > 0 =>
        /\ sbuf.song = song
        /\ sbuf.at + buf.consumed = next + Len(filled)

InOrder(samples, at) ==
    \A i \in 1 .. Len(samples) : samples[i] = Sample(song, at + i - 1)

\* "fill after reopen" and "seek before setup" apart.
OrderInv ==
    /\ HandleOK
    /\ FreshUntilSetup
    /\ RewindsToStart
    /\ HeadAtPosition
    /\ PositionAhead
    /\ NothingStale
    /\ BufferIsNext
    /\ InOrder(filled, next)
    /\ InOrder(got, next - Len(got))

AtEnd == play_position >= Duration(song, applied)

\* decode_done is set with the last samples, which may still be held back.
DoneWithLast ==
    /\ ~setup_done => ~decode_done /\ dec = NoDec
    /\ setup_done /\ decode_done => AtEnd
    /\ setup_done /\ AtEnd /\ (filled # <<>> \/ Pending > 0) => decode_done

\* ... and "seek when done" apart.
DoneInv == OrderInv /\ DoneWithLast /\ DoneAtEndOnly

HandleInv == ConfigInv /\ DoneInv
=============================================================================
