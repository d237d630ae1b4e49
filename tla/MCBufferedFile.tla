---------------------------- MODULE MCBufferedFile ----------------------------
(* Small files and buffers for TLC. *)
EXTENDS BufferedFile

MCReaders == {"stdio", "buffer"}
CacheReader == {"cache"}
MCFileSizes == {0, 1, 4, 7}
MCBufSizes == {1, 2, 5}
MCOffsets == -1 .. 8
=============================================================================
