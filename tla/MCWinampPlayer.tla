---------------------------- MODULE MCWinampPlayer ----------------------------
(* Short songs for TLC. *)
EXTENDS WinampPlayer

MCSongs == {1, 3}
MCSeeks == {0, 2, 4}
=============================================================================
