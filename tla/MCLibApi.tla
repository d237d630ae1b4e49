------------------------------- MODULE MCLibApi -------------------------------
(* Two songs and two configs for TLC. *)
EXTENDS LibApi

CONSTANTS SongA, SongB, Half, Defaults

MCSongs == {SongA, SongB}
MCCfgs == {Half}
MCLength(s) == IF s = SongA THEN 5 ELSE 4
MCDuration(s, c) == IF c = Half THEN 2 ELSE MCLength(s)
MCFillSizes == {1, 3}
MCSeeks == {-1, 0, 1, 3, 9}
NoHabits == {}
SeekWhenDone == {"seek when done"}
FillAfterReopen == {"fill after reopen"}
SetupAgain == {"setup again"}
SeekBeforeSetup == {"seek before setup"}
=============================================================================
