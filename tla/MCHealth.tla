------------------------------ MODULE MCHealth ------------------------------
(* Small clocks for TLC: a resync interval of five units in the timed run,  *)
(* and words of six bits.                                                  *)
EXTENDS Health

(* No value, no number, zero, and one whose threshold does not fit a word. *)
Settings == {Unset, Garbage, 0, 32}
OnlyUnset == {Unset}
=============================================================================
