------------------------- MODULE MCFileReservations -------------------------
(* The file store for TLC: a few attempts on one key, one or two people.   *)
EXTENDS FileReservations, TLC
===========================================================================
