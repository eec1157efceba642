---------------------------------- MODULE MCObs1 ----------------------------------
(* OBS-1 cases for TLC.                                                    *)
EXTENDS Obs1Compare, TLC
===============================================================================
