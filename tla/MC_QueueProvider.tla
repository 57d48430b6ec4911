--------------------------- MODULE MC_QueueProvider ---------------------------
(* Small instances of QueueProvider, with either service, for TLC.             *)
EXTENDS QueueProvider

CONSTANTS s1, s2, m1, m2, none
=================================================================================
