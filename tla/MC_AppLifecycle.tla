---------------------------- MODULE MC_AppLifecycle ----------------------------
(* Small instances of AppLifecycle for TLC.                                    *)
EXTENDS AppLifecycle

CONSTANTS s1, t1, f1, f2, q1, q2
=================================================================================
