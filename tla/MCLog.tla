------------------------------- MODULE MCLog -------------------------------
(* Two threads, two events and a table of two callbacks. *)
EXTENDS Log

CONSTANTS t1, t2

MCThreads == {t1, t2}
=============================================================================
