----------------------------- MODULE MCShutdown -----------------------------
(* A small instance of Shutdown, and of the thread pool in it, for TLC.    *)
EXTENDS Shutdown

CONSTANTS j1, j2, j3, t1, t2
=============================================================================
