----------------------------- MODULE MCMicheTable -----------------------------
(* Instances of MicheTable for TLC. *)
EXTENDS MicheTable

\* All orders are looked for first at the same place, so that they collide and
\* the window of the cache overflows.
MCKeys == 1..3
MCHome == [o \in 1..3 |-> 0]
===============================================================================
