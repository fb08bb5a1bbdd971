------------------------------- MODULE SeamLog -------------------------------
(***************************************************************************)
(* What a SEAM queue promises, without its ring: an unbounded log of       *)
(* records numbered from 0.  Each reader owns a cursor into the log.       *)
(*                                                                         *)
(*   - a taker (SEAM_R, SEAM_ORD_R) receives the next records of the log   *)
(*     and moves its cursor past them in the same step;                    *)
(*   - a peeker (SEAM_Peek / SEAM_Commit) receives them, and moves its     *)
(*     cursor only later, over records it was given and has finished.      *)
(*                                                                         *)
(* A cursor may pass over records that were never given out only when they *)
(* are more than Capacity records old, and each of them is counted.        *)
(***************************************************************************)
EXTENDS Integers, Sequences

CONSTANTS Takers,     \* readers that consume when they read
          Peekers,    \* readers that commit after processing
          Capacity    \* age beyond which a record may be lost

VARIABLES produced,   \* number of records written so far
          next,       \* [reader -> number of the record its cursor is at]
          lost,       \* [reader -> number of records its cursor passed over]
          given,      \* [reader -> records given out, not yet worked on]
          finished    \* [reader -> number of the records from its cursor on
                      \*  that it was shown and has finished]

vars == <<produced, next, lost, given, finished>>

Readers == Takers \union Peekers

\* The n records of the log that start at record s.
Run(s, n) == [i \in 1..n |-> s + i - 1]

Init ==
  /\ produced = 0
  /\ next  = [r \in Readers |-> 0]
  /\ lost  = [r \in Readers |-> 0]
  /\ given = [r \in Readers |-> <<>>]
  /\ finished = [r \in Readers |-> 0]

Produce ==
  /\ produced' = produced + 1
  /\ UNCHANGED <<next, lost, given, finished>>

\* Before handing out records a cursor may pass over k records, all of them
\* older than Capacity; the loss is counted.
MayPassOver(r, k) == k = 0 \/ k <= produced - next[r] - Capacity

Take(r, k, n) ==
  /\ given[r] = <<>>
  /\ MayPassOver(r, k)
  /\ next[r] + k + n <= produced
  /\ given' = [given EXCEPT ![r] = Run(next[r] + k, n)]
  /\ next'  = [next EXCEPT ![r] = @ + k + n]
  /\ lost'  = [lost EXCEPT ![r] = @ + k]
  /\ UNCHANGED <<produced, finished>>

\* A peeker is shown records only after it has advanced over those it has
\* finished.
Show(r, k, n) ==
  /\ given[r] = <<>> /\ finished[r] = 0
  /\ MayPassOver(r, k)
  /\ next[r] + k + n <= produced
  /\ given' = [given EXCEPT ![r] = Run(next[r] + k, n)]
  /\ next'  = [next EXCEPT ![r] = @ + k]
  /\ lost'  = [lost EXCEPT ![r] = @ + k]
  /\ UNCHANGED <<produced, finished>>

\* The reader is done with the first record it holds.
Finish(r) ==
  /\ given[r] # <<>>
  /\ given' = [given EXCEPT ![r] = Tail(@)]
  /\ finished' = [finished EXCEPT ![r] = IF r \in Peekers THEN @ + 1 ELSE @]
  /\ UNCHANGED <<produced, next, lost>>

\* A peeker moves its cursor over records it was shown and has finished, and
\* over no others; those it has not finished it will be shown again.
Advance(r, n) ==
  /\ n <= finished[r]
  /\ next'  = [next EXCEPT ![r] = @ + n]
  /\ given' = [given EXCEPT ![r] = <<>>]
  /\ finished' = [finished EXCEPT ![r] = 0]
  /\ UNCHANGED <<produced, lost>>

\* The reader process dies: what it held privately is gone.
Forget(r) ==
  /\ given' = [given EXCEPT ![r] = <<>>]
  /\ finished' = [finished EXCEPT ![r] = 0]
  /\ UNCHANGED <<produced, next, lost>>

Next ==
  \/ Produce
  \/ \E r \in Takers, k \in 0..produced, n \in 1..produced : Take(r, k, n)
  \/ \E r \in Peekers, k \in 0..produced, n \in 1..produced : Show(r, k, n)
  \/ \E r \in Peekers, n \in 1..produced : Advance(r, n)
  \/ \E r \in Readers : Finish(r) \/ Forget(r)

Spec == Init /\ [][Next]_vars
=============================================================================
