------------------------------ MODULE OrderRelay ------------------------------
(***************************************************************************)
(* What the order sender promises about the orders the exchange takes,     *)
(* without its counters, its connections and the messages on them.  The    *)
(* queue is numbered from 1; taken[i] is the order the exchange took as    *)
(* its i-th.                                                               *)
(*                                                                         *)
(* Losses, rejects, throttling, reconnections and ends of the process      *)
(* cannot be seen.  Only a death inside a handler that moves two counters  *)
(* can, and how much it can do depends on the handler.                     *)
(***************************************************************************)
EXTENDS Naturals, Sequences

VARIABLES queued,   \* number of orders in the queue
          taken,    \* the order taken at each sequence of the exchange
          torn      \* the places between two counters at which it has died

vars == <<queued, taken, torn>>

\* Between the write and the first counter, between the counters of a send, of
\* a LINK and of a reject.
Deaths == {"sent", "counted", "rewound", "rejected"}

Init == queued = 0 /\ taken = <<>> /\ torn = {}

Queue ==
  /\ queued' = queued + 1
  /\ UNCHANGED <<taken, torn>>

Die ==
  /\ \E place \in Deaths : torn' = torn \union {place}
  /\ UNCHANGED <<queued, taken>>

WasTaken(k) == \E i \in DOMAIN taken : taken[i] = k

\* Normally the next order of the queue.  A torn send or LINK may repeat orders
\* but passes over none; a torn reject may pass over some as well.
Take(k) ==
  /\ torn \subseteq {"sent"} => k = Len(taken) + 1
  /\ "rejected" \notin torn => \A j \in 1..(k - 1) : WasTaken(j)
  /\ taken' = Append(taken, k)
  /\ UNCHANGED <<queued, torn>>

Next == Queue \/ Die \/ \E k \in 1..queued : Take(k)

Spec == Init /\ [][Next]_vars
===============================================================================
