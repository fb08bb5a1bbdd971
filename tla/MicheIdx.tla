------------------------------- MODULE MicheIdx -------------------------------
(***************************************************************************)
(* The order-number cache of sub/miche_idx.c as operators: an open-        *)
(* addressed table with linear probing over a window of Probe places, no   *)
(* removal, and eviction when the window is full.  A cell is               *)
(* [key, slot]; slot -1 is an empty one.                                   *)
(***************************************************************************)
EXTENDS Integers, FiniteSetsExt

CONSTANTS Keys,    \* order numbers
          Hash,    \* MICHE_IDX_HASH
          Probe,   \* MICHE_IDX_PROBE
          Home     \* miche_hash: the place each key is looked for first

ASSUME HashAssumption ==
  /\ Hash \in Nat \ {0}
  /\ Probe \in 1..Hash
  /\ Home \in [Keys -> 0..(Hash - 1)]

NoSlot == -1
NoKey  == 0

\* The p-th place looked at for a key.
Place(k, p) == (Home[k] + p) % Hash

\* Miche_Idx_Reset
Reset == [h \in 0..(Hash - 1) |-> [key |-> NoKey, slot |-> NoSlot]]

\* The probes at which a search for k ends.
Stops(ix, k) ==
  {p \in 0..(Probe - 1) :
     ix[Place(k, p)].slot = NoSlot \/ ix[Place(k, p)].key = k}

\* Miche_Idx_Put: the first empty or equal place of the window; with none, h
\* has been moved once more and the place after the window is overwritten.
Put(ix, k, s) ==
  LET p == IF Stops(ix, k) = {} THEN Probe ELSE Min(Stops(ix, k))
  IN [ix EXCEPT ![Place(k, p)] = [key |-> k, slot |-> s]]

\* Miche_Idx_Get: the slot of the first equal place before an empty one.
Get(ix, k) ==
  IF Stops(ix, k) = {} THEN NoSlot ELSE ix[Place(k, Min(Stops(ix, k)))].slot
===============================================================================
