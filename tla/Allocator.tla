----------------------------- MODULE Allocator -----------------------------
(***************************************************************************)
(* What a heap promises its callers: a block handed out is theirs, whole   *)
(* and inside the heap, until they give it back.  KHeap implements it.     *)
(***************************************************************************)
EXTENDS Naturals

CONSTANTS Lowest, Limit,    \* the heap is the addresses Lowest..(Limit - 1)
          Sizes             \* the sizes ever asked for

VARIABLE held               \* the size asked for, at each address handed out

Init == held = << >>

Disjoint(p, n, q, m) == p + n <= q \/ q + m <= p

Malloc ==
  \E p \in Lowest..Limit, n \in Sizes :
    /\ p \notin DOMAIN held
    /\ p + n <= Limit
    /\ \A q \in DOMAIN held : Disjoint(p, n, q, held[q])
    /\ held' = [q \in DOMAIN held \cup {p} |-> IF q = p THEN n ELSE held[q]]

Free ==
  \E p \in DOMAIN held : held' = [q \in DOMAIN held \ {p} |-> held[q]]

Next == Malloc \/ Free

Spec == Init /\ [][Next]_held
=============================================================================
