------------------------------ MODULE ApproxSet ------------------------------
(***************************************************************************)
(* What a Bloom filter promises its caller, as bloom.h states it           *)
(* (bloom.h:111-148, 156-186): an approximate set.  "members" are the keys *)
(* the caller added, "positive" the keys for which a lookup answers 1; the *)
(* promise is that members never leave "positive" until the filter is      *)
(* reset, re-initialised or freed.  Nothing here knows of bits or hashes.  *)
(***************************************************************************)
EXTENDS Integers

CONSTANT Key

VARIABLES live,      \* the filter is initialised
          members,   \* keys added since it was last empty
          positive,  \* keys a lookup answers 1 for
          answer     \* what the last call returned

vars == <<live, members, positive, answer>>

Void == 2            \* "answer" after a call whose return type is void

Init == /\ live = FALSE
        /\ members = {}
        /\ positive = {}
        /\ answer = Void

Open == /\ live' = TRUE
        /\ members' = {} /\ positive' = {}
        /\ answer' = 0

OpenFails == /\ live' = FALSE
             /\ members' = {} /\ positive' = {}
             /\ answer' = 1

Close == /\ live' = FALSE
         /\ members' = {} /\ positive' = {}
         /\ answer' = Void

Clear == /\ live
         /\ members' = {} /\ positive' = {}
         /\ answer' = 0
         /\ UNCHANGED live

\* A caller of an uninitialised filter is told so, and nothing changes.
Refuse == /\ ~live
          /\ answer' \in {-1, 1}
          /\ UNCHANGED <<live, members, positive>>

Lookup(k) == /\ live
             /\ answer' = IF k \in positive THEN 1 ELSE 0
             /\ UNCHANGED <<live, members, positive>>

\* Adding a key that already answers 1 changes no answer at all; adding any
\* other key may turn further keys into false positives, never the reverse.
Add(k) == /\ live
          /\ members' = members \union {k}
          /\ positive \union {k} \subseteq positive'
          /\ positive' \subseteq Key
          /\ k \in positive => positive' = positive
          /\ answer' \in {IF k \in positive THEN 1 ELSE 0, Void}
          /\ UNCHANGED live

Next == \/ Open \/ OpenFails \/ Close \/ Clear \/ Refuse
        \/ \E k \in Key : Lookup(k) \/ Add(k)

Spec == Init /\ [][Next]_vars
==============================================================================
