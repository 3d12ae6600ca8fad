-------------------------- MODULE DuplicateFilter --------------------------
(***************************************************************************)
(* grantEventControlPassage: each event handler that may be called twice   *)
(* for one event has a ring with the hashes of the last events it let      *)
(* pass.                                                                   *)
(***************************************************************************)
EXTENDS Integers

CONSTANTS
    RingSize,   \* ten
    NoHash      \* an empty slot

ASSUME DuplicateFilterAssumption == RingSize \in Nat \ {0}

Slots == 0..(RingSize - 1)

\* eventControlCircularBuffer[handler]
Rings(hashes) == [hash : [Slots -> hashes \cup {NoHash}], pointer : Slots]

EmptyRing == [hash |-> [k \in Slots |-> NoHash], pointer |-> 0]

\* Mutant: only the slot that will be overwritten is looked at.
Passes_NextSlot(ring, h) == ring.hash[ring.pointer] # h

Passes(ring, h) == \A k \in Slots : ring.hash[k] # h

\* Mutant: the pointer wraps one slot early.
Remember_WrapsEarly(ring, h) ==
    [hash |-> [ring.hash EXCEPT ![ring.pointer] = h],
     pointer |-> IF ring.pointer + 2 >= RingSize THEN 0 ELSE ring.pointer + 1]

Remember(ring, h) ==
    [hash |-> [ring.hash EXCEPT ![ring.pointer] = h],
     pointer |-> (ring.pointer + 1) % RingSize]
=============================================================================
