-------------------------- MODULE MCCircularBuffer --------------------------
(***************************************************************************)
(* CircularBuffer for TLC, in two scenes.  In one all the threads contend, *)
(* and what they push is the same; in the other one producer feeds two     *)
(* consumers, and what it pushes is not.  Both at once are too many states.*)
(***************************************************************************)
EXTENDS CircularBuffer, TLC

CONSTANTS m1, m2

(* MAX_PAYLOAD_SIZE is 4.  A payload that is cut to 3 bytes, and one with  *)
(* a NUL byte in its middle.                                               *)
CutPayload == [msg |-> m1, len |-> 6, text |-> 6]
SplitPayload == [msg |-> m2, len |-> 3, text |-> 1]

MCPayloads == {CutPayload, SplitPayload}

(* The threads of one kind are interchangeable. *)
Symmetry == Permutations(Producers) \cup Permutations(Consumers)
                \cup Permutations(Handlers)

VARIABLE scene

Contention == \A p \in Producers : payload[p] # SplitPayload

(* The threads that have no part in it are still where they begin. *)
Order ==
    /\ \E p \in Producers : \A q \in Producers \ {p} : pc[q] = "start"
    /\ \E h \in Handlers : \A g \in Handlers \ {h} : pc[g] = "idle"
    /\ \A m \in Monitors : pc[m] = "idle"

MCInit == Init /\ scene \in {"contention", "order"}

MCNext ==
    /\ Next
    /\ IF scene = "order" THEN Order' ELSE Contention'
    /\ UNCHANGED scene

MCSpec == MCInit /\ [][MCNext]_<<vars, scene>>
=============================================================================
