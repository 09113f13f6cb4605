--------------------------- MODULE MCAtomicBroadcast ---------------------------
(* Instances of AtomicBroadcast for TLC. *)
EXTENDS AtomicBroadcast

(***************************************************************************)
(* A state of Spec: all but the last small message to each node, and all   *)
(* but the last two large ones to each member, have arrived.  The order in *)
(* which a pre-block grows makes no difference before that.                *)
(***************************************************************************)
Last == N - T - 1
LastMissing ==
    /\ smallPb = [i \in Up |-> Up \ {Last}]
    /\ largePb = [i \in Up |-> IF i \in Committee THEN Up \ {Last, Last - 1} ELSE {}]
    /\ blocksReceived = [i \in Up |-> {}]
    /\ largeBlockChan = [i \in Up |-> << >>]
    /\ ptr = [i \in Up |-> None]
    /\ phase = [i \in Up |-> "propose"]
    /\ blaInput = [i \in Up |-> None] /\ blaOutput = None
    /\ acsInput = [i \in Up |-> None] /\ acsOutput = {}
    /\ blocks = [i \in Up |-> {}]
    /\ msgs = {Small(i) : i \in Up} \cup {Large(i) : i \in Up}

LateSpec ==
    /\ LastMissing /\ [][Next]_vars
    /\ \A i \in Up : WF_vars(ownSteps(i)) /\ WF_vars(\E m \in msgs : listener(i, m))
================================================================================
