------------------------------ MODULE AgreeOnOne ------------------------------
(***************************************************************************)
(* What every agreement component of the repository promises its caller,   *)
(* whatever happens inside: a node hands over at most one output, never    *)
(* takes it back, and no two nodes hand over different ones.  The reliable *)
(* broadcast (rbc.out), the binary agreement (aba.out), the common subset  *)
(* (acs.out) and the block agreement (ba.out) are each shown to implement  *)
(* this module, with the content of that channel as the refinement of      *)
(* output.                                                                 *)
(***************************************************************************)
CONSTANTS Node,   \* the nodes that follow the protocol
          None    \* the state of a node that has no output yet

VARIABLE output   \* output[i]: what node i handed to its caller

Init == output = [i \in Node |-> None]

Decide(i, v) ==
    /\ output[i] = None
    /\ v # None
    /\ \A j \in Node : output[j] \in {None, v}
    /\ output' = [output EXCEPT ![i] = v]

(***************************************************************************)
(* The value comes from the step itself, so that the module needs no set   *)
(* of values.                                                              *)
(***************************************************************************)
Next == \E i \in Node : Decide(i, output'[i])

Spec == Init /\ [][Next]_output
================================================================================
