-------------------------- MODULE MCReliableBroadcast --------------------------
(***************************************************************************)
(* Instances of ReliableBroadcast for TLC: four nodes, of which one may    *)
(* deviate or be down.                                                     *)
(***************************************************************************)
EXTENDS ReliableBroadcast, TLC

CONSTANTS n1, n2, n3, n4, v1, v2

Nodes == {n1, n2, n3, n4}
NoNode == {}
OneNode == {n4}
SomeNodes == {n1, n2, n4}
OneValue == {v1}
TwoValues == {v1, v2}

(***************************************************************************)
(* The votes of the deviating nodes reach everyone before anything else    *)
(* does: a state of Spec, from which a node that should not have them yet  *)
(* is one to which the other votes take longer.                            *)
(***************************************************************************)
MCInit ==
    /\ input = NoValue
    /\ initialVal = [i \in Correct |-> FALSE]
    /\ ready = [i \in Correct |-> FALSE]
    /\ echoReceived = [i \in Correct |-> Faulty \X Digest]
    /\ readyReceived = [i \in Correct |-> Faulty \X Digest]
    /\ broadcastValue = [i \in Correct |-> NoDigest]
    /\ senderValue = [i \in Correct |-> NoValue]
    /\ committeeReceived = [i \in Correct |-> (Faulty \cap Committee) \X Value]
    /\ output = [i \in Correct |-> NoValue]
    /\ msgs = {}

MCSpec == MCInit /\ [][Next]_vars

\* Nodes that play the same part may be exchanged, and so may the values.
Symmetry == Permutations((Correct \cap Committee) \ {Sender}) \cup Permutations(Correct \ (Committee \cup {Sender})) \cup Permutations(Value)
================================================================================
