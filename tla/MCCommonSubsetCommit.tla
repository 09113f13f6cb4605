-------------------------- MODULE MCCommonSubsetCommit --------------------------
(* Instances of CommonSubsetCommit for TLC: four nodes, one of which deviates. *)
EXTENDS CommonSubsetCommit, TLC

CONSTANTS n1, n2, n3, n4, r1, r2

FourNodes == {n1, n2, n3, n4}
OneNode == {n4}
NoNode == {}
TwoResults == {r1, r2}

(***************************************************************************)
(* The commits of the deviating members reach everyone before anything     *)
(* else does: a state of Spec, from which a node that should not have them *)
(* yet is one to which the other commits take longer.                      *)
(***************************************************************************)
FaultyFirst ==
    /\ settled = [i \in Correct |-> None]
    /\ acsFinished = [i \in Correct |-> None]
    /\ sharesReceived = [i \in Correct |-> (Faulty \cap Committee) \X Result]
    /\ signed = [i \in Correct |-> None]
    /\ out = [i \in Correct |-> None]
    /\ msgs = {}

FaultySpec == FaultyFirst /\ [][Next]_vars /\ \A i \in Correct : WF_vars(Progress(i))
================================================================================
