--------------------------- MODULE MCBinaryAgreement ---------------------------
(* Instances of BinaryAgreement for TLC. *)
EXTENDS BinaryAgreement, TLC

CONSTANTS n1, n2, n3, n4

TwoNodes == {n1, n2}
FourNodes == {n1, n2, n3, n4}
NoNode == {}
OneNode == {n4}

TwoRounds == 0..1
ThreeRounds == 0..2

(***************************************************************************)
(* Four nodes, one of which deviates, up to the beginning of the second    *)
(* round: either all have the same input, or they do not.  The AUX         *)
(* messages of the deviating node, and in the second case its EST          *)
(* messages, reach everyone before those of the others: a state of Spec,   *)
(* from which a node that should not have them yet is one to which the     *)
(* other messages take longer.  In the second case everyone has its own    *)
(* EST, too, and has echoed it: a bound, since it might be overtaken.  Its *)
(* coin shares are good: a bad one takes steps away, and adds none.        *)
(* Which value is the odd one out makes no difference but for the order of *)
(* two conditions that exclude each other, and the coin of a round none    *)
(* before the next one.                                                    *)
(***************************************************************************)
Mixed == value[n1] # value[n2]

FaultyFirst ==
    /\ value \in {[i \in Correct |-> 0], [i \in Correct |-> IF i = n1 THEN 1 ELSE 0]}
    /\ coin = [r \in Rounds |-> 1]
    /\ spoilt = {}
    /\ asked = [r \in Rounds |-> {}]
    /\ round = [i \in Correct |-> 0]
    /\ est = value
    /\ phase = [i \in Correct |-> "EST"]
    /\ received = [i \in Correct |-> {m \in FaultyMessages \cup {Est(i, 0, value[i])} :
                                        m.round = 0 /\ (m.status = "AUX" \/ Mixed)}]
    /\ binValues = [i \in Correct |-> {}]
    /\ estEchoes = [i \in Correct |-> IF Mixed THEN {value[i]} ELSE {}]
    /\ notifyEST = [i \in Correct |-> None]
    /\ notifyAUX = [i \in Correct |-> {}]
    /\ out = [i \in Correct |-> None]
    /\ msgs = {Est(i, 0, value[i]) : i \in Correct}

(***************************************************************************)
(* A state of Spec in which n1 is about to decide 1 in the first round and *)
(* n2 and n3, which had also seen the 0 of n3 and of the deviating node,   *)
(* have gone on with the coin.  The messages of the deviating node for the *)
(* second round have arrived there.  The coin of the second round is not   *)
(* what n1 decides, so that they go on to the third.                       *)
(***************************************************************************)
LateDecision ==
    /\ value = [i \in Correct |-> IF i = n3 THEN 0 ELSE 1]
    /\ coin = [r \in Rounds |-> IF r = 1 THEN 0 ELSE 1]
    /\ spoilt = {}
    /\ asked = [r \in Rounds |-> IF r = 0 THEN Correct ELSE {}]
    /\ round = [i \in Correct |-> IF i = n1 THEN 0 ELSE 1]
    /\ est = [i \in Correct |-> 1]
    /\ phase = [i \in Correct |-> IF i = n1 THEN "COIN" ELSE "EST"]
    /\ received = [i \in Correct |-> IF i = n1 THEN {} ELSE {m \in FaultyMessages : m.round = 1}]
    /\ binValues = [i \in Correct |-> IF i = n1 THEN {1} ELSE {}]
    /\ estEchoes = [i \in Correct |-> IF i = n1 THEN {1} ELSE {}]
    /\ notifyEST = [i \in Correct |-> IF i = n1 THEN 1 ELSE None]
    /\ notifyAUX = [i \in Correct |-> IF i = n1 THEN {1} ELSE {}]
    /\ out = [i \in Correct |-> None]
    /\ msgs = {Est(n1, 0, 1), Est(n2, 0, 1), Est(n3, 0, 1), Est(n2, 0, 0), Est(n3, 0, 0),
               Aux(n1, 0, 1), Aux(n2, 0, 1), Aux(n3, 0, 0), Est(n2, 1, 1), Est(n3, 1, 1)}

FaultyInit == FaultyFirst \/ LateDecision
FaultySpec == FaultyInit /\ [][Next]_vars

\* Bound: from FaultyFirst on nobody handles a message of the second round.
FirstRound ==
    \/ Cardinality({i \in Correct : value[i] = 1}) = 2
    \/ \A i \in Correct : round[i] = 0 \/ received[i] = {}

(***************************************************************************)
(* A state of Spec, with nobody down or deviating: the inputs were 1, 1, 0 *)
(* and 0, every EST of the first round has arrived, at all but n4 the 1    *)
(* before the 0, and of the four AUX messages those of n1, n2 and n3 came  *)
(* first at n1 and n2, and those of n1, n3 and n4 at n3 and n4.            *)
(***************************************************************************)
Split ==
    /\ value = [i \in Correct |-> IF i \in {n1, n2} THEN 1 ELSE 0]
    /\ coin = [r \in Rounds |-> 1]
    /\ spoilt = {}
    /\ asked = [r \in Rounds |-> {}]
    /\ round = [i \in Correct |-> 0]
    /\ est = value
    /\ phase = [i \in Correct |-> "AUX"]
    /\ received = [i \in Correct |-> {}]
    /\ binValues = [i \in Correct |-> Bit]
    /\ estEchoes = [i \in Correct |-> Bit]
    /\ notifyEST = [i \in Correct |-> IF i = n4 THEN 0 ELSE 1]
    /\ notifyAUX = [i \in Correct |-> IF i \in {n1, n2} THEN {1} ELSE Bit]
    /\ out = [i \in Correct |-> None]
    /\ msgs = {Est(i, 0, v) : i \in Correct, v \in Bit} \cup {Aux(i, 0, notifyEST[i]) : i \in Correct}

SplitSpec ==
    /\ Split /\ [][Next]_vars
    /\ \A i \in Correct : WF_vars(FairRun(i)) /\ WF_vars(\E m \in msgs : Receive(i, m))

\* All inputs are the same and the coin shows them in one of the rounds.
UnanimousInit ==
    /\ Init
    /\ \E v \in Bit : (\A i \in Correct : value[i] = v) /\ (\E r \in Rounds : coin[r] = v)

UnanimousSpec ==
    /\ UnanimousInit /\ [][Next]_vars
    /\ \A i \in Correct : WF_vars(FairRun(i)) /\ WF_vars(\E m \in msgs : Receive(i, m))

Symmetry == Permutations({n2, n3})
================================================================================
