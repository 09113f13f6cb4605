------------------------------ MODULE MCCoinCalls ------------------------------
(* Instances of CoinCalls for TLC. *)
EXTENDS CoinCalls

CONSTANTS n1, n2, n3, m1, m2

Nodes == {n1, n2, n3}
LocalNode == {n2, n3}
Urounds == {0, 1}
Rounds == {1}
OneInstance == {0}
Payloads == {0, 1, m1, m2}

\* The coin of a round whose channels are not made with the UROUND.
TheKey == [uround |-> 0, round |-> 1, instance |-> 0]

\* n1 is in the network, n2 has a local handler, and n3 may send a bad share.
ThreeCalls == Nodes \X {TheKey}
OneBadCall == {<<n3, TheKey>>}

\* At the local handler a message of a new UROUND comes in, for which somebody
\* waits too, and one of an agreement in a round that has no channels.
NewRound == [to |-> n2, slot |-> [origin |-> "ABC", uround |-> 1, round |-> 1], instance |-> 0]
LaterRound == [to |-> n2, slot |-> [origin |-> "ABA", uround |-> 0, round |-> 1], instance |-> 0]
TwoMessages == {[for |-> NewRound, payload |-> m1], [for |-> LaterRound, payload |-> m2]}
OneListener == {NewRound}

\* The coin that is not what coinVals holds before it is set.
OneInit == CallsInit /\ coin = [r \in Round |-> 1]

OneSpec ==
    /\ OneInit /\ [][CallsNext]_allVars
    /\ WF_allVars(coinCall) /\ WF_allVars(RunCoin) /\ WF_allVars(AnswerCalls)
    /\ WF_allVars(Handlers) /\ WF_allVars(Listen)

Readers == {AnswerReader(n1, TheKey), NewRound, LaterRound}
================================================================================
