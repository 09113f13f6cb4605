--------------------------- MODULE MCBlockAgreement ----------------------------
(***************************************************************************)
(* Instances of BlockAgreement for TLC.  One run has both kinds of         *)
(* behaviours: those in which the timers and the messages of the nodes run *)
(* freely, and those in which the nodes are in step with one another.      *)
(***************************************************************************)
EXTENDS BlockAgreement

CONSTANTS v0, v1,
          FreeRounds    \* bound: the rounds of the behaviours that run freely

LastNode == {N - 1}
TwoValues == {v0, v1}

VARIABLE synchronous    \* which kind of behaviour this is

OneInit == Init /\ synchronous \in BOOLEAN

InStepNext == synchronous /\ SyncNext /\ UNCHANGED synchronous
FreeNext ==
    /\ ~synchronous /\ Next /\ UNCHANGED synchronous
    /\ \A i \in Up : round'[i] < FreeRounds

OneSpec ==
    /\ OneInit /\ [][InStepNext \/ FreeNext]_<<vars, synchronous>>
    /\ WF_<<vars, synchronous>>(InStepNext)

\* Synchronous only: no node ever begins a round so early or so late that it
\* waits for an output of propose that does not come.
NeverStuckInStep == synchronous => NeverStuck

\* Synchronous only: with the leader of the first round up, everyone who is up
\* has an output and ends, also when a leader of a later round is down.
TerminationInStep == synchronous => Termination
================================================================================
