---------------------------- MODULE BinaryAgreement ----------------------------
(***************************************************************************)
(* One instance of the binary agreement of                                 *)
(* src/binaryagreement/binaryagreement.go, with the common coin it asks    *)
(* (src/binaryagreement/commoncoin.go) as the point where enough requests  *)
(* are together, unless a deviating node has spoilt them with a bad share. *)
(*                                                                         *)
(* A node is the loop of Run, which blocks on notifyEST, notifyAUX and the *)
(* coin in turn, and a message handler that takes messages from the        *)
(* channel of the current round and fills the maps the loop reads.         *)
(* Multicasts run in goroutines of their own, so messages overtake one     *)
(* another; each is taken from its channel once.                           *)
(*                                                                         *)
(* A node handles the messages of the round it is in.  Those of a later    *)
(* round wait in their channel.  Every round leaves a handler behind that  *)
(* takes one more message from the old channel, but the maps of a round    *)
(* the loop is past are read no more, and an echo such a handler sends     *)
(* goes to the channel of the sender's current round, whose readers are    *)
(* past the old round too: nothing of it is ever read.  So the maps are    *)
(* kept for one round, the current one.  A node that has decided stays in  *)
(* its round, and its handlers go on listening there.                      *)
(***************************************************************************)
EXTENDS Integers, FiniteSets

CONSTANTS Node,      \* all n nodes
          Faulty,    \* nodes that deviate from the protocol
          Crashed,   \* nodes that never start
          T,         \* aba.t
          Rounds,    \* the rounds of the agreement that are modelled: Nat, or 0..k
          None       \* no value yet

N == Cardinality(Node)
Correct == Node \ (Faulty \cup Crashed)
Bit == {0, 1}

ASSUME ABAConstants ==
    /\ IsFiniteSet(Node)
    /\ Faulty \subseteq Node /\ Crashed \subseteq Node
    /\ T \in Nat
    /\ Rounds \subseteq Nat /\ 0 \in Rounds
    /\ None \notin Bit

\* The rounds follow one another.
ASSUME ABARounds == \A r \in Rounds : 0..r \subseteq Rounds

\* At most T nodes deviate and any two sets of n-T nodes share one that
\* follows the protocol; with T deviating nodes this is n > 3T.
ASSUME ABAFaults ==
    /\ Cardinality(Faulty) <= T
    /\ 2 * T + Cardinality(Faulty) < N

\* The EST of sendEST and that of echoEST for the same value are the same
\* message to their reader.
AbaMessage == [status : {"EST", "AUX"}, sender : Node, value : Bit, round : Rounds]

Est(i, r, v) == [status |-> "EST", sender |-> i, value |-> v, round |-> r]
Aux(i, r, v) == [status |-> "AUX", sender |-> i, value |-> v, round |-> r]

VARIABLES
    value,        \* aba.value, the input
    coin,         \* the coin of every round, fixed by the keys, known to nobody beforehand
    spoilt,       \* the rounds whose coin is given to nobody, known to nobody beforehand
    asked,        \* asked[r]: whose requests for the coin of round r the coin has
    round,        \* aba.round
    est,          \* est of Run
    phase,        \* where Run is: "EST", "AUX" and "COIN" block, "decided" has returned
    received,     \* the messages of the round handled so far: estValues and auxValues
    binValues,    \* binValues of the round
    estEchoes,    \* estEchoes of the round
    notifyEST,    \* the first value in the channel of the round, or None
    notifyAUX,    \* the first set of values in the channel of the round, or {}
    out,          \* what was put on aba.out
    msgs          \* messages multicast by the nodes of Correct

vars == <<value, coin, spoilt, asked, round, est, phase, received, binValues, estEchoes,
          notifyEST, notifyAUX, out, msgs>>

TypeOK ==
    /\ value \in [Correct -> Bit]
    /\ coin \in [Rounds -> Bit]
    /\ spoilt \in SUBSET Rounds
    /\ asked \in [Rounds -> SUBSET Correct]
    /\ round \in [Correct -> Rounds]
    /\ est \in [Correct -> Bit]
    /\ phase \in [Correct -> {"EST", "AUX", "COIN", "decided"}]
    /\ received \in [Correct -> SUBSET AbaMessage]
    /\ binValues \in [Correct -> SUBSET Bit]
    /\ estEchoes \in [Correct -> SUBSET Bit]
    /\ notifyEST \in [Correct -> Bit \cup {None}]
    /\ notifyAUX \in [Correct -> SUBSET Bit]
    /\ out \in [Correct -> Bit \cup {None}]
    /\ msgs \in SUBSET {m \in AbaMessage : m.sender \in Correct}

\* Every node has an input, and Run has come to its first wait.  The coin keeps a
\* share before it verifies it: if a bad one is there when the first request makes
\* enough, they cannot be joined then, nor, as long as it stays, later.  In which
\* rounds that will happen is up to the deviating nodes.
Init ==
    /\ value \in [Correct -> Bit]
    /\ coin \in [Rounds -> Bit]
    /\ spoilt \in IF Faulty = {} THEN {{}} ELSE SUBSET Rounds
    /\ asked = [r \in Rounds |-> {}]
    /\ round = [i \in Correct |-> 0]
    /\ est = value
    /\ phase = [i \in Correct |-> "EST"]
    /\ received = [i \in Correct |-> {}]
    /\ binValues = [i \in Correct |-> {}]
    /\ estEchoes = [i \in Correct |-> {}]
    /\ notifyEST = [i \in Correct |-> None]
    /\ notifyAUX = [i \in Correct |-> {}]
    /\ out = [i \in Correct |-> None]
    /\ msgs = {Est(i, 0, value[i]) : i \in Correct}

-------------------------------------------------------------------------------
(* The message handler *)

\* len(estValues[r][v]) and len(auxValues[r][v]) are the sizes of these.
Senders(M, status, v) ==
    {j \in Node : \E m \in M : m.status = status /\ m.sender = j /\ m.value = v}

\* Mutants of the thresholds.
EchoOfT(S) == Cardinality(S) >= T
AuxOfFewer(k) == k >= N - T - 1
AuxOfAll(k) == k >= N
BinOfMore(S) == Cardinality(S) > 2 * T + 1

EchoThreshold(S) == Cardinality(S) >= T + 1
BinThreshold(S) == Cardinality(S) >= 2 * T + 1
AuxThreshold(k) == k >= N - T

\* The values of the first of the three conditions that holds when an AUX is
\* handled, {} if none does.
AuxValues(bin, zeros, ones) ==
    CASE 0 \in bin /\ AuxThreshold(Cardinality(zeros)) -> {0}
      [] 1 \in bin /\ AuxThreshold(Cardinality(ones))
           /\ ~(0 \in bin /\ AuxThreshold(Cardinality(zeros))) -> {1}
      [] OTHER ->
           IF bin = Bit /\ AuxThreshold(Cardinality(zeros) + Cardinality(ones)) THEN Bit ELSE {}

handleEST(i, m) ==
    LET v == m.value
        from == Senders(received[i] \cup {m}, "EST", v)
        echo == EchoThreshold(from) /\ v \notin estEchoes[i]
        add == BinThreshold(from)
    IN  /\ m.status = "EST"
        /\ estEchoes' = [estEchoes EXCEPT ![i] = IF echo THEN @ \cup {v} ELSE @]
        /\ msgs' = IF echo THEN msgs \cup {Est(i, m.round, v)} ELSE msgs
        /\ binValues' = [binValues EXCEPT ![i] = IF add THEN @ \cup {v} ELSE @]
        /\ notifyEST' = [notifyEST EXCEPT ![i] = IF add /\ @ = None THEN v ELSE @]
        /\ UNCHANGED notifyAUX

handleAUX(i, m) ==
    LET M == received[i] \cup {m}
        values == AuxValues(binValues[i], Senders(M, "AUX", 0), Senders(M, "AUX", 1))
    IN  /\ m.status = "AUX"
        /\ notifyAUX' = [notifyAUX EXCEPT ![i] = IF @ = {} THEN values ELSE @]
        /\ UNCHANGED <<estEchoes, msgs, binValues, notifyEST>>

\* Both thresholds of the tally m counts for are passed, so that the handler
\* acts on it no more: it is kept no longer.
Spent(m, bin, echoes, aux) ==
    \/ m.status = "EST" /\ m.value \in echoes /\ m.value \in bin
    \/ m.status = "AUX" /\ aux # {}

Receive(i, m) ==
    /\ m.round = round[i]
    /\ m \notin received[i] /\ ~Spent(m, binValues[i], estEchoes[i], notifyAUX[i])
    /\ handleEST(i, m) \/ handleAUX(i, m)
    /\ received' = [received EXCEPT ![i] =
          {x \in @ \cup {m} : ~Spent(x, binValues'[i], estEchoes'[i], notifyAUX'[i])}]
    /\ UNCHANGED <<value, coin, spoilt, asked, round, est, phase, out>>

-------------------------------------------------------------------------------
(* The loop of Run *)

\* The node has a value in binValues and sends it.
sendAUX(i) ==
    /\ phase[i] = "EST" /\ notifyEST[i] # None
    /\ phase' = [phase EXCEPT ![i] = "AUX"]
    /\ msgs' = msgs \cup {Aux(i, round[i], notifyEST[i])}
    /\ UNCHANGED <<value, coin, spoilt, asked, round, est, received, binValues, estEchoes,
                   notifyEST, notifyAUX, out>>

\* Enough AUX messages are there: the node asks for the coin.
callCommonCoin(i) ==
    /\ phase[i] = "AUX" /\ notifyAUX[i] # {}
    /\ phase' = [phase EXCEPT ![i] = "COIN"]
    /\ asked' = [asked EXCEPT ![round[i]] = @ \cup {i}]
    /\ UNCHANGED <<value, coin, spoilt, round, est, received, binValues, estEchoes,
                   notifyEST, notifyAUX, out, msgs>>

\* The coin may answer once it has the requests of more than half of the nodes,
\* those of deviating nodes among them, and has to without their help, in a round
\* that no bad share spoilt.
CoinQuorum(S) == Cardinality(S) >= N \div 2 + 1
CoinAnswers(r) == r \notin spoilt /\ CoinQuorum(asked[r] \cup Faulty)
CoinHasToAnswer(r) == r \notin spoilt /\ CoinQuorum(asked[r])

\* Mutant of NextEst: with both values there the coin is not asked.
SomeValue(values, c) == CHOOSE v \in Bit : v \in values

\* Mutant: a node decides the coin whenever it has seen a single value.
DecidesCoin(values, c) == values # Bit

Decides(values, c) == values = {c}
NextEst(values, c) == IF values = Bit THEN c ELSE CHOOSE v \in Bit : v \in values

Decide(i) ==
    LET r == round[i]
    IN  /\ phase[i] = "COIN" /\ CoinAnswers(r)
        /\ Decides(notifyAUX[i], coin[r])
        /\ phase' = [phase EXCEPT ![i] = "decided"]
        /\ out' = [out EXCEPT ![i] = coin[r]]
        /\ UNCHANGED <<value, coin, spoilt, asked, round, est, received, binValues, estEchoes,
                       notifyEST, notifyAUX, msgs>>

\* The end of a round and the top of the loop of the next one.
NextRound(i) ==
    LET r == round[i]
        e == NextEst(notifyAUX[i], coin[r])
    IN  /\ phase[i] = "COIN" /\ CoinAnswers(r)
        /\ ~Decides(notifyAUX[i], coin[r])
        /\ r + 1 \in Rounds
        /\ est' = [est EXCEPT ![i] = e]
        /\ round' = [round EXCEPT ![i] = r + 1]
        /\ phase' = [phase EXCEPT ![i] = "EST"]
        /\ msgs' = msgs \cup {Est(i, r + 1, e)}
        /\ received' = [received EXCEPT ![i] = {}]
        /\ binValues' = [binValues EXCEPT ![i] = {}]
        /\ estEchoes' = [estEchoes EXCEPT ![i] = {}]
        /\ notifyEST' = [notifyEST EXCEPT ![i] = None]
        /\ notifyAUX' = [notifyAUX EXCEPT ![i] = {}]
        /\ UNCHANGED <<value, coin, spoilt, asked, out>>

\* What a deviating node may have sent.
FaultyMessages == {m \in AbaMessage : m.sender \in Faulty}

Run(i) == sendAUX(i) \/ callCommonCoin(i) \/ Decide(i) \/ NextRound(i)
MessageHandler(i) == \E m \in msgs \cup FaultyMessages : Receive(i, m)

Next == \E i \in Correct : Run(i) \/ MessageHandler(i)

Spec == Init /\ [][Next]_vars

\* The steps of the loop that do not wait for a request of a deviating node.
FairRun(i) ==
    \/ sendAUX(i) \/ callCommonCoin(i)
    \/ CoinHasToAnswer(round[i]) /\ (Decide(i) \/ NextRound(i))

\* The goroutines of a node and the coin are scheduled and what was multicast arrives.
FairSpec == /\ Spec
            /\ \A i \in Correct : WF_vars(FairRun(i)) /\ WF_vars(\E m \in msgs : Receive(i, m))

-------------------------------------------------------------------------------
(* Properties *)

\* Two nodes never leave the same round with different single values (the
\* conditions of lines 131 and 134 hold for one value only).
RoundAgreement ==
    \A i, j \in Correct :
        round[i] = round[j] /\ Cardinality(notifyAUX[i]) = 1 /\ Cardinality(notifyAUX[j]) = 1
            => notifyAUX[i] = notifyAUX[j]

\* Once somebody has decided v in a round, everyone goes on to the later rounds
\* with v, whatever coin those bring.
Locked ==
    \A i, j \in Correct :
        out[i] # None /\ round[j] > round[i] => est[j] = out[i]

\* No two nodes decide differently, in the same round or not ("Test if every
\* instance agreed on one value", binaryagreement_test.go:57).
Agreement ==
    \A i, j \in Correct : out[i] # None /\ out[j] # None => out[i] = out[j]

\* A value that no correct node had as its input is neither sent by one, nor
\* decided, in any round: deviating nodes cannot bring it in, and a coin that
\* shows it is adopted only by a node to which both values were sent.
Validity ==
    \A i \in Correct : \A v \in binValues[i] \cup {est[i]} \cup ({out[i]} \ {None}) :
        \E j \in Correct : value[j] = v

\* aba.out of the nodes implements the abstract agreement.
Out == INSTANCE AgreeOnOne WITH Node <- Correct, output <- out
AgreesOnOne == Out!Spec

\* A node that waits for AUX messages goes on: "If a node received n-t AUX
\* messages on value(s) from distinct nodes, it can proceed in the algorithm"
\* (binaryagreement.go:130).
Proceeds == \A i \in Correct : phase[i] = "AUX" ~> phase[i] # "AUX"

\* Every node that is up decides: the test takes a value from every node
\* (binaryagreement_test.go:57-61), and ACS waits for every agreement it started.
Termination == <>(\A i \in Correct : out[i] # None)

\* Nothing is left to be done: the loops wait, and every message for the round a
\* node is in has been handled or is one it acts on no more.
Waits(i) ==
    /\ phase[i] = "EST" => notifyEST[i] = None
    /\ phase[i] = "AUX" => notifyAUX[i] = {}
    /\ phase[i] = "COIN" /\ CoinHasToAnswer(round[i]) =>
         ~Decides(notifyAUX[i], coin[round[i]]) /\ round[i] + 1 \notin Rounds

Handled(i, m) ==
    m.round = round[i] =>
        m \in received[i] \/ Spent(m, binValues[i], estEchoes[i], notifyAUX[i])

Quiet == \A i \in Correct : Waits(i) /\ \A m \in msgs : Handled(i, m)

\* With the same input everywhere nobody waits for ever, although the last AUX may
\* be handled before the EST that completes binValues and those who decided go on
\* to no later round: when nothing is left to be done and the coin shows the input
\* in some round, having been given out up to there, everyone who is up has decided it.
UnanimousDecide ==
    Quiet => \A v \in Bit :
        (\A i \in Correct : value[i] = v)
          /\ (\E r \in Rounds : coin[r] = v /\ \A q \in 0..r : q \notin spoilt)
            => \A i \in Correct : out[i] = v
================================================================================
