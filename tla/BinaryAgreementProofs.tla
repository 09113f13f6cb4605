------------------------- MODULE BinaryAgreementProofs -------------------------
(***************************************************************************)
(* Proofs about BinaryAgreement, for every number of nodes and rounds and  *)
(* whatever the coin and the deviating nodes do: single values agree in a  *)
(* round, a decision locks the value of everyone who goes on, nobody       *)
(* decides differently, and no value comes from nowhere.                   *)
(*                                                                         *)
(* The argument: a node that sees a single value has the AUX messages of   *)
(* n-t nodes for it, of which there are not two sets for two values.  And  *)
(* a value that is sent in some round was sent by a correct node in each   *)
(* round before, at the end of which it was either the coin or certified   *)
(* so, which leaves a decided value without a rival.                       *)
(***************************************************************************)
EXTENDS BinaryAgreement, FiniteSetTheorems, TLAPS

-------------------------------------------------------------------------------
(* The inductive invariant *)

SentEst(r, v) == \E j \in Correct : Est(j, r, v) \in msgs

\* n-t nodes sent AUX messages for v, so far as anybody can tell.
Certified(r, v) ==
    \E S \in SUBSET Node :
        AuxThreshold(Cardinality(S)) /\ \A j \in S : j \in Faulty \/ Aux(j, r, v) \in msgs

AuxOnce ==
    \A i \in Correct, r \in Rounds :
        /\ \A v \in Bit : Aux(i, r, v) \in msgs => r <= round[i] /\ (r = round[i] => phase[i] # "EST")
        /\ ~(Aux(i, r, 0) \in msgs /\ Aux(i, r, 1) \in msgs)

\* How a value came to be sent in round r.
History(r, v) ==
    /\ \E j \in Correct : value[j] = v
    /\ \A q \in 0..(r - 1) : SentEst(q, v) /\ (coin[q] = v \/ Certified(q, v))

EstsFit == \A r \in Rounds, v \in Bit : SentEst(r, v) => History(r, v)

\* What a node has, in the round it is in.
HandledFit(i) ==
    /\ \A m \in received[i] : m.round = round[i] /\ (m.sender \in Faulty \/ m \in msgs)
    /\ \A v \in binValues[i] : SentEst(round[i], v)
    /\ notifyEST[i] \in binValues[i] \cup {None}
    /\ notifyAUX[i] \subseteq binValues[i]
    /\ \A v \in Bit : notifyAUX[i] = {v} => Certified(round[i], v)

LoopFits(i) ==
    /\ Est(i, round[i], est[i]) \in msgs
    /\ phase[i] \in {"COIN", "decided"} => notifyAUX[i] # {}
    /\ IF phase[i] = "decided" THEN notifyAUX[i] = {coin[round[i]]} /\ out[i] = coin[round[i]]
       ELSE out[i] = None

NodesFit == \A i \in Correct : HandledFit(i) /\ LoopFits(i)

IInv == TypeOK /\ AuxOnce /\ EstsFit /\ NodesFit

-------------------------------------------------------------------------------
(* Quorums *)

\* The cardinalities the thresholds are compared with are numbers.
LEMMA Sizes ==
    /\ N \in Nat /\ T \in Nat /\ Cardinality(Faulty) \in Nat
    /\ \A S \in SUBSET Node : IsFiniteSet(S) /\ Cardinality(S) \in Nat /\ Cardinality(S) <= N
<1>1. \A S \in SUBSET Node : IsFiniteSet(S) /\ Cardinality(S) <= N
  BY ABAConstants, FS_Subset DEF N
<1>2. \A S \in SUBSET Node : Cardinality(S) \in Nat
  BY <1>1, FS_CardinalityType
<1>. QED
  BY <1>1, <1>2, ABAConstants DEF N

\* More nodes than deviate are not all deviating.
LEMMA SomeoneHonest ==
    ASSUME NEW S \in SUBSET Node, Cardinality(S) > Cardinality(Faulty)
    PROVE  \E j \in S : j \notin Faulty
<1>1. SUFFICES ASSUME S \subseteq Faulty PROVE FALSE
  OBVIOUS
<1>2. Cardinality(S) <= Cardinality(Faulty)
  BY <1>1, Sizes, ABAConstants, FS_Subset
<1>. QED
  BY <1>2, Sizes

\* Two sets of n-t nodes share one that does not deviate.
LEMMA QuorumsMeet ==
    ASSUME NEW Q \in SUBSET Node, NEW R \in SUBSET Node,
           AuxThreshold(Cardinality(Q)), AuxThreshold(Cardinality(R))
    PROVE  \E j \in Q \cap R : j \notin Faulty
<1>1. Cardinality(Q \cup R) = Cardinality(Q) + Cardinality(R) - Cardinality(Q \cap R)
  BY Sizes, FS_Union
<1>2. Cardinality(Q \cup R) <= N /\ Q \cap R \in SUBSET Node /\ Q \cup R \in SUBSET Node
  BY Sizes
<1>3. Cardinality(Q \cap R) > Cardinality(Faulty)
  BY <1>1, <1>2, Sizes, ABAFaults DEF AuxThreshold
<1>. QED
  BY <1>2, <1>3, SomeoneHonest

\* t+1 or 2t+1 EST messages are not all of deviating nodes.
LEMMA EstQuorumsAreHonest ==
    ASSUME NEW S \in SUBSET Node, EchoThreshold(S) \/ BinThreshold(S)
    PROVE  \E j \in S : j \notin Faulty
<1>1. Cardinality(S) > Cardinality(Faulty)
  BY Sizes, ABAFaults DEF EchoThreshold, BinThreshold
<1>. QED
  BY <1>1, SomeoneHonest

-------------------------------------------------------------------------------
(* Messages *)

\* Every message is what its constructor makes it.
LEMMA MessageForms ==
    /\ \A i, j, r, q, v, w : Est(i, r, v) # Aux(j, q, w)
    /\ \A i, j, r, q, v, w : Est(i, r, v) = Est(j, q, w) => i = j /\ r = q /\ v = w
    /\ \A i, j, r, q, v, w : Aux(i, r, v) = Aux(j, q, w) => i = j /\ r = q /\ v = w
    /\ \A m \in AbaMessage :
         /\ m.sender \in Node /\ m.value \in Bit /\ m.round \in Rounds
         /\ m.status = "EST" => m = Est(m.sender, m.round, m.value)
         /\ m.status = "AUX" => m = Aux(m.sender, m.round, m.value)
    /\ \A i \in Correct, r \in Rounds, v \in Bit :
         /\ {Est(i, r, v), Aux(i, r, v)} \subseteq {m \in AbaMessage : m.sender \in Correct}
         /\ Est(i, r, v).round = r /\ Est(i, r, v).sender = i
<1>1. \A i, j, r, q, v, w : Est(i, r, v) # Aux(j, q, w)
  BY DEF Est, Aux
<1>2. /\ \A i, j, r, q, v, w : Est(i, r, v) = Est(j, q, w) => i = j /\ r = q /\ v = w
      /\ \A i, j, r, q, v, w : Aux(i, r, v) = Aux(j, q, w) => i = j /\ r = q /\ v = w
  BY DEF Est, Aux
<1>3. \A m \in AbaMessage :
         /\ m.sender \in Node /\ m.value \in Bit /\ m.round \in Rounds
         /\ m.status = "EST" => m = Est(m.sender, m.round, m.value)
         /\ m.status = "AUX" => m = Aux(m.sender, m.round, m.value)
  BY DEF AbaMessage, Est, Aux
<1>4. \A i \in Correct, r \in Rounds, v \in Bit :
         /\ {Est(i, r, v), Aux(i, r, v)} \subseteq {m \in AbaMessage : m.sender \in Correct}
         /\ Est(i, r, v).round = r /\ Est(i, r, v).sender = i
  BY DEF AbaMessage, Est, Aux, Correct
<1>. QED
  BY <1>1, <1>2, <1>3, <1>4

\* What was sent stays sent, and what is certified stays certified.
LEMMA Monotone ==
    ASSUME msgs \subseteq msgs'
    PROVE  /\ \A r, v : SentEst(r, v) => SentEst(r, v)'
           /\ \A r, v : Certified(r, v) => Certified(r, v)'
<1>1. \A r, v : SentEst(r, v) => SentEst(r, v)'
  BY DEF SentEst
<1>2. \A r, v : Certified(r, v) => Certified(r, v)'
  BY DEF Certified
<1>. QED
  BY <1>1, <1>2

\* Only one value is certified in a round.
LEMMA OneCertificate ==
    ASSUME TypeOK, AuxOnce, NEW r \in Rounds, NEW v \in Bit, NEW w \in Bit,
           Certified(r, v), Certified(r, w)
    PROVE  v = w
<1>1. PICK Q \in SUBSET Node :
        AuxThreshold(Cardinality(Q)) /\ \A j \in Q : j \in Faulty \/ Aux(j, r, v) \in msgs
  BY DEF Certified
<1>2. PICK R \in SUBSET Node :
        AuxThreshold(Cardinality(R)) /\ \A j \in R : j \in Faulty \/ Aux(j, r, w) \in msgs
  BY DEF Certified
<1>3. PICK j \in Q \cap R : j \notin Faulty
  BY <1>1, <1>2, QuorumsMeet
<1>4. Aux(j, r, v) \in msgs /\ Aux(j, r, w) \in msgs
  BY <1>1, <1>2, <1>3
<1>5. j \in Correct
  BY <1>4 DEF TypeOK, Aux
<1>. QED
  BY <1>4, <1>5 DEF AuxOnce, Bit

\* The senders of what a node has handled sent it.
LEMMA SendersSent ==
    ASSUME TypeOK, NEW r \in Rounds, NEW v \in Bit, NEW M \in SUBSET AbaMessage,
           \A m \in M : m.round = r /\ (m.sender \in Faulty \/ m \in msgs)
    PROVE  /\ Senders(M, "EST", v) \in SUBSET Node /\ Senders(M, "AUX", v) \in SUBSET Node
           /\ \A j \in Senders(M, "EST", v) : j \in Faulty \/ (j \in Correct /\ Est(j, r, v) \in msgs)
           /\ \A j \in Senders(M, "AUX", v) : j \in Faulty \/ Aux(j, r, v) \in msgs
<1>1. Senders(M, "EST", v) \in SUBSET Node /\ Senders(M, "AUX", v) \in SUBSET Node
  BY DEF Senders
<1>2. ASSUME NEW j \in Senders(M, "EST", v), j \notin Faulty
      PROVE  j \in Correct /\ Est(j, r, v) \in msgs
  <2>1. PICK m \in M : m.status = "EST" /\ m.sender = j /\ m.value = v
    BY DEF Senders
  <2>2. m \in msgs /\ m = Est(j, r, v)
    BY <1>2, <2>1, MessageForms
  <2>. QED
    BY <2>1, <2>2 DEF TypeOK
<1>3. ASSUME NEW j \in Senders(M, "AUX", v), j \notin Faulty
      PROVE  Aux(j, r, v) \in msgs
  <2>1. PICK m \in M : m.status = "AUX" /\ m.sender = j /\ m.value = v
    BY DEF Senders
  <2>. QED
    BY <1>3, <2>1, MessageForms
<1>. QED
  BY <1>1, <1>2, <1>3

-------------------------------------------------------------------------------
(* What steps keep *)

LEMMA InitIInv == Init => IInv
<1>1. SUFFICES ASSUME Init PROVE IInv
  OBVIOUS
<1>2. TypeOK
  BY <1>1, ABAConstants, MessageForms DEF Init, TypeOK
<1>3. AuxOnce
  BY <1>1, MessageForms DEF Init, AuxOnce
<1>4. EstsFit
  <2>1. ASSUME NEW r \in Rounds, NEW v \in Bit, SentEst(r, v) PROVE History(r, v)
    <3>1. PICK j \in Correct : Est(j, r, v) \in {Est(i, 0, value[i]) : i \in Correct}
      BY <1>1, <2>1 DEF Init, SentEst
    <3>2. r = 0 /\ \E i \in Correct : value[i] = v
      BY <3>1, MessageForms
    <3>. QED
      BY <3>2 DEF History
  <2>. QED
    BY <2>1 DEF EstsFit
<1>5. NodesFit
  BY <1>1 DEF Init, NodesFit, HandledFit, LoopFits
<1>. QED
  BY <1>2, <1>3, <1>4, <1>5 DEF IInv

\* A node that does nothing still fits when others send messages.
LEMMA OthersFit ==
    ASSUME NEW j \in Correct, HandledFit(j), LoopFits(j), msgs \subseteq msgs', coin' = coin,
           received'[j] = received[j], round'[j] = round[j], est'[j] = est[j],
           phase'[j] = phase[j], binValues'[j] = binValues[j], notifyEST'[j] = notifyEST[j],
           notifyAUX'[j] = notifyAUX[j], out'[j] = out[j]
    PROVE  HandledFit(j)' /\ LoopFits(j)'
<1>1. HandledFit(j)'
  BY Monotone DEF HandledFit
<1>2. LoopFits(j)'
  BY DEF LoopFits
<1>. QED
  BY <1>1, <1>2

\* A value sent that was sent in the same round before has its history already.
LEMMA OldValueFits ==
    ASSUME TypeOK, EstsFit, msgs \subseteq msgs', value' = value, coin' = coin,
           \A r \in Rounds, v \in Bit : SentEst(r, v)' => SentEst(r, v)
    PROVE  EstsFit'
<1>1. ASSUME NEW r \in Rounds, NEW v \in Bit, SentEst(r, v)' PROVE History(r, v)'
  <2>1. History(r, v)
    BY <1>1 DEF EstsFit
  <2>. QED
    BY <2>1, Monotone DEF History
<1>. QED
  BY <1>1 DEF EstsFit

\* The values of an AUX step are in binValues, and a single one has its senders.
LEMMA AuxValuesFit ==
    ASSUME NEW bin \in SUBSET Bit, NEW zeros, NEW ones
    PROVE  /\ AuxValues(bin, zeros, ones) \subseteq bin
           /\ AuxValues(bin, zeros, ones) = {0} => AuxThreshold(Cardinality(zeros))
           /\ AuxValues(bin, zeros, ones) = {1} => AuxThreshold(Cardinality(ones))
<1>. DEFINE V == AuxValues(bin, zeros, ones)
            Z == 0 \in bin /\ AuxThreshold(Cardinality(zeros))
            O == 1 \in bin /\ AuxThreshold(Cardinality(ones))
<1>1. CASE Z
  <2>1. V = {0} /\ {0} # {1}
    BY <1>1 DEF AuxValues
  <2>. QED
    BY <1>1, <2>1
<1>2. CASE ~Z /\ O
  <2>1. V = {1} /\ {1} # {0}
    BY <1>2 DEF AuxValues
  <2>. QED
    BY <1>2, <2>1
<1>3. CASE ~Z /\ ~O
  <2>1. V = IF bin = Bit /\ AuxThreshold(Cardinality(zeros) + Cardinality(ones)) THEN Bit ELSE {}
    BY <1>3 DEF AuxValues
  <2>2. (V = Bit /\ bin = Bit) \/ V = {}
    BY <2>1
  <2>3. 0 \in Bit /\ 1 \in Bit /\ 1 \notin {0} /\ 0 \notin {1}
    BY DEF Bit
  <2>. QED
    BY <2>2, <2>3
<1>. QED
  BY <1>1, <1>2, <1>3

\* What a step of the message handler may have to go on.
LEMMA HandledMessages ==
    ASSUME IInv, NEW i \in Correct, NEW m \in msgs \cup FaultyMessages, Receive(i, m)
    PROVE  /\ m \in AbaMessage /\ received[i] \cup {m} \in SUBSET AbaMessage
           /\ \A x \in received[i] \cup {m} : x.round = round[i] /\ (x.sender \in Faulty \/ x \in msgs)
           /\ received'[i] \in SUBSET (received[i] \cup {m})
<1>1. m \in AbaMessage /\ received[i] \in SUBSET AbaMessage
  BY DEF IInv, TypeOK, FaultyMessages
<1>2. \A x \in received[i] \cup {m} : x.round = round[i] /\ (x.sender \in Faulty \/ x \in msgs)
  BY DEF IInv, NodesFit, HandledFit, Receive, FaultyMessages
<1>3. received'[i] \in SUBSET (received[i] \cup {m})
  BY DEF IInv, TypeOK, Receive
<1>. QED
  BY <1>1, <1>2, <1>3

LEMMA ReceiveType ==
    ASSUME IInv, NEW i \in Correct, NEW m \in msgs \cup FaultyMessages, Receive(i, m)
    PROVE  TypeOK'
<1>. USE DEF IInv, TypeOK
<1>1. /\ m \in AbaMessage /\ m.value \in Bit /\ m.round \in Rounds
      /\ received'[i] \in SUBSET AbaMessage
  BY HandledMessages, MessageForms
<1>2. received' \in [Correct -> SUBSET AbaMessage]
  BY <1>1 DEF Receive
<1>3. CASE handleEST(i, m)
  <2>1. estEchoes' \in [Correct -> SUBSET Bit] /\ binValues' \in [Correct -> SUBSET Bit]
        /\ notifyEST' \in [Correct -> Bit \cup {None}]
    BY <1>1, <1>3 DEF handleEST
  <2>2. msgs' \in SUBSET {x \in AbaMessage : x.sender \in Correct}
    BY <1>1, <1>3, MessageForms DEF handleEST
  <2>. QED
    BY <1>2, <1>3, <2>1, <2>2 DEF handleEST, Receive
<1>4. CASE handleAUX(i, m)
  <2>1. notifyAUX' \in [Correct -> SUBSET Bit]
    BY <1>4, AuxValuesFit DEF handleAUX
  <2>. QED
    BY <1>2, <1>4, <2>1 DEF handleAUX, Receive
<1>. QED
  BY <1>3, <1>4 DEF Receive

\* A message handled changes what its node has in its round, and may be echoed
\* when some correct node had sent its value in that round.
LEMMA ReceiveKeeps ==
    ASSUME IInv, NEW i \in Correct, NEW m \in msgs \cup FaultyMessages, Receive(i, m)
    PROVE  IInv'
<1>. DEFINE r == round[i]
            M == received[i] \cup {m}
<1>1. /\ m \in AbaMessage /\ M \in SUBSET AbaMessage /\ m.value \in Bit /\ r \in Rounds
      /\ \A x \in M : x.round = r /\ (x.sender \in Faulty \/ x \in msgs)
      /\ received'[i] \in SUBSET M
  BY HandledMessages, MessageForms DEF IInv, TypeOK
<1>2. UNCHANGED <<value, coin, spoilt, round, est, phase, out>>
  BY DEF Receive
<1>3. EchoThreshold(Senders(M, "EST", m.value)) \/ BinThreshold(Senders(M, "EST", m.value))
        => SentEst(r, m.value)
  BY <1>1, SendersSent, EstQuorumsAreHonest DEF SentEst, IInv
<1>4. msgs \subseteq msgs' /\ \A x \in msgs' \ msgs : x = Est(i, r, m.value) /\ SentEst(r, m.value)
  BY <1>1, <1>3 DEF Receive, handleEST, handleAUX
<1>5. \A q, v : SentEst(q, v)' => SentEst(q, v)
  BY <1>4, MessageForms DEF SentEst
<1>6. EstsFit'
  BY <1>2, <1>4, <1>5, OldValueFits DEF IInv
<1>7. AuxOnce'
  <2>1. \A j, q, v : Aux(j, q, v) \in msgs' => Aux(j, q, v) \in msgs
    BY <1>4, MessageForms
  <2>. QED
    BY <1>2, <2>1 DEF IInv, AuxOnce
<1>8. HandledFit(i)'
  <2>1. HandledFit(i)
    BY DEF IInv, NodesFit
  <2>2. \A x \in received'[i] : x.round = round'[i] /\ (x.sender \in Faulty \/ x \in msgs')
    BY <1>1, <1>2, <1>4
  <2>3. CASE handleEST(i, m)
    <3>. DEFINE add == BinThreshold(Senders(M, "EST", m.value))
    <3>1. binValues'[i] = (IF add THEN binValues[i] \cup {m.value} ELSE binValues[i])
          /\ notifyEST'[i] = (IF add /\ notifyEST[i] = None THEN m.value ELSE notifyEST[i])
          /\ notifyAUX'[i] = notifyAUX[i]
      BY <2>3 DEF handleEST, IInv, TypeOK
    <3>2. \A v \in binValues'[i] : SentEst(r, v)
      BY <1>3, <2>1, <3>1 DEF HandledFit
    <3>. HIDE DEF add
    <3>. QED
      BY <1>2, <1>4, <2>1, <2>2, <3>1, <3>2, Monotone DEF HandledFit
  <2>4. CASE handleAUX(i, m)
    <3>. DEFINE V == AuxValues(binValues[i], Senders(M, "AUX", 0), Senders(M, "AUX", 1))
    <3>1. notifyAUX'[i] = (IF notifyAUX[i] = {} THEN V ELSE notifyAUX[i])
          /\ binValues'[i] = binValues[i] /\ notifyEST'[i] = notifyEST[i]
      BY <2>4 DEF handleAUX, IInv, TypeOK
    <3>2. V \subseteq binValues[i]
          /\ (V = {0} => AuxThreshold(Cardinality(Senders(M, "AUX", 0))))
          /\ (V = {1} => AuxThreshold(Cardinality(Senders(M, "AUX", 1))))
      BY AuxValuesFit DEF IInv, TypeOK
    <3>3. \A v \in Bit : V = {v} => Certified(r, v)
      BY <1>1, <3>2, SendersSent DEF Certified, Bit, IInv
    <3>. HIDE DEF V
    <3>4. notifyAUX'[i] \subseteq binValues[i]
          /\ \A v \in Bit : notifyAUX'[i] = {v} => Certified(r, v)
      BY <2>1, <3>1, <3>2, <3>3 DEF HandledFit
    <3>. QED
      BY <1>2, <1>4, <2>1, <2>2, <3>1, <3>4, Monotone DEF HandledFit
  <2>. QED
    BY <2>3, <2>4 DEF Receive
<1>9. LoopFits(i)'
  <2>1. notifyAUX[i] # {} => notifyAUX'[i] = notifyAUX[i]
    BY DEF IInv, TypeOK, Receive, handleEST, handleAUX
  <2>. QED
    BY <1>2, <1>4, <2>1 DEF IInv, NodesFit, LoopFits
<1>10. ASSUME NEW j \in Correct, j # i PROVE HandledFit(j)' /\ LoopFits(j)'
  <2>1. received'[j] = received[j] /\ binValues'[j] = binValues[j]
        /\ notifyEST'[j] = notifyEST[j] /\ notifyAUX'[j] = notifyAUX[j]
    BY <1>10 DEF IInv, TypeOK, Receive, handleEST, handleAUX
  <2>. QED
    BY <1>2, <1>4, <2>1, OthersFit DEF IInv, NodesFit
<1>11. NodesFit'
  BY <1>8, <1>9, <1>10 DEF NodesFit
<1>. QED
  BY <1>6, <1>7, <1>11, ReceiveType DEF IInv

\* An AUX is sent once in a round.
LEMMA sendAUXKeeps ==
    ASSUME IInv, NEW i \in Correct, sendAUX(i)
    PROVE  IInv'
<1>. DEFINE a == Aux(i, round[i], notifyEST[i])
<1>1. notifyEST[i] \in Bit /\ round[i] \in Rounds /\ phase[i] = "EST" /\ msgs' = msgs \cup {a}
  BY DEF IInv, TypeOK, sendAUX
<1>2. TypeOK'
  BY <1>1, MessageForms DEF IInv, TypeOK, sendAUX
<1>3. EstsFit'
  <2>1. \A q, v : SentEst(q, v)' => SentEst(q, v)
    BY <1>1, MessageForms DEF SentEst
  <2>. QED
    BY <1>1, <2>1, OldValueFits DEF IInv, sendAUX
<1>4. AuxOnce'
  <2>1. ASSUME NEW j \in Correct, NEW q \in Rounds, NEW v \in Bit, Aux(j, q, v) \in msgs'
        PROVE  /\ q <= round'[j] /\ (q = round'[j] => phase'[j] # "EST")
               /\ Aux(j, q, v) \in msgs \/ (j = i /\ q = round[i] /\ v = notifyEST[i])
    <3>1. Aux(j, q, v) \in msgs \/ (j = i /\ q = round[i] /\ v = notifyEST[i])
      BY <1>1, <2>1, MessageForms
    <3>2. round' = round /\ phase'[i] = "AUX" /\ (j # i => phase'[j] = phase[j])
      BY DEF IInv, TypeOK, sendAUX
    <3>3. round[i] <= round[i]
      <4>1. round[i] \in Nat
        BY <1>1, ABAConstants
      <4>. QED
        BY <4>1
    <3>4. Aux(j, q, v) \in msgs => q <= round[j] /\ (q = round[j] => phase[j] # "EST")
      BY DEF IInv, AuxOnce
    <3>. QED
      BY <3>1, <3>2, <3>3, <3>4
  <2>2. \A v \in Bit : Aux(i, round[i], v) \notin msgs
    BY <1>1 DEF IInv, AuxOnce
  <2>3. ASSUME NEW j \in Correct, NEW q \in Rounds PROVE ~(Aux(j, q, 0) \in msgs' /\ Aux(j, q, 1) \in msgs')
    <3>. 0 \in Bit /\ 1 \in Bit /\ 0 # 1
      BY DEF Bit
    <3>1. CASE j = i /\ q = round[i]
      BY <2>1, <2>2, <3>1
    <3>2. CASE ~(j = i /\ q = round[i])
      BY <2>1, <3>2 DEF IInv, AuxOnce
    <3>. QED
      BY <3>1, <3>2
  <2>. QED
    BY <2>1, <2>3 DEF AuxOnce
<1>5. NodesFit'
  <2>1. HandledFit(i)'
    BY <1>1, Monotone DEF IInv, NodesFit, HandledFit, sendAUX
  <2>2. LoopFits(i)'
    BY <1>1 DEF IInv, TypeOK, NodesFit, LoopFits, sendAUX
  <2>3. ASSUME NEW j \in Correct, j # i PROVE HandledFit(j)' /\ LoopFits(j)'
    <3>1. phase'[j] = phase[j]
      BY <2>3 DEF IInv, TypeOK, sendAUX
    <3>. QED
      BY <1>1, <3>1, OthersFit DEF IInv, NodesFit, sendAUX
  <2>. QED
    BY <2>1, <2>2, <2>3 DEF NodesFit
<1>. QED
  BY <1>2, <1>3, <1>4, <1>5 DEF IInv

LEMMA callCommonCoinKeeps ==
    ASSUME IInv, NEW i \in Correct, callCommonCoin(i)
    PROVE  IInv'
<1>1. /\ UNCHANGED <<value, coin, spoilt, round, est, received, binValues, notifyEST, notifyAUX, out, msgs>>
      /\ phase[i] = "AUX" /\ notifyAUX[i] # {} /\ phase'[i] = "COIN"
      /\ \A j \in Correct : j # i => phase'[j] = phase[j]
  BY DEF IInv, TypeOK, callCommonCoin
<1>2. TypeOK'
  BY DEF IInv, TypeOK, callCommonCoin
<1>3. EstsFit'
  BY <1>1 DEF IInv, EstsFit, History, SentEst, Certified
<1>4. AuxOnce'
  <2>1. \A j \in Correct : phase[j] # "EST" => phase'[j] # "EST"
    BY <1>1
  <2>. QED
    BY <1>1, <2>1 DEF IInv, AuxOnce
<1>5. NodesFit'
  <2>1. HandledFit(i)' /\ LoopFits(i)'
    BY <1>1, Monotone DEF IInv, NodesFit, HandledFit, LoopFits
  <2>2. \A j \in Correct : j # i => HandledFit(j)' /\ LoopFits(j)'
    BY <1>1, OthersFit DEF IInv, NodesFit
  <2>. QED
    BY <2>1, <2>2 DEF NodesFit
<1>. QED
  BY <1>2, <1>3, <1>4, <1>5 DEF IInv

LEMMA DecideKeeps ==
    ASSUME IInv, NEW i \in Correct, Decide(i)
    PROVE  IInv'
<1>1. /\ UNCHANGED <<value, coin, spoilt, round, est, received, binValues, notifyEST, notifyAUX, msgs>>
      /\ notifyAUX[i] = {coin[round[i]]} /\ phase'[i] = "decided" /\ out'[i] = coin[round[i]]
      /\ \A j \in Correct : j # i => phase'[j] = phase[j] /\ out'[j] = out[j]
  BY DEF IInv, TypeOK, Decide, Decides
<1>2. TypeOK'
  BY DEF IInv, TypeOK, Decide
<1>3. EstsFit'
  BY <1>1 DEF IInv, EstsFit, History, SentEst, Certified
<1>4. AuxOnce'
  <2>1. \A j \in Correct : phase[j] # "EST" => phase'[j] # "EST"
    BY <1>1
  <2>. QED
    BY <1>1, <2>1 DEF IInv, AuxOnce
<1>5. NodesFit'
  <2>1. HandledFit(i)' /\ LoopFits(i)'
    BY <1>1, Monotone DEF IInv, NodesFit, HandledFit, LoopFits
  <2>2. \A j \in Correct : j # i => HandledFit(j)' /\ LoopFits(j)'
    BY <1>1, OthersFit DEF IInv, NodesFit
  <2>. QED
    BY <2>1, <2>2 DEF NodesFit
<1>. QED
  BY <1>2, <1>3, <1>4, <1>5 DEF IInv

\* What a node goes on with is the coin or certified, and was sent in the round.
LEMMA NextEstFits ==
    ASSUME IInv, NEW i \in Correct, phase[i] = "COIN"
    PROVE  LET e == NextEst(notifyAUX[i], coin[round[i]])
           IN  e \in Bit /\ SentEst(round[i], e) /\ (e = coin[round[i]] \/ Certified(round[i], e))
<1>. DEFINE e == NextEst(notifyAUX[i], coin[round[i]])
<1>1. /\ notifyAUX[i] \in SUBSET Bit /\ notifyAUX[i] # {} /\ coin[round[i]] \in Bit
      /\ notifyAUX[i] \subseteq binValues[i]
      /\ \A v \in binValues[i] : SentEst(round[i], v)
      /\ \A v \in Bit : notifyAUX[i] = {v} => Certified(round[i], v)
  BY DEF IInv, TypeOK, NodesFit, HandledFit, LoopFits
<1>2. CASE notifyAUX[i] = Bit
  BY <1>1, <1>2 DEF NextEst
<1>3. CASE notifyAUX[i] # Bit
  <2>1. PICK v \in Bit : notifyAUX[i] = {v}
    BY <1>1, <1>3 DEF Bit
  <2>2. e = v
    BY <1>3, <2>1 DEF NextEst
  <2>. QED
    BY <1>1, <2>1, <2>2
<1>. QED
  BY <1>2, <1>3

LEMMA NextRoundKeeps ==
    ASSUME IInv, NEW i \in Correct, NextRound(i)
    PROVE  IInv'
<1>. DEFINE r == round[i]
            e == NextEst(notifyAUX[i], coin[r])
<1>1. /\ e \in Bit /\ SentEst(r, e) /\ (e = coin[r] \/ Certified(r, e))
      /\ r \in Rounds /\ r \in Nat /\ r + 1 \in Rounds /\ Rounds \subseteq Nat
  BY NextEstFits, ABAConstants DEF IInv, TypeOK, NextRound
<1>2. /\ msgs' = msgs \cup {Est(i, r + 1, e)} /\ UNCHANGED <<value, coin, spoilt, out>>
      /\ round'[i] = r + 1 /\ phase'[i] = "EST" /\ est'[i] = e /\ received'[i] = {}
      /\ binValues'[i] = {} /\ notifyEST'[i] = None /\ notifyAUX'[i] = {}
      /\ phase[i] = "COIN"
  BY DEF IInv, TypeOK, NextRound
<1>3. \A j \in Correct : j # i =>
        /\ round'[j] = round[j] /\ phase'[j] = phase[j] /\ est'[j] = est[j]
        /\ received'[j] = received[j] /\ binValues'[j] = binValues[j]
        /\ notifyEST'[j] = notifyEST[j] /\ notifyAUX'[j] = notifyAUX[j]
  BY DEF IInv, TypeOK, NextRound
<1>. HIDE DEF e
<1>4. TypeOK'
  <2>1. msgs' \in SUBSET {m \in AbaMessage : m.sender \in Correct}
    BY <1>1, <1>2, MessageForms DEF IInv, TypeOK
  <2>2. round' \in [Correct -> Rounds] /\ est' \in [Correct -> Bit]
    BY <1>1 DEF IInv, TypeOK, NextRound, e
  <2>. QED
    BY <2>1, <2>2 DEF IInv, TypeOK, NextRound
<1>5. EstsFit'
  <2>1. ASSUME NEW q \in Rounds, NEW v \in Bit, SentEst(q, v)' PROVE History(q, v)'
    <3>1. CASE SentEst(q, v)
      <4>1. History(q, v)
        BY <3>1 DEF IInv, EstsFit
      <4>. QED
        BY <1>2, <4>1, Monotone DEF History
    <3>2. CASE ~SentEst(q, v)
      <4>1. q = r + 1 /\ v = e
        BY <1>2, <2>1, <3>2, MessageForms DEF SentEst
      <4>2. History(r, e)
        BY <1>1 DEF IInv, EstsFit
      <4>3. \A p \in 0..(q - 1) : p \in 0..(r - 1) \/ p = r
        BY <1>1, <4>1
      <4>4. \A p \in 0..(q - 1) : SentEst(p, v) /\ (coin[p] = v \/ Certified(p, v))
        BY <1>1, <4>1, <4>2, <4>3 DEF History
      <4>5. \E j \in Correct : value[j] = v
        BY <4>1, <4>2 DEF History
      <4>. QED
        BY <1>2, <4>4, <4>5, Monotone DEF History
    <3>. QED
      BY <3>1, <3>2
  <2>. QED
    BY <2>1 DEF EstsFit
<1>6. AuxOnce'
  <2>1. \A j, q, v : Aux(j, q, v) \in msgs' => Aux(j, q, v) \in msgs
    BY <1>2, MessageForms
  <2>2. ASSUME NEW j \in Correct, NEW q \in Rounds, NEW v \in Bit, Aux(j, q, v) \in msgs'
        PROVE  q <= round'[j] /\ (q = round'[j] => phase'[j] # "EST")
    <3>1. q <= round[j] /\ (q = round[j] => phase[j] # "EST")
      BY <2>1, <2>2 DEF IInv, AuxOnce
    <3>2. CASE j = i
      <4>1. q \in Nat /\ q <= r
        BY <1>1, <3>1, <3>2
      <4>. QED
        BY <1>1, <1>2, <3>2, <4>1
    <3>3. CASE j # i
      BY <1>3, <3>1, <3>3
    <3>. QED
      BY <3>2, <3>3
  <2>. QED
    BY <2>1, <2>2 DEF IInv, AuxOnce
<1>7. NodesFit'
  <2>1. HandledFit(i)'
    BY <1>2 DEF HandledFit
  <2>2. LoopFits(i)'
    BY <1>2 DEF IInv, NodesFit, LoopFits
  <2>3. \A j \in Correct : j # i => HandledFit(j)' /\ LoopFits(j)'
    BY <1>2, <1>3, OthersFit DEF IInv, NodesFit
  <2>. QED
    BY <2>1, <2>2, <2>3 DEF NodesFit
<1>. QED
  BY <1>4, <1>5, <1>6, <1>7 DEF IInv

LEMMA StutterKeeps == ASSUME IInv, UNCHANGED vars PROVE IInv'
<1>. USE DEF vars
<1>1. TypeOK'
  BY DEF IInv, TypeOK
<1>2. AuxOnce' /\ EstsFit'
  BY DEF IInv, AuxOnce, EstsFit, History, SentEst, Certified
<1>3. NodesFit'
  BY OthersFit DEF IInv, NodesFit
<1>. QED
  BY <1>1, <1>2, <1>3 DEF IInv

LEMMA NextKeeps == IInv /\ [Next]_vars => IInv'
<1>1. SUFFICES ASSUME IInv, [Next]_vars PROVE IInv'
  OBVIOUS
<1>2. ASSUME NEW i \in Correct, Run(i) PROVE IInv'
  BY <1>1, <1>2, sendAUXKeeps, callCommonCoinKeeps, DecideKeeps, NextRoundKeeps DEF Run
<1>3. ASSUME NEW i \in Correct, MessageHandler(i) PROVE IInv'
  BY <1>1, <1>3, ReceiveKeeps DEF MessageHandler
<1>. QED
  BY <1>1, <1>2, <1>3, StutterKeeps DEF Next

-------------------------------------------------------------------------------
(* What follows *)

\* What makes up the argument holds throughout.
THEOREM Invariance == Spec => []IInv
BY InitIInv, NextKeeps, PTL DEF Spec

\* The variables have their types in every state.
THEOREM TypeCorrect == Spec => []TypeOK
<1>1. IInv => TypeOK
  BY DEF IInv
<1>. QED
  BY <1>1, Invariance, PTL

LEMMA SingleValues ==
    ASSUME IInv, NEW i \in Correct, NEW j \in Correct, round[i] = round[j],
           NEW v \in Bit, NEW w \in Bit, notifyAUX[i] = {v}, notifyAUX[j] = {w}
    PROVE  v = w
<1>1. Certified(round[i], v) /\ Certified(round[i], w) /\ round[i] \in Rounds
  BY DEF IInv, TypeOK, NodesFit, HandledFit
<1>. QED
  BY <1>1, OneCertificate DEF IInv

\* A set of values is empty, has a single value or both.
LEMMA SetsOfBits ==
    \A S \in SUBSET Bit : Cardinality(S) = 1 => \E v \in Bit : S = {v}
<1>1. TAKE S \in SUBSET Bit
<1>2. HAVE Cardinality(S) = 1
<1>3. S # {}
  BY <1>2, FS_EmptySet
<1>4. S # Bit
  <2>1. Cardinality({0} \cup {1}) = Cardinality({0}) + 1
    BY FS_Singleton, FS_AddElement
  <2>2. Cardinality({0}) = 1 /\ Bit = {0} \cup {1}
    BY FS_Singleton DEF Bit
  <2>. QED
    BY <1>2, <2>1, <2>2
<1>. QED
  BY <1>3, <1>4 DEF Bit

\* Two nodes never leave the same round with different single values.
THEOREM RoundsAgree == Spec => []RoundAgreement
<1>1. ASSUME IInv PROVE RoundAgreement
  <2>1. ASSUME NEW i \in Correct, NEW j \in Correct, round[i] = round[j],
               Cardinality(notifyAUX[i]) = 1, Cardinality(notifyAUX[j]) = 1
        PROVE  notifyAUX[i] = notifyAUX[j]
    <3>1. notifyAUX[i] \in SUBSET Bit /\ notifyAUX[j] \in SUBSET Bit
      BY <1>1 DEF IInv, TypeOK
    <3>2. PICK v \in Bit : notifyAUX[i] = {v}
      BY <2>1, <3>1, SetsOfBits
    <3>3. PICK w \in Bit : notifyAUX[j] = {w}
      BY <2>1, <3>1, SetsOfBits
    <3>. QED
      BY <1>1, <2>1, <3>2, <3>3, SingleValues
  <2>. QED
    BY <2>1 DEF RoundAgreement
<1>. QED
  BY <1>1, Invariance, PTL

LEMMA DecidedFacts ==
    ASSUME IInv, NEW i \in Correct, out[i] # None
    PROVE  /\ out[i] \in Bit /\ out[i] = coin[round[i]] /\ notifyAUX[i] = {out[i]}
           /\ round[i] \in Rounds /\ round[i] \in Nat
           /\ Certified(round[i], out[i]) /\ SentEst(round[i], out[i])
<1>1. out[i] \in Bit /\ round[i] \in Rounds /\ round[i] \in Nat
  BY ABAConstants DEF IInv, TypeOK
<1>2. out[i] = coin[round[i]] /\ notifyAUX[i] = {out[i]}
  BY DEF IInv, NodesFit, LoopFits
<1>3. Certified(round[i], out[i]) /\ SentEst(round[i], out[i])
  BY <1>1, <1>2 DEF IInv, NodesFit, HandledFit
<1>. QED
  BY <1>1, <1>2, <1>3

\* After a decision nobody sends another value in a later round.
LEMMA NoRivalLater ==
    ASSUME IInv, NEW i \in Correct, out[i] # None,
           NEW q \in Rounds, q > round[i], NEW v \in Bit, SentEst(q, v)
    PROVE  v = out[i]
<1>1. History(q, v) /\ q \in Nat
  BY ABAConstants DEF IInv, EstsFit
<1>2. round[i] \in 0..(q - 1)
  BY <1>1, DecidedFacts
<1>3. coin[round[i]] = v \/ Certified(round[i], v)
  BY <1>1, <1>2 DEF History
<1>. QED
  BY <1>3, DecidedFacts, OneCertificate DEF IInv

\* Once somebody has decided a value, everyone goes on to later rounds with it.
THEOREM DecisionsLock == Spec => []Locked
<1>1. ASSUME IInv, NEW i \in Correct, NEW j \in Correct, out[i] # None, round[j] > round[i]
      PROVE  est[j] = out[i]
  <2>1. SentEst(round[j], est[j]) /\ round[j] \in Rounds /\ est[j] \in Bit
    BY <1>1 DEF IInv, TypeOK, NodesFit, LoopFits, SentEst
  <2>. QED
    BY <1>1, <2>1, NoRivalLater
<1>2. IInv => Locked
  BY <1>1 DEF Locked
<1>. QED
  BY <1>2, Invariance, PTL

LEMMA IInvAgreement == IInv => Agreement
<1>1. ASSUME IInv, NEW i \in Correct, NEW j \in Correct, out[i] # None, out[j] # None,
             round[i] <= round[j]
      PROVE  out[i] = out[j]
  <2>1. CASE round[i] = round[j]
    BY <1>1, <2>1, DecidedFacts, SingleValues
  <2>2. CASE round[j] > round[i]
    BY <1>1, <2>2, DecidedFacts, NoRivalLater
  <2>. QED
    BY <1>1, <2>1, <2>2, DecidedFacts
<1>2. ASSUME IInv, NEW i \in Correct, NEW j \in Correct, out[i] # None, out[j] # None
      PROVE  out[i] = out[j]
  <2>1. round[i] \in Nat /\ round[j] \in Nat
    BY <1>2, DecidedFacts
  <2>. QED
    BY <1>1, <1>2, <2>1
<1>. QED
  BY <1>2 DEF Agreement

\* No two nodes decide differently, in the same round or not.
THEOREM DecisionsAgree == Spec => []Agreement
BY IInvAgreement, Invariance, PTL

\* No value comes from nowhere: what is sent or decided was the input of a node
\* that follows the protocol.
THEOREM ValuesAreInputs == Spec => []Validity
<1>1. ASSUME IInv, NEW i \in Correct, NEW v \in binValues[i] \cup {est[i]} \cup ({out[i]} \ {None})
      PROVE  \E j \in Correct : value[j] = v
  <2>1. v \in Bit /\ round[i] \in Rounds
    BY <1>1 DEF IInv, TypeOK
  <2>2. SUFFICES SentEst(round[i], v)
    BY <1>1, <2>1 DEF IInv, EstsFit, History
  <2>3. CASE v \in binValues[i]
    BY <1>1, <2>3 DEF IInv, NodesFit, HandledFit
  <2>4. CASE v = est[i]
    BY <1>1, <2>4 DEF IInv, NodesFit, LoopFits, SentEst
  <2>5. CASE v = out[i] /\ out[i] # None
    BY <1>1, <2>5, DecidedFacts
  <2>. QED
    BY <1>1, <2>3, <2>4, <2>5
<1>2. IInv => Validity
  BY <1>1 DEF Validity
<1>. QED
  BY <1>2, Invariance, PTL

-------------------------------------------------------------------------------
\* The decisions implement the abstract agreement.
THEOREM ImplementsAgreement == Spec => AgreesOnOne
<1>1. Init => Out!Init
  BY DEF Init, Out!Init
<1>2. ASSUME IInv, Agreement', [Next]_vars PROVE [Out!Next]_out
  <2>1. ASSUME NEW i \in Correct, Decide(i) PROVE [Out!Next]_out
    <3>. DEFINE v == coin[round[i]]
    <3>1. out' = [out EXCEPT ![i] = v] /\ phase[i] = "COIN" /\ out'[i] = v
      BY <1>2, <2>1 DEF Decide, IInv, TypeOK
    <3>2. out[i] = None
      BY <1>2, <3>1 DEF IInv, NodesFit, LoopFits
    <3>3. v # None
      <4>1. v \in Bit
        BY <1>2 DEF IInv, TypeOK
      <4>. QED
        BY <4>1, ABAConstants
    <3>4. \A j \in Correct : j # i => out'[j] = out[j]
      BY <1>2, <3>1 DEF IInv, TypeOK
    <3>. HIDE DEF v
    <3>5. \A j \in Correct : out[j] \in {None, v}
      BY <1>2, <3>1, <3>2, <3>3, <3>4 DEF Agreement
    <3>6. Out!Decide(i, out'[i])
      BY <3>1, <3>2, <3>3, <3>5 DEF Out!Decide
    <3>. QED
      BY <3>6 DEF Out!Next
  <2>2. ASSUME NEW i \in Correct, Run(i) \/ MessageHandler(i), ~Decide(i) PROVE UNCHANGED out
    BY <2>2 DEF Run, MessageHandler, Receive, sendAUX, callCommonCoin, NextRound
  <2>. QED
    BY <1>2, <2>1, <2>2 DEF Next, vars
<1>. QED
  BY <1>1, <1>2, Invariance, DecisionsAgree, PTL DEF Spec, AgreesOnOne, Out!Spec

-------------------------------------------------------------------------------
(* With one input nobody waits for ever *)

\* What a node has told the others in every round it came to, and in which the
\* coin has its request.
Told(i) ==
    /\ \A r \in 0..round[i] : \E v \in Bit : Est(i, r, v) \in msgs
    /\ \A r \in 0..round[i] : r < round[i] \/ phase[i] # "EST" => \E v \in Bit : Aux(i, r, v) \in msgs
    /\ \A r \in 0..round[i] : r < round[i] \/ phase[i] \in {"COIN", "decided"} => i \in asked[r]

\* What a node has handled is not enough for what it has not done.  Its own AUX
\* is for a value in its binValues: once that is handled, the AUX messages for this
\* value that complete the threshold are seen to do so.
Open(i) ==
    /\ \A v \in Bit \ binValues[i] : ~BinThreshold(Senders(received[i], "EST", v))
    /\ binValues[i] # {} => notifyEST[i] # None
    /\ \A v \in Bit : Aux(i, round[i], v) \in msgs => v \in binValues[i]
    /\ \A v \in Bit : Aux(i, round[i], v) \in received[i] /\ notifyAUX[i] = {} =>
         ~AuxThreshold(Cardinality(Senders(received[i], "AUX", v)))

\* The AUX messages sent are for values sent.
AuxFits == \A j \in Correct, r \in Rounds, v \in Bit : Aux(j, r, v) \in msgs => SentEst(r, v)

\* With the input v everywhere a round in which the coin shows v is the last.
Passed ==
    \A v \in Bit : (\A i \in Correct : value[i] = v) =>
        \A i \in Correct : \A q \in 0..(round[i] - 1) : coin[q] # v

QInv == AuxFits /\ Passed /\ \A i \in Correct : Told(i) /\ Open(i)

\* Less than enough is not enough.
LEMMA Fewer ==
    ASSUME NEW Q \in SUBSET Node, NEW R \in SUBSET Node, Q \subseteq R
    PROVE  /\ BinThreshold(Q) => BinThreshold(R)
           /\ AuxThreshold(Cardinality(Q)) => AuxThreshold(Cardinality(R))
<1>1. Cardinality(Q) <= Cardinality(R)
  BY Sizes, FS_Subset
<1>. QED
  BY <1>1, Sizes DEF BinThreshold, AuxThreshold

LEMMA NoSenders ==
    /\ \A s, v : Senders({}, s, v) = {}
    /\ ~BinThreshold({})
<1>1. Cardinality({}) = 0
  BY FS_EmptySet
<1>. QED
  BY <1>1, Sizes DEF Senders, BinThreshold

\* If an AUX step finds nothing, no value in binValues has enough messages.
LEMMA NothingFound ==
    ASSUME NEW bin \in SUBSET Bit, NEW zeros, NEW ones, AuxValues(bin, zeros, ones) = {}
    PROVE  /\ 0 \in bin => ~AuxThreshold(Cardinality(zeros))
           /\ 1 \in bin => ~AuxThreshold(Cardinality(ones))
<1>1. CASE 0 \in bin /\ AuxThreshold(Cardinality(zeros))
  BY <1>1 DEF AuxValues
<1>2. CASE 1 \in bin /\ AuxThreshold(Cardinality(ones))
           /\ ~(0 \in bin /\ AuxThreshold(Cardinality(zeros)))
  BY <1>2 DEF AuxValues
<1>. QED
  BY <1>1, <1>2

\* Where a value is sent that is the only input, it is this one.
LEMMA OnlyInput ==
    ASSUME IInv, NEW v \in Bit, \A i \in Correct : value[i] = v
    PROVE  /\ \A r \in Rounds : \A w \in Bit : SentEst(r, w) => w = v
           /\ \A i \in Correct : notifyAUX[i] \in {{}, {v}} /\ binValues[i] \in {{}, {v}}
<1>1. \A r \in Rounds : \A w \in Bit : SentEst(r, w) => w = v
  BY DEF IInv, EstsFit, History
<1>2. ASSUME NEW i \in Correct PROVE \A w \in binValues[i] : w = v
  BY <1>1, <1>2 DEF IInv, TypeOK, NodesFit, HandledFit
<1>3. \A i \in Correct : notifyAUX[i] \subseteq binValues[i]
  BY DEF IInv, NodesFit, HandledFit
<1>. QED
  BY <1>1, <1>2, <1>3

LEMMA InitQInv == Init => QInv
<1>1. SUFFICES ASSUME Init PROVE QInv
  OBVIOUS
<1>2. \A j, r, v : Aux(j, r, v) \notin msgs
  BY <1>1, MessageForms DEF Init
<1>3. AuxFits
  BY <1>2 DEF AuxFits
<1>4. Passed
  BY <1>1 DEF Init, Passed
<1>5. ASSUME NEW i \in Correct PROVE Told(i) /\ Open(i)
  <2>1. round[i] = 0 /\ phase[i] = "EST" /\ value[i] \in Bit /\ Est(i, 0, value[i]) \in msgs
    BY <1>1 DEF Init
  <2>2. Told(i)
    BY <2>1 DEF Told
  <2>3. Open(i)
    BY <1>1, <1>2, NoSenders DEF Init, Open
  <2>. QED
    BY <2>2, <2>3
<1>. QED
  BY <1>3, <1>4, <1>5 DEF QInv

\* What another node does.
LEMMA OthersWait ==
    ASSUME NEW j \in Correct, Told(j), Open(j), msgs \subseteq msgs',
           \A r \in 0..round[j] : asked[r] \subseteq asked'[r],
           \A r, v : Aux(j, r, v) \in msgs' => Aux(j, r, v) \in msgs,
           received'[j] = received[j], round'[j] = round[j],
           phase'[j] = phase[j], binValues'[j] = binValues[j], notifyEST'[j] = notifyEST[j],
           notifyAUX'[j] = notifyAUX[j]
    PROVE  Told(j)' /\ Open(j)'
<1>1. Told(j)'
  BY DEF Told
<1>2. Open(j)'
  BY DEF Open
<1>. QED
  BY <1>1, <1>2

LEMMA PassedKept ==
    ASSUME Passed, UNCHANGED <<value, coin, round>>
    PROVE  Passed'
BY DEF Passed

LEMMA AuxFitsKept ==
    ASSUME AuxFits, msgs \subseteq msgs',
           \A j \in Correct, r \in Rounds, v \in Bit :
               Aux(j, r, v) \in msgs' => Aux(j, r, v) \in msgs \/ SentEst(r, v)
    PROVE  AuxFits'
BY Monotone DEF AuxFits

LEMMA ReceiveWaits ==
    ASSUME IInv, QInv, NEW i \in Correct, NEW m \in msgs \cup FaultyMessages, Receive(i, m)
    PROVE  QInv'
<1>. DEFINE r == round[i]
            M == received[i] \cup {m}
<1>1. /\ m \in AbaMessage /\ M \in SUBSET AbaMessage /\ m.value \in Bit /\ r \in Rounds
      /\ \A x \in M : x.round = r /\ (x.sender \in Faulty \/ x \in msgs)
      /\ received'[i] \in SUBSET M
  BY HandledMessages, MessageForms DEF IInv, TypeOK
<1>2. UNCHANGED <<value, coin, spoilt, round, est, phase, out, asked>>
  BY DEF Receive
<1>3. msgs \subseteq msgs' /\ \A x \in msgs' \ msgs : x = Est(i, m.round, m.value)
  BY DEF Receive, handleEST, handleAUX
<1>4. \A j, q, v : Aux(j, q, v) \in msgs' => Aux(j, q, v) \in msgs
  BY <1>3, MessageForms
<1>5. \A s, v : /\ Senders(received'[i], s, v) \subseteq Senders(M, s, v)
                /\ Senders(M, s, v) \in SUBSET Node /\ Senders(received'[i], s, v) \in SUBSET Node
                /\ Senders(received[i], s, v) \in SUBSET Node
                /\ m.status # s \/ m.value # v => Senders(M, s, v) = Senders(received[i], s, v)
  BY <1>1 DEF Senders
<1>6. Told(i)'
  BY <1>2, <1>3 DEF QInv, Told
<1>7. Open(i)'
  <2>1. Open(i) /\ binValues[i] \in SUBSET Bit /\ Senders(M, "AUX", 0) = Senders(M, "AUX", 0)
    BY DEF QInv, IInv, TypeOK
  <2>2. \A v \in Bit : Aux(i, r, v) \in M => Aux(i, r, v) \in msgs
    BY <1>1 DEF Aux, Correct
  <2>3. CASE handleEST(i, m)
    <3>. DEFINE add == BinThreshold(Senders(M, "EST", m.value))
    <3>1. /\ m.status = "EST"
          /\ binValues'[i] = (IF add THEN binValues[i] \cup {m.value} ELSE binValues[i])
          /\ notifyEST'[i] = (IF add /\ notifyEST[i] = None THEN m.value ELSE notifyEST[i])
          /\ notifyAUX'[i] = notifyAUX[i]
      BY <2>3 DEF handleEST, IInv, TypeOK
    <3>2. \A v \in Bit \ binValues'[i] : ~BinThreshold(Senders(M, "EST", v))
      BY <1>5, <2>1, <3>1 DEF Open
    <3>. HIDE DEF add
    <3>3. \A v \in Bit \ binValues'[i] : ~BinThreshold(Senders(received'[i], "EST", v))
      BY <1>5, <3>2, Fewer
    <3>4. binValues'[i] # {} => notifyEST'[i] # None
      BY <1>1, <2>1, <3>1, ABAConstants DEF Open
    <3>5. \A v \in Bit : Aux(i, round'[i], v) \in msgs' => v \in binValues'[i]
      BY <1>2, <1>4, <2>1, <3>1 DEF Open
    <3>6. ASSUME NEW v \in Bit, Aux(i, round'[i], v) \in received'[i], notifyAUX'[i] = {}
          PROVE  ~AuxThreshold(Cardinality(Senders(received'[i], "AUX", v)))
      <4>1. Aux(i, r, v) \in received[i]
        BY <1>1, <1>2, <3>1, <3>6 DEF Aux
      <4>2. ~AuxThreshold(Cardinality(Senders(received[i], "AUX", v)))
        BY <2>1, <3>1, <3>6, <4>1 DEF Open
      <4>3. Senders(received'[i], "AUX", v) \subseteq Senders(received[i], "AUX", v)
        BY <1>5, <3>1
      <4>. QED
        BY <1>5, <4>2, <4>3, Fewer
    <3>. QED
      BY <3>3, <3>4, <3>5, <3>6 DEF Open
  <2>4. CASE handleAUX(i, m)
    <3>. DEFINE V == AuxValues(binValues[i], Senders(M, "AUX", 0), Senders(M, "AUX", 1))
    <3>1. /\ m.status = "AUX"
          /\ notifyAUX'[i] = (IF notifyAUX[i] = {} THEN V ELSE notifyAUX[i])
          /\ binValues'[i] = binValues[i] /\ notifyEST'[i] = notifyEST[i]
      BY <2>4 DEF handleAUX, IInv, TypeOK
    <3>2. V = {} => \A v \in Bit \cap binValues[i] : ~AuxThreshold(Cardinality(Senders(M, "AUX", v)))
      BY <2>1, NothingFound DEF Bit
    <3>. HIDE DEF V
    <3>3. \A v \in Bit \ binValues'[i] : ~BinThreshold(Senders(received'[i], "EST", v))
      <4>1. \A v \in Bit \ binValues[i] : ~BinThreshold(Senders(received[i], "EST", v))
        BY <2>1 DEF Open
      <4>2. \A v : Senders(received'[i], "EST", v) \subseteq Senders(received[i], "EST", v)
        BY <1>5, <3>1
      <4>. QED
        BY <1>5, <3>1, <4>1, <4>2, Fewer
    <3>4. binValues'[i] # {} => notifyEST'[i] # None
      BY <2>1, <3>1 DEF Open
    <3>5. \A v \in Bit : Aux(i, round'[i], v) \in msgs' => v \in binValues'[i]
      BY <1>2, <1>4, <2>1, <3>1 DEF Open
    <3>6. ASSUME NEW v \in Bit, Aux(i, round'[i], v) \in received'[i], notifyAUX'[i] = {}
          PROVE  ~AuxThreshold(Cardinality(Senders(received'[i], "AUX", v)))
      <4>1. v \in binValues[i]
        BY <1>1, <1>2, <2>1, <2>2, <3>6 DEF Open
      <4>2. V = {}
        BY <3>1, <3>6
      <4>3. ~AuxThreshold(Cardinality(Senders(M, "AUX", v)))
        BY <3>2, <4>1, <4>2
      <4>. QED
        BY <1>5, <4>3, Fewer
    <3>. QED
      BY <3>3, <3>4, <3>5, <3>6 DEF Open
  <2>. QED
    BY <2>3, <2>4 DEF Receive
<1>8. ASSUME NEW j \in Correct, j # i PROVE Told(j)' /\ Open(j)'
  <2>1. received'[j] = received[j] /\ binValues'[j] = binValues[j]
        /\ notifyEST'[j] = notifyEST[j] /\ notifyAUX'[j] = notifyAUX[j]
    BY <1>8 DEF IInv, TypeOK, Receive, handleEST, handleAUX
  <2>. QED
    BY <1>2, <1>3, <1>4, <2>1, OthersWait DEF QInv
<1>9. Passed'
  BY <1>2, PassedKept DEF QInv
<1>10. AuxFits'
  BY <1>3, <1>4, AuxFitsKept DEF QInv
<1>. QED
  BY <1>6, <1>7, <1>8, <1>9, <1>10 DEF QInv

LEMMA sendAUXWaits ==
    ASSUME IInv, QInv, NEW i \in Correct, sendAUX(i)
    PROVE  QInv'
<1>1. /\ notifyEST[i] \in Bit /\ notifyEST[i] \in binValues[i] /\ round[i] \in Rounds /\ round[i] \in Nat
      /\ phase[i] = "EST" /\ phase'[i] = "AUX" /\ SentEst(round[i], notifyEST[i])
      /\ msgs' = msgs \cup {Aux(i, round[i], notifyEST[i])}
      /\ \A j \in Correct : j # i => phase'[j] = phase[j]
      /\ UNCHANGED <<value, coin, spoilt, asked, round, received, binValues, notifyEST, notifyAUX>>
  BY ABAConstants DEF IInv, TypeOK, NodesFit, HandledFit, sendAUX
<1>2. \A j, q, v : Aux(j, q, v) \in msgs' =>
         Aux(j, q, v) \in msgs \/ (j = i /\ q = round[i] /\ v = notifyEST[i])
  BY <1>1, MessageForms
<1>3. Told(i)'
  <2>1. \A r \in 0..round[i] : \E v \in Bit : Est(i, r, v) \in msgs'
    BY <1>1 DEF QInv, Told
  <2>2. \A r \in 0..round[i] : \E v \in Bit : Aux(i, r, v) \in msgs'
    <3>1. \A r \in 0..round[i] : r = round[i] \/ r < round[i]
      BY <1>1
    <3>. QED
      BY <1>1, <3>1 DEF QInv, Told
  <2>3. \A r \in 0..round[i] : r < round[i] => i \in asked[r]
    BY DEF QInv, Told
  <2>. QED
    BY <1>1, <2>1, <2>2, <2>3 DEF Told
<1>4. Open(i)'
  BY <1>1, <1>2 DEF QInv, Open
<1>5. \A j \in Correct : j # i => Told(j)' /\ Open(j)'
  BY <1>1, <1>2, OthersWait DEF QInv
<1>6. Passed' /\ AuxFits'
  BY <1>1, <1>2, PassedKept, AuxFitsKept DEF QInv
<1>. QED
  BY <1>3, <1>4, <1>5, <1>6 DEF QInv

\* The coin has one more request.
LEMMA callCommonCoinWaits ==
    ASSUME IInv, QInv, NEW i \in Correct, callCommonCoin(i)
    PROVE  QInv'
<1>1. /\ round[i] \in Rounds /\ round[i] \in Nat /\ phase[i] = "AUX" /\ phase'[i] = "COIN"
      /\ asked' = [asked EXCEPT ![round[i]] = asked[round[i]] \cup {i}]
      /\ \A j \in Correct : j # i => phase'[j] = phase[j]
      /\ UNCHANGED <<value, coin, spoilt, round, received, binValues, notifyEST, notifyAUX, msgs>>
  BY ABAConstants DEF IInv, TypeOK, callCommonCoin
<1>2. i \in asked'[round[i]] /\ \A r \in Rounds : asked[r] \subseteq asked'[r]
  BY <1>1 DEF IInv, TypeOK
<1>3. \A j \in Correct : 0..round[j] \subseteq Rounds
  BY ABARounds DEF IInv, TypeOK
<1>4. Told(i)'
  <2>1. \A r \in 0..round[i] : r = round[i] \/ r < round[i]
    BY <1>1
  <2>2. \A r \in 0..round[i] : i \in asked'[r]
    BY <1>2, <1>3, <2>1 DEF QInv, Told
  <2>. QED
    BY <1>1, <2>2 DEF QInv, Told
<1>5. Open(i)'
  BY <1>1 DEF QInv, Open
<1>6. \A j \in Correct : j # i => Told(j)' /\ Open(j)'
  BY <1>1, <1>2, <1>3, OthersWait DEF QInv
<1>7. Passed' /\ AuxFits'
  BY <1>1, PassedKept, AuxFitsKept DEF QInv
<1>. QED
  BY <1>4, <1>5, <1>6, <1>7 DEF QInv

LEMMA DecideWaits ==
    ASSUME IInv, QInv, NEW i \in Correct, Decide(i)
    PROVE  QInv'
<1>1. /\ phase[i] = "COIN" /\ phase'[i] = "decided"
      /\ \A j \in Correct : j # i => phase'[j] = phase[j]
      /\ UNCHANGED <<value, coin, spoilt, asked, round, received, binValues, notifyEST, notifyAUX, msgs>>
  BY DEF IInv, TypeOK, Decide
<1>2. Told(i)'
  BY <1>1 DEF QInv, Told
<1>3. Open(i)'
  BY <1>1 DEF QInv, Open
<1>4. \A j \in Correct : j # i => Told(j)' /\ Open(j)'
  BY <1>1, OthersWait DEF QInv
<1>5. Passed' /\ AuxFits'
  BY <1>1, PassedKept, AuxFitsKept DEF QInv
<1>. QED
  BY <1>2, <1>3, <1>4, <1>5 DEF QInv

LEMMA NextRoundWaits ==
    ASSUME IInv, QInv, NEW i \in Correct, NextRound(i)
    PROVE  QInv'
<1>. DEFINE r == round[i]
            e == NextEst(notifyAUX[i], coin[r])
<1>1. /\ e \in Bit /\ r \in Rounds /\ r \in Nat /\ r + 1 \in Rounds
  BY NextEstFits, ABAConstants DEF IInv, TypeOK, NextRound
<1>2. /\ msgs' = msgs \cup {Est(i, r + 1, e)} /\ UNCHANGED <<value, coin, spoilt, asked>>
      /\ round'[i] = r + 1 /\ phase'[i] = "EST" /\ received'[i] = {}
      /\ binValues'[i] = {} /\ notifyEST'[i] = None /\ notifyAUX'[i] = {}
      /\ phase[i] = "COIN" /\ ~Decides(notifyAUX[i], coin[r])
  BY DEF IInv, TypeOK, NextRound
<1>3. \A j \in Correct : j # i =>
        /\ round'[j] = round[j] /\ phase'[j] = phase[j]
        /\ received'[j] = received[j] /\ binValues'[j] = binValues[j]
        /\ notifyEST'[j] = notifyEST[j] /\ notifyAUX'[j] = notifyAUX[j]
  BY DEF IInv, TypeOK, NextRound
<1>4. \A j, q, v : Aux(j, q, v) \in msgs' => Aux(j, q, v) \in msgs
  BY <1>2, MessageForms
<1>5. \A q \in 0..(r + 1) : q = r + 1 \/ q \in 0..r
  BY <1>1
<1>6. Told(i)'
  <2>1. \A q \in 0..(r + 1) : \E v \in Bit : Est(i, q, v) \in msgs'
    BY <1>1, <1>2, <1>5 DEF QInv, Told
  <2>2. \A q \in 0..r : (\E v \in Bit : Aux(i, q, v) \in msgs) /\ i \in asked[q]
    <3>1. \A q \in 0..r : q < r \/ q = r
      BY <1>1
    <3>. QED
      BY <1>2, <3>1 DEF QInv, Told
  <2>3. \A q \in 0..(r + 1) : q < r + 1 => q \in 0..r
    BY <1>1
  <2>. QED
    BY <1>2, <2>1, <2>2, <2>3 DEF Told
<1>7. Open(i)'
  <2>1. \A v \in Bit : Aux(i, r + 1, v) \notin msgs
    <3>1. \A v \in Bit : Aux(i, r + 1, v) \in msgs => r + 1 <= r
      BY <1>1 DEF IInv, AuxOnce
    <3>. QED
      BY <1>1, <3>1
  <2>. QED
    BY <1>2, <1>4, <2>1, NoSenders DEF Open
<1>8. \A j \in Correct : j # i => Told(j)' /\ Open(j)'
  BY <1>2, <1>3, <1>4, OthersWait DEF QInv
<1>9. Passed'
  <2>1. ASSUME NEW v \in Bit, \A j \in Correct : value[j] = v
        PROVE  \A j \in Correct : \A q \in 0..(round'[j] - 1) : coin[q] # v
    <3>1. notifyAUX[i] = {v}
      BY <1>2, <2>1, OnlyInput DEF IInv, NodesFit, LoopFits
    <3>2. coin[r] # v
      BY <1>2, <3>1 DEF Decides
    <3>3. \A j \in Correct : \A q \in 0..(round[j] - 1) : coin[q] # v
      BY <2>1 DEF QInv, Passed
    <3>4. \A q \in 0..((r + 1) - 1) : q = r \/ q \in 0..(r - 1)
      BY <1>1
    <3>. QED
      BY <1>2, <1>3, <3>2, <3>3, <3>4
  <2>. QED
    BY <1>2, <2>1 DEF Passed
<1>10. AuxFits'
  BY <1>2, <1>4, AuxFitsKept DEF QInv
<1>. QED
  BY <1>6, <1>7, <1>8, <1>9, <1>10 DEF QInv

LEMMA StutterWaits == ASSUME QInv, UNCHANGED vars PROVE QInv'
<1>. USE DEF vars
<1>1. Passed' /\ AuxFits'
  BY PassedKept, AuxFitsKept DEF QInv
<1>2. \A j \in Correct : Told(j)' /\ Open(j)'
  BY OthersWait DEF QInv
<1>. QED
  BY <1>1, <1>2 DEF QInv

LEMMA NextWaits == IInv /\ QInv /\ [Next]_vars => QInv'
<1>1. SUFFICES ASSUME IInv, QInv, [Next]_vars PROVE QInv'
  OBVIOUS
<1>2. ASSUME NEW i \in Correct, Run(i) PROVE QInv'
  BY <1>1, <1>2, sendAUXWaits, callCommonCoinWaits, DecideWaits, NextRoundWaits DEF Run
<1>3. ASSUME NEW i \in Correct, MessageHandler(i) PROVE QInv'
  BY <1>1, <1>3, ReceiveWaits DEF MessageHandler
<1>. QED
  BY <1>1, <1>2, <1>3, StutterWaits DEF Next

LEMMA AlwaysQInv == Spec => []QInv
<1>. QED
  BY InitQInv, NextWaits, Invariance, PTL DEF Spec

\* Some node is in the earliest round anybody is in: the one with the fewest nodes
\* behind it, as sets of nodes are compared.
LEMMA Hindmost ==
    ASSUME TypeOK, Correct # {}
    PROVE  \E i \in Correct : \A j \in Correct : round[i] <= round[j]
<1>. DEFINE Behind(i) == {j \in Correct : round[j] < round[i]}
            Sets == {Behind(i) : i \in Correct}
<1>1. \A i \in Correct : round[i] \in Nat
  BY ABAConstants DEF TypeOK
<1>2. IsFiniteSet(Correct) /\ FiniteSubsetsOf(Correct) = SUBSET Correct
  BY ABAConstants, FS_Subset, FS_FiniteSubsetsOfFinite DEF Correct
<1>3. Sets \subseteq SUBSET Correct /\ Sets # {}
  OBVIOUS
<1>4. PICK X \in Sets : \A Y \in Sets : ~(<<Y, X>> \in StrictSubsetOrdering(Correct))
  <2>. HIDE DEF Sets
  <2>1. IsWellFoundedOn(StrictSubsetOrdering(Correct), SUBSET Correct)
    BY <1>2, FS_StrictSubsetOrderingWellFounded
  <2>. QED
    BY <1>3, <2>1, WFMin
<1>5. PICK i \in Correct : X = Behind(i)
  OBVIOUS
<1>6. SUFFICES ASSUME NEW j \in Correct, round[j] < round[i] PROVE FALSE
  BY <1>1
<1>7. Behind(j) \in Sets /\ Behind(j) \in SUBSET Behind(i) /\ j \in Behind(i) /\ j \notin Behind(j)
  BY <1>1, <1>6
<1>8. <<Behind(j), Behind(i)>> \in StrictSubsetOrdering(Correct)
  BY <1>3, <1>7 DEF StrictSubsetOrdering
<1>. QED
  BY <1>4, <1>5, <1>7, <1>8

\* The nodes that are up are enough for every threshold, the coin's included.
LEMMA EnoughAreUp ==
    ASSUME 3 * T < N, Cardinality(Faulty \cup Crashed) <= T
    PROVE  /\ BinThreshold(Correct) /\ AuxThreshold(Cardinality(Correct))
           /\ Correct \in SUBSET Node /\ Correct # {}
           /\ CoinQuorum(Correct)
<1>. DEFINE D == Faulty \cup Crashed
<1>1. D \in SUBSET Node /\ Correct \in SUBSET Node /\ Correct = Node \ D /\ Node \cap D = D
  BY ABAConstants DEF Correct
<1>2. Cardinality(Correct) = N - Cardinality(D)
  BY <1>1, ABAConstants, FS_Difference DEF N
<1>3. Cardinality(Correct) >= N - T
  BY <1>1, <1>2, Sizes
<1>4. BinThreshold(Correct) /\ AuxThreshold(Cardinality(Correct))
  BY <1>1, <1>3, Sizes DEF BinThreshold, AuxThreshold
<1>5. Correct # {}
  BY <1>4, NoSenders
<1>6. CoinQuorum(Correct)
  BY <1>1, <1>3, Sizes DEF CoinQuorum
<1>. QED
  BY <1>1, <1>4, <1>5, <1>6

\* In the earliest round everyone gets all ESTs, hence sends its AUX; all AUX
\* messages, the last of them its own, hence asks for the coin; and the coin, hence
\* decides or goes on.  So the round is the one the coin shows the input in, which
\* nobody goes past.
LEMMA QuietNodesDecided ==
    ASSUME 3 * T < N, Cardinality(Faulty \cup Crashed) <= T, IInv, QInv, Quiet,
           NEW v \in Bit, \A i \in Correct : value[i] = v,
           NEW s \in Rounds, coin[s] = v, \A q \in 0..s : q \notin spoilt
    PROVE  \A i \in Correct : out[i] = v
<1>1. /\ TypeOK /\ BinThreshold(Correct) /\ AuxThreshold(Cardinality(Correct))
      /\ Correct \in SUBSET Node /\ Correct # {}
      /\ \A r \in Rounds, w \in Bit : SentEst(r, w) => w = v
      /\ \A i \in Correct : /\ notifyAUX[i] \in {{}, {v}} /\ binValues[i] \in {{}, {v}}
                            /\ Told(i) /\ Open(i) /\ round[i] \in Rounds /\ round[i] \in Nat
                            /\ 0..round[i] \subseteq Rounds
                            /\ \A q \in 0..(round[i] - 1) : coin[q] # v
                            /\ Waits(i) /\ \A m \in msgs : Handled(i, m)
  BY EnoughAreUp, OnlyInput, ABAConstants, ABARounds DEF IInv, QInv, Passed, TypeOK, Quiet
<1>2. PICK h \in Correct : \A j \in Correct : round[h] <= round[j]
  BY <1>1, Hindmost
<1>. DEFINE r == round[h]
            Last == {j \in Correct : round[j] = r}
<1>3. r \in Rounds /\ r \in Nat /\ \A j \in Correct : r \in 0..round[j] /\ (j \notin Last => r < round[j])
  BY <1>1, <1>2
<1>. HIDE DEF r
<1>4. \A j \in Correct : Est(j, r, v) \in msgs
  <2>1. TAKE j \in Correct
  <2>2. PICK w \in Bit : Est(j, r, w) \in msgs
    BY <1>1, <1>3 DEF Told
  <2>. QED
    BY <1>1, <1>3, <2>2 DEF SentEst
<1>5. ASSUME NEW i \in Last PROVE binValues[i] = {v} /\ notifyEST[i] # None
  <2>1. SUFFICES ASSUME v \notin binValues[i] PROVE FALSE
    BY <1>1 DEF Open
  <2>2. \A j \in Correct : Est(j, r, v) \in received[i]
    <3>1. TAKE j \in Correct
    <3>2. Est(j, r, v).round = round[i] /\ Est(j, r, v).status = "EST" /\ Est(j, r, v).value = v
      BY DEF Est
    <3>3. ~Spent(Est(j, r, v), binValues[i], estEchoes[i], notifyAUX[i])
      BY <2>1, <3>2 DEF Spent
    <3>. QED
      BY <1>1, <1>4, <3>2, <3>3 DEF Handled
  <2>3. \A j \in Correct : j \in Senders(received[i], "EST", v)
    BY <1>1, <2>2 DEF Senders, Est
  <2>4. Correct \subseteq Senders(received[i], "EST", v) /\ Senders(received[i], "EST", v) \in SUBSET Node
    BY <2>3 DEF Senders
  <2>5. BinThreshold(Senders(received[i], "EST", v))
    BY <1>1, <2>4, Fewer
  <2>. QED
    BY <1>1, <2>1, <2>5 DEF Open
<1>6. \A j \in Correct : Aux(j, r, v) \in msgs
  <2>1. TAKE j \in Correct
  <2>2. r < round[j] \/ phase[j] # "EST"
    BY <1>1, <1>3, <1>5 DEF Waits
  <2>3. PICK w \in Bit : Aux(j, r, w) \in msgs
    BY <1>1, <1>3, <2>2 DEF Told
  <2>. QED
    BY <1>1, <1>3, <2>3 DEF QInv, AuxFits
<1>7. ASSUME NEW i \in Last PROVE notifyAUX[i] = {v}
  <2>1. SUFFICES ASSUME notifyAUX[i] = {} PROVE FALSE
    BY <1>1
  <2>2. \A j \in Correct : Aux(j, r, v) \in received[i]
    <3>1. TAKE j \in Correct
    <3>2. Aux(j, r, v).round = round[i] /\ Aux(j, r, v).status = "AUX"
      BY DEF Aux
    <3>3. ~Spent(Aux(j, r, v), binValues[i], estEchoes[i], notifyAUX[i])
      BY <2>1, <3>2 DEF Spent
    <3>. QED
      BY <1>1, <1>6, <3>2, <3>3 DEF Handled
  <2>3. \A j \in Correct : j \in Senders(received[i], "AUX", v)
    BY <1>1, <2>2 DEF Senders, Aux
  <2>4. Correct \subseteq Senders(received[i], "AUX", v) /\ Senders(received[i], "AUX", v) \in SUBSET Node
    BY <2>3 DEF Senders
  <2>5. AuxThreshold(Cardinality(Senders(received[i], "AUX", v)))
    BY <1>1, <2>4, Fewer
  <2>. QED
    BY <1>1, <2>1, <2>2, <2>5 DEF Open
<1>8. \A i \in Last : phase[i] \in {"COIN", "decided"}
  BY <1>1, <1>5, <1>7 DEF Waits, TypeOK
<1>9. CoinHasToAnswer(r)
  <2>1. asked[r] = Correct
    BY <1>1, <1>3, <1>8 DEF Told, TypeOK
  <2>2. h \in Last /\ round[h] = r
    BY DEF r
  <2>3. s \in Nat /\ s \notin 0..(r - 1)
    BY <1>1, <2>2, ABAConstants
  <2>4. r \in 0..s
    BY <1>3, <2>3
  <2>. QED
    BY <2>1, <2>4, EnoughAreUp DEF CoinHasToAnswer
<1>10. coin[r] = v
  <2>1. SUFFICES ASSUME coin[r] # v PROVE FALSE
    OBVIOUS
  <2>2. h \in Last /\ round[h] = r
    BY DEF r
  <2>3. phase[h] = "COIN"
    BY <1>7, <1>8, <2>1, <2>2 DEF IInv, NodesFit, LoopFits
  <2>4. r + 1 \notin Rounds
    BY <1>1, <1>9, <2>2, <2>3 DEF Waits
  <2>5. s \in Nat /\ 0..s \subseteq Rounds /\ s # r /\ s \notin 0..(r - 1)
    BY <1>1, <2>1, <2>2, ABAConstants, ABARounds
  <2>6. r + 1 \in 0..s
    BY <1>3, <2>5
  <2>. QED
    BY <2>4, <2>5, <2>6
<1>11. Last = Correct
  <2>1. ASSUME NEW j \in Correct, r < round[j] PROVE FALSE
    <3>1. r \in 0..(round[j] - 1)
      BY <1>1, <1>3, <2>1
    <3>. QED
      BY <1>1, <1>10, <3>1
  <2>. QED
    BY <1>3, <2>1
<1>12. \A i \in Correct : phase[i] = "decided"
  BY <1>1, <1>7, <1>8, <1>9, <1>10, <1>11 DEF Waits, Decides
<1>. QED
  BY <1>10, <1>11, <1>12 DEF IInv, NodesFit, LoopFits

\* When nothing is left to be done and at most t of more than 3t nodes deviate or
\* are down, a binary agreement in which everyone had the same input is over, if
\* the coin shows this input in some round and no bad share of a deviating node has
\* kept it from being given out in this round or an earlier one.
THEOREM OneInputDecides ==
    ASSUME 3 * T < N, Cardinality(Faulty \cup Crashed) <= T
    PROVE  Spec => []UnanimousDecide
<1>1. IInv /\ QInv => UnanimousDecide
  BY QuietNodesDecided DEF UnanimousDecide
<1>. QED
  BY <1>1, Invariance, AlwaysQInv, PTL
================================================================================
