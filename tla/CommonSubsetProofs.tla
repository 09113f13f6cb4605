--------------------------- MODULE CommonSubsetProofs ---------------------------
(***************************************************************************)
(* Proofs about CommonSubset, the inner protocol at one node, for every    *)
(* number of nodes and whatever results the broadcasts and agreements give *)
(* in whatever order: an output holds only shares that are there, and a    *)
(* single share has no rival.                                              *)
(*                                                                         *)
(* The argument: an agreement on a share that is not there was started     *)
(* because of n-t others that ended in 1, so that with it more than n-t    *)
(* have finished, and condition three is past.                             *)
(***************************************************************************)
EXTENDS CommonSubset, FiniteSetTheorems, TLAPS

-------------------------------------------------------------------------------
(* The inductive invariant *)

SharesFit ==
    /\ rbcDone \subseteq Delivered
    /\ \A k \in Node : rbcVals[k] \in {Nil, input[k]}

\* An agreement is begun for a share that is there, or when n-t have ended in 1.
StartsFit ==
    /\ startAba > 0 => Quorum(s)
    /\ \A k \in Node \ Delivered : spawned[k] > 0 \/ waiting[k] > 0 \/ k \in s => Quorum(s)

ResultsFit ==
    /\ s \subseteq abaFinished
    /\ Quorum(s) => Quorum(Delivered)
    /\ abaFinished \subseteq Delivered \/ Cardinality(abaFinished) > N - T

IInv == TypeOK /\ SharesFit /\ StartsFit /\ ResultsFit /\ NoNilShare /\ NoRival

-------------------------------------------------------------------------------
(* Quorums *)

LEMMA Sizes ==
    /\ N \in Nat /\ T \in Nat /\ Cardinality(Node) = N
    /\ \A S \in SUBSET Node : IsFiniteSet(S) /\ Cardinality(S) \in Nat /\ Cardinality(S) <= N
<1>1. \A S \in SUBSET Node : IsFiniteSet(S) /\ Cardinality(S) <= N
  BY ACSConstants, FS_Subset DEF N
<1>2. \A S \in SUBSET Node : Cardinality(S) \in Nat
  BY <1>1, FS_CardinalityType
<1>. QED
  BY <1>1, <1>2, ACSConstants DEF N

LEMMA QuorumGrows ==
    ASSUME NEW R \in SUBSET Node, NEW S \in SUBSET Node, R \subseteq S, Quorum(R)
    PROVE  Quorum(S)
<1>1. Cardinality(R) <= Cardinality(S)
  BY Sizes, FS_Subset
<1>. QED
  BY <1>1, Sizes DEF Quorum

\* What is disjoint from n-t nodes are t nodes at most.
LEMMA FewOutside ==
    ASSUME NEW R \in SUBSET Node, NEW S \in SUBSET Node, R \cap S = {}, Quorum(R)
    PROVE  Cardinality(S) <= T
<1>1. Cardinality(R \cup S) = Cardinality(R) + Cardinality(S) - Cardinality(R \cap S)
  BY Sizes, FS_Union
<1>2. Cardinality(R \cap S) = 0 /\ Cardinality(R \cup S) <= N
  BY Sizes, FS_EmptySet
<1>. QED
  BY <1>1, <1>2, Sizes DEF Quorum

-------------------------------------------------------------------------------
(* The output *)

\* Which condition settled the output.
LEMMA Settled ==
    ASSUME eventHandler, acsOut' # acsOut
    PROVE  \/ \E k \in Delivered : (cOne(rbcVals[k]) \/ cTwo(rbcVals[k])) /\ acsOut' = SharesFrom({k})
           \/ cThree /\ acsOut' = SharesFrom(s)
BY DEF eventHandler

LEMMA SettledType ==
    ASSUME TypeOK, eventHandler
    PROVE  acsOut' \in Output \cup {Nil}
<1>1. \A K \in SUBSET Node : SharesFrom(K) \in [K -> Value \cup {Nil}]
  BY DEF TypeOK, SharesFrom
<1>2. \A K \in SUBSET Node : SharesFrom(K) \in Output
  BY <1>1 DEF Output
<1>3. CASE acsOut' = acsOut
  BY <1>3 DEF TypeOK
<1>4. CASE acsOut' # acsOut
  <2>1. \E K \in SUBSET Node : acsOut' = SharesFrom(K)
    BY <1>4, Settled DEF TypeOK, Delivered
  <2>. QED
    BY <1>2, <2>1
<1>. QED
  BY <1>3, <1>4

LEMMA SettledHas ==
    ASSUME IInv, eventHandler
    PROVE  NoNilShare'
<1>1. CASE acsOut' = acsOut
  BY <1>1 DEF IInv, NoNilShare
<1>2. ASSUME NEW k \in Delivered, acsOut' = SharesFrom({k}) PROVE NoNilShare'
  BY <1>2 DEF NoNilShare, SharesFrom, Delivered
<1>3. ASSUME cThree, acsOut' = SharesFrom(s) PROVE NoNilShare'
  <2>1. abaFinished \subseteq Delivered
    BY <1>3, Sizes DEF IInv, TypeOK, ResultsFit, cThree
  <2>2. \A k \in s : rbcVals[k] # Nil
    BY <2>1 DEF IInv, ResultsFit, Delivered
  <2>. QED
    BY <1>3, <2>2 DEF NoNilShare, SharesFrom
<1>. QED
  BY <1>1, <1>2, <1>3, Settled

LEMMA SettledAlone ==
    ASSUME IInv, eventHandler
    PROVE  NoRival'
<1>1. CASE acsOut' = acsOut
  BY <1>1 DEF IInv, NoRival, eventHandler
<1>2. ASSUME acsOut' # acsOut, NEW v \in Value, NEW w \in Value, NEW k \in Node,
             acsOut' = [x \in {k} |-> v], Quorum({j \in Node : input[j] = w})
      PROVE  v = w
  <2>. DEFINE W == {j \in Node : input[j] = w}
  <2>1. SUFFICES ASSUME v # w PROVE FALSE
    OBVIOUS
  <2>2. Shares(v) \in SUBSET Node /\ W \in SUBSET Node /\ W \cap Shares(v) = {}
    BY <2>1, ACSConstants DEF Shares, IInv, SharesFit
  <2>3. Cardinality(Shares(v)) <= T /\ Cardinality(Shares(v)) \in Nat
    BY <1>2, <2>2, FewOutside, Sizes
  <2>4. \A K : acsOut' = SharesFrom(K) => K = {k} /\ rbcVals[k] = v
    BY <1>2 DEF SharesFrom
  <2>5. ~cOne(v)
    BY <2>3, Sizes, ACSFaults DEF cOne, Quorum
  <2>6. ~cTwo(v)
    <3>1. SUFFICES ASSUME cTwo(v) PROVE FALSE
      OBVIOUS
    <3>2. Quorum(Delivered) /\ Delivered \in SUBSET Node
      BY <3>1 DEF cTwo, IInv, ResultsFit, Delivered
    <3>. QED
      BY <2>3, <3>1, <3>2, Sizes, ACSFaults DEF cTwo, Quorum
  <2>7. ~(cThree /\ s = {k})
    <3>1. SUFFICES ASSUME Quorum({k}) PROVE FALSE
      BY DEF cThree
    <3>2. Cardinality({k}) = 1
      BY FS_Singleton
    <3>3. T = 0 /\ N = 1
      BY <3>1, <3>2, Sizes, ACSFaults DEF Quorum
    <3>4. {k} \cap W = {}
      BY <1>2, <2>1, <2>4, Settled, ACSConstants DEF IInv, SharesFit
    <3>. QED
      BY <1>2, <3>2, <3>3, <3>4, FewOutside
  <2>. QED
    BY <1>2, <2>4, <2>5, <2>6, <2>7, Settled
<1>3. CASE acsOut' # acsOut
  <2>1. input' = input
    BY DEF eventHandler
  <2>. QED
    BY <1>2, <1>3, <2>1 DEF NoRival, Quorum
<1>. QED
  BY <1>1, <1>3

-------------------------------------------------------------------------------
(* What steps keep *)

LEMMA InitIInv == Init => IInv
<1>1. SUFFICES ASSUME Init PROVE IInv
  OBVIOUS
<1>2. TypeOK
  BY <1>1, Sizes DEF Init, TypeOK
<1>3. SharesFit /\ StartsFit
  BY <1>1 DEF Init, SharesFit, StartsFit
<1>4. ResultsFit
  <2>1. ~Quorum(s)
    BY <1>1, Sizes, ACSConstants, FS_EmptySet DEF Init, Quorum
  <2>. QED
    BY <1>1, <2>1 DEF Init, ResultsFit
<1>5. NoNilShare
  BY <1>1 DEF Init, NoNilShare
<1>6. NoRival
  BY <1>1, ACSConstants DEF Init, NoRival
<1>. QED
  BY <1>2, <1>3, <1>4, <1>5, <1>6 DEF IInv

\* Shares are only added, and inputs stay.
LEMMA DeliveredGrows ==
    ASSUME \A k \in Node : rbcVals[k] # Nil => rbcVals'[k] # Nil
    PROVE  Delivered \subseteq Delivered'
BY DEF Delivered

LEMMA RbcOutputKeeps ==
    ASSUME IInv, NEW k \in Node, RbcOutput(k)
    PROVE  IInv'
<1>1. /\ rbcVals'[k] = input[k] /\ input[k] \in Value /\ \A j \in Node : j # k => rbcVals'[j] = rbcVals[j]
      /\ rbcDone' = rbcDone \cup {k}
      /\ UNCHANGED <<input, startAba, spawned, abaRunning, waiting, abaFinished, s, acsOut>>
  BY DEF IInv, TypeOK, RbcOutput
<1>2. TypeOK'
  BY DEF IInv, TypeOK, RbcOutput
<1>3. Delivered \subseteq Delivered' /\ k \in Delivered' /\ Delivered' \in SUBSET Node
  BY <1>1, ACSConstants DEF Delivered
<1>4. SharesFit'
  BY <1>1, <1>3 DEF IInv, SharesFit
<1>5. StartsFit'
  BY <1>1, <1>3 DEF IInv, StartsFit, Quorum
<1>6. ResultsFit'
  <2>1. Quorum(Delivered) => Quorum(Delivered')
    BY <1>3, QuorumGrows DEF Delivered
  <2>. QED
    BY <1>1, <1>3, <2>1 DEF IInv, ResultsFit, Quorum
<1>7. NoNilShare' /\ NoRival'
  BY <1>1 DEF IInv, NoNilShare, NoRival, Quorum
<1>. QED
  BY <1>2, <1>4, <1>5, <1>6, <1>7 DEF IInv

\* Agreements are started for what is there, or once n-t have ended in 1.
LEMMA SpawnKeeps ==
    ASSUME IInv, NEW K \in SUBSET Node, Spawn(K), K \subseteq Delivered \/ Quorum(s),
           rbcDone' \subseteq rbcDone, startAba' \in 0..startAba,
           UNCHANGED <<input, rbcVals, abaRunning, waiting, abaFinished, s, events, acsOut>>
    PROVE  IInv'
<1>1. spawned' \in [Node -> Nat] /\ \A k \in Node : k \notin K => spawned'[k] = spawned[k]
  BY DEF IInv, TypeOK, Spawn
<1>2. startAba \in 0..N /\ startAba' \in 0..N /\ (startAba' > 0 => startAba > 0)
  BY Sizes DEF IInv, TypeOK
<1>3. TypeOK'
  BY <1>1, <1>2 DEF IInv, TypeOK
<1>4. SharesFit' /\ ResultsFit' /\ NoNilShare' /\ NoRival'
  BY DEF IInv, SharesFit, ResultsFit, NoNilShare, NoRival, Delivered, Quorum
<1>5. StartsFit'
  <2>1. Delivered' = Delivered /\ (Quorum(s) => Quorum(s)')
    BY DEF Delivered, Quorum
  <2>. QED
    BY <1>1, <1>2, <2>1 DEF IInv, StartsFit
<1>. QED
  BY <1>3, <1>4, <1>5 DEF IInv

LEMMA HandleRbcDoneKeeps ==
    ASSUME IInv, NEW k \in Node, HandleRbcDone(k)
    PROVE  IInv'
<1>1. {k} \in SUBSET Node /\ {k} \subseteq Delivered /\ Spawn({k}) /\ rbcDone' \subseteq rbcDone
  BY DEF IInv, SharesFit, HandleRbcDone
<1>2. startAba' \in 0..startAba
  BY Sizes DEF IInv, TypeOK, HandleRbcDone
<1>. QED
  BY <1>1, <1>2, SpawnKeeps DEF HandleRbcDone

LEMMA HandleStartAbaKeeps ==
    ASSUME IInv, HandleStartAba
    PROVE  IInv'
<1>1. Quorum(s) /\ Spawn(Node) /\ rbcDone' \subseteq rbcDone
  BY DEF IInv, StartsFit, HandleStartAba
<1>2. startAba' \in 0..startAba
  BY Sizes DEF IInv, TypeOK, HandleStartAba
<1>. QED
  BY <1>1, <1>2, SpawnKeeps DEF HandleStartAba

LEMMA BeginAbaKeeps ==
    ASSUME IInv, NEW k \in Node, BeginAba(k)
    PROVE  IInv'
<1>1. /\ spawned[k] > 0 /\ \A j \in Node : j # k => spawned'[j] = spawned[j] /\ waiting'[j] = waiting[j]
      /\ UNCHANGED <<input, rbcVals, rbcDone, startAba, abaFinished, s, events, acsOut>>
  BY DEF IInv, TypeOK, BeginAba
<1>2. TypeOK'
  BY DEF IInv, TypeOK, BeginAba
<1>3. SharesFit' /\ ResultsFit' /\ NoNilShare' /\ NoRival'
  BY <1>1 DEF IInv, SharesFit, ResultsFit, NoNilShare, NoRival, Delivered, Quorum
<1>4. StartsFit'
  <2>1. Delivered' = Delivered /\ (Quorum(s) => Quorum(s)')
    BY <1>1 DEF Delivered, Quorum
  <2>. QED
    BY <1>1, <2>1 DEF IInv, StartsFit
<1>. QED
  BY <1>2, <1>3, <1>4 DEF IInv

\* A result of an agreement on a share that is not there is one too many for
\* condition three.
LEMMA AbaOutputKeeps ==
    ASSUME IInv, NEW k \in Node, NEW v \in {0, 1}, AbaOutput(k, v)
    PROVE  IInv'
<1>. DEFINE notify == v = 1 /\ Quorum(s \cup {k})
<1>1. /\ waiting[k] > 0 /\ abaFinished' = abaFinished \cup {k}
      /\ s' = (IF v = 1 THEN s \cup {k} ELSE s)
      /\ startAba' = IF notify THEN startAba + 1 ELSE startAba
      /\ notify => startAba < N
      /\ \A j \in Node : waiting'[j] > 0 => waiting[j] > 0
      /\ UNCHANGED <<input, rbcVals, rbcDone, spawned, abaRunning, acsOut>>
  BY DEF IInv, TypeOK, AbaOutput
<1>2. s \in SUBSET Node /\ s' \in SUBSET Node /\ s \subseteq s' /\ Delivered \in SUBSET Node
      /\ abaFinished \in SUBSET Node /\ Delivered' = Delivered
  BY <1>1 DEF IInv, TypeOK, Delivered
<1>3. Quorum(s) => Quorum(s')
  BY <1>2, QuorumGrows
<1>4. TypeOK'
  <2>1. startAba' \in 0..N
    BY <1>1, Sizes DEF IInv, TypeOK
  <2>. QED
    BY <1>2, <2>1 DEF IInv, TypeOK, AbaOutput
<1>5. SharesFit'
  BY <1>1, <1>2 DEF IInv, SharesFit
<1>6. k \in Delivered \/ Quorum(s)
  BY <1>1 DEF IInv, StartsFit
<1>7. StartsFit'
  <2>1. startAba' > 0 => Quorum(s')
    BY <1>1, <1>3, Sizes DEF IInv, TypeOK, StartsFit
  <2>2. \A j \in Node \ Delivered : spawned'[j] > 0 \/ waiting'[j] > 0 \/ j \in s' => Quorum(s')
    BY <1>1, <1>3, <1>6 DEF IInv, StartsFit
  <2>. QED
    BY <1>2, <2>1, <2>2 DEF StartsFit, Quorum
<1>8. ResultsFit'
  <2>1. s' \subseteq abaFinished'
    BY <1>1 DEF IInv, ResultsFit
  <2>2. Quorum(s') => Quorum(Delivered)
    <3>1. CASE Quorum(s)
      BY <3>1 DEF IInv, ResultsFit
    <3>2. CASE ~Quorum(s)
      <4>1. s' \subseteq Delivered
        BY <1>1, <1>2, <1>6, <3>2 DEF IInv, StartsFit
      <4>. QED
        BY <1>2, <4>1, QuorumGrows
    <3>. QED
      BY <3>1, <3>2
  <2>3. abaFinished' \subseteq Delivered \/ Cardinality(abaFinished') > N - T
    <3>1. abaFinished' \in SUBSET Node /\ Cardinality(abaFinished) <= Cardinality(abaFinished')
      BY <1>1, <1>2, Sizes, FS_Subset
    <3>2. CASE abaFinished \subseteq Delivered
      <4>1. CASE k \in Delivered
        BY <1>1, <3>2, <4>1
      <4>2. CASE k \notin Delivered
        <5>1. Quorum(abaFinished)
          BY <1>2, <1>6, <4>2, QuorumGrows DEF IInv, ResultsFit
        <5>2. Cardinality(abaFinished') = Cardinality(abaFinished) + 1
          BY <1>1, <1>2, <3>2, <4>2, Sizes, FS_AddElement
        <5>. QED
          BY <1>2, <3>1, <5>1, <5>2, Sizes DEF Quorum
      <4>. QED
        BY <4>1, <4>2
    <3>3. CASE Cardinality(abaFinished) > N - T
      BY <1>2, <3>1, <3>3, Sizes
    <3>. QED
      BY <3>2, <3>3 DEF IInv, ResultsFit
  <2>. QED
    BY <1>2, <2>1, <2>2, <2>3 DEF ResultsFit, Quorum
<1>9. NoNilShare' /\ NoRival'
  BY <1>1 DEF IInv, NoNilShare, NoRival, Quorum
<1>. QED
  BY <1>4, <1>5, <1>7, <1>8, <1>9 DEF IInv

LEMMA eventHandlerKeeps ==
    ASSUME IInv, eventHandler
    PROVE  IInv'
<1>1. UNCHANGED <<input, rbcVals, rbcDone, startAba, spawned, abaRunning, waiting, abaFinished, s>>
  BY DEF eventHandler
<1>2. events' \in Nat
  BY DEF IInv, TypeOK, eventHandler
<1>3. TypeOK'
  BY <1>1, <1>2, SettledType DEF IInv, TypeOK
<1>4. SharesFit' /\ StartsFit' /\ ResultsFit'
  BY <1>1 DEF IInv, SharesFit, StartsFit, ResultsFit, Delivered, Quorum
<1>. QED
  BY <1>3, <1>4, SettledHas, SettledAlone DEF IInv

-------------------------------------------------------------------------------
(* What follows *)

\* What makes up the argument holds throughout.
THEOREM Invariance == Spec => []IInv
<1>1. IInv /\ [Next]_vars => IInv'
  <2>1. SUFFICES ASSUME IInv, [Next]_vars PROVE IInv'
    OBVIOUS
  <2>2. CASE UNCHANGED vars
    <3>1. TypeOK' /\ NoNilShare' /\ NoRival'
      BY <2>1, <2>2 DEF vars, IInv, TypeOK, NoNilShare, NoRival, Quorum
    <3>2. SharesFit' /\ StartsFit' /\ ResultsFit'
      BY <2>1, <2>2 DEF vars, IInv, SharesFit, StartsFit, ResultsFit, Delivered, Quorum
    <3>. QED
      BY <3>1, <3>2 DEF IInv
  <2>. QED
    BY <2>1, <2>2, RbcOutputKeeps, HandleRbcDoneKeeps, HandleStartAbaKeeps, BeginAbaKeeps,
       AbaOutputKeeps, eventHandlerKeeps DEF Next
<1>. QED
  BY <1>1, InitIInv, PTL DEF Spec

\* The variables have their types in every state.
THEOREM TypeCorrect == Spec => []TypeOK
<1>1. IInv => TypeOK
  BY DEF IInv
<1>. QED
  BY <1>1, Invariance, PTL

\* The output holds no share that is not there.
THEOREM OutputsHaveShares == Spec => []NoNilShare
<1>1. IInv => NoNilShare
  BY DEF IInv
<1>. QED
  BY <1>1, Invariance, PTL

\* A single share is output only if no other was broadcast by n-t nodes.
THEOREM SingleSharesAlone == Spec => []NoRival
<1>1. IInv => NoRival
  BY DEF IInv
<1>. QED
  BY <1>1, Invariance, PTL

-------------------------------------------------------------------------------
(* Tokens *)

\* Calls of handleAba(k) that have not returned, and the one to come for the
\* delivery of the broadcast.
Calls(k) == spawned[k] + waiting[k]
ToCome(k) == IF k \in Delivered \ rbcDone THEN 0 ELSE 1

\* An agreement that runs is not called again.
Claims(k) == IF k \in abaRunning THEN Calls(k) ELSE Calls(k) + ToCome(k)

\* Until n-t agreements end in 1, each is called once, for its broadcast.
CalledOnce ==
    /\ startAba = 0
    /\ \A k \in Node : Calls(k) + ToCome(k) <= 1
    /\ \A k \in s : k \in abaRunning /\ Calls(k) = 0

\* Those n-t are over.  Each of the others may be called once for every token,
\* until it runs; each call may hand over a token.  The bound doubles with every
\* agreement that does not run yet.
Over(Q) == \A k \in Q : k \in abaRunning /\ Calls(k) = 0

Distinct(x, y, z) == x # y /\ x # z /\ y # z

Most == CASE T = 1 -> 2 [] T = 2 -> 4 [] OTHER -> 8

Bounded(L) ==
    \A x, y, z \in L : Distinct(x, y, z) =>
        /\ startAba + Claims(x) + Claims(y) + Claims(z) <= Most
        /\ x \notin abaRunning /\ y \notin abaRunning =>
             2 * (startAba + Claims(z)) + Claims(x) + Claims(y) <= Most
        /\ x \notin abaRunning /\ y \notin abaRunning /\ z \notin abaRunning =>
             4 * startAba + 2 * Claims(x) + Claims(y) + Claims(z) <= Most

Leftovers ==
    \E Q \in SUBSET Node :
        /\ Quorum(Q) /\ Over(Q)
        /\ T = 0 \/ \E a, b, c \in Node :
             Distinct(a, b, c) /\ Node \ Q \subseteq {a, b, c} /\ Bounded({a, b, c})

WaitersRun == \A k \in Node : waiting[k] > 0 => k \in abaRunning

TokenInv ==
    /\ WaitersRun
    /\ IF Quorum(s) THEN Leftovers ELSE CalledOnce

LEMMA CallTypes ==
    ASSUME TypeOK, NEW k \in Node
    PROVE  Calls(k) \in Nat /\ ToCome(k) \in 0..1 /\ Claims(k) \in Nat
BY DEF TypeOK, Calls, ToCome, Claims

LEMMA MostIs == Most \in {2, 4, 8}
BY DEF Most

\* Steps that hand over no token and start nothing that is not to come anyway.
LEMMA NothingClaimed ==
    ASSUME TypeOK, TypeOK', NEW L \in SUBSET Node, Bounded(L),
           abaRunning \subseteq abaRunning', startAba' <= startAba,
           \A k \in L : Claims(k)' <= Claims(k)
    PROVE  Bounded(L)'
<1>1. startAba \in Nat /\ startAba' \in Nat /\ Most \in Nat /\ Most' = Most
  BY Sizes, MostIs DEF TypeOK, Most
<1>2. \A k \in L : Claims(k) \in Nat /\ Claims(k)' \in Nat
  BY CallTypes DEF TypeOK, Claims, Calls, ToCome
<1>3. SUFFICES ASSUME NEW x \in L, NEW y \in L, NEW z \in L, Distinct(x, y, z)
               PROVE  /\ startAba' + Claims(x)' + Claims(y)' + Claims(z)' <= Most
                      /\ x \notin abaRunning' /\ y \notin abaRunning' =>
                           2 * (startAba' + Claims(z)') + Claims(x)' + Claims(y)' <= Most
                      /\ x \notin abaRunning' /\ y \notin abaRunning' /\ z \notin abaRunning' =>
                           4 * startAba' + 2 * Claims(x)' + Claims(y)' + Claims(z)' <= Most
  BY <1>1 DEF Bounded, Distinct
<1>4. /\ startAba + Claims(x) + Claims(y) + Claims(z) <= Most
      /\ x \notin abaRunning /\ y \notin abaRunning =>
           2 * (startAba + Claims(z)) + Claims(x) + Claims(y) <= Most
      /\ x \notin abaRunning /\ y \notin abaRunning /\ z \notin abaRunning =>
           4 * startAba + 2 * Claims(x) + Claims(y) + Claims(z) <= Most
  BY <1>3 DEF Bounded
<1>5. /\ Claims(x)' <= Claims(x) /\ Claims(y)' <= Claims(y) /\ Claims(z)' <= Claims(z)
      /\ Claims(x) \in Nat /\ Claims(y) \in Nat /\ Claims(z) \in Nat
      /\ Claims(x)' \in Nat /\ Claims(y)' \in Nat /\ Claims(z)' \in Nat
  BY <1>2
<1>. QED
  BY <1>1, <1>4, <1>5

\* A token taken: one more call of each that does not run.
LEMMA TokenTaken ==
    ASSUME TypeOK, TypeOK', NEW L \in SUBSET Node, Bounded(L),
           abaRunning' = abaRunning, startAba' = startAba - 1,
           \A k \in L : Claims(k)' = IF k \in abaRunning THEN Claims(k) ELSE Claims(k) + 1
    PROVE  Bounded(L)'
<1>1. startAba \in Nat /\ startAba' \in Nat /\ Most \in Nat /\ Most' = Most
  BY Sizes, MostIs DEF TypeOK, Most
<1>2. \A k \in L : Claims(k) \in Nat
  BY CallTypes
<1>3. SUFFICES ASSUME NEW x \in L, NEW y \in L, NEW z \in L, Distinct(x, y, z)
               PROVE  /\ startAba' + Claims(x)' + Claims(y)' + Claims(z)' <= Most
                      /\ x \notin abaRunning /\ y \notin abaRunning =>
                           2 * (startAba' + Claims(z)') + Claims(x)' + Claims(y)' <= Most
                      /\ x \notin abaRunning /\ y \notin abaRunning /\ z \notin abaRunning =>
                           4 * startAba' + 2 * Claims(x)' + Claims(y)' + Claims(z)' <= Most
  BY <1>1 DEF Bounded, Distinct
<1>4. \A u, v, w \in {x, y, z} : Distinct(u, v, w) =>
        /\ startAba + Claims(u) + Claims(v) + Claims(w) <= Most
        /\ u \notin abaRunning /\ v \notin abaRunning =>
             2 * (startAba + Claims(w)) + Claims(u) + Claims(v) <= Most
        /\ u \notin abaRunning /\ v \notin abaRunning /\ w \notin abaRunning =>
             4 * startAba + 2 * Claims(u) + Claims(v) + Claims(w) <= Most
  BY DEF Bounded
<1>5. Distinct(x, y, z) /\ Distinct(x, z, y) /\ Distinct(y, z, x) /\ Distinct(z, x, y)
  BY <1>3 DEF Distinct
<1>6. /\ startAba + Claims(x) + Claims(y) + Claims(z) <= Most
      /\ x \notin abaRunning /\ y \notin abaRunning =>
           2 * (startAba + Claims(z)) + Claims(x) + Claims(y) <= Most
      /\ x \notin abaRunning /\ z \notin abaRunning =>
           2 * (startAba + Claims(y)) + Claims(x) + Claims(z) <= Most
      /\ y \notin abaRunning /\ z \notin abaRunning =>
           2 * (startAba + Claims(x)) + Claims(y) + Claims(z) <= Most
      /\ x \notin abaRunning /\ y \notin abaRunning /\ z \notin abaRunning =>
           /\ 4 * startAba + 2 * Claims(x) + Claims(y) + Claims(z) <= Most
           /\ 4 * startAba + 2 * Claims(z) + Claims(x) + Claims(y) <= Most
  BY <1>4, <1>5
<1>7. /\ Claims(x)' = IF x \in abaRunning THEN Claims(x) ELSE Claims(x) + 1
      /\ Claims(y)' = IF y \in abaRunning THEN Claims(y) ELSE Claims(y) + 1
      /\ Claims(z)' = IF z \in abaRunning THEN Claims(z) ELSE Claims(z) + 1
      /\ Claims(x) \in Nat /\ Claims(y) \in Nat /\ Claims(z) \in Nat
  BY <1>2
<1>8. CASE x \in abaRunning
  BY <1>1, <1>6, <1>7, <1>8
<1>9. CASE x \notin abaRunning
  <2>1. CASE y \in abaRunning
    BY <1>1, <1>6, <1>7, <1>9, <2>1
  <2>2. CASE y \notin abaRunning
    <3>1. Claims(x)' = Claims(x) + 1 /\ Claims(y)' = Claims(y) + 1
      BY <1>7, <1>9, <2>2
    <3>2. CASE z \in abaRunning
      BY <1>1, <1>6, <1>7, <1>9, <2>2, <3>1, <3>2
    <3>3. CASE z \notin abaRunning
      <4>1. Claims(z)' = Claims(z) + 1
        BY <1>7, <3>3
      <4>2. /\ 4 * startAba + 2 * Claims(x) + Claims(y) + Claims(z) <= Most
            /\ 4 * startAba + 2 * Claims(z) + Claims(x) + Claims(y) <= Most
        BY <1>6, <1>9, <2>2, <3>3
      <4>. QED
        BY <1>1, <1>7, <3>1, <4>1, <4>2
    <3>. QED
      BY <3>2, <3>3
  <2>. QED
    BY <2>1, <2>2
<1>. QED
  BY <1>8, <1>9

\* A token handed over by a call that returns.
LEMMA TokenGiven ==
    ASSUME TypeOK, TypeOK', NEW a \in Node, NEW b \in Node, NEW c \in Node,
           NEW k \in {a, b, c}, k \in abaRunning, Bounded({a, b, c}),
           abaRunning' = abaRunning, startAba' = startAba + 1, Claims(k)' = Claims(k) - 1,
           \A j \in {a, b, c} : j # k => Claims(j)' = Claims(j)
    PROVE  Bounded({a, b, c})'
<1>. DEFINE L == {a, b, c}
<1>1. startAba \in Nat /\ startAba' \in Nat /\ Most \in Nat /\ Most' = Most
  BY Sizes, MostIs DEF TypeOK, Most
<1>2. SUFFICES ASSUME NEW x \in L, NEW y \in L, NEW z \in L, Distinct(x, y, z)
               PROVE  /\ startAba' + Claims(x)' + Claims(y)' + Claims(z)' <= Most
                      /\ x \notin abaRunning /\ y \notin abaRunning =>
                           2 * (startAba' + Claims(z)') + Claims(x)' + Claims(y)' <= Most
                      /\ x \notin abaRunning /\ y \notin abaRunning /\ z \notin abaRunning =>
                           4 * startAba' + 2 * Claims(x)' + Claims(y)' + Claims(z)' <= Most
  BY <1>1 DEF Bounded, Distinct
<1>3. /\ startAba + Claims(x) + Claims(y) + Claims(z) <= Most
      /\ x \notin abaRunning /\ y \notin abaRunning =>
           2 * (startAba + Claims(z)) + Claims(x) + Claims(y) <= Most
  BY <1>2 DEF Bounded
<1>4. Claims(x) \in Nat /\ Claims(y) \in Nat /\ Claims(z) \in Nat
  BY CallTypes
<1>5. k \in {x, y, z} /\ x # y /\ x # z /\ y # z
  BY <1>2 DEF Distinct
<1>6. \A j \in {x, y, z} : Claims(j)' = IF j = k THEN Claims(j) - 1 ELSE Claims(j)
  BY <1>2
<1>7. /\ Claims(x)' = IF x = k THEN Claims(x) - 1 ELSE Claims(x)
      /\ Claims(y)' = IF y = k THEN Claims(y) - 1 ELSE Claims(y)
      /\ Claims(z)' = IF z = k THEN Claims(z) - 1 ELSE Claims(z)
  BY <1>6
<1>8. CASE x = k
  BY <1>1, <1>3, <1>4, <1>5, <1>7, <1>8
<1>9. CASE y = k
  BY <1>1, <1>3, <1>4, <1>5, <1>7, <1>9
<1>10. CASE z = k
  BY <1>1, <1>3, <1>4, <1>5, <1>7, <1>10
<1>. QED
  BY <1>5, <1>8, <1>9, <1>10

\* A set of up to three nodes is among three.
LEMMA ThreeCover ==
    ASSUME NEW S \in SUBSET Node, Cardinality(S) <= 3, N >= 3
    PROVE  \E a, b, c \in Node : Distinct(a, b, c) /\ S \subseteq {a, b, c}
<1>1. ASSUME NEW M \in SUBSET Node, NEW R \in SUBSET M, NEW m \in 1..3,
             Cardinality(M) >= m, Cardinality(R) <= m
      PROVE  \E a \in M : Cardinality(M \ {a}) >= m - 1 /\ Cardinality(R \ {a}) <= m - 1
  <2>1. IsFiniteSet(M) /\ IsFiniteSet(R) /\ Cardinality(M) \in Nat /\ Cardinality(R) \in Nat
    BY Sizes
  <2>2. \A a \in M : Cardinality(M \ {a}) = Cardinality(M) - 1
    BY <2>1, FS_RemoveElement
  <2>3. CASE R = {}
    <3>1. PICK a \in M : TRUE
      BY <1>1, <2>1, FS_EmptySet
    <3>2. R \ {a} = {}
      BY <2>3
    <3>3. Cardinality(R \ {a}) = 0
      BY <3>2, FS_EmptySet
    <3>4. Cardinality(M \ {a}) >= m - 1 /\ Cardinality(R \ {a}) <= m - 1
      BY <1>1, <2>1, <2>2, <3>3
    <3>. QED
      BY <3>4
  <2>4. CASE R # {}
    <3>1. PICK a \in R : TRUE
      BY <2>4
    <3>2. Cardinality(R \ {a}) = Cardinality(R) - 1
      BY <2>1, FS_RemoveElement
    <3>3. Cardinality(M \ {a}) >= m - 1 /\ Cardinality(R \ {a}) <= m - 1
      BY <1>1, <2>1, <2>2, <3>2
    <3>. QED
      BY <3>3
  <2>. QED
    BY <2>3, <2>4
<1>2. Cardinality(Node) >= 3
  BY Sizes
<1>3. PICK a \in Node : Cardinality(Node \ {a}) >= 2 /\ Cardinality(S \ {a}) <= 2
  BY <1>1, <1>2
<1>4. PICK b \in Node \ {a} : /\ Cardinality((Node \ {a}) \ {b}) >= 1
                              /\ Cardinality((S \ {a}) \ {b}) <= 1
  <2>1. Node \ {a} \in SUBSET Node /\ S \ {a} \in SUBSET (Node \ {a})
    OBVIOUS
  <2>. QED
    BY <1>1, <1>3, <2>1
<1>5. PICK c \in (Node \ {a}) \ {b} : Cardinality(((S \ {a}) \ {b}) \ {c}) <= 0
  <2>1. (Node \ {a}) \ {b} \in SUBSET Node /\ (S \ {a}) \ {b} \in SUBSET ((Node \ {a}) \ {b})
    OBVIOUS
  <2>2. 1 \in 1..3 /\ 1 - 1 = 0
    OBVIOUS
  <2>3. \E c \in (Node \ {a}) \ {b} : Cardinality(((S \ {a}) \ {b}) \ {c}) <= 1 - 1
    BY <1>1, <1>4, <2>1, <2>2
  <2>. QED
    BY <2>2, <2>3
<1>6. ((S \ {a}) \ {b}) \ {c} = {}
  <2>1. ((S \ {a}) \ {b}) \ {c} \in SUBSET Node
    OBVIOUS
  <2>2. IsFiniteSet(((S \ {a}) \ {b}) \ {c}) /\ Cardinality(((S \ {a}) \ {b}) \ {c}) \in Nat
    BY <2>1, Sizes
  <2>3. Cardinality(((S \ {a}) \ {b}) \ {c}) = 0
    BY <1>5, <2>2
  <2>. QED
    BY <2>2, <2>3, FS_EmptySet
<1>. QED
  BY <1>4, <1>5, <1>6 DEF Distinct

\* What is left when n-t agreements have ended in 1, and none was called twice.
LEMMA FirstToken ==
    ASSUME TypeOK, T <= 3, NEW Q \in SUBSET Node, Cardinality(Q) = N - T, Over(Q),
           startAba = 1, \A k \in Node : Claims(k) <= 1
    PROVE  Leftovers
<1>1. Quorum(Q)
  BY Sizes DEF Quorum
<1>2. CASE T = 0
  BY <1>1, <1>2 DEF Leftovers
<1>3. CASE T # 0
  <2>. DEFINE S == Node \ Q
  <2>1. S \in SUBSET Node /\ Cardinality(S) = T /\ T \in 1..3 /\ N >= 4
    <3>1. Node \cap Q = Q
      OBVIOUS
    <3>2. Cardinality(Node \ Q) = Cardinality(Node) - Cardinality(Node \cap Q)
      BY ACSConstants, FS_Difference
    <3>3. Cardinality(S) = N - (N - T)
      BY <3>1, <3>2, Sizes
    <3>. QED
      BY <1>3, <3>3, Sizes, ACSFaults
  <2>2. PICK a, b, c \in Node : Distinct(a, b, c) /\ S \subseteq {a, b, c}
    <3>1. Cardinality(S) <= 3 /\ N >= 3
      BY <2>1, Sizes
    <3>. HIDE DEF S
    <3>. QED
      BY <2>1, <3>1, ThreeCover
  <2>3. \A k \in Q : k \in abaRunning /\ Claims(k) = 0
    BY DEF Over, Claims
  <2>4. \A k \in S : Claims(k) \in 0..1
    BY CallTypes
  <2>5. ASSUME NEW x \in Node, NEW y \in Node, NEW z \in Node, Distinct(x, y, z)
        PROVE  /\ x \in S /\ y \in S => T >= 2
               /\ x \in S /\ y \in S /\ z \in S => T >= 3
    <3>1. Cardinality({x, y}) = 2 /\ Cardinality({x, y, z}) = 3
      <4>1. IsFiniteSet({x}) /\ Cardinality({x}) = 1
        BY FS_Singleton
      <4>2. {x, y} = {x} \cup {y} /\ y \notin {x}
        BY <2>5 DEF Distinct
      <4>3. IsFiniteSet({x, y}) /\ Cardinality({x, y}) = 2
        BY <4>1, <4>2, FS_AddElement
      <4>4. {x, y, z} = {x, y} \cup {z} /\ z \notin {x, y}
        BY <2>5 DEF Distinct
      <4>. QED
        BY <4>3, <4>4, FS_AddElement
    <3>2. x \in S /\ y \in S => Cardinality({x, y}) <= Cardinality(S)
      BY Sizes, FS_Subset
    <3>3. x \in S /\ y \in S /\ z \in S => Cardinality({x, y, z}) <= Cardinality(S)
      BY Sizes, FS_Subset
    <3>. QED
      BY <2>1, <3>1, <3>2, <3>3
  <2>6. Most = IF T = 1 THEN 2 ELSE IF T = 2 THEN 4 ELSE 8
    BY <2>1 DEF Most
  <2>7. ASSUME NEW x \in Node, NEW y \in Node, NEW z \in Node, Distinct(x, y, z)
        PROVE  /\ startAba + Claims(x) + Claims(y) + Claims(z) <= Most
               /\ x \notin abaRunning /\ y \notin abaRunning =>
                    2 * (startAba + Claims(z)) + Claims(x) + Claims(y) <= Most
               /\ x \notin abaRunning /\ y \notin abaRunning /\ z \notin abaRunning =>
                    4 * startAba + 2 * Claims(x) + Claims(y) + Claims(z) <= Most
    <3>1. \A k \in Node : Claims(k) \in 0..1 /\ (k \notin S => Claims(k) = 0 /\ k \in abaRunning)
      BY <2>3, <2>4
    <3>2. Distinct(x, z, y) /\ Distinct(y, z, x)
      BY <2>7 DEF Distinct
    <3>3. /\ x \in S /\ y \in S => T >= 2
          /\ x \in S /\ z \in S => T >= 2
          /\ y \in S /\ z \in S => T >= 2
          /\ x \in S /\ y \in S /\ z \in S => T >= 3
      BY <2>5, <2>7, <3>2
    <3>. QED
      BY <2>1, <2>6, <3>1, <3>3
  <2>8. Bounded({a, b, c})
    BY <2>7 DEF Bounded
  <2>. QED
    BY <1>1, <2>2, <2>8 DEF Leftovers
<1>. QED
  BY <1>2, <1>3

\* The state in which the first token is handed over.
AtFirstToken ==
    /\ TypeOK /\ startAba = 1
    /\ Cardinality(s) = N - T /\ Over(s)
    /\ \A k \in Node : Claims(k) <= 1

LEMMA LeftAtFirst == T <= 3 /\ AtFirstToken => Leftovers
<1>1. TypeOK => s \in SUBSET Node
  BY DEF TypeOK
<1>. QED
  BY <1>1, FirstToken DEF AtFirstToken

LEMMA LeftAtFirstNext == (T <= 3 /\ AtFirstToken => Leftovers)'
BY LeftAtFirst, PTL

\* Steps after which what is over is over, and what is left is bounded.
LEMMA LeftoversStay ==
    ASSUME Leftovers,
           \A Q \in SUBSET Node : Over(Q) => Over(Q)',
           \A Q \in SUBSET Node : \A a, b, c \in Node :
               Over(Q) /\ Node \ Q \subseteq {a, b, c} /\ Bounded({a, b, c}) => Bounded({a, b, c})'
    PROVE  Leftovers'
<1>1. PICK Q \in SUBSET Node :
        /\ Quorum(Q) /\ Over(Q)
        /\ T = 0 \/ \E a, b, c \in Node :
             Distinct(a, b, c) /\ Node \ Q \subseteq {a, b, c} /\ Bounded({a, b, c})
  BY DEF Leftovers
<1>2. Over(Q)'
  BY <1>1
<1>3. T = 0 \/ \E a, b, c \in Node :
        Distinct(a, b, c) /\ Node \ Q \subseteq {a, b, c} /\ Bounded({a, b, c})'
  BY <1>1
<1>. QED
  BY <1>1, <1>2, <1>3 DEF Leftovers, Quorum, Distinct

\* A step that claims nothing and hands over no token.
LEMMA TokensStay ==
    ASSUME TypeOK, TypeOK', TokenInv, WaitersRun', UNCHANGED <<startAba, s>>,
           abaRunning \subseteq abaRunning',
           \A k \in Node :
               /\ Claims(k)' <= Claims(k)
               /\ Calls(k)' + ToCome(k)' <= Calls(k) + ToCome(k)
               /\ k \in abaRunning => Calls(k)' <= Calls(k)
    PROVE  TokenInv'
<1>1. \A k \in Node : /\ Calls(k) \in Nat /\ ToCome(k) \in 0..1
                      /\ Calls(k)' \in Nat /\ ToCome(k)' \in 0..1
  BY CallTypes DEF TypeOK, Calls, ToCome
<1>2. startAba \in Nat /\ startAba' \in Nat /\ startAba' <= startAba /\ (Quorum(s)' <=> Quorum(s))
  BY Sizes DEF TypeOK, Quorum
<1>3. CASE ~Quorum(s)
  <2>1. \A k \in s : k \in Node
    BY DEF TypeOK
  <2>2. CalledOnce'
    BY <1>1, <1>3, <2>1 DEF TokenInv, CalledOnce
  <2>. QED
    BY <1>2, <1>3, <2>2 DEF TokenInv
<1>4. CASE Quorum(s)
  <2>1. \A Q \in SUBSET Node : Over(Q) => Over(Q)'
    BY <1>1 DEF Over
  <2>2. ASSUME NEW a \in Node, NEW b \in Node, NEW c \in Node, Bounded({a, b, c})
        PROVE  Bounded({a, b, c})'
    <3>1. {a, b, c} \in SUBSET Node
      OBVIOUS
    <3>. DEFINE L == {a, b, c}
    <3>2. L \in SUBSET Node /\ Bounded(L) /\ \A k \in L : Claims(k)' <= Claims(k)
      BY <2>2, <3>1
    <3>. HIDE DEF L
    <3>3. Bounded(L)'
      BY <1>2, <3>2, NothingClaimed
    <3>. QED
      BY <3>3 DEF L
  <2>3. Leftovers'
    BY <1>4, <2>1, <2>2, LeftoversStay DEF TokenInv
  <2>. QED
    BY <1>2, <1>4, <2>3 DEF TokenInv
<1>. QED
  BY <1>3, <1>4

LEMMA RbcOutputTokens == ASSUME IInv, IInv', TokenInv, NEW k \in Node, RbcOutput(k) PROVE TokenInv'
<1>1. UNCHANGED <<startAba, s, spawned, waiting, abaRunning>>
  BY DEF RbcOutput
<1>2. \A j \in Node : ToCome(j)' = ToCome(j) /\ Calls(j)' = Calls(j)
  <2>1. k \notin Delivered /\ k \in rbcDone'
    BY DEF RbcOutput, Delivered
  <2>2. ASSUME NEW j \in Node, j # k
        PROVE  (j \in Delivered' <=> j \in Delivered) /\ (j \in rbcDone' <=> j \in rbcDone)
    BY <2>2 DEF RbcOutput, Delivered, IInv, TypeOK
  <2>. QED
    BY <1>1, <2>1, <2>2 DEF ToCome, Calls
<1>3. \A j \in Node : Claims(j)' = Claims(j)
  BY <1>1, <1>2 DEF Claims
<1>4. \A j \in Node : Calls(j) \in Nat /\ ToCome(j) \in 0..1 /\ Claims(j) \in Nat
  BY CallTypes DEF IInv
<1>. QED
  BY <1>1, <1>2, <1>3, <1>4, TokensStay DEF IInv, TokenInv, WaitersRun

LEMMA HandleRbcDoneTokens == ASSUME IInv, IInv', TokenInv, NEW k \in Node, HandleRbcDone(k) PROVE TokenInv'
<1>1. UNCHANGED <<startAba, s, rbcVals, waiting, abaRunning>>
  BY DEF HandleRbcDone
<1>2. \A j \in Node : Calls(j) \in Nat /\ ToCome(j) \in 0..1 /\ Claims(j) \in Nat
  BY CallTypes DEF IInv
<1>3. ToCome(k) = 1 /\ ToCome(k)' = 0
  BY DEF HandleRbcDone, IInv, SharesFit, ToCome, Delivered
<1>4. Calls(k)' = IF k \in abaRunning THEN Calls(k) ELSE Calls(k) + 1
  BY DEF HandleRbcDone, Spawn, Calls, IInv, TypeOK
<1>5. \A j \in Node : j # k => ToCome(j)' = ToCome(j) /\ Calls(j)' = Calls(j)
  BY DEF HandleRbcDone, Spawn, ToCome, Calls, Delivered, IInv, TypeOK
<1>6. \A j \in Node : /\ Claims(j)' <= Claims(j)
                      /\ Calls(j)' + ToCome(j)' <= Calls(j) + ToCome(j)
                      /\ j \in abaRunning => Calls(j)' <= Calls(j)
  <2>1. Claims(k)' = Claims(k)
    BY <1>1, <1>2, <1>3, <1>4 DEF Claims
  <2>2. \A j \in Node : j # k => Claims(j)' = Claims(j)
    BY <1>1, <1>5 DEF Claims
  <2>. QED
    BY <1>2, <1>3, <1>4, <1>5, <2>1, <2>2
<1>. QED
  BY <1>1, <1>6, TokensStay DEF IInv, TokenInv, WaitersRun

LEMMA BeginAbaTokens == ASSUME IInv, IInv', TokenInv, NEW k \in Node, BeginAba(k) PROVE TokenInv'
<1>1. UNCHANGED <<startAba, s, rbcVals, rbcDone>> /\ abaRunning' = abaRunning \cup {k}
  BY DEF BeginAba
<1>2. \A j \in Node : Calls(j) \in Nat /\ ToCome(j) \in 0..1 /\ Claims(j) \in Nat
  BY CallTypes DEF IInv
<1>3. \A j \in Node : ToCome(j)' = ToCome(j) /\ Calls(j)' = Calls(j)
  BY DEF BeginAba, ToCome, Calls, Delivered, IInv, TypeOK
<1>4. \A j \in Node : Claims(j)' <= Claims(j)
  BY <1>1, <1>2, <1>3 DEF Claims
<1>5. WaitersRun'
  BY DEF TokenInv, WaitersRun, BeginAba, IInv, TypeOK
<1>. QED
  BY <1>1, <1>2, <1>3, <1>4, <1>5, TokensStay DEF IInv

LEMMA HandleStartAbaTokens == ASSUME IInv, IInv', TokenInv, HandleStartAba PROVE TokenInv'
<1>1. /\ UNCHANGED <<s, rbcVals, rbcDone, waiting, abaRunning>>
      /\ startAba' = startAba - 1 /\ Quorum(s)
  BY DEF HandleStartAba, IInv, StartsFit
<1>2. \A j \in Node : Calls(j) \in Nat /\ ToCome(j) \in 0..1 /\ Claims(j) \in Nat
  BY CallTypes DEF IInv
<1>3. \A j \in Node : /\ ToCome(j)' = ToCome(j)
                      /\ Calls(j)' = IF j \in abaRunning THEN Calls(j) ELSE Calls(j) + 1
  BY DEF HandleStartAba, Spawn, ToCome, Calls, Delivered, IInv, TypeOK
<1>4. \A j \in Node : Claims(j)' = IF j \in abaRunning THEN Claims(j) ELSE Claims(j) + 1
  BY <1>1, <1>2, <1>3 DEF Claims
<1>5. \A Q \in SUBSET Node : Over(Q) => Over(Q)'
  BY <1>1, <1>3 DEF Over
<1>6. ASSUME NEW a \in Node, NEW b \in Node, NEW c \in Node, Bounded({a, b, c})
      PROVE  Bounded({a, b, c})'
  <2>. DEFINE L == {a, b, c}
  <2>1. L \in SUBSET Node /\ Bounded(L)
    BY <1>6
  <2>. HIDE DEF L
  <2>2. Bounded(L)'
    BY <1>1, <1>4, <2>1, TokenTaken DEF IInv
  <2>. QED
    BY <2>2 DEF L
<1>7. Leftovers'
  BY <1>1, <1>5, <1>6, LeftoversStay DEF TokenInv
<1>. QED
  BY <1>1, <1>7 DEF TokenInv, WaitersRun, Quorum

LEMMA AbaOutputTokens ==
    ASSUME T <= 3, IInv, IInv', TokenInv, NEW k \in Node, NEW v \in {0, 1}, AbaOutput(k, v)
    PROVE  TokenInv'
<1>. DEFINE notify == v = 1 /\ Quorum(s \cup {k})
<1>1. /\ UNCHANGED <<rbcVals, rbcDone, spawned, abaRunning>>
      /\ s' = (IF v = 1 THEN s \cup {k} ELSE s)
      /\ startAba' = IF notify THEN startAba + 1 ELSE startAba
      /\ waiting[k] > 0 /\ waiting' = [waiting EXCEPT ![k] = @ - 1]
  BY DEF AbaOutput
<1>2. \A j \in Node : /\ Calls(j) \in Nat /\ ToCome(j) \in 0..1 /\ Claims(j) \in Nat
                      /\ Calls(j)' \in Nat /\ ToCome(j)' \in 0..1 /\ Claims(j)' \in Nat
  BY CallTypes DEF IInv, TypeOK, Calls, ToCome, Claims
<1>3. k \in abaRunning /\ Calls(k) > 0 /\ Calls(k)' = Calls(k) - 1
  BY <1>1 DEF TokenInv, WaitersRun, Calls, IInv, TypeOK
<1>4. \A j \in Node : ToCome(j)' = ToCome(j) /\ (j # k => Calls(j)' = Calls(j))
  BY <1>1 DEF ToCome, Calls, Delivered, IInv, TypeOK
<1>5. Claims(k)' = Claims(k) - 1 /\ \A j \in Node : j # k => Claims(j)' = Claims(j)
  BY <1>1, <1>3, <1>4 DEF Claims
<1>6. WaitersRun'
  BY <1>1 DEF TokenInv, WaitersRun, IInv, TypeOK
<1>7. s \in SUBSET Node /\ s' \in SUBSET Node /\ startAba \in Nat
  BY Sizes DEF IInv, TypeOK
<1>8. CASE v = 0
  <2>1. UNCHANGED <<startAba, s>>
    BY <1>1, <1>8
  <2>. QED
    BY <1>1, <1>2, <1>3, <1>4, <1>5, <1>6, <2>1, TokensStay DEF IInv
<1>9. CASE v = 1 /\ ~Quorum(s \cup {k})
  <2>1. s' = s \cup {k} /\ startAba' = startAba /\ ~Quorum(s)
    BY <1>1, <1>7, <1>9, QuorumGrows
  <2>2. CalledOnce
    BY <2>1 DEF TokenInv
  <2>3. Calls(k)' = 0
    BY <1>2, <1>3, <2>2 DEF CalledOnce
  <2>4. CalledOnce'
    BY <1>1, <1>2, <1>3, <1>4, <1>7, <2>1, <2>2, <2>3 DEF CalledOnce
  <2>5. ~Quorum(s)'
    BY <1>9, <2>1 DEF Quorum
  <2>. QED
    BY <1>6, <2>4, <2>5 DEF TokenInv
<1>10. CASE v = 1 /\ Quorum(s \cup {k}) /\ ~Quorum(s)
  <2>1. s' = s \cup {k} /\ startAba' = startAba + 1 /\ CalledOnce
    BY <1>1, <1>10 DEF TokenInv
  <2>2. startAba' = 1 /\ Calls(k)' = 0 /\ \A j \in s : j \in abaRunning /\ Calls(j) = 0
    BY <1>2, <1>3, <2>1 DEF CalledOnce
  <2>3. Over(s)'
    BY <1>1, <1>3, <1>4, <1>7, <2>1, <2>2 DEF Over
  <2>4. Cardinality(s') = N - T
    <3>1. Cardinality(s \cup {k}) <= Cardinality(s) + 1
      BY <1>7, Sizes, FS_AddElement
    <3>. QED
      BY <1>7, <1>10, <2>1, <3>1, Sizes DEF Quorum
  <2>5. \A j \in Node : Claims(j)' <= 1
    BY <1>2, <1>3, <1>4, <2>1 DEF CalledOnce, Claims
  <2>6. Leftovers'
    <3>1. AtFirstToken'
      BY <2>2, <2>3, <2>4, <2>5 DEF AtFirstToken, IInv
    <3>. QED
      BY <3>1, LeftAtFirstNext
  <2>7. Quorum(s)'
    BY <1>10, <2>1 DEF Quorum
  <2>. QED
    BY <1>6, <2>6, <2>7 DEF TokenInv
<1>11. CASE v = 1 /\ Quorum(s)
  <2>1. Quorum(s \cup {k}) /\ s' = s \cup {k} /\ startAba' = startAba + 1
    BY <1>1, <1>7, <1>11, QuorumGrows
  <2>2. \A Q \in SUBSET Node : Over(Q) => Over(Q)' /\ k \notin Q
    BY <1>1, <1>3, <1>4 DEF Over
  <2>3. ASSUME NEW a \in Node, NEW b \in Node, NEW c \in Node, k \in {a, b, c}, Bounded({a, b, c})
        PROVE  Bounded({a, b, c})'
    BY <1>1, <1>3, <1>5, <2>1, <2>3, TokenGiven DEF IInv
  <2>4. Leftovers'
    BY <1>11, <2>2, <2>3, LeftoversStay DEF TokenInv
  <2>5. Quorum(s)'
    BY <2>1 DEF Quorum
  <2>. QED
    BY <1>6, <2>4, <2>5 DEF TokenInv
<1>. QED
  BY <1>8, <1>9, <1>10, <1>11

LEMMA InitTokens == Init => TokenInv
<1>1. SUFFICES ASSUME Init PROVE TokenInv
  OBVIOUS
<1>2. ~Quorum(s)
  BY <1>1, Sizes, ACSConstants, FS_EmptySet DEF Init, Quorum
<1>3. \A k \in Node : Calls(k) = 0 /\ ToCome(k) = 1
  BY <1>1 DEF Init, Calls, ToCome, Delivered
<1>. QED
  BY <1>1, <1>2, <1>3 DEF Init, TokenInv, CalledOnce, WaitersRun

LEMMA StepTokens ==
    ASSUME T <= 3, IInv, IInv', TokenInv, [Next]_vars
    PROVE  TokenInv'
<1>1. CASE eventHandler \/ UNCHANGED vars
  <2>1. UNCHANGED <<rbcVals, rbcDone, startAba, spawned, abaRunning, waiting, s>>
    BY <1>1 DEF eventHandler, vars
  <2>2. \A k \in Node : /\ Claims(k)' = Claims(k) /\ Calls(k)' = Calls(k) /\ ToCome(k)' = ToCome(k)
                        /\ Calls(k) \in Nat /\ ToCome(k) \in 0..1 /\ Claims(k) \in Nat
    BY <2>1, CallTypes DEF IInv, Claims, Calls, ToCome, Delivered
  <2>. QED
    BY <2>1, <2>2, TokensStay DEF IInv, TokenInv, WaitersRun
<1>. QED
  BY <1>1, RbcOutputTokens, HandleRbcDoneTokens, BeginAbaTokens, HandleStartAbaTokens, AbaOutputTokens DEF Next

\* With three agreements left over at most, there are eight tokens at most, and ten
\* nodes at least: nobody finds the channel full.
LEMMA TokensFit == ASSUME TypeOK, T <= 3, TokenInv PROVE NotifyNeverBlocks
<1>1. SUFFICES ASSUME NEW k \in Node, waiting[k] > 0 PROVE startAba < N
  BY DEF NotifyNeverBlocks
<1>2. startAba \in Nat /\ Calls(k) > 0 /\ N > 0
  BY <1>1, Sizes, ACSConstants DEF TypeOK, Calls
<1>3. CASE ~Quorum(s)
  BY <1>2, <1>3, Sizes DEF TokenInv, CalledOnce
<1>4. CASE Quorum(s)
  <2>1. PICK Q \in SUBSET Node :
          /\ Quorum(Q) /\ Over(Q)
          /\ T = 0 \/ \E a, b, c \in Node :
               Distinct(a, b, c) /\ Node \ Q \subseteq {a, b, c} /\ Bounded({a, b, c})
    BY <1>4 DEF TokenInv, Leftovers
  <2>2. k \notin Q
    BY <1>2, <2>1 DEF Over
  <2>3. T # 0
    <3>1. Cardinality(Node \ Q) <= T /\ Cardinality({k}) = 1 /\ Cardinality({k}) <= Cardinality(Node \ Q)
      <4>1. Node \ Q \in SUBSET Node /\ (Node \ Q) \cap Q = {} /\ {k} \subseteq Node \ Q
        BY <2>2
      <4>. QED
        BY <2>1, <4>1, Sizes, FewOutside, FS_Singleton, FS_Subset
    <3>2. Cardinality(Node \ Q) \in Nat
      BY Sizes
    <3>. QED
      BY <3>1, <3>2, Sizes
  <2>4. PICK a, b, c \in Node : Distinct(a, b, c) /\ Bounded({a, b, c})
    BY <2>1, <2>3
  <2>5. startAba + Claims(a) + Claims(b) + Claims(c) <= Most
    BY <2>4 DEF Bounded
  <2>6. startAba <= Most
    BY <1>2, <2>5, CallTypes, MostIs
  <2>7. Most < N
    BY <2>3, Sizes, ACSFaults DEF Most
  <2>. QED
    BY <1>2, <2>6, <2>7, MostIs, Sizes
<1>. QED
  BY <1>3, <1>4

\* No goroutine that hands over a token finds the channel full with the lock held
\* that its reader needs, up to t=3.  (With t=4 of 13 nodes there may be more tokens
\* than nodes.)
THEOREM ChannelNeverFull == ASSUME T <= 3 PROVE Spec => []NotifyNeverBlocks
<1>1. IInv /\ IInv' /\ TokenInv /\ [Next]_vars => TokenInv'
  BY StepTokens
<1>2. IInv /\ TokenInv => NotifyNeverBlocks
  BY TokensFit DEF IInv
<1>. QED
  BY <1>1, <1>2, InitTokens, Invariance, PTL DEF Spec
===============================================================================
