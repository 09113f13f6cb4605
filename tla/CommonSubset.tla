----------------------------- MODULE CommonSubset ------------------------------
(***************************************************************************)
(* The inner protocol of the common subset at one node                     *)
(* (src/commonsubset/commonsubset.go): n reliable broadcasts, one binary   *)
(* agreement for each, and the three conditions on which the node settles  *)
(* on an output.  The other nodes are seen through what the broadcasts and *)
(* agreements hand over.                                                   *)
(*                                                                         *)
(* The goroutines of the node are the loop of Run, one for each broadcast, *)
(* and one for each call of handleAba.  A critical section under acs.Lock  *)
(* is one action; between two of them anybody may run.  A goroutine that   *)
(* has put its result into the maps calls eventHandler in a critical       *)
(* section of its own.                                                     *)
(***************************************************************************)
EXTENDS Integers, FiniteSets

CONSTANTS Node,      \* all n nodes; instance k of both protocols is about node k
          Up,        \* the nodes whose broadcast is ever delivered here
          T,         \* acs.t
          Value,     \* block shares
          Nil        \* Go's nil

N == Cardinality(Node)

ASSUME ACSConstants ==
    /\ IsFiniteSet(Node) /\ Up \subseteq Node
    /\ T \in Nat /\ T < N
    /\ Nil \notin Value
    /\ \A k \in Node, v \in Value : Nil # [x \in {k} |-> v]

\* Of two sets of n-t nodes, either outnumbers the nodes that are not in the other.
ASSUME ACSFaults == 3 * T < N

VARIABLES
    input,         \* input[k]: what node k broadcasts
    rbcVals,       \* rbcVals[k]: output of broadcast k, Nil while it is not in the map
    rbcDone,       \* instances waiting in the channel rbcDone
    startAba,      \* number of tokens waiting in the channel startAba
    spawned,       \* spawned[k]: goroutines handleAba(k) that have not begun to run
    abaRunning,    \* abaRunning
    waiting,       \* waiting[k]: goroutines handleAba(k) blocked in GetValue
    abaFinished,   \* abaFinished
    s,             \* s
    events,        \* goroutines about to call eventHandler
    acsOut         \* what was put on acsOut: [k \in a subset of Node -> share], or Nil;
                   \* commit is set when that happens

vars == <<input, rbcVals, rbcDone, startAba, spawned, abaRunning, waiting,
          abaFinished, s, events, acsOut>>

\* An output as the instances it is taken from and the share of each.  The
\* outputs of conditions one and two are the single share of some instance.
Output == UNION {[K -> Value \cup {Nil}] : K \in SUBSET Node}

TypeOK ==
    /\ input \in [Node -> Value]
    /\ rbcVals \in [Node -> Value \cup {Nil}]
    /\ rbcDone \subseteq Node
    /\ startAba \in 0..N
    /\ spawned \in [Node -> Nat]
    /\ abaRunning \subseteq Node
    /\ waiting \in [Node -> Nat]
    /\ abaFinished \subseteq Node
    /\ s \subseteq Node
    /\ events \in Nat
    /\ acsOut \in Output \cup {Nil}

Init ==
    /\ input \in [Node -> Value]
    /\ rbcVals = [k \in Node |-> Nil]
    /\ rbcDone = {}
    /\ startAba = 0
    /\ spawned = [k \in Node |-> 0]
    /\ abaRunning = {}
    /\ waiting = [k \in Node |-> 0]
    /\ abaFinished = {}
    /\ s = {}
    /\ events = 0
    /\ acsOut = Nil

-------------------------------------------------------------------------------
(* The three conditions *)

Delivered == {k \in Node : rbcVals[k] # Nil}
Shares(v) == {k \in Node : rbcVals[k] = v}
Quorum(S) == Cardinality(S) >= N - T

cOne(v) == Quorum(Shares(v))

\* Mutant of cTwo: half of the shares delivered will do.
HalfIsEnough(v) ==
    /\ Quorum(s) /\ abaFinished = Node
    /\ Cardinality(Shares(v)) >= Cardinality(Delivered) \div 2

cTwo(v) ==
    /\ Quorum(s) /\ abaFinished = Node
    /\ Cardinality(Shares(v)) > Cardinality(Delivered) \div 2

\* Mutant of cThree: agreements beyond the first n-t do no harm.
AnyFinished == Quorum(s) /\ Quorum(abaFinished) /\ Cardinality(Delivered) = N - T

cThree ==
    /\ Quorum(s)
    /\ Cardinality(abaFinished) = N - T
    /\ Cardinality(Delivered) = N - T

SharesFrom(K) == [k \in K |-> rbcVals[k]]

\* A call of eventHandler: the first condition that holds settles the output.
eventHandler ==
    /\ events > 0
    /\ events' = events - 1
    /\ LET one == {k \in Delivered : cOne(rbcVals[k])}
           two == {k \in Delivered : cTwo(rbcVals[k])}
       IN  \/ acsOut = Nil /\ \E k \in one : acsOut' = SharesFrom({k})
           \/ acsOut = Nil /\ one = {} /\ \E k \in two : acsOut' = SharesFrom({k})
           \/ acsOut = Nil /\ one \cup two = {} /\ cThree /\ acsOut' = SharesFrom(s)
           \/ (acsOut # Nil \/ (one \cup two = {} /\ ~cThree)) /\ UNCHANGED acsOut
    /\ UNCHANGED <<input, rbcVals, rbcDone, startAba, spawned, abaRunning,
                   waiting, abaFinished, s>>

-------------------------------------------------------------------------------
(* The goroutines *)

\* Broadcast k hands its output over.
RbcOutput(k) ==
    /\ k \in Up /\ rbcVals[k] = Nil
    /\ rbcVals' = [rbcVals EXCEPT ![k] = input[k]]
    /\ rbcDone' = rbcDone \cup {k}
    /\ events' = events + 1
    /\ UNCHANGED <<input, startAba, spawned, abaRunning, waiting, abaFinished,
                   s, acsOut>>

\* Mutant of Spawn: agreements that run are started again.
SpawnAgain(K) == spawned' = [k \in Node |-> spawned[k] + IF k \in K THEN 1 ELSE 0]

Spawn(K) == spawned' = [k \in Node |-> spawned[k] + IF k \in K \ abaRunning THEN 1 ELSE 0]

\* The case rbcDone of the loop of Run: start the agreement with input 1.
HandleRbcDone(k) ==
    /\ k \in rbcDone
    /\ rbcDone' = rbcDone \ {k}
    /\ Spawn({k})
    /\ UNCHANGED <<input, rbcVals, startAba, abaRunning, waiting, abaFinished, s,
                   events, acsOut>>

\* The case startAba: start the agreements that are not running with input 0.
HandleStartAba ==
    /\ startAba > 0
    /\ startAba' = startAba - 1
    /\ Spawn(Node)
    /\ UNCHANGED <<input, rbcVals, rbcDone, abaRunning, waiting, abaFinished, s,
                   events, acsOut>>

\* handleAba(k) starts the agreement and marks it as running.
BeginAba(k) ==
    /\ spawned[k] > 0
    /\ spawned' = [spawned EXCEPT ![k] = @ - 1]
    /\ abaRunning' = abaRunning \cup {k}
    /\ waiting' = [waiting EXCEPT ![k] = @ + 1]
    /\ UNCHANGED <<input, rbcVals, rbcDone, startAba, abaFinished, s, events,
                   acsOut>>

\* Mutant of AbaOutput: the goroutine does not wait.
OutputUnasked(k, v) ==
    /\ waiting' = [waiting EXCEPT ![k] = @ - 1]
    /\ abaFinished' = abaFinished \cup {k}
    /\ s' = IF v = 1 THEN s \cup {k} ELSE s
    /\ events' = events + 1
    /\ UNCHANGED <<input, rbcVals, rbcDone, startAba, spawned, abaRunning, acsOut>>

\* handleAba(k) gets the value v of the agreement.  An agreement that was begun
\* twice hands over two values, of which nothing is known.
AbaOutput(k, v) ==
    LET S == IF v = 1 THEN s \cup {k} ELSE s
        notify == v = 1 /\ Quorum(S)
    IN  /\ waiting[k] > 0
        /\ notify => startAba < N
        /\ waiting' = [waiting EXCEPT ![k] = @ - 1]
        /\ abaFinished' = abaFinished \cup {k}
        /\ s' = S
        /\ startAba' = IF notify THEN startAba + 1 ELSE startAba
        /\ events' = events + 1
        /\ UNCHANGED <<input, rbcVals, rbcDone, spawned, abaRunning, acsOut>>

Next ==
    \/ \E k \in Node : \/ RbcOutput(k)
                       \/ HandleRbcDone(k)
                       \/ BeginAba(k)
                       \/ \E v \in {0, 1} : AbaOutput(k, v)
    \/ HandleStartAba
    \/ eventHandler

Spec == Init /\ [][Next]_vars

-------------------------------------------------------------------------------
(* Properties *)

\* The node never puts a share into its output that it does not have: when
\* condition three holds, the agreements that finished are those of s, and each
\* was started because its broadcast had been delivered here.
NoNilShare == acsOut # Nil => \A k \in DOMAIN acsOut : acsOut[k] # Nil

\* A single share is output only if no other share is one that n-t nodes
\* broadcast: another node, which may have settled as soon as it had those n-t
\* (condition one), has settled on the same.
NoRival ==
    \A v, w \in Value :
        (\E k \in Node : acsOut = [x \in {k} |-> v]) /\ Quorum({k \in Node : input[k] = w})
            => v = w

\* A goroutine sends on startAba with acs.Lock held, and the only reader of the
\* channel needs the lock: it does not find the channel full (capacity n), although
\* agreements are started more than once.  That is for t up to 3: how often one may
\* be started doubles with every agreement that was left over, and the 2^t times of
\* t = 4 are more than the 13 places of n = 13.
NotifyNeverBlocks == \A k \in Node : waiting[k] > 0 => startAba < N

\* "cThree returns whether |s| >= n-t and all executions of rbc and aba have
\* terminated" (line 270): once they have, and every result was looked at, the
\* node has settled on an output.
SettledWhenAllDone ==
    Quorum(s) /\ abaFinished = Node /\ Delivered = Node /\ events = 0 => acsOut # Nil
================================================================================
