---------------------------- MODULE AtomicBroadcast ----------------------------
(***************************************************************************)
(* One round of runProtocol of src/tardigrade/tardigrade.go at all nodes:  *)
(* the pre-blocks, the committee's pointer, the choice of what goes into   *)
(* the common subset, and the block that is put together from its output.  *)
(*                                                                         *)
(* A node is a listener, which handles one message at a time under the     *)
(* lock of the round, and the function runProtocol itself, which waits for *)
(* the timer, the block agreement, tokens, the common subset and channels  *)
(* in turn; phase says where.  The block agreement and the common subset   *)
(* of the round hand over one output, as AgreeOnOne promises, to any of    *)
(* the nodes, or to none: nothing is assumed of when, or whether, they     *)
(* return.  Timers and messages run freely.  Nodes are up or crashed for   *)
(* the whole round.                                                        *)
(*                                                                         *)
(* Every node encrypts the transactions it proposes and sends one to each  *)
(* node ("small") and a list to the committee ("large"); only who sent and *)
(* for whom is kept of them.  A sender gives the same large message to     *)
(* every member, so a large pre-block is known by the senders in it, and   *)
(* that set stands for its hash and for the pointer to it.                 *)
(***************************************************************************)
EXTENDS Naturals, FiniteSets, Sequences, Functions

CONSTANTS N,       \* cfg.n
          T,       \* rcfg.Ta and rcfg.Ts
          Kappa,   \* the size of the committee
          None     \* nil

Node == 0..(N - 1)
Committee == 0..(Kappa - 1)

\* The configurations crash the last T nodes.
Up == 0..(N - T - 1)

\* Stands for the committee as the addressee of a large message.
All == N

ASSUME ABCConstants ==
    /\ N \in Nat /\ T \in Nat /\ T < N
    /\ Kappa \in 1..N
    /\ \A S \in SUBSET Up : S # None

\* A block share: a small pre-block, held by pointer, with what is in it, and
\* the hash of a large pre-block that the committee signed.
BlockShare == [owner : Up, have : SUBSET Up, pointer : SUBSET Up]

\* nil is no block share.
ASSUME ABCNil == None \notin BlockShare

\* A message carries its sender and, if it is about a large pre-block, its hash.
\* What is sent stays in msgs; a receiver takes it into account once.
BlockMessage == [type : {"small", "large"}, from : Up]
HashMessage ==
    [type : {"committee", "pointer", "preblock"}, from : Committee \cap Up, hash : SUBSET Up]
DecShareMessage == [type : {"decshares"}, from : Committee \cap Up]
Message == BlockMessage \cup HashMessage \cup DecShareMessage

VARIABLES
    smallPb,          \* smallPb[i]: whose small messages are in it
    largePb,          \* largePb[i]: the same for a member of the committee
    blocksReceived,   \* pairs (hash, sender) of valid committee messages
    largeBlockChan,   \* the owners of the pre-blocks put into the channel
    ptr,              \* the block pointer, or None
    phase,            \* where runProtocol is
    blaInput,         \* what the node put into block agreement, or None
    blaOutput,        \* what block agreement gave to whom it gave anything, or None
    acsInput,         \* what the node put into common subset, or None
    acsOutput,        \* the shares common subset settled on, {} before
    blocks,           \* blocks[r] of each node: its transactions, {} before
    msgs              \* messages sent

vars == <<smallPb, largePb, blocksReceived, largeBlockChan, ptr, phase,
          blaInput, blaOutput, acsInput, acsOutput, blocks, msgs>>

Phases == {"propose", "bla", "own", "acs", "match", "matched", "preblock", "decrypt", "done"}

TypeOK ==
    /\ smallPb \in [Up -> SUBSET Up] /\ largePb \in [Up -> SUBSET Up]
    /\ blocksReceived \in [Up -> SUBSET ((SUBSET Up) \X Up)]
    /\ largeBlockChan \in [Up -> Seq(Up)]
    /\ ptr \in [Up -> (SUBSET Up) \cup {None}]
    /\ phase \in [Up -> Phases]
    /\ blaInput \in [Up -> BlockShare \cup {None}] /\ blaOutput \in BlockShare \cup {None}
    /\ acsInput \in [Up -> BlockShare \cup {None}] /\ acsOutput \in SUBSET BlockShare
    /\ blocks \in [Up -> SUBSET (Up \X (Up \cup {All}))]
    /\ msgs \in SUBSET Message

Small(i) == [type |-> "small", from |-> i]
Large(i) == [type |-> "large", from |-> i]
ToCommittee(i, h) == [type |-> "committee", from |-> i, hash |-> h]
Pointer(i, h) == [type |-> "pointer", from |-> i, hash |-> h]
PreBlock(i, h) == [type |-> "preblock", from |-> i, hash |-> h]
DecShares(i) == [type |-> "decshares", from |-> i]

\* Everyone has started the round and proposed its transactions.
Init ==
    /\ smallPb = [i \in Up |-> {}] /\ largePb = [i \in Up |-> {}]
    /\ blocksReceived = [i \in Up |-> {}]
    /\ largeBlockChan = [i \in Up |-> << >>]
    /\ ptr = [i \in Up |-> None]
    /\ phase = [i \in Up |-> "propose"]
    /\ blaInput = [i \in Up |-> None] /\ blaOutput = None
    /\ acsInput = [i \in Up |-> None] /\ acsOutput = {}
    /\ blocks = [i \in Up |-> {}]
    /\ msgs = {Small(i) : i \in Up} \cup {Large(i) : i \in Up}

-------------------------------------------------------------------------------
(* The listener *)

\* The quality from which a pre-block is ready, and the number of members
\* whose shares make a signature or a decryption.
\* Mutants: one sender less, one member less.
ReadyEarly(pb) == Cardinality(pb) >= N - T - 1
EnoughOfHalf(S) == Cardinality(S) >= Kappa \div 2

Ready(pb) == Cardinality(pb) >= N - T
Enough(S) == Cardinality(S) >= Kappa \div 2 + 1

\* Ready becomes true once: later messages do not repeat what follows from it.
JustReady(pb, j) == ~Ready(pb) /\ Ready(pb \cup {j})

handleSmallBlockMessage(i, m) ==
    /\ m.type = "small" /\ m.from \notin smallPb[i]
    /\ smallPb' = [smallPb EXCEPT ![i] = @ \cup {m.from}]
    /\ UNCHANGED <<largePb, blocksReceived, largeBlockChan, ptr, msgs>>

\* A member signs the hash of its pre-block once that is ready.
handleLargeBlockMessage(i, m) ==
    /\ m.type = "large" /\ i \in Committee /\ m.from \notin largePb[i]
    /\ largePb' = [largePb EXCEPT ![i] = @ \cup {m.from}]
    /\ msgs' = msgs \cup
         IF JustReady(largePb[i], m.from) THEN {ToCommittee(i, largePb'[i])} ELSE {}
    /\ UNCHANGED <<smallPb, blocksReceived, largeBlockChan, ptr>>

\* Mutant: only members take a pointer.
PointerOfMembers(i, m) ==
    /\ m.type = "pointer" /\ ptr[i] = None
    /\ i \in Committee
    /\ ptr' = [ptr EXCEPT ![i] = m.hash]
    /\ msgs' = msgs \cup {Pointer(i, m.hash)}
    /\ UNCHANGED <<smallPb, largePb, blocksReceived, largeBlockChan>>

\* Only the first pointer counts; members pass it on.
handlePointerMessage(i, m) ==
    /\ m.type = "pointer" /\ ptr[i] = None
    /\ i \in Committee \/ m.from \in Committee
    /\ ptr' = [ptr EXCEPT ![i] = m.hash]
    /\ msgs' = msgs \cup IF i \in Committee THEN {Pointer(i, m.hash)} ELSE {}
    /\ UNCHANGED <<smallPb, largePb, blocksReceived, largeBlockChan>>

\* The pre-block travels by pointer: it has to have its hash still.
isValidCommitteeMessage(m) == largePb[m.from] = m.hash

\* Every message from the last missing one on combines the signature and
\* replaces the pointer.  The echo of line 791 is for a pointer whose address is
\* nil, and no address is.
handleCommitteeMessage(i, m) ==
    LET valid == isValidCommitteeMessage(m)
        got == blocksReceived[i] \cup {<<m.hash, m.from>>}
        signed == valid /\ Enough({c \in Up : <<m.hash, c>> \in got})
    IN  /\ m.type = "committee" /\ i \in Committee
        /\ m.from \notin Range(largeBlockChan[i])
        /\ largeBlockChan' = [largeBlockChan EXCEPT ![i] = Append(@, m.from)]
        /\ blocksReceived' = [blocksReceived EXCEPT ![i] = IF valid THEN got ELSE @]
        /\ ptr' = [ptr EXCEPT ![i] = IF signed THEN m.hash ELSE @]
        /\ msgs' = msgs \cup IF signed THEN {Pointer(i, m.hash)} ELSE {}
        /\ UNCHANGED <<smallPb, largePb>>

\* Pre-blocks and decryption shares go on into pbChan and decChan.  Whether they
\* are there or still on their way makes no difference to who waits for them.
pbChan == {m.hash : m \in {x \in msgs : x.type = "preblock"}}
decChan == {m.from : m \in {x \in msgs : x.type = "decshares"}}

listener(i, m) ==
    /\ \/ handleSmallBlockMessage(i, m) \/ handleLargeBlockMessage(i, m)
       \/ handlePointerMessage(i, m) \/ handleCommitteeMessage(i, m)
    /\ UNCHANGED <<phase, blaInput, blaOutput, acsInput, acsOutput, blocks>>

-------------------------------------------------------------------------------
(* runProtocol *)

OwnShare(i) == [owner |-> i, have |-> smallPb[i], pointer |-> ptr[i]]

Goto(i, p) == phase' = [phase EXCEPT ![i] = p]

tallies == <<smallPb, largePb, blocksReceived, largeBlockChan, ptr>>

\* The timer of 4 delta ends.
RunBla(i) ==
    /\ phase[i] = "propose" /\ Ready(smallPb[i]) /\ ptr[i] # None
    /\ blaInput' = [blaInput EXCEPT ![i] = OwnShare(i)]
    /\ Goto(i, "bla")
    /\ UNCHANGED <<tallies, blaOutput, acsInput, acsOutput, blocks, msgs>>

SkipBla(i) ==
    /\ phase[i] = "propose" /\ ~(Ready(smallPb[i]) /\ ptr[i] # None)
    /\ Goto(i, "own")
    /\ UNCHANGED <<tallies, blaInput, blaOutput, acsInput, acsOutput, blocks, msgs>>

\* Block agreement gives the input of one node to some of those that run it,
\* and it is put into common subset.
BlaDecides(i) ==
    /\ phase[i] = "bla"
    /\ \E s \in {blaInput[j] : j \in Up} \ {None} :
         /\ blaOutput \in {None, s}
         /\ blaOutput' = s
         /\ acsInput' = [acsInput EXCEPT ![i] = s]
    /\ Goto(i, "acs")
    /\ UNCHANGED <<tallies, blaInput, acsOutput, blocks, msgs>>

BlaFails(i) ==
    /\ phase[i] = "bla"
    /\ Goto(i, "own")
    /\ UNCHANGED <<tallies, blaInput, blaOutput, acsInput, acsOutput, blocks, msgs>>

\* Mutant: the node does not wait for its pre-block.
InputUnready(i) ==
    /\ phase[i] = "own" /\ ptr[i] # None
    /\ acsInput' = [acsInput EXCEPT ![i] = OwnShare(i)]
    /\ Goto(i, "acs")
    /\ UNCHANGED <<tallies, blaInput, blaOutput, acsOutput, blocks, msgs>>

\* Without an output of block agreement the node waits for a token in
\* readyChan and one in ptrChan, and goes on with its own blocks.
InputOwn(i) ==
    /\ phase[i] = "own" /\ Ready(smallPb[i]) /\ ptr[i] # None
    /\ acsInput' = [acsInput EXCEPT ![i] = OwnShare(i)]
    /\ Goto(i, "acs")
    /\ UNCHANGED <<tallies, blaInput, blaOutput, acsOutput, blocks, msgs>>

\* The broadcasts that common subset settles on are those of the n-t nodes that
\* are up: there are no others.
Shares == {acsInput[i] : i \in Up}
MajorityShares == {s \in Shares : 2 * Cardinality({i \in Up : acsInput[i] = s}) > N - T}

\* With all shares the same it settles on that one.  Otherwise condition two,
\* which waits for all n agreements, settles on the share of a majority, and
\* condition three, which looks at exactly n-t, on the list of all shares, with
\* or without a majority among them.
AcsSettles ==
    /\ acsOutput = {} /\ \A i \in Up : acsInput[i] # None
    /\ acsOutput' \in {Shares} \cup {{s} : s \in MajorityShares}
    /\ UNCHANGED <<tallies, phase, blaInput, blaOutput, acsInput, blocks, msgs>>

\* A single share in the output stands for the large block of its pointer, for
\* which members look in what they received.  For several shares members send
\* their decryption shares of all small blocks.
Single == Cardinality(acsOutput) = 1
SinglePointer == (CHOOSE s \in acsOutput : TRUE).pointer

AcsReturns(i) ==
    /\ phase[i] = "acs" /\ acsOutput # {}
    /\ \/ Single /\ i \in Committee /\ Goto(i, "match") /\ UNCHANGED msgs
       \/ Single /\ i \notin Committee /\ Goto(i, "preblock") /\ UNCHANGED msgs
       \/ /\ ~Single /\ Goto(i, "decrypt")
          /\ msgs' = msgs \cup IF i \in Committee THEN {DecShares(i)} ELSE {}
    /\ UNCHANGED <<tallies, blaInput, blaOutput, acsInput, acsOutput, blocks>>

\* Mutant: a member sends its decryption shares, and not its pre-block.
KeepPreBlock(i) ==
    /\ phase[i] = "match" /\ Len(largeBlockChan[i]) >= 1
    /\ LET h == largePb[largeBlockChan[i][1]]
       IN  msgs' = msgs \cup IF h = SinglePointer THEN {DecShares(i)} ELSE {}
    /\ Goto(i, "matched")
    /\ UNCHANGED <<tallies, blaInput, blaOutput, acsInput, acsOutput, blocks>>

\* Only the first pre-block of the channel is compared with the pointer.
MatchFirst(i) ==
    /\ phase[i] = "match" /\ Len(largeBlockChan[i]) >= 1
    /\ LET h == largePb[largeBlockChan[i][1]]
       IN  msgs' = msgs \cup IF h = SinglePointer THEN {PreBlock(i, h), DecShares(i)} ELSE {}
    /\ Goto(i, "matched")
    /\ UNCHANGED <<tallies, blaInput, blaOutput, acsInput, acsOutput, blocks>>

\* The loop is left when a second one comes.
MatchReturns(i) ==
    /\ phase[i] = "matched" /\ Len(largeBlockChan[i]) >= 2
    /\ Goto(i, "preblock")
    /\ UNCHANGED <<tallies, blaInput, blaOutput, acsInput, acsOutput, blocks, msgs>>

TakePreBlock(i) ==
    /\ phase[i] = "preblock" /\ SinglePointer \in pbChan
    /\ Goto(i, "decrypt")
    /\ UNCHANGED <<tallies, blaInput, blaOutput, acsInput, acsOutput, blocks, msgs>>

\* The block of an output: pairs of who proposed a transaction and for whom.
Block(out) ==
    IF Cardinality(out) = 1 THEN UNION {s.pointer \X {All} : s \in out}
    ELSE UNION {s.have \X {s.owner} : s \in out}

\* Mutant: a node whose block agreement was successful makes the large block.
constructByBla(i) ==
    /\ phase[i] = "decrypt" /\ Enough(decChan)
    /\ blocks' = [blocks EXCEPT ![i] =
          Block(IF acsInput[i] = blaOutput THEN {blaOutput} ELSE acsOutput)]
    /\ Goto(i, "done")
    /\ UNCHANGED <<tallies, blaInput, blaOutput, acsInput, acsOutput, msgs>>

\* Enough members sent their shares.
constructBlock(i) ==
    /\ phase[i] = "decrypt" /\ Enough(decChan)
    /\ blocks' = [blocks EXCEPT ![i] = Block(acsOutput)]
    /\ Goto(i, "done")
    /\ UNCHANGED <<tallies, blaInput, blaOutput, acsInput, acsOutput, msgs>>

\* What the node does by itself, and the two protocols' returns, which it waits for.
ownSteps(i) ==
    \/ RunBla(i) \/ SkipBla(i) \/ InputOwn(i)
    \/ MatchFirst(i) \/ MatchReturns(i) \/ TakePreBlock(i) \/ constructBlock(i)

protocolReturns(i) == BlaDecides(i) \/ BlaFails(i) \/ AcsReturns(i)

runProtocol(i) == ownSteps(i) \/ protocolReturns(i)

Next == AcsSettles \/ \E i \in Up : runProtocol(i) \/ \E m \in msgs : listener(i, m)

Spec == Init /\ [][Next]_vars

\* Timers tick and messages arrive.  Block agreement and common subset may keep a
\* node waiting for ever.
FairSpec ==
    /\ Spec
    /\ \A i \in Up : WF_vars(ownSteps(i)) /\ WF_vars(\E m \in msgs : listener(i, m))

-------------------------------------------------------------------------------
(* Properties *)

\* A pointer, wherever it has come to, stands for a pre-block that enough
\* members have, just so: its block can be had.
PointersBacked ==
    \A p \in ({ptr[i] : i \in Up} \cup {s.pointer : s \in acsOutput}) \ {None} :
        Cardinality({c \in Committee \cap Up : largePb[c] = p}) >= Kappa \div 2 + 1

\* What was signed, voted for or settled on by pointer is what it was: no
\* message adds to a pre-block any more whose hash, or whose share, is out.
SignedStay ==
    /\ \A m \in msgs : m.type = "committee" => isValidCommitteeMessage(m)
    /\ \A i \in Up : \A p \in blocksReceived[i] : largePb[p[2]] = p[1]
    /\ \A s \in ({blaInput[i] : i \in Up} \cup {acsInput[i] : i \in Up} \cup acsOutput) \ {None} :
         smallPb[s.owner] = s.have

\* A block holds something of every node that is up: n-t of n.
EveryoneServed == \A i \in Up : blocks[i] # {} => \A j \in Up : \E tx \in blocks[i] : tx[1] = j

\* All nodes set the same block for the round, and only one ("Check if every
\* node has the same chain of blocks", tardigrade_test.go:137).
Out == INSTANCE AgreeOnOne WITH Node <- Up, output <- blocks, None <- {}
AgreesOnOne == Out!Spec

\* The nodes that common subset has returned to.
Returned == {i \in Up : phase[i] \notin {"propose", "bla", "own", "acs"}}

\* Whatever the two protocols do, nobody is kept from entering them for want of
\* blocks of its own or a pointer; and if common subset returns to enough members,
\* everyone it returns to gets to the end of the round.
RoundEnds ==
    \A i \in Up :
        /\ phase[i] \in {"propose", "own"} ~> phase[i] \in {"bla", "acs"}
        /\ (i \in Returned /\ Enough(Committee \cap Returned)) ~> blocks[i] # {}

\* Nothing is left to be done but by block agreement and common subset: runProtocol
\* waits at every node, and what was sent has been taken into account, or is of
\* no account any more.
Waits(i) ==
    /\ phase[i] # "propose"
    /\ phase[i] = "own" => ~(Ready(smallPb[i]) /\ ptr[i] # None)
    /\ phase[i] = "match" => largeBlockChan[i] = << >>
    /\ phase[i] = "matched" => Len(largeBlockChan[i]) < 2
    /\ phase[i] = "preblock" => SinglePointer \notin pbChan
    /\ phase[i] = "decrypt" => ~Enough(decChan)

Handled(i, m) ==
    /\ m.type = "small" => m.from \in smallPb[i]
    /\ m.type = "large" /\ i \in Committee => m.from \in largePb[i]
    /\ m.type = "pointer" => ptr[i] # None
    /\ m.type = "committee" /\ i \in Committee => m.from \in Range(largeBlockChan[i])

Quiet == \A i \in Up : Waits(i) /\ \A m \in msgs : Handled(i, m)

\* The safety of RoundEnds: when nothing is left to be done, nobody waits for blocks
\* or a pointer to put in, and everyone that common subset returned to has set its
\* block, if it returned to enough members, although a member passes on its first
\* pre-block only, and nobody echoes what another one signed.
QuietMeansBlocks ==
    Quiet =>
        /\ \A i \in Up : phase[i] # "own"
        /\ Enough(Committee \cap Returned) => \A i \in Returned : blocks[i] # {}
================================================================================
