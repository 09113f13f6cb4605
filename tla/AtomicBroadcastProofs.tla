------------------------- MODULE AtomicBroadcastProofs -------------------------
(***************************************************************************)
(* Proofs about AtomicBroadcast, for every number of nodes, of crashed     *)
(* nodes and size of the committee, and whatever timers, messages, the     *)
(* block agreement and the common subset do: pointers are backed by enough *)
(* members, what was signed or voted for stays as it is, and every node    *)
(* sets the same block, with something of everyone in it.                  *)
(*                                                                         *)
(* The argument: a pre-block is ready with n-t senders, and no more than   *)
(* n-t nodes send.  So everything that is signed, pointed to, or put into  *)
(* an agreement is complete, and what is complete does not change.         *)
(***************************************************************************)
EXTENDS AtomicBroadcast, FiniteSetTheorems, TLAPS

-------------------------------------------------------------------------------
(* The inductive invariant *)

\* Enough members have the complete pre-block.
Backed == Enough({c \in Committee \cap Up : largePb[c] = Up})

FullShare(s) ==
    /\ s.have = Up /\ s.pointer = Up
    /\ smallPb[s.owner] = Up
    /\ Backed

\* Hashes are of complete pre-blocks, and pointers are backed.
MessagesFull ==
    \A m \in msgs :
        /\ m.type \in {"committee", "pointer", "preblock"} => m.hash = Up
        /\ m.type = "committee" => largePb[m.from] = Up
        /\ m.type = "pointer" => Backed

ReceivedFull ==
    \A i \in Up : \A p \in blocksReceived[i] :
        p[1] = Up /\ p[2] \in Committee /\ largePb[p[2]] = Up

PointersFull == \A i \in Up : ptr[i] # None => ptr[i] = Up /\ Backed

SharesFull ==
    /\ \A i \in Up : blaInput[i] # None => FullShare(blaInput[i])
    /\ \A i \in Up : acsInput[i] # None => FullShare(acsInput[i])
    /\ \A s \in acsOutput : FullShare(s)

\* runProtocol is past the common subset only with an output, and only members
\* look for a block of their own.
PhasesFit ==
    \A i \in Up :
        /\ phase[i] \in {"match", "matched", "preblock", "decrypt", "done"} => acsOutput # {}
        /\ phase[i] \in {"match", "matched"} => i \in Committee

BlocksFit ==
    \A i \in Up :
        /\ blocks[i] # {} => blocks[i] = Block(acsOutput) /\ acsOutput # {}
        /\ phase[i] # "done" => blocks[i] = {}

IInv ==
    /\ TypeOK
    /\ MessagesFull /\ ReceivedFull /\ PointersFull
    /\ SharesFull
    /\ PhasesFit /\ BlocksFit

-------------------------------------------------------------------------------
(* Complete pre-blocks *)

LEMMA UpIsFinite == IsFiniteSet(Up) /\ Cardinality(Up) = N - T
BY FS_Interval, ABCConstants DEF Up

\* A ready pre-block is complete: nobody is left who could add to it.
LEMMA ReadyIsFull == \A S \in SUBSET Up : Ready(S) => S = Up
<1>1. TAKE S \in SUBSET Up
<1>2. HAVE Ready(S)
<1>3. IsFiniteSet(S) /\ Cardinality(S) <= Cardinality(Up)
      /\ (Cardinality(S) = Cardinality(Up) => S = Up)
  BY UpIsFinite, FS_Subset
<1>4. Cardinality(S) \in Nat
  BY <1>3, FS_CardinalityType
<1>. QED
  BY <1>2, <1>3, <1>4, UpIsFinite, ABCConstants DEF Ready

LEMMA EnoughGrows ==
    ASSUME NEW S \in SUBSET Up, NEW S2 \in SUBSET S, Enough(S2)
    PROVE  Enough(S)
<1>1. IsFiniteSet(S)
  BY UpIsFinite, FS_Subset
<1>2. Cardinality(S2) <= Cardinality(S) /\ IsFiniteSet(S2)
  BY <1>1, FS_Subset
<1>3. Cardinality(S) \in Nat /\ Cardinality(S2) \in Nat
  BY <1>1, <1>2, FS_CardinalityType
<1>. QED
  BY <1>2, <1>3, ABCConstants DEF Enough

\* Steps add to pre-blocks only.
LEMMA PreBlocksGrow ==
    ASSUME TypeOK, [Next]_vars
    PROVE  \A i \in Up : smallPb[i] \subseteq smallPb'[i] /\ largePb[i] \subseteq largePb'[i]
<1>1. CASE UNCHANGED vars
  BY <1>1 DEF vars
<1>2. ASSUME NEW i \in Up, NEW m \in msgs, listener(i, m)
      PROVE \A j \in Up : smallPb[j] \subseteq smallPb'[j] /\ largePb[j] \subseteq largePb'[j]
  <2>1. CASE handleSmallBlockMessage(i, m)
    BY <2>1 DEF TypeOK, handleSmallBlockMessage
  <2>2. CASE handleLargeBlockMessage(i, m)
    BY <2>2 DEF TypeOK, handleLargeBlockMessage
  <2>3. CASE handlePointerMessage(i, m)
    BY <2>3 DEF handlePointerMessage
  <2>4. CASE handleCommitteeMessage(i, m)
    BY <2>4 DEF handleCommitteeMessage
  <2>. QED
    BY <1>2, <2>1, <2>2, <2>3, <2>4 DEF listener
<1>3. ASSUME NEW i \in Up, runProtocol(i)
      PROVE UNCHANGED <<smallPb, largePb>>
  BY <1>3 DEF runProtocol, ownSteps, protocolReturns,
              RunBla, SkipBla, BlaDecides, BlaFails, InputOwn, AcsReturns,
              MatchFirst, MatchReturns, TakePreBlock, constructBlock, tallies
<1>4. AcsSettles => UNCHANGED <<smallPb, largePb>>
  BY DEF AcsSettles, tallies
<1>. QED
  BY <1>1, <1>2, <1>3, <1>4 DEF Next

LEMMA FullStays ==
    ASSUME TypeOK, TypeOK', [Next]_vars
    PROVE  /\ \A i \in Up : smallPb[i] = Up => smallPb'[i] = Up
           /\ \A i \in Up : largePb[i] = Up => largePb'[i] = Up
           /\ Backed => Backed'
<1>1. /\ \A i \in Up : smallPb[i] = Up => smallPb'[i] = Up
      /\ \A i \in Up : largePb[i] = Up => largePb'[i] = Up
  BY PreBlocksGrow DEF TypeOK
<1>2. ASSUME Backed PROVE Backed'
  <2>1. {c \in Committee \cap Up : largePb[c] = Up} \subseteq {c \in Committee \cap Up : largePb'[c] = Up}
    BY <1>1
  <2>. QED
    BY <1>2, <2>1, EnoughGrows DEF Backed
<1>. QED
  BY <1>1, <1>2

-------------------------------------------------------------------------------
(* Types *)

LEMMA NewMessages ==
    /\ \A i \in Up : Small(i) \in Message /\ Large(i) \in Message
    /\ \A i \in Committee \cap Up, h \in SUBSET Up :
         ToCommittee(i, h) \in Message /\ Pointer(i, h) \in Message /\ PreBlock(i, h) \in Message
    /\ \A i \in Committee \cap Up : DecShares(i) \in Message
BY DEF Message, BlockMessage, HashMessage, DecShareMessage, Small, Large, ToCommittee, Pointer,
       PreBlock, DecShares

LEMMA MessageTypes ==
    \A m \in Message :
        /\ m.type \in {"small", "large"} => m.from \in Up
        /\ m.type \in {"committee", "pointer", "preblock"} =>
             m.from \in Committee \cap Up /\ m.hash \in SUBSET Up
        /\ m.type = "decshares" => m.from \in Committee \cap Up
BY DEF Message, BlockMessage, HashMessage, DecShareMessage

LEMMA InitType == Init => TypeOK
<1>1. SUFFICES ASSUME Init PROVE TypeOK
  OBVIOUS
<1>2. msgs \in SUBSET Message
  BY <1>1, NewMessages DEF Init
<1>. QED
  BY <1>1, <1>2 DEF Init, TypeOK, Phases

\* What the tallies and messages of a listener become.
LEMMA ListenerType ==
    ASSUME TypeOK, NEW i \in Up, NEW m \in msgs, listener(i, m)
    PROVE  TypeOK'
<1>. USE DEF TypeOK
<1>1. m \in Message
  OBVIOUS
<1>2. CASE handleSmallBlockMessage(i, m)
  BY <1>1, <1>2, MessageTypes DEF handleSmallBlockMessage, listener
<1>3. CASE handleLargeBlockMessage(i, m)
  <2>1. largePb[i] \cup {m.from} \in SUBSET Up
    BY <1>1, <1>3, MessageTypes DEF handleLargeBlockMessage
  <2>2. largePb' \in [Up -> SUBSET Up]
    BY <1>3, <2>1 DEF handleLargeBlockMessage
  <2>3. ToCommittee(i, largePb'[i]) \in Message
    BY <1>3, <2>2, NewMessages DEF handleLargeBlockMessage
  <2>4. msgs' \in SUBSET Message
    BY <1>3, <2>3 DEF handleLargeBlockMessage
  <2>. QED
    BY <1>3, <2>2, <2>4 DEF handleLargeBlockMessage, listener
<1>4. CASE handlePointerMessage(i, m)
  <2>1. m.hash \in SUBSET Up
    BY <1>1, <1>4, MessageTypes DEF handlePointerMessage
  <2>2. i \in Committee => Pointer(i, m.hash) \in Message
    BY <2>1, NewMessages
  <2>3. msgs' \in SUBSET Message
    BY <1>4, <2>2 DEF handlePointerMessage
  <2>. QED
    BY <1>4, <2>1, <2>3 DEF handlePointerMessage, listener
<1>5. CASE handleCommitteeMessage(i, m)
  <2>1. m.hash \in SUBSET Up /\ m.from \in Up
    BY <1>1, <1>5, MessageTypes DEF handleCommitteeMessage
  <2>2. Pointer(i, m.hash) \in Message
    BY <1>5, <2>1, NewMessages DEF handleCommitteeMessage
  <2>3. msgs' \in SUBSET Message
    BY <1>5, <2>2 DEF handleCommitteeMessage
  <2>4. largeBlockChan' \in [Up -> Seq(Up)]
    <3>1. Append(largeBlockChan[i], m.from) \in Seq(Up)
      BY <2>1
    <3>. QED
      BY <1>5, <3>1 DEF handleCommitteeMessage
  <2>5. blocksReceived' \in [Up -> SUBSET ((SUBSET Up) \X Up)]
    BY <1>5, <2>1 DEF handleCommitteeMessage
  <2>6. ptr' \in [Up -> (SUBSET Up) \cup {None}]
    BY <1>5, <2>1 DEF handleCommitteeMessage
  <2>. QED
    BY <1>5, <2>3, <2>4, <2>5, <2>6 DEF handleCommitteeMessage, listener
<1>. QED
  BY <1>2, <1>3, <1>4, <1>5 DEF listener

LEMMA OwnShareType ==
    \A i \in Up : TypeOK /\ ptr[i] # None => OwnShare(i) \in BlockShare
BY DEF TypeOK, OwnShare, BlockShare

\* What common subset settles on was put into it.
LEMMA SettlesOnInputs ==
    ASSUME AcsSettles
    PROVE  \A s \in acsOutput' : \E i \in Up : acsInput[i] # None /\ s = acsInput[i]
<1>1. MajorityShares \subseteq Shares
  BY DEF MajorityShares
<1>2. acsOutput' \subseteq Shares
  BY <1>1 DEF AcsSettles
<1>. QED
  BY <1>2 DEF AcsSettles, Shares

LEMMA BlockType ==
    \A out \in SUBSET BlockShare : Block(out) \in SUBSET (Up \X (Up \cup {All}))
<1>1. TAKE out \in SUBSET BlockShare
<1>2. \A s \in out : s.pointer \in SUBSET Up /\ s.have \in SUBSET Up /\ s.owner \in Up
  BY DEF BlockShare
<1>3. \A s \in out : /\ s.pointer \X {All} \subseteq Up \X (Up \cup {All})
                     /\ s.have \X {s.owner} \subseteq Up \X (Up \cup {All})
  BY <1>2
<1>4. CASE Cardinality(out) = 1
  <2>1. Block(out) = UNION {s.pointer \X {All} : s \in out}
    BY <1>4 DEF Block
  <2>. QED
    BY <1>3, <2>1
<1>5. CASE Cardinality(out) # 1
  <2>1. Block(out) = UNION {s.have \X {s.owner} : s \in out}
    BY <1>5 DEF Block
  <2>. QED
    BY <1>3, <2>1
<1>. QED
  BY <1>4, <1>5

LEMMA ProtocolType ==
    ASSUME TypeOK, PhasesFit, NEW i \in Up, runProtocol(i)
    PROVE  TypeOK'
<1>. USE DEF TypeOK
<1>1. CASE RunBla(i)
  BY <1>1, OwnShareType DEF RunBla, Goto, Phases, tallies
<1>2. CASE SkipBla(i)
  BY <1>2 DEF SkipBla, Goto, Phases, tallies
<1>3. CASE BlaDecides(i)
  <2>1. PICK s \in {blaInput[j] : j \in Up} \ {None} :
            blaOutput' = s /\ acsInput' = [acsInput EXCEPT ![i] = s]
    BY <1>3 DEF BlaDecides
  <2>2. s \in BlockShare
    BY <2>1
  <2>. QED
    BY <1>3, <2>1, <2>2 DEF BlaDecides, Goto, Phases, tallies
<1>4. CASE BlaFails(i)
  BY <1>4 DEF BlaFails, Goto, Phases, tallies
<1>5. CASE InputOwn(i)
  BY <1>5, OwnShareType DEF InputOwn, Goto, Phases, tallies
<1>6. CASE AcsReturns(i)
  <2>1. msgs' \in SUBSET Message
    BY <1>6, NewMessages DEF AcsReturns
  <2>2. phase' \in [Up -> Phases]
    BY <1>6 DEF AcsReturns, Goto, Phases
  <2>. QED
    BY <1>6, <2>1, <2>2 DEF AcsReturns, tallies
<1>7. CASE MatchFirst(i)
  <2>1. largeBlockChan[i][1] \in Up
    BY <1>7 DEF MatchFirst
  <2>2. i \in Committee /\ largePb[largeBlockChan[i][1]] \in SUBSET Up
    BY <1>7, <2>1 DEF MatchFirst, PhasesFit
  <2>3. msgs' \in SUBSET Message
    BY <1>7, <2>2, NewMessages DEF MatchFirst
  <2>. QED
    BY <1>7, <2>3 DEF MatchFirst, Goto, Phases, tallies
<1>8. CASE MatchReturns(i)
  BY <1>8 DEF MatchReturns, Goto, Phases, tallies
<1>9. CASE TakePreBlock(i)
  BY <1>9 DEF TakePreBlock, Goto, Phases, tallies
<1>10. CASE constructBlock(i)
  BY <1>10, BlockType DEF constructBlock, Goto, Phases, tallies
<1>. QED
  BY <1>1, <1>2, <1>3, <1>4, <1>5, <1>6, <1>7, <1>8, <1>9, <1>10 DEF runProtocol, ownSteps, protocolReturns

LEMMA StepType == TypeOK /\ PhasesFit /\ [Next]_vars => TypeOK'
<1>1. SUFFICES ASSUME TypeOK, PhasesFit, [Next]_vars PROVE TypeOK'
  OBVIOUS
<1>2. CASE UNCHANGED vars
  BY <1>1, <1>2 DEF TypeOK, vars
<1>3. CASE AcsSettles
  <2>1. acsOutput' \in SUBSET BlockShare
    BY <1>1, <1>3, SettlesOnInputs DEF TypeOK
  <2>. QED
    BY <1>1, <1>3, <2>1 DEF TypeOK, AcsSettles, tallies
<1>. QED
  BY <1>1, <1>2, <1>3, ListenerType, ProtocolType DEF Next

-------------------------------------------------------------------------------
(* Messages and tallies *)

LEMMA StepMessages ==
    ASSUME IInv, TypeOK', [Next]_vars
    PROVE  MessagesFull'
<1>. USE DEF IInv, MessagesFull
<1>1. SUFFICES ASSUME NEW n \in msgs', n \notin msgs
              PROVE  /\ n.type \in {"committee", "pointer", "preblock"} => n.hash = Up
                     /\ n.type = "committee" => largePb'[n.from] = Up
                     /\ n.type = "pointer" => Backed'
  <2>1. \A m \in msgs : m.type = "committee" => m.from \in Up
    BY MessageTypes DEF TypeOK
  <2>. QED
    BY <2>1, FullStays
<1>2. \E i \in Up : runProtocol(i) \/ \E m \in msgs : listener(i, m)
  BY <1>1 DEF Next, vars, AcsSettles
<1>3. ASSUME NEW i \in Up, NEW m \in msgs, listener(i, m)
      PROVE  /\ n.type \in {"committee", "pointer", "preblock"} => n.hash = Up
             /\ n.type = "committee" => largePb'[n.from] = Up
             /\ n.type = "pointer" => Backed'
  <2>1. CASE handleSmallBlockMessage(i, m)
    BY <1>1, <2>1 DEF handleSmallBlockMessage
  <2>2. CASE handleLargeBlockMessage(i, m)
    <3>1. n = ToCommittee(i, largePb'[i]) /\ Ready(largePb[i] \cup {m.from})
      BY <1>1, <2>2 DEF handleLargeBlockMessage, JustReady
    <3>2. largePb'[i] = largePb[i] \cup {m.from} /\ largePb'[i] \in SUBSET Up
      BY <2>2 DEF handleLargeBlockMessage, TypeOK
    <3>3. largePb'[i] = Up
      BY <3>1, <3>2, ReadyIsFull
    <3>. QED
      BY <3>1, <3>3 DEF ToCommittee
  <2>3. CASE handlePointerMessage(i, m)
    <3>1. n = Pointer(i, m.hash) /\ m.hash = Up /\ Backed
      BY <1>1, <2>3 DEF handlePointerMessage
    <3>. QED
      BY <3>1, FullStays DEF Pointer
  <2>4. CASE handleCommitteeMessage(i, m)
    <3>1. n = Pointer(i, m.hash) /\ m.hash = Up /\ m.from \in Committee \cap Up
      BY <1>1, <2>4, MessageTypes DEF handleCommitteeMessage, TypeOK
    <3>2. Backed
      <4>1. Enough({c \in Up : <<m.hash, c>> \in blocksReceived[i] \cup {<<m.hash, m.from>>}})
        BY <1>1, <2>4 DEF handleCommitteeMessage
      <4>2. {c \in Up : <<m.hash, c>> \in blocksReceived[i] \cup {<<m.hash, m.from>>}}
              \subseteq {c \in Committee \cap Up : largePb[c] = Up}
        BY <2>4, <3>1 DEF ReceivedFull, handleCommitteeMessage
      <4>. QED
        BY <4>1, <4>2, EnoughGrows DEF Backed
    <3>. QED
      BY <3>1, <3>2, FullStays DEF Pointer
  <2>. QED
    BY <1>3, <2>1, <2>2, <2>3, <2>4 DEF listener
<1>4. ASSUME NEW i \in Up, runProtocol(i)
      PROVE  n.type \in {"decshares", "preblock"} /\ (n.type = "preblock" => n.hash = Up)
  <2>1. CASE AcsReturns(i)
    BY <1>1, <2>1 DEF AcsReturns, DecShares
  <2>2. CASE MatchFirst(i)
    <3>1. acsOutput # {}
      BY <2>2 DEF MatchFirst, PhasesFit
    <3>2. SinglePointer = Up
      BY <3>1 DEF SinglePointer, SharesFull, FullShare
    <3>. QED
      BY <1>1, <2>2, <3>2 DEF MatchFirst, PreBlock, DecShares
  <2>. QED
    BY <1>1, <1>4, <2>1, <2>2 DEF runProtocol, ownSteps, protocolReturns,
                                  RunBla, SkipBla, BlaDecides, BlaFails, InputOwn,
        MatchReturns, TakePreBlock, constructBlock
<1>. QED
  BY <1>2, <1>3, <1>4

LEMMA StepReceived ==
    ASSUME IInv, TypeOK', [Next]_vars
    PROVE  ReceivedFull'
<1>. USE DEF IInv, ReceivedFull
<1>1. CASE UNCHANGED blocksReceived
  BY <1>1, FullStays DEF TypeOK
<1>2. ASSUME NEW i \in Up, NEW m \in msgs, handleCommitteeMessage(i, m)
      PROVE  ReceivedFull'
  <2>1. m.hash = Up /\ largePb[m.from] = Up /\ m.from \in Committee \cap Up
    BY <1>2, MessageTypes DEF handleCommitteeMessage, MessagesFull, TypeOK
  <2>2. \A j \in Up : blocksReceived'[j] \subseteq blocksReceived[j] \cup {<<m.hash, m.from>>}
    BY <1>2 DEF handleCommitteeMessage, TypeOK
  <2>3. ASSUME NEW j \in Up, NEW p \in blocksReceived'[j]
        PROVE  p[1] = Up /\ p[2] \in Committee \cap Up /\ largePb[p[2]] = Up
    <3>1. CASE p = <<m.hash, m.from>>
      BY <2>1, <3>1
    <3>2. CASE p \in blocksReceived[j]
      BY <3>2 DEF TypeOK
    <3>. QED
      BY <2>2, <2>3, <3>1, <3>2
  <2>. QED
    BY <2>3, FullStays
<1>3. ASSUME NEW i \in Up, runProtocol(i) PROVE UNCHANGED blocksReceived
  BY <1>3 DEF runProtocol, ownSteps, protocolReturns,
              RunBla, SkipBla, BlaDecides, BlaFails, InputOwn, AcsReturns,
              MatchFirst, MatchReturns, TakePreBlock, constructBlock, tallies
<1>. QED
  BY <1>1, <1>2, <1>3 DEF Next, vars, AcsSettles, tallies, listener, handleSmallBlockMessage,
     handleLargeBlockMessage, handlePointerMessage

LEMMA StepPointers ==
    ASSUME IInv, TypeOK', MessagesFull', [Next]_vars
    PROVE  PointersFull'
<1>. USE DEF IInv, PointersFull
<1>1. CASE UNCHANGED ptr
  BY <1>1, FullStays
<1>2. ASSUME NEW i \in Up, NEW m \in msgs,
             handlePointerMessage(i, m) \/ handleCommitteeMessage(i, m)
      PROVE  PointersFull'
  <2>1. CASE handlePointerMessage(i, m)
    <3>1. m.hash = Up /\ Backed
      BY <2>1 DEF handlePointerMessage, MessagesFull
    <3>. QED
      BY <2>1, <3>1, FullStays DEF handlePointerMessage, TypeOK
  <2>2. CASE handleCommitteeMessage(i, m)
    <3>1. CASE UNCHANGED ptr
      BY <1>1, <3>1
    <3>2. CASE ptr' = [ptr EXCEPT ![i] = m.hash] /\ Pointer(i, m.hash) \in msgs'
      <4>1. m.hash = Up /\ Backed'
        BY <2>2, <3>2 DEF handleCommitteeMessage, MessagesFull, Pointer
      <4>. QED
        BY <3>2, <4>1 DEF TypeOK
    <3>. QED
      BY <2>2, <3>1, <3>2 DEF handleCommitteeMessage, TypeOK
  <2>. QED
    BY <1>2, <2>1, <2>2
<1>3. ASSUME NEW i \in Up, runProtocol(i) PROVE UNCHANGED ptr
  BY <1>3 DEF runProtocol, ownSteps, protocolReturns,
              RunBla, SkipBla, BlaDecides, BlaFails, InputOwn, AcsReturns,
              MatchFirst, MatchReturns, TakePreBlock, constructBlock, tallies
<1>. QED
  BY <1>1, <1>2, <1>3 DEF Next, vars, AcsSettles, tallies, listener, handleSmallBlockMessage,
     handleLargeBlockMessage

-------------------------------------------------------------------------------
(* runProtocol *)

LEMMA OwnShareFull ==
    ASSUME IInv, NEW i \in Up, Ready(smallPb[i]), ptr[i] # None
    PROVE  FullShare(OwnShare(i))
<1>1. smallPb[i] = Up
  BY ReadyIsFull DEF IInv, TypeOK
<1>2. ptr[i] = Up /\ Backed
  BY DEF IInv, PointersFull
<1>. QED
  BY <1>1, <1>2 DEF FullShare, OwnShare

LEMMA StepShares ==
    ASSUME IInv, TypeOK', [Next]_vars
    PROVE  SharesFull'
<1>. USE DEF IInv, SharesFull
<1>1. \A s \in BlockShare : FullShare(s) => FullShare(s)'
  BY FullStays DEF FullShare, BlockShare
<1>3. CASE UNCHANGED <<blaInput, acsInput, acsOutput>>
  BY <1>1, <1>3 DEF TypeOK
<1>4. CASE AcsSettles
  BY <1>1, <1>4, SettlesOnInputs DEF AcsSettles, TypeOK
<1>5. ASSUME NEW i \in Up, RunBla(i) PROVE SharesFull'
  <2>1. PICK s \in BlockShare : FullShare(s) /\ blaInput' = [blaInput EXCEPT ![i] = s]
    BY <1>5, OwnShareFull, OwnShareType DEF RunBla
  <2>. QED
    BY <1>1, <1>5, <2>1 DEF RunBla, TypeOK
<1>6. ASSUME NEW i \in Up, BlaDecides(i) PROVE SharesFull'
  <2>1. PICK s \in {blaInput[j] : j \in Up} \ {None} : acsInput' = [acsInput EXCEPT ![i] = s]
    BY <1>6 DEF BlaDecides
  <2>2. FullShare(s) /\ s \in BlockShare
    BY <2>1 DEF TypeOK
  <2>. QED
    BY <1>1, <1>6, <2>1, <2>2 DEF BlaDecides, TypeOK
<1>7. ASSUME NEW i \in Up, InputOwn(i) PROVE SharesFull'
  <2>1. PICK s \in BlockShare : FullShare(s) /\ acsInput' = [acsInput EXCEPT ![i] = s]
    BY <1>7, OwnShareFull, OwnShareType DEF InputOwn
  <2>. QED
    BY <1>1, <1>7, <2>1 DEF InputOwn, TypeOK
<1>. QED
  BY <1>3, <1>4, <1>5, <1>6, <1>7 DEF Next, vars, listener, runProtocol, ownSteps, protocolReturns,
                                                            SkipBla, BlaFails,
     AcsReturns, MatchFirst, MatchReturns, TakePreBlock, constructBlock

LEMMA StepPhases ==
    ASSUME IInv, TypeOK', [Next]_vars
    PROVE  PhasesFit'
<1>. USE DEF IInv, PhasesFit
<1>1. acsOutput # {} => acsOutput' = acsOutput
  BY DEF Next, vars, listener, runProtocol, ownSteps, protocolReturns,
                               RunBla, SkipBla, BlaDecides, BlaFails, InputOwn,
     AcsReturns, MatchFirst, MatchReturns, TakePreBlock, constructBlock, AcsSettles
<1>2. CASE UNCHANGED phase
  BY <1>1, <1>2
<1>3. ASSUME NEW i \in Up, runProtocol(i)
      PROVE  \A j \in Up :
        /\ phase'[j] \in {"match", "matched", "preblock", "decrypt", "done"} =>
             acsOutput # {} \/ phase'[j] = phase[j]
        /\ phase'[j] \in {"match", "matched"} => j \in Committee
  <2>1. CASE RunBla(i)
    BY <2>1 DEF RunBla, Goto, TypeOK
  <2>2. CASE SkipBla(i)
    BY <2>2 DEF SkipBla, Goto, TypeOK
  <2>3. CASE BlaDecides(i)
    BY <2>3 DEF BlaDecides, Goto, TypeOK
  <2>4. CASE BlaFails(i)
    BY <2>4 DEF BlaFails, Goto, TypeOK
  <2>5. CASE InputOwn(i)
    BY <2>5 DEF InputOwn, Goto, TypeOK
  <2>6. CASE AcsReturns(i)
    BY <2>6 DEF AcsReturns, Goto, TypeOK
  <2>7. CASE MatchFirst(i)
    BY <2>7 DEF MatchFirst, Goto, TypeOK
  <2>8. CASE MatchReturns(i)
    BY <2>8 DEF MatchReturns, Goto, TypeOK
  <2>9. CASE TakePreBlock(i)
    BY <2>9 DEF TakePreBlock, Goto, TypeOK
  <2>10. CASE constructBlock(i)
    BY <2>10 DEF constructBlock, Goto, TypeOK
  <2>. QED
    BY <1>3, <2>1, <2>2, <2>3, <2>4, <2>5, <2>6, <2>7, <2>8, <2>9, <2>10 DEF runProtocol, ownSteps, protocolReturns
<1>. QED
  BY <1>1, <1>2, <1>3 DEF Next, vars, listener, AcsSettles

LEMMA StepBlocks ==
    ASSUME IInv, TypeOK', [Next]_vars
    PROVE  BlocksFit'
<1>. USE DEF IInv, BlocksFit
<1>1. acsOutput # {} => acsOutput' = acsOutput
  BY DEF Next, vars, listener, runProtocol, ownSteps, protocolReturns,
                               RunBla, SkipBla, BlaDecides, BlaFails, InputOwn,
     AcsReturns, MatchFirst, MatchReturns, TakePreBlock, constructBlock, AcsSettles
<1>2. acsOutput' = acsOutput => Block(acsOutput)' = Block(acsOutput)
  BY DEF Block
<1>3. ASSUME NEW i \in Up, constructBlock(i) PROVE BlocksFit'
  <2>1. acsOutput # {} /\ acsOutput' = acsOutput
    BY <1>3 DEF constructBlock, PhasesFit
  <2>2. /\ blocks' = [blocks EXCEPT ![i] = Block(acsOutput)]
        /\ phase' = [phase EXCEPT ![i] = "done"]
    BY <1>3 DEF constructBlock, Goto
  <2>. QED
    BY <1>2, <2>1, <2>2 DEF TypeOK
<1>4. CASE UNCHANGED blocks /\ \A j \in Up : phase[j] = "done" => phase'[j] = "done"
  BY <1>1, <1>2, <1>4
<1>5. ASSUME NEW i \in Up, runProtocol(i), ~constructBlock(i)
      PROVE  UNCHANGED blocks /\ \A j \in Up : phase[j] = "done" => phase'[j] = "done"
  <2>1. UNCHANGED blocks
    BY <1>5 DEF runProtocol, ownSteps, protocolReturns,
                RunBla, SkipBla, BlaDecides, BlaFails, InputOwn, AcsReturns,
              MatchFirst, MatchReturns, TakePreBlock
  <2>2. phase[i] # "done" /\ \E q : phase' = [phase EXCEPT ![i] = q]
    BY <1>5 DEF runProtocol, ownSteps, protocolReturns,
                RunBla, SkipBla, BlaDecides, BlaFails, InputOwn, AcsReturns,
              MatchFirst, MatchReturns, TakePreBlock, Goto
  <2>. QED
    BY <2>1, <2>2 DEF TypeOK
<1>. QED
  BY <1>3, <1>4, <1>5 DEF Next, vars, listener, AcsSettles

-------------------------------------------------------------------------------
(* Invariants *)

LEMMA InitIInv == Init => IInv
<1>1. SUFFICES ASSUME Init PROVE IInv
  OBVIOUS
<1>2. MessagesFull
  BY <1>1 DEF Init, MessagesFull, Small, Large
<1>. QED
  BY <1>1, <1>2, InitType
     DEF IInv, Init, ReceivedFull, PointersFull, SharesFull, PhasesFit, BlocksFit

\* What makes up the argument holds throughout.
THEOREM Invariance == Spec => []IInv
<1>1. IInv /\ [Next]_vars => IInv'
  <2>1. SUFFICES ASSUME IInv, [Next]_vars PROVE IInv'
    OBVIOUS
  <2>2. TypeOK'
    BY <2>1, StepType DEF IInv
  <2>3. MessagesFull'
    BY <2>1, <2>2, StepMessages
  <2>. QED
    BY <2>1, <2>2, <2>3, StepReceived, StepPointers, StepShares, StepPhases, StepBlocks DEF IInv
<1>. QED
  BY <1>1, InitIInv, PTL DEF Spec

\* The variables have their types in every state.
THEOREM TypeCorrect == Spec => []TypeOK
BY Invariance, PTL DEF IInv

\* A pointer stands for a pre-block that enough members of the committee have.
THEOREM PointersAreBacked == Spec => []PointersBacked
<1>1. ASSUME IInv PROVE PointersBacked
  <2>1. ASSUME NEW p \in ({ptr[i] : i \in Up} \cup {s.pointer : s \in acsOutput}) \ {None}
        PROVE  p = Up /\ Backed
    BY <1>1, <2>1 DEF IInv, PointersFull, SharesFull, FullShare
  <2>. QED
    BY <2>1 DEF PointersBacked, Backed, Enough
<1>. QED
  BY <1>1, Invariance, PTL

\* No message adds to a pre-block whose hash, or whose share, is out.
THEOREM WhatIsSignedStays == Spec => []SignedStay
<1>1. ASSUME IInv PROVE SignedStay
  <2>1. \A m \in msgs : m.type = "committee" => isValidCommitteeMessage(m)
    BY <1>1 DEF IInv, MessagesFull, isValidCommitteeMessage
  <2>2. \A i \in Up : \A p \in blocksReceived[i] : largePb[p[2]] = p[1]
    BY <1>1 DEF IInv, ReceivedFull
  <2>3. \A s \in ({blaInput[i] : i \in Up} \cup {acsInput[i] : i \in Up} \cup acsOutput) \ {None} :
          smallPb[s.owner] = s.have
    BY <1>1 DEF IInv, SharesFull, FullShare
  <2>. QED
    BY <2>1, <2>2, <2>3 DEF SignedStay
<1>. QED
  BY <1>1, Invariance, PTL

\* A block that is set holds something of every node that is up.
THEOREM AllAreServed == Spec => []EveryoneServed
<1>1. ASSUME IInv, NEW i \in Up, blocks[i] # {}, NEW j \in Up
      PROVE  \E tx \in blocks[i] : tx[1] = j
  <2>1. blocks[i] = Block(acsOutput) /\ acsOutput # {}
    BY <1>1 DEF IInv, BlocksFit
  <2>2. PICK s \in acsOutput : s.have = Up /\ s.pointer = Up
    BY <1>1, <2>1 DEF IInv, SharesFull, FullShare
  <2>3. CASE Cardinality(acsOutput) = 1
    <3>1. <<j, All>> \in s.pointer \X {All}
      BY <2>2
    <3>2. <<j, All>> \in blocks[i]
      BY <2>1, <2>3, <3>1 DEF Block
    <3>. QED
      BY <3>2
  <2>4. CASE Cardinality(acsOutput) # 1
    <3>1. <<j, s.owner>> \in s.have \X {s.owner}
      BY <2>2
    <3>2. <<j, s.owner>> \in blocks[i]
      BY <2>1, <2>4, <3>1 DEF Block
    <3>. QED
      BY <3>2
  <2>. QED
    BY <2>3, <2>4
<1>2. IInv => EveryoneServed
  BY <1>1 DEF EveryoneServed
<1>. QED
  BY <1>2, Invariance, PTL

-------------------------------------------------------------------------------
\* All nodes set the same block, and each only one: the blocks implement the
\* abstract agreement.
THEOREM BlocksAgree == Spec => AgreesOnOne
<1>1. Init => Out!Init
  BY DEF Init, Out!Init
<1>2. ASSUME IInv, IInv', [Next]_vars PROVE [Out!Next]_blocks
  <2>1. ASSUME NEW i \in Up, constructBlock(i) PROVE [Out!Next]_blocks
    <3>. DEFINE b == Block(acsOutput)
    <3>1. blocks' = [blocks EXCEPT ![i] = b] /\ blocks[i] = {}
      BY <1>2, <2>1 DEF constructBlock, IInv, BlocksFit
    <3>2. \A j \in Up : blocks[j] \in {{}, b}
      BY <1>2 DEF IInv, BlocksFit
    <3>3. blocks'[i] = b
      BY <1>2, <3>1 DEF IInv, TypeOK
    <3>. HIDE DEF b
    <3>4. CASE b = {}
      BY <1>2, <3>1, <3>4 DEF IInv, TypeOK
    <3>5. CASE b # {}
      <4>1. Out!Decide(i, blocks'[i])
        BY <3>1, <3>2, <3>3, <3>5 DEF Out!Decide
      <4>. QED
        BY <4>1 DEF Out!Next
    <3>. QED
      BY <3>4, <3>5
  <2>2. ASSUME NEW i \in Up, runProtocol(i), ~constructBlock(i) PROVE UNCHANGED blocks
    BY <2>2 DEF runProtocol, ownSteps, protocolReturns,
                RunBla, SkipBla, BlaDecides, BlaFails, InputOwn, AcsReturns,
              MatchFirst, MatchReturns, TakePreBlock
  <2>. QED
    BY <1>2, <2>1, <2>2 DEF Next, vars, listener, AcsSettles
<1>. QED
  BY <1>1, <1>2, Invariance, PTL DEF Spec, AgreesOnOne, Out!Spec

-------------------------------------------------------------------------------
(* When nothing is left to be done *)

\* What everyone owes the others has been sent: its transactions, a signature for
\* the complete pre-block, and after the common subset the members' shares and,
\* for a large block, the pre-block.
Told ==
    /\ \A j \in Up : Small(j) \in msgs /\ Large(j) \in msgs
    /\ \A c \in Committee \cap Up : largePb[c] = Up => ToCommittee(c, Up) \in msgs
    /\ \A c \in Committee \cap Up : phase[c] \in {"matched", "preblock", "decrypt", "done"} =>
         DecShares(c) \in msgs /\ (Single => PreBlock(c, Up) \in msgs)

\* A member has a valid signature of everyone in its channel, and a pointer once
\* these are enough, which it has passed on.
Taken ==
    \A i \in Committee \cap Up :
        /\ \A c \in Range(largeBlockChan[i]) : <<Up, c>> \in blocksReceived[i]
        /\ Enough({c \in Up : <<Up, c>> \in blocksReceived[i]}) => Pointer(i, Up) \in msgs

\* Nobody is further than its input and the common subset let it.
Entered ==
    \A i \in Up :
        /\ phase[i] \in {"acs", "match", "matched", "preblock", "decrypt", "done"} => acsInput[i] # None
        /\ phase[i] \in {"match", "matched", "preblock"} => Single
        /\ phase[i] = "done" => blocks[i] # {}

QInv == Told /\ Taken /\ Entered

LEMMA UpNotEmpty == 0 \in Up /\ ~Ready({})
<1>1. 0 \in Up /\ N - T > 0
  BY ABCConstants DEF Up
<1>2. Cardinality({}) = 0
  BY FS_EmptySet
<1>. QED
  BY <1>1, <1>2, ABCConstants DEF Ready

LEMMA NotEnough == ~Enough({})
<1>1. Cardinality({}) = 0
  BY FS_EmptySet
<1>. QED
  BY <1>1, ABCConstants DEF Enough

LEMMA FullIsReady == Ready(Up)
BY UpIsFinite, ABCConstants DEF Ready

\* A pointer that the common subset settled on is the complete pre-block, and a
\* block has something in it.
LEMMA SettledIsFull ==
    ASSUME IInv, acsOutput # {}
    PROVE  SinglePointer = Up /\ Block(acsOutput) # {}
<1>1. \A s \in acsOutput : s.have = Up /\ s.pointer = Up
  BY DEF IInv, SharesFull, FullShare
<1>2. SinglePointer = Up
  BY <1>1 DEF SinglePointer
<1>3. PICK s \in acsOutput : TRUE
  OBVIOUS
<1>4. <<0, All>> \in s.pointer \X {All} /\ <<0, s.owner>> \in s.have \X {s.owner}
  BY <1>1, <1>3, UpNotEmpty
<1>5. Block(acsOutput) # {}
  <2>1. CASE Cardinality(acsOutput) = 1
    BY <1>3, <1>4, <2>1 DEF Block
  <2>2. CASE Cardinality(acsOutput) # 1
    BY <1>3, <1>4, <2>2 DEF Block
  <2>. QED
    BY <2>1, <2>2
<1>. QED
  BY <1>2, <1>5

LEMMA RangeOfAppend ==
    ASSUME NEW S, NEW s \in Seq(S), NEW e \in S
    PROVE  Range(Append(s, e)) = Range(s) \cup {e}
<1>1. /\ Append(s, e) \in Seq(S) /\ Len(Append(s, e)) = Len(s) + 1 /\ Len(s) \in Nat
      /\ \A k \in 1 .. Len(s) : Append(s, e)[k] = s[k]
      /\ Append(s, e)[Len(s) + 1] = e
      /\ DOMAIN s = 1 .. Len(s) /\ DOMAIN Append(s, e) = 1 .. (Len(s) + 1)
  OBVIOUS
<1>. DEFINE t == Append(s, e)
<1>. HIDE DEF t
<1>2. Range(t) \subseteq Range(s) \cup {e}
  BY <1>1 DEF Range, t
<1>3. Range(s) \cup {e} \subseteq Range(t)
  BY <1>1 DEF Range, t
<1>. QED
  BY <1>2, <1>3 DEF t

\* Two different owners are two pre-blocks in the channel.
LEMMA TwoInRange ==
    ASSUME NEW S, NEW s \in Seq(S), NEW a \in Range(s), NEW b \in Range(s), a # b
    PROVE  Len(s) >= 2
<1>1. PICK k, l \in 1 .. Len(s) : s[k] = a /\ s[l] = b
  BY DEF Range
<1>. QED
  BY <1>1

LEMMA InitQInv == Init => QInv
<1>1. SUFFICES ASSUME Init PROVE QInv
  OBVIOUS
<1>2. Told
  BY <1>1, UpNotEmpty DEF Init, Told
<1>3. Taken
  <2>1. ASSUME NEW i \in Up
        PROVE  Range(largeBlockChan[i]) = {} /\ {c \in Up : <<Up, c>> \in blocksReceived[i]} = {}
    BY <1>1, <2>1 DEF Init, Range
  <2>. QED
    BY <2>1, NotEnough DEF Taken
<1>4. Entered
  BY <1>1 DEF Init, Entered
<1>. QED
  BY <1>2, <1>3, <1>4 DEF QInv

LEMMA SentStays == [Next]_vars => msgs \subseteq msgs'
<1>1. ASSUME NEW i \in Up, NEW m \in msgs, listener(i, m) PROVE msgs \subseteq msgs'
  BY <1>1 DEF listener, handleSmallBlockMessage, handleLargeBlockMessage, handlePointerMessage,
              handleCommitteeMessage
<1>2. ASSUME NEW i \in Up, runProtocol(i) PROVE msgs \subseteq msgs'
  BY <1>2 DEF runProtocol, ownSteps, protocolReturns,
              RunBla, SkipBla, BlaDecides, BlaFails, InputOwn, AcsReturns,
              MatchFirst, MatchReturns, TakePreBlock, constructBlock
<1>. QED
  BY <1>1, <1>2 DEF Next, vars, AcsSettles

LEMMA OutputStays == [Next]_vars /\ acsOutput # {} => acsOutput' = acsOutput
BY DEF Next, vars, listener, runProtocol, ownSteps, protocolReturns,
                             RunBla, SkipBla, BlaDecides, BlaFails, InputOwn,
   AcsReturns, MatchFirst, MatchReturns, TakePreBlock, constructBlock, AcsSettles

\* Whoever completes its pre-block signs it.
LEMMA StepSigned ==
    ASSUME IInv, QInv, [Next]_vars, NEW c \in Committee \cap Up, largePb'[c] = Up
    PROVE  ToCommittee(c, Up) \in msgs'
<1>1. SUFFICES ASSUME largePb[c] # Up PROVE ToCommittee(c, Up) \in msgs'
  BY SentStays DEF QInv, Told
<1>2. ASSUME NEW i \in Up, runProtocol(i) PROVE UNCHANGED largePb
  BY <1>2 DEF runProtocol, ownSteps, protocolReturns,
              RunBla, SkipBla, BlaDecides, BlaFails, InputOwn, AcsReturns,
              MatchFirst, MatchReturns, TakePreBlock, constructBlock, tallies
<1>3. PICK i \in Up, m \in msgs : listener(i, m) /\ largePb' # largePb
  BY <1>1, <1>2 DEF Next, vars, AcsSettles, tallies
<1>4. handleLargeBlockMessage(i, m)
  BY <1>3 DEF listener, handleSmallBlockMessage, handlePointerMessage, handleCommitteeMessage
<1>5. i = c /\ largePb'[c] = largePb[c] \cup {m.from} /\ largePb[c] \in SUBSET Up
  BY <1>1, <1>4 DEF handleLargeBlockMessage, IInv, TypeOK
<1>6. JustReady(largePb[c], m.from)
  BY <1>1, <1>5, ReadyIsFull, FullIsReady DEF JustReady
<1>. QED
  BY <1>4, <1>5, <1>6 DEF handleLargeBlockMessage

LEMMA StepTaken == ASSUME IInv, QInv, [Next]_vars PROVE Taken'
<1>. USE DEF QInv, Taken
<1>1. CASE UNCHANGED <<largeBlockChan, blocksReceived>>
  BY <1>1, SentStays
<1>2. ASSUME NEW i \in Up, NEW m \in msgs, handleCommitteeMessage(i, m)
      PROVE  Taken'
  <2>1. /\ m.hash = Up /\ isValidCommitteeMessage(m) /\ m.from \in Up /\ i \in Committee
    BY <1>2, MessageTypes DEF handleCommitteeMessage, isValidCommitteeMessage, IInv, MessagesFull, TypeOK
  <2>2. /\ largeBlockChan' = [largeBlockChan EXCEPT ![i] = Append(@, m.from)]
        /\ blocksReceived' = [blocksReceived EXCEPT ![i] = @ \cup {<<Up, m.from>>}]
        /\ Enough({c \in Up : <<Up, c>> \in blocksReceived[i] \cup {<<Up, m.from>>}}) =>
             Pointer(i, Up) \in msgs'
    BY <1>2, <2>1 DEF handleCommitteeMessage
  <2>3. Range(largeBlockChan'[i]) = Range(largeBlockChan[i]) \cup {m.from}
    BY <2>1, <2>2, RangeOfAppend DEF IInv, TypeOK
  <2>4. blocksReceived'[i] = blocksReceived[i] \cup {<<Up, m.from>>}
    BY <2>2 DEF IInv, TypeOK
  <2>5. \A j \in Committee \cap Up : j # i =>
          UNCHANGED <<largeBlockChan[j], blocksReceived[j]>>
    BY <2>2 DEF IInv, TypeOK
  <2>6. TAKE j \in Committee \cap Up
  <2>7. CASE j = i
    BY <2>2, <2>3, <2>4, <2>7
  <2>8. CASE j # i
    BY <2>5, <2>8, SentStays
  <2>. QED
    BY <2>7, <2>8
<1>3. ASSUME NEW i \in Up, runProtocol(i) PROVE UNCHANGED <<largeBlockChan, blocksReceived>>
  BY <1>3 DEF runProtocol, ownSteps, protocolReturns,
              RunBla, SkipBla, BlaDecides, BlaFails, InputOwn, AcsReturns,
              MatchFirst, MatchReturns, TakePreBlock, constructBlock, tallies
<1>. QED
  BY <1>1, <1>2, <1>3 DEF Next, vars, AcsSettles, tallies, listener, handleSmallBlockMessage,
     handleLargeBlockMessage, handlePointerMessage

\* What is claimed of a node that moves on to another place.
Placed(i) ==
    /\ i \in Committee /\ phase[i] \in {"matched", "preblock", "decrypt", "done"} =>
         DecShares(i) \in msgs /\ (Single => PreBlock(i, Up) \in msgs)
    /\ phase[i] \in {"acs", "match", "matched", "preblock", "decrypt", "done"} => acsInput[i] # None
    /\ phase[i] \in {"match", "matched", "preblock"} => Single
    /\ phase[i] = "done" => blocks[i] # {}

LEMMA StaysPlaced ==
    ASSUME IInv, QInv, [Next]_vars, NEW i \in Up, UNCHANGED <<phase[i], blocks[i], acsInput[i]>>
    PROVE  Placed(i)'
<1>1. phase[i] \in {"match", "matched", "preblock", "decrypt", "done"} => acsOutput' = acsOutput
  BY OutputStays DEF IInv, PhasesFit
<1>. QED
  BY <1>1, SentStays DEF Placed, QInv, Told, Entered, Single

LEMMA MovesPlaced ==
    ASSUME IInv, QInv, NEW i \in Up, runProtocol(i)
    PROVE  /\ Placed(i)'
           /\ \A j \in Up : j # i => UNCHANGED <<phase[j], blocks[j], acsInput[j]>>
<1>. USE DEF IInv, TypeOK, QInv, Told, Entered, Placed
<1>1. CASE RunBla(i)
  BY <1>1 DEF RunBla, Goto
<1>2. CASE SkipBla(i)
  BY <1>2 DEF SkipBla, Goto
<1>3. CASE BlaDecides(i)
  BY <1>3 DEF BlaDecides, Goto
<1>4. CASE BlaFails(i)
  BY <1>4 DEF BlaFails, Goto
<1>5. CASE InputOwn(i)
  <2>1. OwnShare(i) # None
    BY <1>5, OwnShareType, ABCNil DEF InputOwn
  <2>. QED
    BY <1>5, <2>1 DEF InputOwn, Goto
<1>6. CASE AcsReturns(i)
  BY <1>6 DEF AcsReturns, Goto, Single
<1>7. CASE MatchFirst(i)
  <2>1. i \in Committee /\ acsOutput # {} /\ SinglePointer = Up
    BY <1>7, SettledIsFull DEF MatchFirst, PhasesFit
  <2>2. largeBlockChan[i][1] \in Range(largeBlockChan[i])
    BY <1>7 DEF MatchFirst, Range
  <2>3. largePb[largeBlockChan[i][1]] = Up
    <3>. DEFINE c == largeBlockChan[i][1]
    <3>1. <<Up, c>> \in blocksReceived[i]
      BY <2>1, <2>2 DEF Taken
    <3>. HIDE DEF c
    <3>2. <<Up, c>>[2] = c
      OBVIOUS
    <3>3. largePb[<<Up, c>>[2]] = Up
      BY <3>1 DEF ReceivedFull
    <3>. QED
      BY <3>2, <3>3 DEF c
  <2>4. PreBlock(i, Up) \in msgs' /\ DecShares(i) \in msgs'
    BY <1>7, <2>1, <2>3 DEF MatchFirst
  <2>. QED
    BY <1>7, <2>4 DEF MatchFirst, Goto, Single
<1>8. CASE MatchReturns(i)
  BY <1>8 DEF MatchReturns, Goto, Single
<1>9. CASE TakePreBlock(i)
  BY <1>9 DEF TakePreBlock, Goto, Single
<1>10. CASE constructBlock(i)
  BY <1>10, SettledIsFull DEF constructBlock, Goto, PhasesFit, Single
<1>. QED
  BY <1>1, <1>2, <1>3, <1>4, <1>5, <1>6, <1>7, <1>8, <1>9, <1>10 DEF runProtocol, ownSteps, protocolReturns

LEMMA StepQInv == IInv /\ QInv /\ [Next]_vars => QInv'
<1>1. SUFFICES ASSUME IInv, QInv, [Next]_vars PROVE QInv'
  OBVIOUS
<1>2. \A i \in Up : Placed(i)'
  <2>1. ASSUME NEW i \in Up, runProtocol(i) PROVE \A j \in Up : Placed(j)'
    BY <1>1, <2>1, MovesPlaced, StaysPlaced
  <2>2. CASE UNCHANGED <<phase, blocks, acsInput>>
    BY <1>1, <2>2, StaysPlaced
  <2>. QED
    BY <1>1, <2>1, <2>2 DEF Next, vars, listener, AcsSettles
<1>3. Told'
  BY <1>1, <1>2, StepSigned, SentStays DEF Told, Placed, QInv
<1>4. Entered'
  BY <1>2 DEF Entered, Placed
<1>. QED
  BY <1>1, <1>3, <1>4, StepTaken DEF QInv

LEMMA AlwaysQInv == Spec => []QInv
BY StepQInv, InitQInv, Invariance, PTL DEF Spec

\* Everyone has a complete small pre-block, the members sign their large ones,
\* hear of enough signatures for a pointer, and tell it to everyone: so
\* nobody waits for something to put into the common subset.
LEMMA QuietInputs ==
    ASSUME Enough(Committee \cap Up), IInv, QInv, Quiet
    PROVE  /\ \A i \in Up : phase[i] \notin {"propose", "own"}
           /\ \A i, c \in Committee \cap Up : c \in Range(largeBlockChan[i])
<1>. USE DEF IInv, QInv
<1>1. \A i \in Up : Waits(i) /\ \A m \in msgs : Handled(i, m)
  BY DEF Quiet
<1>2. \A i \in Up : smallPb[i] = Up
  <2>1. ASSUME NEW i \in Up, NEW j \in Up PROVE j \in smallPb[i]
    <3>1. Small(j) \in msgs /\ Small(j).type = "small" /\ Small(j).from = j
      BY DEF Told, Small
    <3>. QED
      BY <1>1, <3>1 DEF Handled
  <2>. QED
    BY <2>1 DEF TypeOK
<1>3. \A c \in Committee \cap Up : largePb[c] = Up
  <2>1. ASSUME NEW c \in Committee \cap Up, NEW j \in Up PROVE j \in largePb[c]
    <3>1. Large(j) \in msgs /\ Large(j).type = "large" /\ Large(j).from = j
      BY DEF Told, Large
    <3>. QED
      BY <1>1, <3>1 DEF Handled
  <2>. QED
    BY <2>1 DEF TypeOK
<1>4. \A i, c \in Committee \cap Up : c \in Range(largeBlockChan[i])
  BY <1>1, <1>3 DEF Told, Handled, ToCommittee
<1>5. \A i \in Up : ptr[i] # None
  <2>1. PICK c \in Committee \cap Up : TRUE
    BY NotEnough
  <2>2. Committee \cap Up \subseteq {d \in Up : <<Up, d>> \in blocksReceived[c]}
    BY <1>4 DEF Taken
  <2>3. Enough({d \in Up : <<Up, d>> \in blocksReceived[c]})
    BY <2>2, EnoughGrows
  <2>4. Pointer(c, Up) \in msgs
    BY <2>3 DEF Taken
  <2>. QED
    BY <1>1, <2>4 DEF Handled, Pointer
<1>. QED
  BY <1>1, <1>2, <1>4, <1>5, FullIsReady DEF Waits

\* Enough of two or more is at least two.
LEMMA TwoMembers ==
    ASSUME Enough(Committee \cap Up), Kappa >= 2
    PROVE  \E a, b \in Committee \cap Up : a # b
<1>. DEFINE M == Committee \cap Up
<1>1. IsFiniteSet(M)
  BY UpIsFinite, FS_Subset
<1>2. Cardinality(M) >= 2
  BY <1>1, FS_CardinalityType, ABCConstants DEF Enough
<1>3. M # {} /\ \A x : M # {x}
  BY <1>1, <1>2, FS_EmptySet, FS_Singleton
<1>. QED
  BY <1>3

\* When nothing is left to be done, whatever timers, messages, the block agreement
\* and the common subset did, nobody waits for something to put into them, if enough
\* members for a signature are up, and there is more than one: members of a
\* committee of one wait for the pre-block of another one.  And if the common
\* subset has returned to enough members, everyone it has returned to has set its
\* block.
THEOREM RoundLeavesNobody ==
    ASSUME Enough(Committee \cap Up), Kappa >= 2
    PROVE  Spec => []QuietMeansBlocks
<1>1. ASSUME IInv, QInv, Quiet, Enough(Committee \cap Returned), NEW i \in Returned
      PROVE  blocks[i] # {}
  <2>. USE <1>1 DEF QInv
  <2>1. /\ \A j \in Up : Waits(j)
        /\ \A j, c \in Committee \cap Up : c \in Range(largeBlockChan[j])
    BY QuietInputs DEF Quiet
  <2>2. \A j \in Returned : j \in Up /\ phase[j] \in {"match", "matched", "preblock", "decrypt", "done"}
    BY DEF Returned, IInv, TypeOK, Phases
  <2>3. acsOutput # {} /\ SinglePointer = Up
    BY <2>2, SettledIsFull DEF IInv, PhasesFit
  <2>4. PICK a, b \in Committee \cap Up : a # b
    BY TwoMembers
  <2>5. \A c \in Committee \cap Up : Len(largeBlockChan[c]) >= 2
    BY <2>1, <2>4, TwoInRange DEF IInv, TypeOK
  <2>6. \A j \in Returned : phase[j] \in {"preblock", "decrypt", "done"}
    <3>1. \A c \in Committee \cap Up : phase[c] \notin {"match", "matched"}
      BY <2>1, <2>5 DEF Waits
    <3>. QED
      BY <2>2, <3>1 DEF IInv, PhasesFit
  <2>7. \A c \in Committee \cap Returned : DecShares(c) \in msgs /\ (Single => PreBlock(c, Up) \in msgs)
    BY <2>2, <2>6 DEF Told
  <2>8. Single => SinglePointer \in pbChan
    <3>1. PICK c \in Committee \cap Returned : TRUE
      BY <1>1, NotEnough
    <3>2. PreBlock(c, Up).type = "preblock" /\ PreBlock(c, Up).hash = Up
      BY DEF PreBlock
    <3>. QED
      BY <2>3, <2>7, <3>1, <3>2 DEF pbChan
  <2>9. Enough(decChan)
    <3>1. Committee \cap Returned \subseteq decChan
      <4>1. SUFFICES ASSUME NEW c \in Committee \cap Returned PROVE c \in decChan
        OBVIOUS
      <4>2. DecShares(c).type = "decshares" /\ DecShares(c).from = c
        BY DEF DecShares
      <4>. QED
        BY <2>7, <4>2 DEF decChan
    <3>2. decChan \in SUBSET Up
      BY <1>1, MessageTypes DEF decChan, IInv, TypeOK
    <3>. QED
      BY <1>1, <3>1, <3>2, EnoughGrows
  <2>10. phase[i] = "done"
    BY <2>1, <2>2, <2>6, <2>8, <2>9 DEF Waits, Entered
  <2>. QED
    BY <2>2, <2>10 DEF Entered
<1>2. IInv /\ QInv => QuietMeansBlocks
  BY <1>1, QuietInputs DEF QuietMeansBlocks
<1>. QED
  BY <1>2, Invariance, AlwaysQInv, PTL
================================================================================
