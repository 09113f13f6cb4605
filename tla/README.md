# TARDIGRADE in TLA+

Specifications, model checks and proofs for the Go program in `src/`, an
implementation of the TARDIGRADE atomic broadcast protocol (n nodes, a committee,
up to t of the nodes failing). Everything here is translated from the code; where
the code and its comments differ, the module follows the code and the difference
is one of the findings below.

## 1. The system

| Component | Code | State of a node | Operations | Talks to |
|---|---|---|---|---|
| Atomic broadcast | `tardigrade/tardigrade.go` | transaction buffer, blocks by round; per round: pre-blocks, block pointer | `Run`, `runProtocol`, handlers of four kinds of messages, `setBlock` | starts one block agreement and one common subset per round |
| Block agreement | `blockagreement/*.go` | block share, commits, round, ticks in a channel | `Run`: kappa rounds of graded consensus over propose | timer, messages by round |
| Common subset | `commonsubset/commonsubset.go` | results of n broadcasts and n agreements, output of the inner protocol, signature shares | `Run`, `handleAba`, `eventHandler`, `handleCommit`, `handleSignatureMessage` | starts n broadcasts and n agreements in goroutines |
| Reliable broadcast | `broadcast/broadcast.go` | tallies of ECHO, READY and committee messages | `Run` and a handler per message | messages by instance |
| Binary agreement | `binaryagreement/binaryagreement.go` | round, estimate, tallies and channels by round | `Run`, its message handler | messages by round, the coin |
| Common coin | `binaryagreement/commoncoin.go` | requests by round, signature shares | `Run` | one process that every node asks |
| Local / network handler | `utils/*handler.go`, `utils/utils.go` | channels by protocol, round and instance | multicast (a goroutine per call), receive, receiver | moves every message |
| Configuration, simulation, main | `utils/config.go`, `simulation/`, `main.go` | none | set-up | gives the parameters |

What makes it hard:

* Every multicast runs in a goroutine of its own and, over the network, sleeps a
  random time: messages overtake one another. None is lost or duplicated by the
  transport (with one exception: the local handler may replace a channel
  that holds a message, see `Handler`).
* Nodes listed in `RoundConfig.Crashed` run nothing in that round.
* The protocols are meant for up to t nodes that deviate. The code holds no such
  node, but every threshold and signature check is there because of them, so the
  safety runs let the nodes of `Faulty` send any message under their own name
  (block agreement and the round of atomic broadcast are modelled with crashes only;
  of the coin's callers some may send bad shares).
* Threads: the loop of each protocol, its message handlers and timers share maps
  under one lock, released between steps that belong together.

What each component has to guarantee: broadcast, both agreements and common subset hand
over at most one output per node and the same at every node (`AgreeOnOne`), an
output is backed by enough correct nodes, and everyone who is up gets one. The list
of hazards, by line, is in `PROJECT.json`.

Per component:

| Component | Must hold | Hard because |
|---|---|---|
| Reliable broadcast | one value at all nodes, the sender's if it follows the protocol; everyone up gets it | votes of deviating nodes, two ways to a READY, committee members relay a value before they know it is agreed, a node that is done stops answering |
| Binary agreement | one decision, an input of somebody; nobody is left behind | AUX and EST overtake one another, rounds run side by side, the coin may disagree with the values, a node that decides leaves |
| Common subset | one signed output, built from shares that are there | results arrive in goroutines, conditions are looked at between them, counts are compared by `==`, nodes may settle on different outputs |
| Block agreement | one block share in all rounds; with timers in step, everyone gets it | ticks consumed at different places, votes shared by pointer, rounds go on after an output |
| Common coin | one value per round, an answer to everyone who asked, once enough asked | a share is stored before it is verified, a value is kept for who asks late, answers come in among other messages |
| Atomic broadcast | one block per round at all nodes, built from what the committee has | pointer and pre-blocks change while timers run, slices are appended to without a lock |
| Local / network handler | each message reaches the one channel its reader uses | channels are made by readers and receivers, whoever comes first, over a gap between two locks |

## 2. The modules

| Module | Models | State and actions |
|---|---|---|
| `AgreeOnOne` | what each agreement component promises | `output[i]`, set once, the same everywhere |
| `ReliableBroadcast` | one broadcast instance at all nodes | variables carry the names of the locals of `Run`; one action per message case, each with the loop top that follows it |
| `BinaryAgreement` | one agreement instance at all nodes, all rounds | `handleEST`, `handleAUX` are the message handler; `sendAUX`, `callCommonCoin`, `Decide`, `NextRound` the parts of `Run` between the points where it blocks |
| `CommonSubset` | the inner protocol at one node | every critical section under `acs.Lock` is an action: `RbcOutput`, `HandleRbcDone`, `HandleStartAba`, `BeginAba`, `AbaOutput`, `eventHandler` |
| `CommonSubsetCommit` | the signing phase at all nodes | `Settle` (what `eventHandler` put on `acsOut`), `TakeOutput`, `handleCommit`, `handleSignatureMessage`; each ends with `canTerminate` |
| `BlockAgreement` | one block agreement at all nodes, all rounds | a node is one goroutine that waits for a tick or a message: `phase` says where, and each tick (`propose`, `runPropose`, `endProposals`, `findSubset`, `terminate`, `giveUp`, `incrementRound`) and each message (`handleVote`, `handleProposal`, `handleCommit`, `handleNotify`) taken is an action |
| `AtomicBroadcast` | one round of `runProtocol` at all nodes | `listener` is the goroutine that handles messages (`handleSmallBlockMessage`, `handleLargeBlockMessage`, `handlePointerMessage`, `handleCommitteeMessage`); `phase` says where `runProtocol` waits, and an action leads from there to the next wait (`RunBla` or `SkipBla`, `BlaDecides` or `BlaFails`, `InputOwn`, `AcsReturns`, `MatchFirst`, `MatchReturns`, `TakePreBlock`, `constructBlock`) |
| `Handler` | the channels of both handlers and the messages through them | a message that came in, and a call of `receive`, each goes by steps through `updateRound`, the look under the first lock and the making under the second, to its use |
| `CommonCoin` | the process that answers requests for coins | `Refuse`, `AnswerLate`, `JoinFails`, `Combine`: the ways through the body of the loop of `Run` |
| `CoinCalls` | calls of the coin, from the request to the return | extends `Handler` and instantiates `CommonCoin`; `coinCall`, `RunCoin`, `AnswerCalls`, `Handlers`, `Listen` |

Each of `ReliableBroadcastProofs`, `BinaryAgreementProofs`, `CommonSubsetProofs`,
`CommonSubsetCommitProofs`, `BlockAgreementProofs`, `AtomicBroadcastProofs`,
`HandlerProofs` and `CoinCallsProofs` extends the module of that name with theorems
(`BlockAgreementProofs` by way of `MCBlockAgreement`, which says what it is to be in step);
`MC*` give them constants and, where said below, initial states.

How they meet:

* `AgreeOnOne` is what the broadcast, both agreements, the commit phase and
  a round as a whole are shown to implement, and what a module that uses one of them
  assumes of it. `CommonSubset` takes the results of its broadcasts and agreements from it,
  `BlaDecides` gives the output of block agreement, one share, to any of the nodes that run
  it, and `AcsSettles` the one output of the common subset. It needs n-t broadcasts, and with t
  nodes down those are the inputs of all who are up. If they are all the same, that share comes out
  (condition one). Otherwise it is the list of all of them, which condition three takes as soon as n-t
  agreements have finished, whether or not a majority is among them; or, when all n have finished
  before anybody looks, the share of a majority, if there is one (condition two). A
  share that comes twice in that list puts the same things into the block twice; the set keeps it
  once. Neither protocol need ever return (`BlaDecides`, `BlaFails`, `AcsReturns` may stay away).
* `CoinCalls` composes `Handler` and `CommonCoin` by their actions: an answer to a node in
  the network is a message that `Handler` carries, and a call returns what its `receive`
  returns. `BinaryAgreement` assumes of the coin what is proved here: one value per
  round (`CoinsAgree`), not before more than half asked (`EnoughHaveAsked`). A deviating node's bad share may
  keep the coin of a round from everybody (`JoinFails`); in `BinaryAgreement` the rounds to
  which that happens are chosen beforehand (`spoilt`), unknown to all nodes.
* The other modules assume of the handlers what `NothingLost` says of them, of all channels: for the
  later rounds of an agreement between local nodes that is an assumption (see the end of the findings).

Shared conventions:

* A multicast adds to the set `msgs`; a node takes any element of it in any order.
  Taking one again changes nothing in the tallies, except where the code multicasts
  the same thing repeatedly, which the set absorbs.
* Tallies are sets of pairs (sender, value) where the code has maps from values to
  maps of senders; a threshold is a named operator on a set of senders
  (`EchoQuorum`, `AuxThreshold`, `Joins`, ...).
* Hashes are injective, signatures cannot be made for others, and a threshold
  signature exists once enough shares are together. Nothing else of cryptography
  is assumed.
* `CommonSubset` and `CommonSubsetCommit` meet at `acsOut`: what the first may put
  there, the second lets every node settle on, without assuming that nodes agree.
  The broadcasts and agreements it starts are seen as what `AgreeOnOne` promises
  of them.
* In `BlockAgreement` a list of commits is identified by its round: the only lists
  the code makes are those of `findSubset`. A vote is held by pointer, so that a
  proposal may carry, by the time a node looks, the later vote of the same node:
  `handleProposal` then finds its signature valid or not (over the network it is
  a copy, locally it is not), and `endProposals` commits to what the vote has
  become (`Became`).
* In `AtomicBroadcast` a pre-block is known by the nodes whose messages are in it,
  and its hash and the pointer to it are that set: a sender gives every member the same
  large message. Pre-blocks are held by pointer in the code, and so they are here: a
  committee message carries the hash it was signed for, and is compared with what the
  sender's pre-block is by now.
* `Quiet` in `ReliableBroadcast`, `BinaryAgreement`, `CommonSubsetCommit`, `AtomicBroadcast` and
  `CoinCalls` says that nothing is left to be done: every loop waits, and every message that was multicast has been handled, or
  is one that changes nothing any more, at every node that still handles messages. It speaks of what was
  sent by nodes that are up; what deviating nodes may still send does not matter. These are the
  states without a step of `FairSpec`'s fair actions (TLC finds the two to be the same on the
  instances below). In `AtomicBroadcast` the returns of block agreement and common subset are not among
  those: a node that waits for one of them has nothing left to do.
* In `Handler` a channel is known by how many were made for the same use before it, and
  what is in it by that number, so that a channel that was replaced, and what is in it,
  stay apart from the new one.

## 3. The runs

Every property of a passing run is also refuted on a mutated definition (`mutants`
in `PROJECT.json`): a dropped check, a wrong threshold, a missing guard.

| Run | Instance | Distinct states | Shows |
|---|---|---|---|
| `rbc_faulty_sender` | 4 nodes, t=1, all in the committee, the sender deviates, 2 values | 79,087 | no two nodes are brought to READY, delivery or output of different values; `Certification` is the inductive invariant of the proof |
| `rbc_crash_live` | 4 nodes, t=1, one committee member down, honest sender | 31,441 | its value and no other is output, by everyone up; nobody is left without when nothing is left to be handled |
| `aba_faulty_node` | 4 nodes, t=1, one deviates, 3 rounds; the first round up to the beginning of the second (`CONSTRAINT FirstRound`), and, from a state where one node is about to decide in it and two have gone on, the second and third | 324,664 | single values agree within a round, a decision locks the others, nobody decides differently in later rounds, no value comes from nowhere |
| `aba_unanimous_live` | 4 nodes, t=1, one down, none deviating, equal inputs | 34,654 | everyone up decides as soon as the coin shows the value, and nobody waits in vain |
| `bla_rounds` | 3 nodes, t=1, the last one down, 3 rounds, of the last of which it is the leader; a variable says whether timers and messages run freely or in step | 43,340 | freely: whatever is output, in any round, is the one proposal of the first round, and what is adopted has t+1 commits. In step: nobody is stuck, everyone up has an output and ends |
| `acs_inner` | one node of 4, t=1, 3 values | 12,383 | no missing share in an output, no single share with a rival, no goroutine blocks on a full channel while it holds the lock |
| `acs_commit` | 4 nodes, all in the committee, one deviates, 2 outputs | 29,745 | at most one output is signed and returned, an honest member is behind it, all return if all settled on the same, and in any case those who settled on what was signed |
| `abc_round` | 4 nodes, t=1, the last one down, committee of two, from the last messages of the pre-blocks on | 50,776 | with timers and messages in any order, and block agreement and common subset that return what they may, or never: pointers are backed, what is signed stays, all set the same block with something of everyone in it; nobody waits in vain for blocks or a pointer to put in, and everyone that common subset returned to, if to enough members, gets its block, in the end and in any state where nothing is left to be done |
| `coin_calls` | a node in the network and two with local handlers call for one coin, one of them perhaps with a bad share; two messages of other protocols come in at a local node; channels are made beforehand for round 0 only | 51,475 | everyone gets the same value after enough asked, every call returns unless a bad share spoilt the round, no message is lost in a steady channel, and no call or reader is left waiting when nothing is left to be done |
| `aba_aux_before_est`, `aba_left_behind`, `acs_all_done` | see the findings | | what the code does against its comments and tests |

Why the bounds are enough to be interesting. Four nodes with t=1 is the smallest
system in which a quorum of n-t is neither everyone nor a majority, and one node may
deviate; two values are needed for a disagreement, three for a majority of shares
that is not decisive. Three rounds of binary agreement hold every relation
between a decision and a later round: the step from a round to the next does not
look at its number. Three rounds of block agreement hold a first round with any
outcome, one whose proposals need commits, and one whose leader is down. In `abc_round`
each of two members needs the other to sign, and the order in which the last two large messages and
the last small one come decides which of them has signed, voted or given up waiting before
the others; the block agreement may give its output to any of the nodes, so that the nodes may put in
different shares, two of them the same: both the list and the share of the majority come out. In `coin_calls` two of three
requests are enough, so that the third comes late or early, good or bad; the coin is 1,
which is not what `coinVals` holds before it is set; the
channel for the answer is one that nobody makes beforehand (`Pre` is 1 and the round is 1, for
10 and any later round in the code), and the two messages meet `updateRound` and the making of a
later channel with two goroutines each.

*Deviating votes first.* In `rbc_faulty_sender`, `aba_faulty_node`
and `acs_commit` the messages of the deviating node are in the
tallies from the beginning (`MCInit`, `FaultyFirst`, `LateDecision`). These are
states that `Spec` reaches by delivering them first. A threshold of the code
counts votes and asks for nothing else, so that a node that should not have such
a vote yet behaves like one to which an honest vote takes longer. In `FaultyFirst`, when the
inputs differ, every node has its own EST as well before those of the others; that is a bound. The proofs do
not use this: they start from `Init`.
`aba_faulty_node`, `aba_left_behind` and `abc_round` begin, or may begin, in reachable states
(`LateDecision`, `Split`, `LastMissing`) that are spelled out, with how they come about, in the
MC modules.

*Symmetry* is declared only in runs that check no liveness property, for nodes with the same part in the
protocol. *Deadlock* is not checked: every protocol instance ends, its goroutines return
and nothing is left to do.

### Fairness

* Broadcast, binary agreement: weak fairness of each node's own steps and of the
  handling of messages that were multicast by nodes that are up. Every multicast is a goroutine that sends to a
  channel with room, and over the network retries until it has a connection;
  Go's scheduler runs every goroutine. Nothing is assumed of messages of deviating nodes,
  and the coin has to answer only without their requests (`CoinHasToAnswer`).
* Common subset, commit phase: the same.
* Block agreement: `TerminationInStep` is about the behaviours in which timers tick together
  and what was sent before a tick is handled before the next one; only their steps are
  fair. This is what the protocol is for (a tick is delta, the bound on delays), and not what the code
  enforces: nodes start their timers on their own, so that the run says what holds
  when they do so together. Without synchrony there is only safety, and for that the run
  and the theorems assume nothing at all of timers and messages.
* Atomic broadcast: weak fairness of the listener and of the steps of `runProtocol` at each node that
  do not wait for another protocol (`ownSteps`): the timer of 4 delta ends, messages arrive. Nothing is
  assumed of block agreement and common subset: with timers that drift the one may wait for
  ever (`propose.go:74`), and so may the other (`acs_all_done`, `aba_aux_before_est`). `RoundEnds` says that
  nothing else stops a node: whoever has to put something in gets to do so, and whoever common
  subset returned to sets its block.
* Coin: weak fairness of calls, of the loop of the coin, of the goroutines that send answers, of the
  handlers and of the goroutines that call `receive`. Each of them is a goroutine that is
  not blocked; nothing is assumed of the requests with a bad share, nor of when messages
  come in.

### Findings

* `aba_aux_before_est`: a node whose n-t AUX messages came before the EST messages that bring their values into
  `binValues` waits for ever (`binaryagreement.go:131`).
* `aba_left_behind`: a node that decides returns and is missing in the later rounds;
  with nobody down or deviating, two of four nodes go on alone and never decide
  (`binaryagreement.go:185`).
* `acs_all_done`: condition three compares its counts with n-t by `==`. Results
  that come in a burst carry them past it, and a node with all results in never
  settles (`commonsubset.go:272`).

Seen while modelling, and part of the models, without a run of their own:

* `handleAba` marks its agreement as running only when its goroutine begins, so that an
  agreement may be started twice (`commonsubset.go:120-124`). `NoNilShare` holds nevertheless, for every n.
  `NotifyNeverBlocks` does not: each agreement left over may double how often the next ones are
  started, and each start may hand over a value and with it a token: 2^t of them, so that with t=4
  of 13 nodes the model reaches a full channel while the lock is held. For t up to 3 it
  holds (`ChannelNeverFull`).
* Forwarded proposals keep the id of the proposer, so that the code that compares
  them never runs (`propose.go:153-183`). No proposal of a later leader is valid unless
  somebody adopted that of the first leader, so that a crash of the first leader ends
  block agreement without output, whatever kappa is (`propose.go:261`).
* `handleCommitteeMessage` asks whether the address of a pointer is nil, which it never
  is: no member echoes another one's pre-block (`tardigrade.go:791`).
* `waitForMatchingBlock` compares the first pre-block of its channel only, and returns when a
  second one is there (`tardigrade.go:485`): with a committee of one it does not return, which is why `RoundLeavesNobody` asks for two. Somebody's
  first pre-block is the one that is asked for, because what is signed is complete (`RoundEnds`).
* One bad share that comes in before the coin of a round is computed stays among the shares,
  and `Join` fails for good (`commoncoin.go:162`): `CallsReturn` says so, and says that nothing else
  keeps a call from returning. The signature is on the number of the round alone, so that
  a round has the same coin in every UROUND.
* The local handler looks for the channel of an agreement's later round under a read lock and makes it
  under a write lock without looking again (`localhandler.go:84`): a message may be put into a
  channel that is replaced. The model does the same; `NothingLost`, `Delivered` and the theorem
  `SteadyChannelsStay` are therefore about the other channels only (`Steady`). The agreement would have to come to its eleventh round for it.

## 4. The proofs

All for every value of the constants, from the assumptions named in each module
(`ASSUME`), with TLAPS.

**Reliable broadcast** (`RBCConstants`, `RBCFaults`: at most t deviate and
2t + |Faulty| < n; `RBCCommittee`: at most tk members of the committee deviate).
The invariant `Certification` says that a digest in any READY, delivery, CMessage or output was
echoed by n-t nodes, that a correct node echoes one digest only, and that what a
tally holds was sent. It is inductive together with `TypeOK`. Two certificates share
a correct node (`ReadiesAgree`, `OutputsAgree`), so every output maps to a step of
`AgreeOnOne` (`ImplementsAgreement`). `OutputIsInput` proves validity from an
invariant of its own, when nobody deviates.

`NobodyLeftBehind` is the safety half of `Termination`: nobody deviates, at most t nodes are down, and
the members of the committee that are up make a quorum for the value; then in every state where nothing is
left to be handled, everyone who is up has output it. A node stops answering when it outputs, and may do so without
having sent its READY or CMessage, so this is not about counting the nodes that are up. `DInv`
says what every node owes (`Told`), what it has not yet enough of as long as it owes
something (`Open`), and what the first who were done leave behind (`Backed`).

**Common subset, commit phase** (`CommitConstants`; `CommitKeys`: two sets of JoinSize
members share a correct one). `Signing`: members commit only to what they settled
on, shares kept were sent, and every signature and output has JoinSize signers.
It is inductive with `TypeOK`, and gives `OutputsAgree`, `SignaturesBacked` and
`ImplementsAgreement`. `NobodyWaitsInVain`: once nothing is left to be handled, everyone who settled on an output that
enough members settled on, or that somebody returned, has returned it. The
invariant `Complete` says that a node that has the commits or the signature shares for an output acts on
them at once, and that whoever returns has multicast the signature that lets the others return.

**Block agreement** (`BLAConstants`: n, kappa positive, nothing about t or who is
down). `OutputIsFirst` is far from inductive: it needs to follow a block share from the
first proposal through commits, notifies, adopted shares, the votes of later
rounds, and, because votes are shared by pointer, what a vote may become. `IInv`
has a part for each: `CollectorLeads` (the only proposal of round 0 precedes
everything else), `VotesWereSent`, `VotesHeld` and `VotesStay` (what a node has only
ever changes to the first proposal, so a vote for it stays one), `AllFirst`. From it:
`OutputsAreFirst`, `OutputsAgree`, `ImplementsAgreement`. `CertifiedAlways` has its
own invariant `CInv`, about commits as certificates.

When the nodes are in step (`SyncSpec`, a special case of `Spec` by `InStepIsSpec`), what has been sent before a tick
is handled before the next one. A node comes early to the next phase when it refuses a proposal, and to the next round when it
leaves on a notify, and would be stuck after both. `TInv` says for every phase which tick a
node may be at, and that it is not early twice; the reason is in `PInv`: all who look at a proposal find the same of its
commits, so that in a round with a refused proposal nobody commits and nobody notifies
(`NotRefused`). This gives `NobodyStuckInStep`, for every n, kappa and crashed nodes. `FInv` follows the first round
from votes to commits to notifies: with its leader and enough others up, all
that leave it have an output (`FirstRoundOutputs`).

**Binary agreement** (`ABAConstants`; `ABAFaults`: at most t deviate and 2t + |Faulty| < n).
The difficulty is that a decision in one round binds rounds that other nodes
went through at other times, with other AUX messages and with a coin that the decision has to match. `IInv` keeps,
for every value that a correct node sends in a round, its history: a correct node
sent it in each round before, and it was that round's coin or has n-t AUX messages
there (`EstsFit`). A node that decides v has n-t AUX messages for v, so that no other
value has (`AuxOnce`), and v is the coin: another value has no history through that round. From it
`RoundsAgree`, `DecisionsLock`, `DecisionsAgree`, `ValuesAreInputs` and
`ImplementsAgreement`, for any number of rounds and any coin.

The findings below `Termination` need nodes with different inputs, or messages of deviating nodes
for a value that nobody had. `OneInputDecides` says so: with n > 3t and at most t nodes down or deviating, if all
inputs are the same and the coin shows them in some round, and is given out up to there (no bad share has spoilt
it), then in every state where nothing is left to be done everyone who is up has decided.
The run has one node down; that deviating nodes may be among the t is what the theorem adds. Only the one value is ever sent by a correct node (`OnlyInput`), so that a node's own
AUX, which it sends when `binValues` is complete, is the last that can come too early; and nobody goes past the first
round in which the coin shows the value (`Passed`). The argument is about the nodes in the earliest
round (`Hindmost`): whatever they need was sent to them. `ABARounds` asks that the rounds begin with 0 and none
is left out.

**Common subset, inner protocol** (`ACSConstants`; `ACSFaults`: 3t < n). The share of an
agreement that ended in 1 could be missing: once n-t agreements have ended in 1 the others are started with 0, also
those whose broadcast has not come in, and may end in 1. `ResultsFit`
says that then more than n-t have finished, and condition three, which asks for exactly n-t,
is past (`OutputsHaveShares`). `SingleSharesAlone` is about quorums against majorities.
`ChannelNeverFull`, for t up to 3: an agreement is started again only while it is not marked as running, at most once for
every token in the channel, and what it returns may be another token. With every agreement left over by the first
n-t their number may double, so that there are 2^t of them at most (`Bounded`), and n > 3t places.

**Atomic broadcast** (`ABCConstants`, `ABCNil`). A pre-block is ready with n-t senders, and with t
nodes down no more than n-t send: what is signed, pointed to or put into a protocol is complete, and stays
so. `IInv` says it of messages, pointers, shares and of every place of `runProtocol` where
one of them is held. From it `PointersAreBacked`, `WhatIsSignedStays`, `AllAreServed`,
`BlocksAgree`. The argument uses that exactly t nodes are down, as in all configurations of
the repository: with all n up, a pre-block would grow after it was signed. What block agreement and
common subset hand over is only known to be something that was put in (`SettlesOnInputs`).
`RoundLeavesNobody`: when nothing is left to be done, nobody is kept from putting something into block agreement
and common subset, if the members who are up are enough for a signature, and more than one; and whoever the
common subset has returned to has set its block, if enough members are among them. Everyone has its
small pre-block then, the members have signed, heard each other and passed a pointer on (`QuietInputs`), and the
members in whose channel the asked pre-block is first bring it to the others. That the two
protocols return is not assumed and not claimed. `QInv` says what that takes: what a node owes the others
at its place has been sent (`Told`), a member's channel holds valid signatures, and enough
of them a pointer (`Taken`), and nobody is further than its input allows (`Entered`).

**Handlers** (`HandlerConstants`). `RoundsMade`, `StepsFit` and `ContentFits` say what whoever
looks for a channel knows at each of its steps; `SteadyChannelsStay` follows for all channels but
those that the local handler makes in two steps, which it does replace.

**Coin** (`CallConstants`). Whatever carries a value, be it `coinVals`, an answer, a message on its
way or a result, carries the last bit of the one signature, and its key was given out
(`Given`); a key was given out with good requests of more than half (`EnoughAsked`). From it
`CoinsAgree`, `EnoughHaveAsked`, and `NoAnswerIsLost` for the composition: the steady channels stay, and every channel
an answer is put into is steady, since only the network handler carries answers. `NoCallWaits`: when nothing
is left to be done, every call has returned that no bad share spoilt, and every message of a
protocol that receives has been received, if more than half of the nodes ask for each coin. `QInv` follows a call: its
request stays (`RequestsStay`), enough good ones give the coin out (`GivenOut`), the answer is
with the coin, with the handlers or returned (`GoodAreAnswered`), and until then the caller receives
(`CallersReceive`), on the channel the answer is put into (`NothingLost`). `CallConstants` asks that only
calls receive answers.

Only model-checked: liveness (`Termination` of broadcast, binary agreement and commit phase,
`TerminationInStep`, `RoundEnds`, `CallsReturn`, `Delivered`), which is out of the prover's
reach, and with it that `Quiet` is what it is said to be, where no fair action is ENABLED. For `Termination`,
`RoundEnds`, `CallsReturn` and `Delivered`, what remains to be model-checked is only that such a state is reached. Every invariant that a run checks is a theorem,
`NotifyNeverBlocks` for t up to 3.

## 5. What is not modelled

* The loop of `Run` over rounds, and the buffer of transactions (`proposeTxs`, `setBlock`). Rounds
  share nothing but the buffer and the slices `acss` and `blas`, and which transactions are
  proposed makes no difference to a round. What can go wrong there is an abort (an
  index out of range, `tardigrade.go:117`) or a loop without end (`:913`).
* Deviating nodes in block agreement and in the round of atomic broadcast: forged certificates, two
  proposals of one leader and the forwarding that should expose them, members that sign
  different pre-blocks.
* Data races proper: the unsynchronised maps of binary agreement, the slices of
  `tardigrade.go:117-147` and the map of all nodes' channels that the simulation fills
  (`localhandler.go:186`) are a matter of Go's memory model; a handled message is
  one atomic step here.
* Sockets, encoders and artificial delays of the network handler: a message sent
  arrives, in any order. Channels are never full (`Handler` says why), except `startAba`.
* Configuration, simulation, keys and main keep no protocol state: their values are the constants.
  Encryption of transactions matters to no property here. A threshold signature is modelled
  by who has signed.

## 6. What could come next

1. Deviating nodes in block agreement, with the certificates they can and cannot make, and members that
   deviate in the round of atomic broadcast.
2. The loop over rounds, with the appends of line 117 against those of 146, and the buffer:
   no transaction leaves it without being in a block.
3. Rounds with fewer than t nodes down: pre-blocks that grow after they were signed.
