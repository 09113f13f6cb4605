------------------------- MODULE BlockAgreementProofs -------------------------
(***************************************************************************)
(* Proofs about BlockAgreement, for every number of nodes, kappa, t and    *)
(* set of block shares.  Whoever is down and whatever timers and network   *)
(* do: everything that is committed, notified, adopted or output, in any   *)
(* round, is the block share of the one proposal of the first round.  And  *)
(* for nodes in step: nobody waits for what never comes, and the first     *)
(* round, with its leader up, gives everyone an output.                    *)
(***************************************************************************)
EXTENDS MCBlockAgreement, FiniteSetTheorems, TLAPS

-------------------------------------------------------------------------------
(* The inductive invariant *)

VotesIn(M) == {v \in M : v.kind = "vote"}

\* Only the leader of a round collects votes in it, and once there is a proposal
\* of the first round its leader is past that.
CollectorLeads ==
    \A i \in Up : phase[i] = "handleVotes" =>
        /\ i = Leader(round[i])
        /\ round[i] = 0 => \A m \in msgs : m.kind = "propose" => m.round # 0

\* Votes that are collected, proposed or accepted were sent.
VotesWereSent ==
    /\ \A i \in Up : votes[i] \subseteq VotesIn(msgs)
    /\ \A m \in msgs : m.kind = "propose" => m.vote \in VotesIn(msgs)
    /\ \A i \in Up : proposed[i] # None => proposed[i] \in VotesIn(msgs)

\* A node votes for what it has; what it has changes only to the proposal of the
\* first round.
VotesHeld ==
    \A v \in VotesIn(msgs) :
        /\ v.round <= round[v.sender]
        /\ v.block = blockShare[v.sender] \/ First(blockShare[v.sender])

\* A vote for the proposal of the first round is followed by no other.
VotesStay ==
    \A v, w \in VotesIn(msgs) :
        v.sender = w.sender /\ v.round <= w.round /\ First(v.block) => First(w.block)

\* What is behind t+1 commits is the proposal of the first round.
AllFirst ==
    /\ \A v \in VotesIn(msgs) : v.commits # NoCommits => First(v.block)
    /\ \A m \in msgs : m.kind \in {"commit", "notify"} => First(m.block)
    /\ \A i \in Up :
        /\ proposed[i] # None => First(proposed[i].block)
        /\ \A e \in committed[i] : First(e[2])
        /\ commits[i] # NoCommits => First(blockShare[i])

IInv ==
    /\ TypeOK
    /\ CollectorLeads
    /\ VotesWereSent
    /\ VotesHeld
    /\ VotesStay
    /\ AllFirst
    /\ OutputIsFirst
-------------------------------------------------------------------------------
(* Types *)

LEMMA MessageKinds ==
    \A m \in Message :
        /\ m.kind = "vote" => m \in VoteMessage
        /\ m.kind = "propose" => m \in ProposeMessage
        /\ m.kind = "commit" => m \in CommitMessage
        /\ m.kind = "notify" => m \in NotifyMessage
BY DEF Message, VoteMessage, ProposeMessage, CommitMessage, NotifyMessage

LEMMA RoundIsNat == 0 \in Round /\ Round \subseteq Nat /\ NoCommits \notin Round
BY BLAConstants DEF Round, NoCommits

LEMMA BeginType == \A i, r : Begin(i, r) \in Phase
BY DEF Begin, Phase

LEMMA NewMessages ==
    ASSUME NEW i \in Up, NEW r \in Round, NEW b \in Value
    PROVE  /\ \A c \in Commits : Vote(i, r, b, c) \in VoteMessage
           /\ Commit(i, r, b) \in CommitMessage
           /\ Notify(i, r, b) \in NotifyMessage
           /\ \A v \in VoteMessage, V \in SUBSET VoteMessage : Proposal(r, v, V) \in ProposeMessage
BY DEF Vote, Commit, Notify, Proposal, VoteMessage, CommitMessage, NotifyMessage, ProposeMessage

LEMMA InitType == Init => TypeOK
<1>1. SUFFICES ASSUME Init PROVE TypeOK
  OBVIOUS
<1>2. NoCommits \in Commits
  BY DEF Commits
<1>3. msgs \in SUBSET Message
  BY <1>1, <1>2, NewMessages, RoundIsNat DEF Init, Message
<1>4. phase \in [Up -> Phase]
  BY <1>1, BeginType DEF Init
<1>. QED
  BY <1>1, <1>2, <1>3, <1>4, RoundIsNat DEF Init, TypeOK

LEMMA StepType == TypeOK /\ [Next]_vars => TypeOK'
<1>1. SUFFICES ASSUME TypeOK, [Next]_vars PROVE TypeOK'
  OBVIOUS
<1>. USE DEF TypeOK
<1>2. \A i \in Up : TakeTick(i) => ticks' \in [Up -> Nat]
  BY <1>1 DEF TakeTick
<1>3. ASSUME NEW i \in Up, OnTick(i) PROVE TypeOK'
  <2>1. CASE propose(i)
    <3>1. \A v \in votes[i] : Proposal(round[i], v, votes[i]) \in Message
      BY <1>1, NewMessages, BLAConstants DEF Message
    <3>2. msgs' \in SUBSET Message
      BY <1>1, <2>1, <3>1 DEF propose
    <3>. QED
      BY <1>1, <1>2, <2>1, <3>2 DEF propose, Phase
  <2>2. CASE runPropose(i)
    BY <1>1, <1>2, <2>2 DEF runPropose, Phase
  <2>3. CASE endProposals(i)
    <3>1. \A v : \A w \in Became(v) : w \in VoteMessage
      BY <1>1, MessageKinds DEF Became
    <3>2. msgs' \in SUBSET Message
      BY <1>1, <2>3, <3>1, NewMessages DEF endProposals, Message, VoteMessage
    <3>. QED
      BY <1>1, <1>2, <2>3, <3>2 DEF endProposals, Phase
  <2>4. CASE findSubset(i)
    <3>1. \A b \in Value : Notify(i, round[i], b) \in Message
      BY <1>1, NewMessages DEF Message
    <3>2. msgs' \in SUBSET Message /\ phase' \in [Up -> Phase]
      BY <1>1, <2>4, <3>1 DEF findSubset, Phase
    <3>. QED
      BY <1>1, <1>2, <2>4, <3>2 DEF findSubset
  <2>5. CASE terminate(i)
    BY <1>1, <1>2, <2>5 DEF terminate, Graded, Phase, Commits
  <2>6. CASE giveUp(i)
    BY <1>1, <1>2, <2>6 DEF giveUp, Phase
  <2>7. CASE incrementRound(i)
    <3>1. Another(i) => round[i] + 1 \in Round
      BY <1>1, BLAConstants DEF Another, Round
    <3>2. Another(i) => Vote(i, round[i] + 1, blockShare[i], commits[i]) \in Message
      BY <1>1, <3>1, NewMessages DEF Message
    <3>3. round' \in [Up -> Round] /\ msgs' \in SUBSET Message
      BY <1>1, <2>7, <3>1, <3>2 DEF incrementRound
    <3>4. phase' \in [Up -> Phase]
      <4>1. "done" \in Phase
        BY DEF Phase
      <4>2. PICK q \in Phase : phase' = [phase EXCEPT ![i] = q]
        BY <2>7, <4>1, BeginType DEF incrementRound
      <4>. QED
        BY <1>1, <4>2
    <3>. QED
      BY <1>1, <1>2, <2>7, <3>3, <3>4 DEF incrementRound
  <2>. QED
    BY <1>3, <2>1, <2>2, <2>3, <2>4, <2>5, <2>6, <2>7 DEF OnTick
<1>4. ASSUME NEW i \in Up, NEW m \in msgs, OnMessage(i, m) PROVE TypeOK'
  <2>0. m \in Message
    BY <1>1
  <2>1. CASE handleVote(i, m)
    BY <1>1, <2>0, <2>1, MessageKinds DEF handleVote
  <2>2. CASE handleProposal(i, m)
    <3>1. m.vote \in VoteMessage
      BY <2>0, <2>2, MessageKinds DEF handleProposal, ProposeMessage
    <3>. QED
      BY <1>1, <2>2, <3>1 DEF handleProposal, Phase
  <2>3. CASE handleCommit(i, m)
    <3>1. m.sender \in Up /\ m.block \in Value
      BY <2>0, <2>3, MessageKinds DEF handleCommit, CommitMessage
    <3>. QED
      BY <1>1, <2>3, <3>1 DEF handleCommit
  <2>4. CASE handleNotify(i, m)
    <3>1. m.block \in Value
      BY <2>0, <2>4, MessageKinds DEF handleNotify, NotifyMessage
    <3>. QED
      BY <1>1, <2>4, <3>1 DEF handleNotify, Graded, Phase, Commits
  <2>. QED
    BY <1>4, <2>1, <2>2, <2>3, <2>4 DEF OnMessage
<1>5. CASE UNCHANGED vars
  BY <1>1, <1>5 DEF vars
<1>. QED
  BY <1>1, <1>3, <1>4, <1>5 DEF Next

\* Every state has its declared shape.
THEOREM TypeCorrect == Spec => []TypeOK
BY InitType, StepType, PTL DEF Spec

-------------------------------------------------------------------------------
(* The invariant *)

LEMMA InitIInv == Init => IInv
<1>1. SUFFICES ASSUME Init PROVE IInv
  OBVIOUS
<1>2. \A m \in msgs : /\ m.kind = "vote" /\ m.sender \in Up /\ m.round = 0
                      /\ m.block = blockShare[m.sender] /\ m.commits = NoCommits
  BY <1>1 DEF Init, Vote
<1>3. CollectorLeads
  BY <1>1, <1>2 DEF Init, CollectorLeads, Begin
<1>4. VotesWereSent
  BY <1>1, <1>2 DEF Init, VotesWereSent
<1>5. VotesHeld /\ VotesStay
  BY <1>1, <1>2 DEF Init, VotesHeld, VotesStay, VotesIn, First
<1>6. AllFirst
  BY <1>1, <1>2 DEF Init, AllFirst, VotesIn
<1>7. OutputIsFirst
  BY <1>1, <1>2 DEF Init, OutputIsFirst, OneProposal
<1>. QED
  BY <1>1, <1>3, <1>4, <1>5, <1>6, <1>7, InitType DEF IInv

\* Messages other than a proposal of the first round leave First as it is.
LEMMA FirstStays ==
    ASSUME msgs \subseteq msgs',
           \A m \in msgs' \ msgs : m.kind = "propose" => m.round # 0
    PROVE  /\ \A b : First(b) <=> First(b)'
           /\ OneProposal => OneProposal'
BY DEF First, OneProposal

\* Messages other than votes leave the votes as they are.
LEMMA VotesInStays ==
    ASSUME msgs \subseteq msgs', \A m \in msgs' \ msgs : m.kind # "vote"
    PROVE  VotesIn(msgs') = VotesIn(msgs)
BY DEF VotesIn

LEMMA VoteType == TypeOK => VotesIn(msgs) \subseteq VoteMessage
BY MessageKinds DEF TypeOK, VotesIn

\* A step that sends nothing and changes phase and what is collected only.
LEMMA QuietStep ==
    ASSUME IInv, TypeOK', UNCHANGED <<round, blockShare, commits, out, msgs>>,
           CollectorLeads',
           \A i \in Up : votes'[i] \subseteq VotesIn(msgs),
           \A i \in Up : proposed'[i] # None =>
               proposed'[i] \in VotesIn(msgs) /\ First(proposed'[i].block),
           \A i \in Up : \A e \in committed'[i] : First(e[2])
    PROVE  IInv'
<1>1. \A b : First(b) <=> First(b)'
  BY DEF First
<1>2. VotesWereSent'
  BY DEF IInv, VotesWereSent
<1>3. VotesHeld' /\ VotesStay'
  BY <1>1 DEF IInv, VotesHeld, VotesStay
<1>4. AllFirst'
  BY <1>1 DEF IInv, AllFirst
<1>5. OutputIsFirst'
  BY <1>1 DEF IInv, OutputIsFirst, OneProposal
<1>. QED
  BY <1>2, <1>3, <1>4, <1>5 DEF IInv

\* Handling a vote, an own proposal or a commit, or letting a tick pass.
LEMMA StepQuiet ==
    ASSUME IInv, TypeOK', NEW i \in Up,
           \/ runPropose(i) \/ giveUp(i)
           \/ \E m \in msgs : handleVote(i, m) \/ handleProposal(i, m) \/ handleCommit(i, m)
    PROVE  IInv'
<1>. USE DEF IInv
<1>1. CASE runPropose(i)
  <2>1. \A j \in Up : phase'[j] = "handleVotes" => phase[j] = "handleVotes"
    BY <1>1 DEF runPropose, TypeOK
  <2>2. CollectorLeads'
    BY <1>1, <2>1 DEF runPropose, CollectorLeads
  <2>. QED
    BY <1>1, <2>2, QuietStep DEF runPropose, VotesWereSent, AllFirst
<1>2. CASE giveUp(i)
  <2>1. \A j \in Up : phase'[j] = "handleVotes" => phase[j] = "handleVotes"
    BY <1>2 DEF giveUp, TypeOK
  <2>2. CollectorLeads'
    BY <1>2, <2>1 DEF giveUp, CollectorLeads
  <2>. QED
    BY <1>2, <2>2, QuietStep DEF giveUp, VotesWereSent, AllFirst
<1>3. ASSUME NEW m \in msgs, handleVote(i, m) PROVE IInv'
  <2>1. CollectorLeads'
    BY <1>3 DEF handleVote, CollectorLeads
  <2>2. \A j \in Up : votes'[j] \subseteq VotesIn(msgs)
    BY <1>3 DEF handleVote, VotesWereSent, VotesIn, TypeOK
  <2>. QED
    BY <1>3, <2>1, <2>2, QuietStep DEF handleVote, VotesWereSent, AllFirst
<1>4. ASSUME NEW m \in msgs, handleProposal(i, m) PROVE IInv'
  <2>1. \A j \in Up : phase'[j] = "handleVotes" => phase[j] = "handleVotes"
    BY <1>4 DEF handleProposal, TypeOK
  <2>2. CollectorLeads'
    BY <1>4, <2>1 DEF handleProposal, CollectorLeads
  <2>3. m.vote \in VotesIn(msgs)
    BY <1>4 DEF handleProposal, VotesWereSent
  <2>4. hasCommits(m) => First(m.vote.block)
    BY <1>4, <2>3 DEF handleProposal, hasCommits, AllFirst, First
  <2>5. \A j \in Up : proposed'[j] # None => proposed'[j] \in VotesIn(msgs) /\ First(proposed'[j].block)
    <3>1. \A j \in Up : \/ proposed'[j] = proposed[j]
                        \/ hasCommits(m) /\ proposed'[j] = m.vote
      BY <1>4 DEF handleProposal, isValidProposal, TypeOK
    <3>. QED
      BY <2>3, <2>4, <3>1 DEF VotesWereSent, AllFirst
  <2>. QED
    BY <1>4, <2>2, <2>5, QuietStep DEF handleProposal, VotesWereSent, AllFirst
<1>5. ASSUME NEW m \in msgs, handleCommit(i, m) PROVE IInv'
  <2>1. CollectorLeads'
    BY <1>5 DEF handleCommit, CollectorLeads
  <2>2. First(m.block)
    BY <1>5 DEF handleCommit, AllFirst
  <2>3. \A j \in Up : \A e \in committed'[j] : First(e[2])
    BY <1>5, <2>2 DEF handleCommit, AllFirst, TypeOK
  <2>. QED
    BY <1>5, <2>1, <2>3, QuietStep DEF handleCommit, VotesWereSent, AllFirst
<1>. QED
  BY <1>1, <1>2, <1>3, <1>4, <1>5

\* A step that sends a commit or notify for the proposal of the first round.
LEMMA CertificateStep ==
    ASSUME IInv, TypeOK', NEW i \in Up, NEW m, m.kind \in {"commit", "notify"}, First(m.block),
           msgs' \subseteq msgs \cup {m}, msgs \subseteq msgs',
           UNCHANGED <<round, blockShare, commits, votes, out>>,
           phase' \in [Up -> Phase], phase'[i] # "handleVotes",
           \A j \in Up \ {i} : phase'[j] = phase[j],
           \A j \in Up : proposed'[j] \in {proposed[j], None},
           \A j \in Up : committed'[j] \subseteq committed[j]
    PROVE  IInv'
<1>. USE DEF IInv
<1>1. /\ \A b : First(b) <=> First(b)'
      /\ OneProposal => OneProposal'
  BY FirstStays
<1>2. VotesIn(msgs') = VotesIn(msgs)
  BY VotesInStays
<1>3. CollectorLeads'
  BY DEF CollectorLeads
<1>4. VotesWereSent'
  BY <1>2 DEF VotesWereSent
<1>5. VotesHeld' /\ VotesStay'
  BY <1>1, <1>2 DEF VotesHeld, VotesStay
<1>6. AllFirst'
  <2>1. \A v \in VotesIn(msgs') : v.commits # NoCommits => First(v.block)'
    BY <1>1, <1>2 DEF AllFirst
  <2>2. \A n \in msgs' : n.kind \in {"commit", "notify"} => First(n.block)'
    BY <1>1 DEF AllFirst
  <2>3. \A j \in Up : /\ (proposed[j] # None => First(proposed[j].block))'
                      /\ (\A e \in committed[j] : First(e[2]))'
                      /\ (commits[j] # NoCommits => First(blockShare[j]))'
    BY <1>1 DEF AllFirst
  <2>. QED
    BY <2>1, <2>2, <2>3 DEF AllFirst
<1>7. OutputIsFirst'
  BY <1>1 DEF OutputIsFirst
<1>. QED
  BY <1>3, <1>4, <1>5, <1>6, <1>7

\* Whatever the accepted vote has become by now, it is for the same proposal.
LEMMA StepEndProposals == ASSUME IInv, TypeOK', NEW i \in Up, endProposals(i) PROVE IInv'
<1>. USE DEF IInv
<1>1. phase' \in [Up -> Phase] /\ phase'[i] = "handleCommits" /\ \A j \in Up \ {i} : phase'[j] = phase[j]
  BY DEF endProposals, TypeOK
<1>2. \A j \in Up : proposed'[j] \in {proposed[j], None}
  BY DEF endProposals, TypeOK
<1>3. CASE proposed[i] = None
  <2>1. CollectorLeads'
    BY <1>1, <1>3 DEF endProposals, CollectorLeads
  <2>. QED
    BY <1>2, <1>3, <2>1, QuietStep DEF endProposals, VotesWereSent, AllFirst
<1>4. CASE proposed[i] # None
  <2>1. PICK w \in Became(proposed[i]) : msgs' = msgs \cup {Commit(i, round[i], w.block)}
    BY <1>4 DEF endProposals
  <2>2. proposed[i] \in VotesIn(msgs) /\ First(proposed[i].block)
    BY <1>4 DEF VotesWereSent, AllFirst
  <2>3. proposed[i].round <= round[proposed[i].sender]
    BY <2>2 DEF VotesHeld
  <2>4. proposed[i].round \in Nat
    <3>1. proposed[i].round \in Round
      BY <2>2, VoteType DEF VoteMessage
    <3>. QED
      BY <3>1, RoundIsNat
  <2>5. w \in VotesIn(msgs) /\ w.sender = proposed[i].sender /\ proposed[i].round <= w.round
    <3>1. w \in msgs /\ w.kind = "vote" /\ w.sender = proposed[i].sender
          /\ w.round \in {proposed[i].round, round[proposed[i].sender]}
      BY <2>1 DEF Became
    <3>2. proposed[i].round <= w.round
      BY <2>3, <2>4, <3>1
    <3>. QED
      BY <3>1, <3>2 DEF VotesIn
  <2>6. First(w.block)
    BY <2>2, <2>5 DEF VotesStay
  <2>7. Commit(i, round[i], w.block).kind = "commit" /\ Commit(i, round[i], w.block).block = w.block
    BY DEF Commit
  <2>. QED
    BY <1>1, <1>2, <2>1, <2>6, <2>7, CertificateStep DEF endProposals
<1>. QED
  BY <1>3, <1>4

\* t+1 commits are at least one.
LEMMA SubsetIsFirst == ASSUME IInv, NEW i \in Up, NEW b, Subset(i, b) PROVE First(b)
<1>. DEFINE S == {j \in Up : <<j, b>> \in committed[i]}
<1>1. S # {}
  <2>1. SUFFICES ASSUME S = {} PROVE FALSE
    OBVIOUS
  <2>2. Cardinality(S) = 0
    BY <2>1, FS_EmptySet
  <2>. QED
    BY <2>2, BLAConstants DEF Subset, Enough
<1>2. PICK j \in Up : <<j, b>> \in committed[i]
  BY <1>1
<1>. QED
  BY <1>2 DEF IInv, AllFirst

LEMMA StepFindSubset == ASSUME IInv, TypeOK', NEW i \in Up, findSubset(i) PROVE IInv'
<1>. USE DEF IInv
<1>1. /\ phase' \in [Up -> Phase] /\ phase'[i] # "handleVotes"
      /\ \A j \in Up \ {i} : phase'[j] = phase[j]
  BY DEF findSubset, TypeOK
<1>2. \A j \in Up : committed'[j] \subseteq committed[j]
  BY DEF findSubset, TypeOK
<1>3. CASE UNCHANGED msgs
  <2>1. CollectorLeads'
    BY <1>1, <1>3 DEF findSubset, CollectorLeads
  <2>. QED
    BY <1>2, <1>3, <2>1, QuietStep DEF findSubset, VotesWereSent, AllFirst
<1>4. ASSUME NEW b \in Value, Subset(i, b), msgs' = msgs \cup {Notify(i, round[i], b)} PROVE IInv'
  <2>1. Notify(i, round[i], b).kind = "notify" /\ Notify(i, round[i], b).block = b
    BY DEF Notify
  <2>. QED
    BY <1>1, <1>2, <1>4, <2>1, SubsetIsFirst, CertificateStep DEF findSubset
<1>. QED
  BY <1>3, <1>4 DEF findSubset

\* The proposal of the first round is made before there is any certificate.
LEMMA StepPropose == ASSUME IInv, TypeOK', NEW i \in Up, propose(i) PROVE IInv'
<1>. USE DEF IInv
<1>1. /\ phase[i] = "handleVotes" /\ i = Leader(round[i])
      /\ phase'[i] = "run" /\ \A j \in Up \ {i} : phase'[j] = phase[j]
      /\ round[i] = 0 => \A m \in msgs : m.kind = "propose" => m.round # 0
  BY DEF propose, TypeOK, CollectorLeads
<1>2. CASE UNCHANGED msgs
  <2>1. CollectorLeads'
    BY <1>1, <1>2 DEF propose, CollectorLeads
  <2>2. \A j \in Up : votes'[j] \subseteq VotesIn(msgs)
    BY <1>2 DEF propose, VotesWereSent, TypeOK
  <2>. QED
    BY <1>2, <2>1, <2>2, QuietStep DEF propose, VotesWereSent, AllFirst
<1>3. ASSUME NEW v \in votes[i], msgs' = msgs \cup {Proposal(round[i], v, votes[i])} PROVE IInv'
  <2>. DEFINE p == Proposal(round[i], v, votes[i])
  <2>1. p.kind = "propose" /\ p.round = round[i] /\ p.vote = v
    BY DEF Proposal
  <2>2. VotesIn(msgs') = VotesIn(msgs)
    BY <1>3, <2>1, VotesInStays
  <2>3. \A b : First(b) => First(b)'
    BY <1>3 DEF First
  <2>4. CollectorLeads'
    <3>1. SUFFICES ASSUME NEW j \in Up, phase'[j] = "handleVotes"
                   PROVE  /\ j = Leader(round[j])
                          /\ round[j] = 0 => \A m \in msgs' : m.kind = "propose" => m.round # 0
      BY DEF propose, CollectorLeads
    <3>2. j # i /\ phase[j] = "handleVotes" /\ j = Leader(round[j])
      BY <1>1, <3>1 DEF CollectorLeads
    <3>3. round[j] = 0 => round[i] # 0
      BY <1>1, <3>2
    <3>. QED
      BY <1>3, <2>1, <3>2, <3>3 DEF CollectorLeads
  <2>5. VotesWereSent'
    <3>1. v \in VotesIn(msgs)
      BY <1>3 DEF VotesWereSent
    <3>2. \A j \in Up : votes'[j] \subseteq VotesIn(msgs)
      BY DEF propose, VotesWereSent, TypeOK
    <3>. QED
      BY <1>3, <2>1, <2>2, <3>1, <3>2 DEF VotesWereSent, propose
  <2>6. VotesHeld'
    BY <2>2, <2>3 DEF VotesHeld, propose
  <2>7. VotesStay'
    <3>1. CASE round[i] = 0
      <4>1. \A b : ~First(b)
        BY <1>1, <3>1 DEF First
      <4>2. \A x, y \in VotesIn(msgs) : x.sender = y.sender => x.block = y.block
        BY <4>1 DEF VotesHeld
      <4>. QED
        BY <2>2, <4>2 DEF VotesStay
    <3>2. CASE round[i] # 0
      <4>1. \A b : First(b) <=> First(b)'
        BY <1>3, <2>1, <3>2, FirstStays
      <4>. QED
        BY <2>2, <4>1 DEF VotesStay
    <3>. QED
      BY <3>1, <3>2
  <2>8. AllFirst'
    <3>1. \A m \in msgs' : m.kind \in {"commit", "notify"} => First(m.block)'
      BY <1>3, <2>1, <2>3 DEF AllFirst
    <3>. QED
      BY <2>2, <2>3, <3>1 DEF AllFirst, propose
  <2>9. OutputIsFirst'
    <3>1. OneProposal'
      BY <1>1, <1>3, <2>1 DEF OutputIsFirst, OneProposal
    <3>. QED
      BY <2>3, <3>1 DEF OutputIsFirst, propose
  <2>. QED
    BY <2>4, <2>5, <2>6, <2>7, <2>8, <2>9
<1>. QED
  BY <1>2, <1>3 DEF propose

\* What a node adopts was notified.
LEMMA StepGraded ==
    ASSUME IInv, TypeOK', NEW i \in Up, NEW b \in Value, NEW j \in Up,
           Notify(j, round[i], b) \in msgs, Graded(i, b),
           \/ UNCHANGED out
           \/ out' = [out EXCEPT ![i] = Append(@, b)],
           UNCHANGED <<round, votes, proposed, committed, msgs>>
    PROVE  IInv'
<1>. USE DEF IInv
<1>1. \A c : First(c) <=> First(c)'
  BY DEF First
<1>2. First(b)
  BY DEF Notify, AllFirst
<1>3. \A k \in Up : \/ blockShare'[k] = blockShare[k] /\ commits'[k] = commits[k]
                    \/ blockShare'[k] = b
  BY DEF Graded, TypeOK
<1>4. CollectorLeads'
  <2>1. \A k \in Up : phase'[k] = "handleVotes" => phase[k] = "handleVotes"
    BY DEF Graded, TypeOK
  <2>. QED
    BY <2>1 DEF CollectorLeads
<1>5. VotesWereSent'
  BY DEF VotesWereSent
<1>6. VotesHeld'
  <2>1. \A v \in VotesIn(msgs) : v.sender \in Up
    BY VoteType DEF VoteMessage
  <2>. QED
    BY <1>1, <1>2, <1>3, <2>1 DEF VotesHeld
<1>7. VotesStay'
  BY <1>1 DEF VotesStay
<1>8. AllFirst'
  BY <1>1, <1>2, <1>3 DEF AllFirst
<1>9. OutputIsFirst'
  <2>1. OneProposal'
    BY DEF OutputIsFirst, OneProposal
  <2>2. \A k \in Up : \A n \in DOMAIN out'[k] :
            \/ n \in DOMAIN out[k] /\ out'[k][n] = out[k][n]
            \/ out'[k][n] = b
    <3>1. \A s \in Seq(Value) : \A n \in DOMAIN Append(s, b) :
             (n \in DOMAIN s /\ Append(s, b)[n] = s[n]) \/ Append(s, b)[n] = b
      OBVIOUS
    <3>2. \A k \in Up : out[k] \in Seq(Value) /\ out'[k] \in {out[k], Append(out[k], b)}
      BY DEF TypeOK
    <3>3. ASSUME NEW k \in Up, NEW n \in DOMAIN out'[k]
          PROVE  (n \in DOMAIN out[k] /\ out'[k][n] = out[k][n]) \/ out'[k][n] = b
      <4>1. CASE out'[k] = out[k]
        BY <3>3, <4>1
      <4>2. CASE out'[k] = Append(out[k], b)
        BY <3>1, <3>2, <3>3, <4>2
      <4>. QED
        BY <3>2, <4>1, <4>2
    <3>. QED
      BY <3>3
  <2>. QED
    BY <1>1, <1>2, <2>1, <2>2 DEF OutputIsFirst
<1>. QED
  BY <1>4, <1>5, <1>6, <1>7, <1>8, <1>9

\* A vote of a new round is for what the node has.
LEMMA StepIncrement == ASSUME IInv, TypeOK', NEW i \in Up, incrementRound(i) PROVE IInv'
<1>. USE DEF IInv
<1>1. CASE ~Another(i)
  <2>1. \A k \in Up : phase'[k] = "handleVotes" => phase[k] = "handleVotes"
    BY <1>1 DEF incrementRound, TypeOK
  <2>2. CollectorLeads'
    BY <1>1, <2>1 DEF incrementRound, CollectorLeads
  <2>. QED
    BY <1>1, <2>2, QuietStep DEF incrementRound, VotesWereSent, AllFirst
<1>2. CASE Another(i)
  <2>. DEFINE w == Vote(i, round[i] + 1, blockShare[i], commits[i])
  <2>1. w.kind = "vote" /\ w.sender = i /\ w.round = round[i] + 1 /\ w.block = blockShare[i]
        /\ w.commits = commits[i]
    BY DEF Vote
  <2>2. msgs' = msgs \cup {w} /\ VotesIn(msgs') = VotesIn(msgs) \cup {w}
    BY <1>2, <2>1 DEF incrementRound, VotesIn
  <2>3. /\ \A b : First(b) <=> First(b)'
        /\ OneProposal => OneProposal'
    BY <2>1, <2>2, FirstStays
  <2>4. \A k \in Up : round[k] \in Nat
    BY RoundIsNat DEF TypeOK
  <2>5. round'[i] = round[i] + 1 /\ \A k \in Up \ {i} : round'[k] = round[k]
    BY <1>2 DEF incrementRound, TypeOK
  <2>6. CollectorLeads'
    <3>1. phase'[i] = "handleVotes" => i = Leader(round'[i])
      BY <1>2, <2>5 DEF incrementRound, TypeOK, Begin
    <3>2. \A k \in Up \ {i} : phase'[k] = phase[k]
      BY <1>2 DEF incrementRound, TypeOK
    <3>. QED
      BY <2>1, <2>2, <2>4, <2>5, <3>1, <3>2 DEF CollectorLeads
  <2>7. VotesWereSent'
    BY <2>1, <2>2 DEF VotesWereSent, incrementRound
  <2>8. \A v \in VotesIn(msgs) : v.sender \in Up /\ v.round \in Nat
    BY VoteType, RoundIsNat DEF VoteMessage
  <2>9. VotesHeld'
    <3>1. blockShare' = blockShare
      BY DEF incrementRound
    <3>2. \A v \in VotesIn(msgs) : v.round <= round'[v.sender]
      BY <2>4, <2>5, <2>8 DEF VotesHeld
    <3>3. w.round <= round'[w.sender]
      BY <2>1, <2>4, <2>5
    <3>4. \A v \in VotesIn(msgs') : v.round <= round'[v.sender]
      BY <2>2, <3>2, <3>3
    <3>5. \A v \in VotesIn(msgs') : v.block = blockShare[v.sender] \/ First(blockShare[v.sender])
      BY <2>1, <2>2 DEF VotesHeld
    <3>6. \A v \in VotesIn(msgs') : (v.block = blockShare[v.sender] \/ First(blockShare[v.sender]))'
      BY <2>3, <3>1, <3>5
    <3>. QED
      BY <3>4, <3>6 DEF VotesHeld
  <2>10. VotesStay'
    <3>1. \A v \in VotesIn(msgs) : v.sender = i => ~(w.round <= v.round)
      BY <2>1, <2>4, <2>8 DEF VotesHeld
    <3>2. \A v \in VotesIn(msgs) : v.sender = i /\ First(v.block) => First(w.block)
      BY <2>1 DEF VotesHeld
    <3>. QED
      BY <2>1, <2>2, <2>3, <3>1, <3>2 DEF VotesStay
  <2>11. AllFirst'
    <3>1. \A v \in VotesIn(msgs') : v.commits # NoCommits => First(v.block)'
      BY <2>1, <2>2, <2>3 DEF AllFirst
    <3>2. \A m \in msgs' : m.kind \in {"commit", "notify"} => First(m.block)'
      BY <2>1, <2>2, <2>3 DEF AllFirst
    <3>3. \A j \in Up : /\ (proposed[j] # None => First(proposed[j].block))'
                        /\ (\A e \in committed[j] : First(e[2]))'
                        /\ (commits[j] # NoCommits => First(blockShare[j]))'
      BY <2>3 DEF AllFirst, incrementRound
    <3>. QED
      BY <3>1, <3>2, <3>3 DEF AllFirst
  <2>12. OutputIsFirst'
    BY <2>3 DEF OutputIsFirst, incrementRound
  <2>. QED
    BY <2>6, <2>7, <2>9, <2>10, <2>11, <2>12
<1>. QED
  BY <1>1, <1>2

LEMMA StepIInv == IInv /\ [Next]_vars => IInv'
<1>1. SUFFICES ASSUME IInv, [Next]_vars PROVE IInv'
  OBVIOUS
<1>2. TypeOK'
  BY <1>1, StepType DEF IInv
<1>3. ASSUME NEW i \in Up, OnTick(i) PROVE IInv'
  <2>1. CASE terminate(i)
    BY <1>1, <1>2, <2>1, StepGraded DEF terminate
  <2>. QED
    BY <1>1, <1>2, <1>3, <2>1, StepPropose, StepQuiet, StepEndProposals, StepFindSubset, StepIncrement
    DEF OnTick
<1>4. ASSUME NEW i \in Up, NEW m \in msgs, OnMessage(i, m) PROVE IInv'
  <2>1. CASE handleNotify(i, m)
    <3>1. m \in NotifyMessage /\ m.round = round[i]
      BY <1>1, <2>1, MessageKinds DEF IInv, TypeOK, handleNotify
    <3>2. m = Notify(m.sender, round[i], m.block) /\ m.sender \in Up /\ m.block \in Value
      BY <3>1 DEF NotifyMessage, Notify
    <3>. QED
      BY <1>1, <1>2, <2>1, <3>2, StepGraded DEF handleNotify
  <2>. QED
    BY <1>1, <1>2, <1>4, <2>1, StepQuiet DEF OnMessage
<1>5. CASE UNCHANGED vars
  BY <1>1, <1>2, <1>5, QuietStep DEF vars, IInv, CollectorLeads, VotesWereSent, AllFirst
<1>. QED
  BY <1>1, <1>3, <1>4, <1>5 DEF Next

LEMMA Inductive == Spec => []IInv
BY InitIInv, StepIInv, PTL DEF Spec

-------------------------------------------------------------------------------
(* What follows *)

\* Every block share that is output, in any round, is the one that the leader of
\* the first round proposed in it: without that proposal there is no output.
THEOREM OutputsAreFirst == Spec => []OutputIsFirst
<1>1. IInv => OutputIsFirst
  BY DEF IInv
<1>. QED
  BY <1>1, Inductive, PTL

LEMMA OutputType ==
    ASSUME TypeOK, NEW i \in Up
    PROVE  /\ Output[i] \in Value \cup {None}
           /\ Output[i] # None => 1 \in DOMAIN out[i] /\ Output[i] = out[i][1]
BY DEF TypeOK, Output

\* Nobody's first output differs from another's.
Agreement == \A i, j \in Up : Output[i] # None /\ Output[j] # None => Output[i] = Output[j]

THEOREM OutputsAgree == Spec => []Agreement
<1>1. ASSUME IInv, NEW i \in Up, NEW j \in Up, Output[i] # None, Output[j] # None
      PROVE  Output[i] = Output[j]
  <2>1. First(Output[i]) /\ First(Output[j]) /\ OneProposal
    BY <1>1, OutputType DEF IInv, OutputIsFirst
  <2>2. PICK m \in msgs : m.kind = "propose" /\ m.round = 0 /\ m.vote.block = Output[i]
    BY <2>1 DEF First
  <2>3. PICK n \in msgs : n.kind = "propose" /\ n.round = 0 /\ n.vote.block = Output[j]
    BY <2>1 DEF First
  <2>4. m = n
    BY <2>1, <2>2, <2>3 DEF OneProposal
  <2>. QED
    BY <2>2, <2>3, <2>4
<1>2. IInv => Agreement
  BY <1>1 DEF Agreement
<1>. QED
  BY <1>2, Inductive, PTL

\* The first output of a node never changes, and nobody's differs: the block
\* agreement implements the abstract one.
THEOREM ImplementsAgreement == Spec => AgreesOnOne
<1>1. Init => Agreed!Init
  BY DEF Init, Agreed!Init, Output
<1>2. IInv /\ Agreement' /\ [Next]_vars => [Agreed!Next]_Output
  <2>1. SUFFICES ASSUME IInv, Agreement', [Next]_vars, Output' # Output PROVE Agreed!Next
    BY DEF Agreed!Next
  <2>2. PICK i \in Up : terminate(i)
    <3>1. UNCHANGED out => Output' = Output
      BY DEF Output
    <3>2. ~UNCHANGED out => \E i \in Up : terminate(i)
      BY <2>1 DEF Next, OnTick, OnMessage, vars, propose, runPropose, endProposals, findSubset, giveUp,
         incrementRound, handleVote, handleProposal, handleCommit, handleNotify
    <3>. QED
      BY <2>1, <3>1, <3>2
  <2>3. PICK b \in Value : out' = [out EXCEPT ![i] = Append(@, b)]
    BY <2>2 DEF terminate
  <2>4. out \in [Up -> Seq(Value)] /\ None \notin Value
    BY <2>1, BLAConstants DEF IInv, TypeOK
  <2>5. \A j \in Up \ {i} : Output'[j] = Output[j]
    BY <2>3, <2>4 DEF Output
  <2>6. CASE out[i] # <<>>
    <3>1. Output'[i] = Output[i]
      BY <2>3, <2>4, <2>6 DEF Output
    <3>2. Output' = Output
      BY <2>5, <3>1 DEF Output
    <3>. QED
      BY <2>1, <3>2
  <2>7. CASE out[i] = <<>>
    <3>1. Output[i] = None /\ Output'[i] = b /\ b # None
      BY <2>3, <2>4, <2>7 DEF Output
    <3>2. \A j \in Up : Output'[j] # None => Output'[j] = b
      BY <2>1, <3>1 DEF Agreement
    <3>3. \A j \in Up : Output[j] \in {None, b}
      BY <2>5, <3>1, <3>2
    <3>4. Output' = [Output EXCEPT ![i] = b]
      BY <2>5, <3>1 DEF Output
    <3>5. Agreed!Decide(i, Output'[i])
      BY <3>1, <3>3, <3>4 DEF Agreed!Decide
    <3>. QED
      BY <3>5 DEF Agreed!Next
  <2>. QED
    BY <2>6, <2>7
<1>3. Spec => [][Agreed!Next]_Output
  BY <1>2, Inductive, OutputsAgree, PTL DEF Spec
<1>. QED
  BY <1>1, <1>3, PTL DEF Spec, AgreesOnOne, Agreed!Spec

-------------------------------------------------------------------------------
(* Certificates *)

\* Who committed to b in round r.
Committers(r, b) == {j \in Up : Commit(j, r, b) \in msgs}

\* Commits are collected in their round, and dropped at its end.
Collected ==
    \A i \in Up :
        /\ \A e \in committed[i] : Commit(e[1], round[i], e[2]) \in msgs
        /\ committed[i] # {} => phase[i] = "handleCommits"

\* A notify stands for the commits that come with it.
NotifiesBacked == \A m \in msgs : m.kind = "notify" => Enough(Committers(m.round, m.block))

CInv == TypeOK /\ Collected /\ NotifiesBacked /\ Certified

LEMMA EnoughMonotone ==
    ASSUME NEW Q \in SUBSET Up, NEW R \in SUBSET Up, Q \subseteq R, Enough(Q)
    PROVE  Enough(R)
<1>1. IsFiniteSet(Up)
  <2>1. IsFiniteSet(0 .. N - 1)
    BY FS_Interval, BLAConstants
  <2>. QED
    BY <2>1, FS_Subset DEF Up, Node
<1>2. IsFiniteSet(R)
  BY <1>1, FS_Subset
<1>3. IsFiniteSet(Q) /\ Cardinality(Q) <= Cardinality(R) /\ Cardinality(Q) \in Nat /\ Cardinality(R) \in Nat
  BY <1>2, FS_Subset, FS_CardinalityType
<1>. QED
  BY <1>3, BLAConstants DEF Enough

LEMMA StepCertified == CInv /\ [Next]_vars => CInv'
<1>1. SUFFICES ASSUME CInv, [Next]_vars PROVE CInv'
  OBVIOUS
<1>. USE DEF CInv
<1>2. TypeOK'
  BY <1>1, StepType
<1>3. msgs \subseteq msgs'
  BY <1>1 DEF Next, OnTick, OnMessage, vars, propose, runPropose, endProposals, findSubset, terminate, giveUp,
     incrementRound, handleVote, handleProposal, handleCommit, handleNotify
<1>4. \A r, b : Enough(Committers(r, b)) => Enough(Committers(r, b)')
  BY <1>3, EnoughMonotone DEF Committers
<1>5. \A i \in Up : \A b : Subset(i, b) => Enough(Committers(round[i], b))
  <2>1. ASSUME NEW i \in Up, NEW b, Subset(i, b) PROVE Enough(Committers(round[i], b))
    <3>1. {j \in Up : <<j, b>> \in committed[i]} \subseteq Committers(round[i], b)
      BY <1>1 DEF Committers, Collected
    <3>. QED
      BY <2>1, <3>1, EnoughMonotone DEF Subset, Committers
  <2>. QED
    BY <2>1
<1>6. \A m \in msgs' \ msgs : m.kind = "notify" => Enough(Committers(m.round, m.block))
  <2>1. ASSUME NEW i \in Up, findSubset(i)
        PROVE  \A m \in msgs' \ msgs : m.kind = "notify" => Enough(Committers(m.round, m.block))
    BY <1>5, <2>1 DEF findSubset, Notify
  <2>2. ASSUME NEW i \in Up, propose(i) \/ endProposals(i) \/ incrementRound(i)
        PROVE  \A m \in msgs' \ msgs : m.kind # "notify"
    BY <2>2 DEF propose, endProposals, incrementRound, Proposal, Commit, Vote
  <2>3. ASSUME NEW i \in Up, \/ runPropose(i) \/ terminate(i) \/ giveUp(i)
                             \/ \E m \in msgs : OnMessage(i, m)
        PROVE  msgs' = msgs
    BY <2>3 DEF runPropose, terminate, giveUp, OnMessage, handleVote, handleProposal, handleCommit, handleNotify
  <2>. QED
    BY <1>1, <2>1, <2>2, <2>3 DEF Next, OnTick, vars
<1>7. NotifiesBacked'
  BY <1>1, <1>4, <1>6 DEF NotifiesBacked
<1>8. ASSUME NEW i \in Up
      PROVE  \/ blockShare'[i] = blockShare[i] /\ commits'[i] = commits[i]
             \/ Enough(Committers(commits'[i], blockShare'[i]))
  <2>1. ASSUME NEW j \in Up, NEW m \in msgs, m.kind = "notify", m.round = round[j], Graded(j, m.block)
        PROVE  \/ blockShare'[i] = blockShare[i] /\ commits'[i] = commits[i]
               \/ Enough(Committers(commits'[i], blockShare'[i]))
    BY <1>1, <2>1 DEF Graded, TypeOK, NotifiesBacked
  <2>2. ASSUME NEW j \in Up, terminate(j)
        PROVE  \E m \in msgs : m.kind = "notify" /\ m.round = round[j] /\ Graded(j, m.block)
    BY <2>2 DEF terminate, Notify
  <2>3. ASSUME NEW j \in Up, NEW m \in msgs, handleNotify(j, m)
        PROVE  m.kind = "notify" /\ m.round = round[j] /\ Graded(j, m.block)
    BY <2>3 DEF handleNotify
  <2>4. \/ UNCHANGED <<blockShare, commits>>
        \/ \E j \in Up : terminate(j)
        \/ \E j \in Up : \E m \in msgs : handleNotify(j, m)
    BY <1>1 DEF Next, OnTick, OnMessage, vars, propose, runPropose, endProposals, findSubset, giveUp,
       incrementRound, handleVote, handleProposal, handleCommit
  <2>. QED
    BY <2>1, <2>2, <2>3, <2>4
<1>9. Certified'
  <2>1. \A i \in Up : commits'[i] # NoCommits => Enough(Committers(commits'[i], blockShare'[i]))
    BY <1>1, <1>8 DEF Certified, Committers
  <2>2. ASSUME NEW i \in Up, commits'[i] # NoCommits
        PROVE  Enough({j \in Up : Commit(j, commits'[i], blockShare'[i]) \in msgs'})
    <3>1. Enough({j \in Up : Commit(j, commits'[i], blockShare'[i]) \in msgs})
      BY <2>1, <2>2 DEF Committers
    <3>. QED
      BY <1>3, <3>1, EnoughMonotone
  <2>. QED
    BY <2>2 DEF Certified
<1>10. Collected'
  <2>. DEFINE Kept(i) == /\ committed'[i] = committed[i]
                         /\ phase[i] = "handleCommits" => phase'[i] = phase[i] /\ round'[i] = round[i]
  <2>1. ASSUME NEW j \in Up, OnTick(j), NEW i \in Up PROVE committed'[i] = {} \/ Kept(i)
    <3>1. CASE findSubset(j)
      BY <1>1, <3>1 DEF findSubset, TypeOK
    <3>2. CASE propose(j) \/ runPropose(j) \/ endProposals(j)
      BY <1>1, <3>2 DEF propose, runPropose, endProposals, TypeOK
    <3>3. CASE terminate(j) \/ giveUp(j) \/ incrementRound(j)
      BY <1>1, <3>3 DEF terminate, giveUp, incrementRound, Graded, TypeOK
    <3>. QED
      BY <2>1, <3>1, <3>2, <3>3 DEF OnTick
  <2>2. ASSUME NEW j \in Up, NEW m \in msgs, handleCommit(j, m)
        PROVE  /\ UNCHANGED <<round, phase>>
               /\ \A i \in Up : \A e \in committed'[i] :
                    \/ e \in committed[i]
                    \/ phase[i] = "handleCommits" /\ Commit(e[1], round[i], e[2]) \in msgs
    <3>1. m \in CommitMessage /\ m.round = round[j]
      BY <1>1, <2>2, MessageKinds DEF handleCommit, TypeOK
    <3>2. m = Commit(m.sender, round[j], m.block)
      BY <3>1 DEF CommitMessage, Commit
    <3>. QED
      BY <1>1, <2>2, <3>2 DEF handleCommit, TypeOK
  <2>3. ASSUME NEW j \in Up, NEW m \in msgs, OnMessage(j, m), ~handleCommit(j, m), NEW i \in Up PROVE Kept(i)
    BY <1>1, <2>3 DEF OnMessage, handleVote, handleProposal, handleNotify, Graded, TypeOK
  <2>4. CASE \A i \in Up : committed'[i] = {} \/ Kept(i)
    BY <1>1, <1>3, <2>4 DEF Collected
  <2>5. CASE \E j \in Up : \E m \in msgs : handleCommit(j, m)
    BY <1>1, <1>3, <2>2, <2>5 DEF Collected
  <2>. QED
    BY <1>1, <2>1, <2>3, <2>4, <2>5 DEF Next, vars
<1>. QED
  BY <1>2, <1>7, <1>9, <1>10

\* A block share that a node adopted has t+1 commits of one round behind it.
THEOREM CertifiedAlways == Spec => []Certified
<1>1. Init => CInv
  BY InitType DEF CInv, Init, Collected, NotifiesBacked, Certified, Vote
<1>2. CInv => Certified
  BY DEF CInv
<1>. QED
  BY <1>1, <1>2, StepCertified, PTL DEF Spec

-------------------------------------------------------------------------------
(* Proposals *)

\* The leader of a round proposes in it once, when it is done with collecting,
\* and what it proposes are votes of that round, of enough nodes.
ProposalsFit ==
    \A m \in msgs : m.kind = "propose" =>
        /\ Leader(m.round) \in Up /\ m.round <= round[Leader(m.round)]
        /\ phase[Leader(m.round)] = "handleVotes" => m.round < round[Leader(m.round)]
        /\ Enough(Senders(m.votes))
        /\ m.vote \in m.votes
        /\ \A v \in m.votes : v.round = m.round

SoleProposals ==
    \A m1, m2 \in msgs : m1.kind = "propose" /\ m2.kind = "propose" /\ m1.round = m2.round => m1 = m2

VotesFit ==
    \A i \in Up :
        /\ votes[i] # {} => phase[i] = "handleVotes"
        /\ \A v \in votes[i] : v.round = round[i]
        /\ phase[i] = "handleVotes" => i = Leader(round[i])

\* Whether a proposal has the commits that are asked for is the same for all
\* who look at it; nothing is committed to without.
Accepted(r) == \E m \in msgs : m.kind = "propose" /\ m.round = r /\ hasCommits(m)
Refused(r) == \E m \in msgs : m.kind = "propose" /\ m.round = r /\ ~hasCommits(m)

CommitsFit ==
    /\ \A m \in msgs : m.kind = "commit" => Accepted(m.round)
    /\ \A i \in Up : proposed[i] # None => phase[i] = "handleProposals" /\ Accepted(round[i])

PInv == ProposalsFit /\ SoleProposals /\ VotesFit /\ CommitsFit

LEMMA InitPInv == Init => PInv
BY DEF Init, PInv, ProposalsFit, SoleProposals, VotesFit, CommitsFit, Begin, Vote

\* A step in which nobody proposes, accepts or commits.
LEMMA PlainStep ==
    ASSUME TypeOK, PInv, UNCHANGED <<round, votes>>,
           msgs \subseteq msgs', \A m \in msgs' \ msgs : m.kind \notin {"propose", "commit"},
           \A j \in Up : phase'[j] = "handleVotes" <=> phase[j] = "handleVotes",
           \A j \in Up : proposed'[j] # None =>
               proposed'[j] = proposed[j] /\ phase'[j] = phase[j]
    PROVE  PInv'
<1>. USE DEF PInv
<1>1. \A r : Accepted(r) => Accepted(r)'
  BY DEF Accepted, hasCommits
<1>2. ProposalsFit'
  BY DEF ProposalsFit, Enough, Senders
<1>3. SoleProposals'
  BY DEF SoleProposals
<1>4. VotesFit'
  BY DEF VotesFit
<1>5. CommitsFit'
  BY <1>1 DEF CommitsFit
<1>. QED
  BY <1>2, <1>3, <1>4, <1>5

LEMMA StepPlain ==
    ASSUME TypeOK, PInv, NEW i \in Up,
           \/ runPropose(i) \/ findSubset(i) \/ terminate(i) \/ giveUp(i)
           \/ \E m \in msgs : handleCommit(i, m) \/ handleNotify(i, m)
    PROVE  PInv'
<1>1. phase[i] \notin {"handleVotes", "handleProposals"} /\ phase'[i] # "handleVotes"
  BY DEF TypeOK, runPropose, findSubset, terminate, giveUp, handleCommit, handleNotify, Graded
<1>2. /\ UNCHANGED <<round, votes, proposed>>
      /\ \A j \in Up \ {i} : phase'[j] = phase[j]
  BY DEF TypeOK, runPropose, findSubset, terminate, giveUp, handleCommit, handleNotify, Graded
<1>3. msgs \subseteq msgs' /\ \A m \in msgs' \ msgs : m.kind = "notify"
  BY DEF runPropose, findSubset, terminate, giveUp, handleCommit, handleNotify, Notify
<1>4. proposed[i] = None
  BY <1>1 DEF PInv, CommitsFit
<1>. QED
  BY <1>1, <1>2, <1>3, <1>4, PlainStep

LEMMA PropStepPropose == ASSUME TypeOK, PInv, NEW i \in Up, propose(i) PROVE PInv'
<1>. USE DEF PInv
<1>1. /\ phase[i] = "handleVotes" /\ phase'[i] = "run" /\ votes'[i] = {}
      /\ \A j \in Up \ {i} : phase'[j] = phase[j] /\ votes'[j] = votes[j]
      /\ UNCHANGED <<round, proposed>> /\ i = Leader(round[i])
  BY DEF propose, TypeOK, VotesFit
<1>2. \A r : Accepted(r) => Accepted(r)'
  BY DEF Accepted, hasCommits, propose
<1>3. VotesFit'
  BY <1>1 DEF VotesFit
<1>4. CommitsFit'
  <2>1. \A m \in msgs' : m.kind = "commit" => m \in msgs
    BY DEF propose, Proposal
  <2>. QED
    BY <1>1, <1>2, <2>1 DEF CommitsFit
<1>5. CASE UNCHANGED msgs
  <2>1. ProposalsFit' /\ SoleProposals'
    BY <1>1, <1>5 DEF ProposalsFit, SoleProposals, Enough, Senders
  <2>. QED
    BY <1>3, <1>4, <2>1
<1>6. ASSUME NEW v \in votes[i], Enough(Senders(votes[i])),
             msgs' = msgs \cup {Proposal(round[i], v, votes[i])}
      PROVE  PInv'
  <2>. DEFINE p == Proposal(round[i], v, votes[i])
  <2>1. /\ p.kind = "propose" /\ p.round = round[i] /\ p.vote = v /\ p.votes = votes[i]
    BY DEF Proposal
  <2>2. \A m \in msgs : m.kind = "propose" => m.round # round[i]
    <3>1. round[i] \in Nat
      BY RoundIsNat DEF TypeOK
    <3>. QED
      BY <1>1, <3>1 DEF ProposalsFit
  <2>3. round[i] \in Nat
    BY RoundIsNat DEF TypeOK
  <2>4. ProposalsFit'
    <3>1. \A m \in msgs : m.kind = "propose" =>
              /\ Leader(m.round) \in Up /\ m.round <= round'[Leader(m.round)]
              /\ phase'[Leader(m.round)] = "handleVotes" => m.round < round'[Leader(m.round)]
              /\ Enough(Senders(m.votes))
              /\ m.vote \in m.votes
              /\ \A w \in m.votes : w.round = m.round
      BY <1>1 DEF ProposalsFit
    <3>2. /\ Leader(p.round) \in Up /\ p.round <= round'[Leader(p.round)]
          /\ phase'[Leader(p.round)] # "handleVotes"
          /\ Enough(Senders(p.votes))
          /\ p.vote \in p.votes
          /\ \A w \in p.votes : w.round = p.round
      BY <1>1, <1>6, <2>1, <2>3 DEF VotesFit
    <3>. HIDE DEF p
    <3>3. msgs' = msgs \cup {p}
      BY <1>6 DEF p
    <3>. QED
      BY <3>1, <3>2, <3>3 DEF ProposalsFit, Enough, Senders
  <2>5. SoleProposals'
    <3>1. \A m \in msgs' : m \in msgs \/ m = p
      BY <1>6
    <3>. QED
      BY <2>1, <2>2, <3>1 DEF SoleProposals
  <2>. QED
    BY <1>3, <1>4, <2>4, <2>5
<1>. QED
  BY <1>5, <1>6 DEF propose

LEMMA PropStepVote == ASSUME TypeOK, PInv, NEW i \in Up, NEW m \in msgs, handleVote(i, m) PROVE PInv'
<1>. USE DEF PInv
<1>1. VotesFit'
  BY DEF VotesFit, handleVote, TypeOK
<1>2. ProposalsFit' /\ SoleProposals' /\ CommitsFit'
  BY DEF ProposalsFit, SoleProposals, CommitsFit, Accepted, hasCommits, Enough, Senders, handleVote
<1>. QED
  BY <1>1, <1>2

LEMMA PropStepProposal == ASSUME TypeOK, PInv, NEW i \in Up, NEW m \in msgs, handleProposal(i, m) PROVE PInv'
<1>. USE DEF PInv
<1>1. /\ phase[i] = "handleProposals" /\ UNCHANGED <<round, votes, msgs>>
      /\ \A j \in Up \ {i} : phase'[j] = phase[j] /\ proposed'[j] = proposed[j]
      /\ m.kind = "propose" /\ m.round = round[i] /\ proposed[i] = None
  BY DEF handleProposal, TypeOK
<1>2. \/ phase'[i] = phase[i] /\ hasCommits(m)
      \/ phase'[i] = "handleCommits" /\ proposed'[i] = None
  BY <1>1 DEF handleProposal, isValidProposal, TypeOK
<1>3. VotesFit'
  BY <1>1, <1>2 DEF VotesFit
<1>4. ProposalsFit' /\ SoleProposals'
  BY <1>1, <1>2 DEF ProposalsFit, SoleProposals, Enough, Senders
<1>5. CommitsFit'
  BY <1>1, <1>2 DEF CommitsFit, Accepted, hasCommits
<1>. QED
  BY <1>3, <1>4, <1>5

LEMMA PropStepCommit == ASSUME TypeOK, PInv, NEW i \in Up, endProposals(i) PROVE PInv'
<1>. USE DEF PInv
<1>1. /\ phase[i] = "handleProposals" /\ phase'[i] = "handleCommits" /\ proposed'[i] = None
      /\ \A j \in Up \ {i} : phase'[j] = phase[j] /\ proposed'[j] = proposed[j]
      /\ UNCHANGED <<round, votes>>
  BY DEF endProposals, TypeOK
<1>2. /\ msgs \subseteq msgs'
      /\ \A m \in msgs' \ msgs : m.kind = "commit" /\ m.round = round[i] /\ Accepted(round[i])
  BY DEF endProposals, CommitsFit, Commit
<1>3. \A r : Accepted(r) => Accepted(r)'
  BY <1>2 DEF Accepted, hasCommits
<1>4. VotesFit'
  BY <1>1 DEF VotesFit
<1>5. ProposalsFit' /\ SoleProposals'
  BY <1>1, <1>2 DEF ProposalsFit, SoleProposals, Enough, Senders
<1>6. CommitsFit'
  BY <1>1, <1>2, <1>3 DEF CommitsFit
<1>. QED
  BY <1>4, <1>5, <1>6

LEMMA PropStepIncrement == ASSUME TypeOK, PInv, NEW i \in Up, incrementRound(i) PROVE PInv'
<1>. USE DEF PInv
<1>1. /\ phase[i] = "roundOver" /\ UNCHANGED <<votes, proposed>>
      /\ \A j \in Up \ {i} : phase'[j] = phase[j] /\ round'[j] = round[j]
      /\ round[i] \in Nat
  BY RoundIsNat DEF incrementRound, TypeOK
<1>2. \/ round'[i] = round[i] /\ phase'[i] = "done"
      \/ round'[i] = round[i] + 1 /\ phase'[i] = Begin(i, round[i] + 1)
  BY DEF incrementRound, TypeOK
<1>3. votes[i] = {} /\ proposed[i] = None
  BY <1>1 DEF VotesFit, CommitsFit
<1>4. msgs \subseteq msgs' /\ \A m \in msgs' \ msgs : m.kind = "vote"
  BY DEF incrementRound, Vote
<1>5. \A r : Accepted(r) => Accepted(r)'
  BY <1>4 DEF Accepted, hasCommits
<1>6. VotesFit'
  BY <1>1, <1>2, <1>3 DEF VotesFit, Begin
<1>7. SoleProposals' /\ CommitsFit'
  BY <1>1, <1>3, <1>4, <1>5 DEF SoleProposals, CommitsFit
<1>8. ProposalsFit'
  <2>1. ASSUME NEW m \in msgs, m.kind = "propose"
        PROVE  /\ Leader(m.round) \in Up /\ m.round <= round'[Leader(m.round)]
               /\ phase'[Leader(m.round)] = "handleVotes" => m.round < round'[Leader(m.round)]
    <3>1. m.round \in Nat
      BY <2>1, MessageKinds, RoundIsNat DEF TypeOK, ProposeMessage
    <3>. QED
      BY <1>1, <1>2, <2>1, <3>1 DEF ProposalsFit
  <2>. QED
    BY <1>4, <2>1 DEF ProposalsFit, Enough, Senders
<1>. QED
  BY <1>6, <1>7, <1>8

LEMMA StepPInv == TypeOK /\ PInv /\ [Next]_vars => PInv'
<1>1. SUFFICES ASSUME TypeOK, PInv, [Next]_vars PROVE PInv'
  OBVIOUS
<1>2. CASE UNCHANGED vars
  BY <1>1, <1>2, PlainStep DEF vars
<1>. QED
  BY <1>1, <1>2, StepPlain, PropStepPropose, PropStepVote, PropStepProposal, PropStepCommit, PropStepIncrement
  DEF Next, OnTick, OnMessage

LEMMA Proposals == Spec => []PInv
BY InitPInv, StepPInv, TypeCorrect, PTL DEF Spec

-------------------------------------------------------------------------------
(* What timers and network cannot change *)

AnyInv == IInv /\ CInv /\ PInv

LEMMA InitAny == Init => AnyInv
<1>1. Init => CInv
  BY InitType DEF CInv, Init, Collected, NotifiesBacked, Certified, Vote
<1>. QED
  BY <1>1, InitIInv, InitPInv DEF AnyInv

LEMMA StepAny == AnyInv /\ [Next]_vars => AnyInv'
BY StepIInv, StepCertified, StepPInv DEF AnyInv, CInv

LEMMA NotNone == Enough({}) => FALSE
<1>1. Cardinality({}) = 0
  BY FS_EmptySet
<1>. QED
  BY <1>1, BLAConstants DEF Enough

\* Commits and notifies are of a round whose proposal is not refused.
LEMMA NotRefused ==
    ASSUME AnyInv, NEW m \in msgs, m.kind \in {"commit", "notify"}
    PROVE  ~Refused(m.round)
<1>1. Accepted(m.round)
  <2>1. CASE m.kind = "commit"
    BY <2>1 DEF AnyInv, PInv, CommitsFit
  <2>2. CASE m.kind = "notify"
    <3>1. Enough(Committers(m.round, m.block))
      BY <2>2 DEF AnyInv, CInv, NotifiesBacked
    <3>2. PICK j \in Up : Commit(j, m.round, m.block) \in msgs
      BY <3>1, NotNone DEF Committers
    <3>. QED
      BY <3>2 DEF AnyInv, PInv, CommitsFit, Commit
  <2>. QED
    BY <2>1, <2>2
<1>. QED
  BY <1>1 DEF AnyInv, PInv, SoleProposals, Accepted, Refused

-------------------------------------------------------------------------------
(* Nodes in step *)

\* The ticks a node has taken in its round: one less if it began it early.
At(i) == ticks[i] - 6 * round[i]

\* A node is early after it has refused a proposal, or got a notify, and never
\* after both.
OnTime(i) ==
    /\ phase[i] = "handleVotes" => At(i) \in -1 .. 0
    /\ phase[i] = "run" => At(i) \in -1 .. 1
    /\ phase[i] = "handleProposals" => At(i) = 2
    /\ phase[i] = "handleCommits" => At(i) = 3 \/ (At(i) = 2 /\ Refused(round[i]))
    /\ phase[i] \in {"notified", "awaitNotify"} => At(i) = 4 \/ (At(i) = 3 /\ Refused(round[i]))
    /\ phase[i] = "roundOver" => At(i) \in 4 .. 5
    /\ phase[i] = "done" => At(i) \in 5 .. 6 /\ round[i] = Kappa - 1

Close == \A i, j \in Up : phase[j] # "done" => ticks[i] <= ticks[j] + 1

TInv == NeverStuck /\ Close /\ \A i \in Up : OnTime(i)

LEMMA InitTInv == Init => TInv
BY RoundIsNat DEF Init, TInv, NeverStuck, Close, OnTime, At, Begin

\* The value of the next tick tells how far the node is in its round.
LEMMA NowIs ==
    ASSUME TypeOK, NEW i \in Up, At(i) \in -1 .. 4
    PROVE  Now(i) = At(i) + 1
<1>1. ticks[i] \in Nat /\ round[i] \in Nat
  BY RoundIsNat DEF TypeOK
<1>2. ASSUME NEW t \in Nat, NEW r \in Nat, t - 6 * r \in -1 .. 4
      PROVE  (t + 1) % 6 = t - 6 * r + 1
  BY <1>2
<1>. QED
  BY <1>1, <1>2 DEF Now, At

\* While one node waits for the proposal of a round, all are in that round.
LEMMA InRound ==
    ASSUME TypeOK, TInv, NEW i \in Up, phase[i] = "handleProposals", NEW j \in Up
    PROVE  round[j] = round[i]
<1>1. /\ ticks[i] \in Nat /\ round[i] \in 0 .. Kappa - 1
      /\ ticks[j] \in Nat /\ round[j] \in 0 .. Kappa - 1 /\ Kappa \in Nat
  BY BLAConstants DEF TypeOK, Round
<1>2. ticks[i] = 6 * round[i] + 2
  BY <1>1 DEF TInv, OnTime, At
<1>3. ticks[j] <= ticks[i] + 1
  BY DEF TInv, Close
<1>4. CASE phase[j] = "done"
  <2>1. round[j] = Kappa - 1 /\ ticks[j] >= 6 * round[j] + 5
    BY <1>1, <1>4 DEF TInv, OnTime, At
  <2>. QED
    BY <1>1, <1>2, <1>3, <2>1
<1>5. CASE phase[j] # "done"
  <2>1. ticks[i] <= ticks[j] + 1
    BY <1>5 DEF TInv, Close
  <2>2. phase[j] \in Phase \ {"stuck", "done"}
    BY <1>5 DEF TInv, NeverStuck, TypeOK
  <2>3. At(j) \in -1 .. 5
    BY <1>1, <2>2 DEF TInv, OnTime, Phase, At
  <2>. QED
    BY <1>1, <1>2, <1>3, <2>1, <2>3 DEF At
<1>. QED
  BY <1>4, <1>5

\* A proposal that is refused in step is one without the commits asked for.
LEMMA RefusedInStep ==
    ASSUME AnyInv, TInv, NEW i \in Up, NEW m \in msgs, handleProposal(i, m)
    PROVE  \/ UNCHANGED phase
           \/ phase' = [phase EXCEPT ![i] = "handleCommits"] /\ Refused(round[i])
<1>1. TypeOK
  BY DEF AnyInv, IInv
<1>2. m.kind = "propose" /\ m.round = round[i] /\ phase[i] = "handleProposals"
  BY DEF handleProposal
<1>3. m \in ProposeMessage
  BY <1>1, <1>2, MessageKinds DEF TypeOK
<1>4. \A v \in m.votes : v.sender \in Up /\ v.round \in Nat
  BY <1>3, RoundIsNat DEF ProposeMessage, VoteMessage
<1>5. Unchanged(m)
  BY <1>1, <1>2, <1>4, InRound DEF Unchanged
<1>6. Enough(Senders(m.votes)) /\ \A v \in m.votes : v.round <= m.vote.round
  <2>1. /\ Enough(Senders(m.votes)) /\ m.vote \in m.votes
        /\ \A v \in m.votes : v.round = m.round
    BY <1>2 DEF AnyInv, PInv, ProposalsFit
  <2>. QED
    BY <1>4, <2>1
<1>7. CASE hasCommits(m)
  BY <1>5, <1>6, <1>7 DEF handleProposal, isValidProposal
<1>8. CASE ~hasCommits(m)
  BY <1>2, <1>8 DEF handleProposal, isValidProposal, Refused
<1>. QED
  BY <1>7, <1>8

\* Whoever takes a tick had taken no more than the others.
LEMMA StepClose ==
    ASSUME TypeOK, TInv, NEW i \in Up, InStep(i), TakeTick(i),
           phase[i] # "done", \A j \in Up \ {i} : phase'[j] = phase[j]
    PROVE  Close'
<1>1. \A j \in Up : ticks[j] \in Nat /\ ticks'[j] = IF j = i THEN ticks[j] + 1 ELSE ticks[j]
  BY DEF TypeOK, TakeTick
<1>2. \A j \in Up : phase[j] # "done" => ticks[i] <= ticks[j]
  BY <1>1 DEF InStep, TInv, NeverStuck
<1>. QED
  BY <1>1, <1>2 DEF TInv, Close

\* What a step does to the time of those who do not take it.
LEMMA OthersOnTime ==
    ASSUME TypeOK, TInv, msgs \subseteq msgs', NEW j \in Up,
           ticks'[j] = ticks[j], round'[j] = round[j], phase'[j] = phase[j]
    PROVE  OnTime(j)'
<1>1. \A r : Refused(r) => Refused(r)'
  BY DEF Refused, hasCommits
<1>. QED
  BY <1>1 DEF TInv, OnTime, At

LEMMA TickInStep ==
    ASSUME AnyInv, TInv, NEW i \in Up, InStep(i), OnTick(i)
    PROVE  TInv'
<1>1. TypeOK /\ TInv /\ OnTime(i)
  BY DEF AnyInv, IInv, TInv
<1>2. /\ TakeTick(i) /\ phase[i] # "done" /\ msgs \subseteq msgs'
      /\ \A j \in Up \ {i} : phase'[j] = phase[j] /\ round'[j] = round[j]
  BY <1>1 DEF TypeOK, OnTick, propose, runPropose, endProposals, findSubset, terminate, giveUp, incrementRound, Graded
<1>3. /\ ticks'[i] = ticks[i] + 1 /\ \A j \in Up \ {i} : ticks'[j] = ticks[j]
      /\ ticks[i] \in Nat /\ round[i] \in 0 .. Kappa - 1 /\ Kappa \in Nat
  BY <1>1, <1>2, BLAConstants DEF TypeOK, TakeTick, Round
<1>4. Close'
  BY <1>1, <1>2, StepClose
<1>5. \A r : Refused(r) => Refused(r)'
  BY <1>2 DEF Refused, hasCommits
<1>6. OnTime(i)' /\ phase'[i] # "stuck"
  <2>1. CASE propose(i)
    BY <1>1, <1>3, <2>1 DEF propose, OnTime, At, TypeOK
  <2>2. CASE runPropose(i)
    <3>1. At(i) \in -1 .. 1 /\ round'[i] = round[i]
      BY <1>1, <2>2 DEF runPropose, OnTime
    <3>2. Now(i) = At(i) + 1 /\ At(i)' = At(i) + 1 /\ At(i) \in Int
      BY <1>1, <1>3, <3>1, NowIs DEF At
    <3>3. phase'[i] = IF At(i) = 1 THEN "handleProposals" ELSE "run"
      BY <1>1, <2>2, <3>1, <3>2 DEF runPropose, TypeOK
    <3>. QED
      BY <3>1, <3>2, <3>3 DEF OnTime
  <2>3. CASE endProposals(i)
    BY <1>1, <1>3, <2>3 DEF endProposals, OnTime, At, TypeOK
  <2>4. CASE findSubset(i)
    <3>1. phase[i] = "handleCommits" /\ phase'[i] \in {"notified", "awaitNotify"} /\ round'[i] = round[i]
      BY <1>1, <2>4 DEF findSubset, TypeOK
    <3>. QED
      BY <1>1, <1>3, <1>5, <3>1 DEF OnTime, At
  <2>5. CASE terminate(i) \/ giveUp(i)
    <3>1. /\ phase[i] \in {"notified", "awaitNotify"} /\ phase'[i] = "roundOver"
          /\ round'[i] = round[i]
      BY <1>1, <2>5 DEF terminate, giveUp, Graded, TypeOK
    <3>. QED
      BY <1>1, <1>3, <3>1 DEF OnTime, At
  <2>6. CASE incrementRound(i)
    <3>1. At(i) \in 4 .. 5
      BY <1>1, <2>6 DEF incrementRound, OnTime
    <3>2. CASE Another(i)
      <4>1. round'[i] = round[i] + 1 /\ phase'[i] \in {"handleVotes", "run"}
        BY <1>1, <2>6, <3>2 DEF incrementRound, TypeOK, Begin
      <4>2. At(i)' \in -1 .. 0
        BY <1>3, <3>1, <4>1 DEF At
      <4>. QED
        BY <4>1, <4>2 DEF OnTime
    <3>3. CASE ~Another(i)
      <4>1. round'[i] = round[i] /\ phase'[i] = "done" /\ round[i] = Kappa - 1
        BY <1>1, <1>3, <2>6, <3>3 DEF incrementRound, TypeOK, Another
      <4>2. At(i)' \in 5 .. 6
        BY <1>3, <3>1, <4>1 DEF At
      <4>. QED
        BY <4>1, <4>2 DEF OnTime
    <3>. QED
      BY <3>2, <3>3
  <2>. QED
    BY <2>1, <2>2, <2>3, <2>4, <2>5, <2>6 DEF OnTick
<1>7. \A j \in Up : OnTime(j)'
  BY <1>1, <1>2, <1>3, <1>6, OthersOnTime
<1>8. NeverStuck'
  BY <1>1, <1>2, <1>6 DEF NeverStuck, TInv
<1>. QED
  BY <1>4, <1>7, <1>8 DEF TInv

LEMMA MessageInStep ==
    ASSUME AnyInv, TInv, NEW i \in Up, NEW m \in msgs, OnMessage(i, m)
    PROVE  TInv'
<1>1. TypeOK
  BY DEF AnyInv, IInv
<1>2. UNCHANGED <<ticks, round, msgs>> /\ \A j \in Up \ {i} : phase'[j] = phase[j]
  BY <1>1 DEF OnMessage, handleVote, handleProposal, handleCommit, handleNotify, Graded, TypeOK
<1>3. \A j \in Up \ {i} : OnTime(j)'
  BY <1>1, <1>2, OthersOnTime
<1>4. /\ OnTime(i)' /\ phase'[i] # "stuck"
      /\ phase[i] = "done" => phase'[i] = "done"
  <2>1. CASE phase'[i] = phase[i]
    BY <1>1, <1>2, <2>1, OthersOnTime DEF TInv, NeverStuck
  <2>2. CASE handleProposal(i, m) /\ phase'[i] # phase[i]
    <3>1. phase[i] = "handleProposals" /\ phase'[i] = "handleCommits" /\ Refused(round[i])
      BY <1>1, <2>2, RefusedInStep DEF handleProposal, TypeOK
    <3>2. At(i)' = At(i) /\ At(i) = 2
      BY <1>2, <3>1 DEF TInv, OnTime, At
    <3>3. Refused(round[i])'
      BY <1>2, <3>1 DEF Refused, hasCommits
    <3>. QED
      BY <1>2, <3>1, <3>2, <3>3 DEF OnTime
  <2>3. CASE handleNotify(i, m)
    <3>1. phase[i] = "awaitNotify" /\ phase'[i] = "roundOver"
      BY <1>1, <2>3 DEF handleNotify, Graded, TypeOK
    <3>2. ~Refused(round[i])
      BY <2>3, NotRefused DEF handleNotify
    <3>3. At(i)' = At(i) /\ At(i) = 4
      BY <1>2, <3>1, <3>2 DEF TInv, OnTime, At
    <3>. QED
      BY <3>1, <3>3 DEF OnTime
  <2>. QED
    BY <2>1, <2>2, <2>3 DEF OnMessage, handleVote, handleCommit
<1>5. Close'
  BY <1>2, <1>4 DEF TInv, Close
<1>. QED
  BY <1>1, <1>2, <1>3, <1>4, <1>5 DEF TInv, NeverStuck

LEMMA StepTInv == AnyInv /\ TInv /\ [SyncNext]_vars => TInv'
<1>1. SUFFICES ASSUME AnyInv, TInv, [SyncNext]_vars PROVE TInv'
  OBVIOUS
<1>2. CASE UNCHANGED vars
  BY <1>1, <1>2 DEF vars, TInv, NeverStuck, Close, OnTime, At, Refused, hasCommits
<1>. QED
  BY <1>1, <1>2, TickInStep, MessageInStep DEF SyncNext

LEMMA SyncIsStep == SyncNext => Next
BY DEF SyncNext, Next

\* The nodes in step are a special case of the nodes that run freely.
THEOREM InStepIsSpec == SyncSpec => Spec
BY SyncIsStep, PTL DEF SyncSpec, Spec

\* In the behaviours of MCBlockAgreement that are in step, where messages arrive
\* before the next tick, no node begins a round so early or so late that it waits
\* for an output of propose that never comes.
THEOREM NobodyStuckInStep == OneSpec => []NeverStuckInStep
<1>. DEFINE Inv == AnyInv /\ (synchronous => TInv)
<1>1. OneInit => Inv
  BY InitAny, InitTInv DEF OneInit
<1>2. Inv /\ [InStepNext \/ FreeNext]_<<vars, synchronous>> => Inv'
  <2>1. SUFFICES ASSUME Inv, [InStepNext \/ FreeNext]_<<vars, synchronous>> PROVE Inv'
    OBVIOUS
  <2>2. CASE InStepNext
    BY <2>1, <2>2, StepAny, StepTInv, SyncIsStep DEF InStepNext
  <2>3. CASE FreeNext
    BY <2>1, <2>3, StepAny DEF FreeNext
  <2>4. CASE UNCHANGED <<vars, synchronous>>
    BY <2>1, <2>4, StepAny, StepTInv DEF vars
  <2>. QED
    BY <2>1, <2>2, <2>3, <2>4
<1>3. Inv => NeverStuckInStep
  BY DEF NeverStuckInStep, TInv
<1>. HIDE DEF Inv
<1>. QED
  BY <1>1, <1>2, <1>3, PTL DEF OneSpec

-------------------------------------------------------------------------------
(* The first round in step *)

\* In step, and with its leader and enough others up, the first round gives
\* everyone an output: a node that is past it, or past grading in it, has one.
OutputInFirstRound ==
    Leader(0) \in Up /\ Enough(Up) =>
        \A i \in Up : round[i] > 0 \/ phase[i] \in {"roundOver", "done"} => out[i] # <<>>

\* What everyone has sent: a vote without commits for the first round.
FirstVotes ==
    /\ \A i \in Up : \E v \in VotesIn(msgs) : v.sender = i /\ v.round = 0
    /\ \A v \in VotesIn(msgs) : v.round = 0 => v.commits = NoCommits
    /\ Leader(0) \in Up /\ ticks[Leader(0)] = 0 => phase[Leader(0)] = "handleVotes"

\* The leader proposes, everyone commits, and everyone finds all the commits.
FirstProposed ==
    ticks[Leader(0)] >= 1 => \E m \in msgs : m.kind = "propose" /\ m.round = 0

FirstCommitted ==
    \A i \in Up : ticks[i] >= 3 => \E b \in Value : Commit(i, 0, b) \in msgs

FirstGraded == \A i \in Up : round[i] = 0 => phase[i] # "awaitNotify"

FInv ==
    /\ FirstVotes
    /\ Leader(0) \in Up /\ Enough(Up) =>
         FirstProposed /\ FirstCommitted /\ FirstGraded /\ OutputInFirstRound

LEMMA InitFInv == Init => FInv
<1>1. SUFFICES ASSUME Init PROVE FInv
  OBVIOUS
<1>2. \A m \in msgs : m.kind = "vote" /\ m.round = 0 /\ m.commits = NoCommits
  BY <1>1 DEF Init, Vote
<1>3. \A i \in Up : Vote(i, 0, blockShare[i], NoCommits) \in msgs
  BY <1>1 DEF Init
<1>4. Leader(0) \in Up => phase[Leader(0)] = "handleVotes"
  BY <1>1 DEF Init, Begin
<1>5. FirstVotes
  BY <1>2, <1>3, <1>4 DEF FirstVotes, VotesIn, Vote
<1>6. \A i \in Up : ticks[i] = 0 /\ round[i] = 0 /\ phase[i] \in {"handleVotes", "run"}
  BY <1>1 DEF Init, Begin
<1>. QED
  BY <1>5, <1>6 DEF FInv, FirstProposed, FirstCommitted, FirstGraded, OutputInFirstRound

\* Proposals of the first round are never refused.
LEMMA FirstNotRefused == AnyInv /\ FirstVotes => ~Refused(0)
<1>1. SUFFICES ASSUME AnyInv, FirstVotes, NEW m \in msgs, m.kind = "propose", m.round = 0
               PROVE  hasCommits(m)
  BY DEF Refused
<1>2. m.vote \in VotesIn(msgs)
  BY <1>1 DEF AnyInv, IInv, VotesWereSent
<1>3. m.vote.round = 0
  BY <1>1 DEF AnyInv, PInv, ProposalsFit
<1>. QED
  BY <1>1, <1>2, <1>3 DEF FirstVotes, hasCommits

\* Where the ticks of the first round find a node.
LEMMA FirstTicks ==
    ASSUME AnyInv, TInv, FirstVotes, NEW i \in Up
    PROVE  /\ ticks[i] = 0 => round[i] = 0
           /\ ticks[i] <= 2 => phase[i] # "done"
           /\ ticks[i] = 2 => phase[i] = "handleProposals" /\ round[i] = 0
           /\ phase[i] = "handleCommits" /\ round[i] = 0 => ticks[i] = 3
           /\ phase[i] = "done" => ticks[i] >= 5
<1>1. /\ ticks[i] \in Nat /\ round[i] \in Nat /\ Kappa \in Nat \ {0} /\ phase[i] \in Phase \ {"stuck"}
      /\ OnTime(i) /\ ~Refused(0)
  BY FirstNotRefused, RoundIsNat, BLAConstants DEF AnyInv, IInv, TypeOK, TInv, NeverStuck
<1>2. At(i) \in -1 .. 6 /\ (phase[i] # "done" => At(i) \in -1 .. 5)
  BY <1>1 DEF OnTime, Phase, At
<1>3. ticks[i] <= 2 => round[i] = 0 /\ phase[i] # "done"
  BY <1>1, <1>2 DEF At, OnTime
<1>4. ticks[i] = 2 => phase[i] = "handleProposals"
  BY <1>1, <1>3 DEF At, OnTime, Phase
<1>5. phase[i] = "handleCommits" /\ round[i] = 0 => ticks[i] = 3
  BY <1>1 DEF At, OnTime
<1>6. phase[i] = "done" => ticks[i] >= 5
  BY <1>1 DEF At, OnTime
<1>. QED
  BY <1>3, <1>4, <1>5, <1>6

LEMMA StepFirstVotes == AnyInv /\ FirstVotes /\ [Next]_vars => FirstVotes'
<1>1. SUFFICES ASSUME AnyInv, FirstVotes, [Next]_vars PROVE FirstVotes'
  OBVIOUS
<1>2. TypeOK
  BY <1>1 DEF AnyInv, IInv
<1>3. ASSUME NEW i \in Up, incrementRound(i) PROVE FirstVotes'
  <2>1. msgs \subseteq msgs' /\ \A m \in msgs' \ msgs : m.round # 0
    <3>1. round[i] \in Nat
      BY <1>2, RoundIsNat DEF TypeOK
    <3>. QED
      BY <1>3, <3>1 DEF incrementRound, Vote
  <2>2. phase[i] = "roundOver" /\ \A j \in Up \ {i} : phase'[j] = phase[j]
    BY <1>2, <1>3 DEF incrementRound, TypeOK
  <2>3. ticks'[i] # 0 /\ \A j \in Up \ {i} : ticks'[j] = ticks[j]
    BY <1>2, <1>3 DEF incrementRound, TakeTick, TypeOK
  <2>. QED
    BY <1>1, <2>1, <2>2, <2>3 DEF FirstVotes, VotesIn
<1>4. CASE \/ \E i \in Up : OnTick(i) /\ ~incrementRound(i)
           \/ \E i \in Up : \E m \in msgs : OnMessage(i, m)
           \/ UNCHANGED vars
  <2>1. VotesIn(msgs') = VotesIn(msgs)
    BY <1>4 DEF OnTick, OnMessage, vars, propose, runPropose, endProposals, findSubset, terminate, giveUp,
       handleVote, handleProposal, handleCommit, handleNotify, Proposal, Commit, Notify, VotesIn
  <2>2. \A j \in Up : /\ phase[j] = "handleVotes" => phase'[j] = phase[j] \/ ticks'[j] # 0
                      /\ ticks'[j] = 0 => ticks[j] = 0
    <3>1. ASSUME NEW i \in Up, OnTick(i)
          PROVE  ticks'[i] # 0 /\ \A j \in Up \ {i} : phase'[j] = phase[j] /\ ticks'[j] = ticks[j]
      <4>1. TakeTick(i) /\ \A j \in Up \ {i} : phase'[j] = phase[j]
        BY <1>2, <3>1 DEF OnTick, TypeOK, propose, runPropose, endProposals, findSubset, terminate, giveUp,
           incrementRound, Graded
      <4>. QED
        BY <1>2, <4>1 DEF TypeOK, TakeTick
    <3>2. ASSUME NEW i \in Up, NEW m \in msgs, OnMessage(i, m)
          PROVE  /\ UNCHANGED ticks
                 /\ \A j \in Up : phase[j] = "handleVotes" => phase'[j] = phase[j]
      BY <1>2, <3>2 DEF OnMessage, TypeOK, handleVote, handleProposal, handleCommit, handleNotify, Graded
    <3>. QED
      BY <1>4, <3>1, <3>2 DEF vars
  <2>. QED
    BY <1>1, <2>1, <2>2 DEF FirstVotes
<1>. QED
  BY <1>1, <1>3, <1>4 DEF Next

\* The tick at which the leader of the first round proposes: every vote is in.
LEMMA LeaderProposes ==
    ASSUME AnyInv, TInv, FirstVotes, Leader(0) \in Up, Enough(Up),
           InStep(Leader(0)), OnTick(Leader(0)), ticks[Leader(0)] = 0
    PROVE  \E m \in msgs' : m.kind = "propose" /\ m.round = 0
<1>. DEFINE l == Leader(0)
<1>1. TypeOK /\ phase[l] = "handleVotes" /\ round[l] = 0
  BY FirstTicks DEF AnyInv, IInv, FirstVotes
<1>2. propose(l)
  BY <1>1 DEF OnTick, propose, runPropose, endProposals, findSubset, terminate, giveUp, incrementRound
<1>3. Up \subseteq Senders(votes[l])
  <2>1. ASSUME NEW j \in Up PROVE j \in Senders(votes[l])
    <3>1. PICK v \in VotesIn(msgs) : v.sender = j /\ v.round = 0
      BY DEF FirstVotes
    <3>2. ~Awaits(l, v)
      BY <3>1 DEF InStep, VotesIn
    <3>. QED
      BY <1>1, <3>1, <3>2 DEF Awaits, VotesIn
  <2>. QED
    BY <2>1
<1>4. Enough(Senders(votes[l]))
  <2>1. Senders(votes[l]) \subseteq Up
    BY <1>1 DEF Senders, TypeOK, VoteMessage
  <2>. QED
    BY <1>3, <2>1
<1>5. PICK v \in votes[l] : msgs' = msgs \cup {Proposal(0, v, votes[l])}
  BY <1>1, <1>2, <1>4 DEF propose
<1>6. Proposal(0, v, votes[l]).kind = "propose" /\ Proposal(0, v, votes[l]).round = 0
  BY DEF Proposal
<1>. QED
  BY <1>5, <1>6

\* The tick at which a node commits: it has the proposal.
LEMMA NodeCommits ==
    ASSUME AnyInv, TInv, FirstVotes, FirstProposed, Leader(0) \in Up,
           NEW i \in Up, InStep(i), OnTick(i), ticks[i] = 2
    PROVE  \E b \in Value : Commit(i, 0, b) \in msgs'
<1>1. TypeOK /\ phase[i] = "handleProposals" /\ round[i] = 0
  BY FirstTicks DEF AnyInv, IInv
<1>2. endProposals(i)
  BY <1>1 DEF OnTick, propose, runPropose, endProposals, findSubset, terminate, giveUp, incrementRound
<1>3. ticks[Leader(0)] >= 1
  <2>1. ticks[Leader(0)] >= ticks[i] \/ phase[Leader(0)] = "done"
    BY DEF InStep, TInv, NeverStuck
  <2>. QED
    BY <1>1, <2>1, FirstTicks DEF TypeOK
<1>4. PICK m \in msgs : m.kind = "propose" /\ m.round = 0
  BY <1>3 DEF FirstProposed
<1>5. ~Awaits(i, m)
  BY DEF InStep
<1>6. proposed[i] # None
  BY <1>1, <1>4, <1>5 DEF Awaits
<1>7. PICK w \in Became(proposed[i]) : msgs' = msgs \cup {Commit(i, round[i], w.block)}
  BY <1>2, <1>6 DEF endProposals
<1>8. w.block \in Value
  BY <1>1, MessageKinds DEF Became, TypeOK, VoteMessage
<1>. QED
  BY <1>1, <1>7, <1>8

\* The tick at which a node looks for t+1 commits on one block share: it has
\* everyone's, all on the proposal.
LEMMA NodeIsNotified ==
    ASSUME AnyInv, TInv, FirstVotes, FirstCommitted, Enough(Up),
           NEW i \in Up, InStep(i), findSubset(i), round[i] = 0
    PROVE  phase'[i] = "notified"
<1>1. TypeOK /\ phase[i] = "handleCommits" /\ ticks[i] = 3
  <2>1. phase[i] = "handleCommits"
    BY DEF findSubset
  <2>. QED
    BY <2>1, FirstTicks DEF AnyInv, IInv
<1>2. ASSUME NEW j \in Up PROVE \E b \in Value : <<j, b>> \in committed[i]
  <2>1. ticks[j] >= 3
    <3>1. ticks[j] >= ticks[i] \/ phase[j] = "done"
      BY DEF InStep, TInv, NeverStuck
    <3>. QED
      BY <1>1, <3>1, FirstTicks DEF TypeOK
  <2>2. PICK b \in Value : Commit(j, 0, b) \in msgs
    BY <2>1 DEF FirstCommitted
  <2>3. ~Awaits(i, Commit(j, 0, b))
    BY <2>2 DEF InStep
  <2>4. PICK e \in committed[i] : e[1] = j
    BY <1>1, <2>3 DEF Awaits, Commit
  <2>5. e = <<j, e[2]>> /\ e[2] \in Value
    BY <1>1, <2>4 DEF TypeOK
  <2>. QED
    BY <2>4, <2>5
<1>3. \A e, f \in committed[i] : e[2] = f[2]
  <2>1. OneProposal /\ \A e \in committed[i] : First(e[2])
    BY DEF AnyInv, IInv, OutputIsFirst, AllFirst
  <2>. QED
    BY <2>1 DEF OneProposal, First
<1>4. PICK j \in Up : TRUE
  BY NotNone
<1>5. PICK b \in Value : <<j, b>> \in committed[i]
  BY <1>2
<1>6. {k \in Up : <<k, b>> \in committed[i]} = Up
  <2>1. ASSUME NEW k \in Up PROVE <<k, b>> \in committed[i]
    <3>1. PICK c \in Value : <<k, c>> \in committed[i]
      BY <1>2
    <3>2. <<k, c>>[2] = <<j, b>>[2]
      BY <1>3, <1>5, <3>1
    <3>. QED
      BY <3>1, <3>2
  <2>. QED
    BY <2>1
<1>7. Subset(i, b)
  BY <1>6 DEF Subset
<1>. QED
  BY <1>1, <1>7 DEF findSubset, TypeOK

\* A tick of the first round, with its leader and enough others up.
LEMMA TickOfFirst ==
    ASSUME AnyInv, TInv, FInv, Leader(0) \in Up, Enough(Up), NEW i \in Up, InStep(i), OnTick(i)
    PROVE  (FirstProposed /\ FirstCommitted /\ FirstGraded /\ OutputInFirstRound)'
<1>. DEFINE Out(j) == round[j] > 0 \/ phase[j] \in {"roundOver", "done"} => out[j] # <<>>
<1>1. /\ TypeOK /\ FirstVotes /\ FirstProposed /\ FirstCommitted /\ FirstGraded
      /\ \A j \in Up : Out(j)
  BY DEF AnyInv, IInv, FInv, OutputInFirstRound
<1>2. /\ TakeTick(i) /\ msgs \subseteq msgs'
      /\ \A j \in Up \ {i} : phase'[j] = phase[j] /\ round'[j] = round[j] /\ out'[j] = out[j]
  BY <1>1 DEF TypeOK, OnTick, propose, runPropose, endProposals, findSubset, terminate, giveUp, incrementRound, Graded
<1>3. /\ ticks'[i] = ticks[i] + 1 /\ ticks[i] \in Nat /\ round[i] \in Nat
      /\ \A j \in Up \ {i} : ticks'[j] = ticks[j]
  BY <1>1, <1>2, RoundIsNat DEF TypeOK, TakeTick
<1>4. FirstProposed'
  <2>1. CASE i = Leader(0) /\ ticks[i] = 0
    BY <1>1, <2>1, LeaderProposes DEF FirstProposed
  <2>2. CASE ~(i = Leader(0) /\ ticks[i] = 0)
    <3>1. ticks'[Leader(0)] >= 1 => ticks[Leader(0)] >= 1
      BY <1>3, <2>2
    <3>. QED
      BY <1>1, <1>2, <3>1 DEF FirstProposed
  <2>. QED
    BY <2>1, <2>2
<1>5. FirstCommitted'
  <2>1. ASSUME NEW j \in Up, ticks'[j] >= 3 PROVE \E b \in Value : Commit(j, 0, b) \in msgs'
    <3>1. CASE j = i /\ ticks[i] = 2
      BY <1>1, <3>1, NodeCommits
    <3>2. CASE ~(j = i /\ ticks[i] = 2)
      <4>1. ticks[j] >= 3
        BY <1>3, <2>1, <3>2
      <4>. QED
        BY <1>1, <1>2, <4>1 DEF FirstCommitted
    <3>. QED
      BY <3>1, <3>2
  <2>. QED
    BY <2>1 DEF FirstCommitted
<1>6. (round'[i] = 0 => phase'[i] # "awaitNotify") /\ Out(i)'
  <2>1. CASE propose(i) \/ runPropose(i) \/ endProposals(i)
    BY <1>1, <2>1 DEF propose, runPropose, endProposals, TypeOK
  <2>2. CASE findSubset(i)
    <3>1. round'[i] = round[i] /\ out'[i] = out[i] /\ phase'[i] \in {"notified", "awaitNotify"}
      BY <1>1, <2>2 DEF findSubset, TypeOK
    <3>2. round[i] = 0 => phase'[i] = "notified"
      BY <1>1, <2>2, NodeIsNotified
    <3>. QED
      BY <1>1, <3>1, <3>2
  <2>3. CASE terminate(i)
    <3>1. PICK b \in Value : out' = [out EXCEPT ![i] = Append(@, b)]
      BY <2>3 DEF terminate
    <3>2. out'[i] # <<>> /\ phase'[i] = "roundOver"
      BY <1>1, <2>3, <3>1 DEF terminate, Graded, TypeOK
    <3>. QED
      BY <3>2
  <2>4. CASE giveUp(i)
    <3>1. phase[i] = "awaitNotify" /\ round'[i] = round[i] /\ out'[i] = out[i] /\ phase'[i] = "roundOver"
      BY <1>1, <2>4 DEF giveUp, TypeOK
    <3>2. round[i] > 0
      BY <1>1, <1>3, <3>1 DEF FirstGraded
    <3>. QED
      BY <1>1, <3>1, <3>2
  <2>5. CASE incrementRound(i)
    <3>1. /\ phase[i] = "roundOver" /\ out'[i] = out[i]
          /\ phase'[i] \in {"handleVotes", "run", "done"}
      BY <1>1, <2>5 DEF incrementRound, TypeOK, Begin
    <3>. QED
      BY <1>1, <3>1
  <2>. QED
    BY <2>1, <2>2, <2>3, <2>4, <2>5 DEF OnTick
<1>7. FirstGraded' /\ OutputInFirstRound'
  BY <1>1, <1>2, <1>6 DEF FirstGraded, OutputInFirstRound
<1>. QED
  BY <1>4, <1>5, <1>7

LEMMA MessageOfFirst ==
    ASSUME AnyInv, FInv, Leader(0) \in Up, Enough(Up), NEW i \in Up, NEW m \in msgs, OnMessage(i, m)
    PROVE  (FirstProposed /\ FirstCommitted /\ FirstGraded /\ OutputInFirstRound)'
<1>1. /\ TypeOK /\ FirstProposed /\ FirstCommitted /\ FirstGraded /\ OutputInFirstRound
  BY DEF AnyInv, IInv, FInv
<1>2. /\ UNCHANGED <<ticks, round, out, msgs>>
      /\ \A j \in Up : \/ phase'[j] = phase[j]
                       \/ phase'[j] = "handleCommits"
                       \/ phase[j] = "awaitNotify"
  BY <1>1 DEF OnMessage, handleVote, handleProposal, handleCommit, handleNotify, Graded, TypeOK
<1>3. FirstProposed' /\ FirstCommitted'
  BY <1>1, <1>2 DEF FirstProposed, FirstCommitted
<1>4. FirstGraded'
  BY <1>1, <1>2 DEF FirstGraded
<1>5. ASSUME NEW j \in Up, round'[j] > 0 \/ phase'[j] \in {"roundOver", "done"} PROVE out'[j] # <<>>
  <2>1. round[j] \in Nat
    BY <1>1, RoundIsNat DEF TypeOK
  <2>2. CASE round[j] > 0
    BY <1>1, <1>2, <2>2 DEF OutputInFirstRound
  <2>3. CASE round[j] = 0
    <3>1. phase'[j] = phase[j]
      BY <1>1, <1>2, <1>5, <2>3 DEF FirstGraded
    <3>. QED
      BY <1>1, <1>2, <1>5, <3>1 DEF OutputInFirstRound
  <2>. QED
    BY <2>1, <2>2, <2>3
<1>6. OutputInFirstRound'
  BY <1>5 DEF OutputInFirstRound
<1>. QED
  BY <1>3, <1>4, <1>6

LEMMA StepFInv == AnyInv /\ TInv /\ FInv /\ [SyncNext]_vars => FInv'
<1>1. SUFFICES ASSUME AnyInv, TInv, FInv, [SyncNext]_vars PROVE FInv'
  OBVIOUS
<1>2. FirstVotes'
  BY <1>1, StepFirstVotes, SyncIsStep DEF FInv
<1>3. CASE UNCHANGED vars
  BY <1>1, <1>2, <1>3 DEF vars, FInv, FirstProposed, FirstCommitted, FirstGraded, OutputInFirstRound
<1>4. CASE SyncNext
  BY <1>1, <1>2, <1>4, TickOfFirst, MessageOfFirst DEF SyncNext, FInv
<1>. QED
  BY <1>1, <1>3, <1>4

\* In step, and with its leader and enough others up, the first round ends with an
\* output of every node that is up: nobody leaves it without.
THEOREM FirstRoundOutputs == SyncSpec => []OutputInFirstRound
<1>1. AnyInv /\ [SyncNext]_vars => AnyInv'
  BY StepAny, SyncIsStep
<1>2. FInv => OutputInFirstRound
  BY DEF FInv, OutputInFirstRound
<1>. QED
  BY <1>1, <1>2, InitAny, InitTInv, InitFInv, StepTInv, StepFInv, PTL DEF SyncSpec
===============================================================================
