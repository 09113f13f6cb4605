---------------------------- MODULE BlockAgreement -----------------------------
(***************************************************************************)
(* One block agreement (src/blockagreement): kappa rounds of graded        *)
(* consensus (gradedconsensus.go), each over one run of the propose        *)
(* protocol (propose.go), driven by the ticks of a timer.                  *)
(*                                                                         *)
(* A node is one goroutine that goes through the three protocols and       *)
(* blocks on its tickerChan, in most places together with the channel of   *)
(* the messages it expects there: taking a tick and all it leads to is one *)
(* action, and so is taking a message.  The timer fires whatever the node  *)
(* does and its channel is never full, so that a tick not yet taken is     *)
(* waiting or will be; only the ticks taken are counted.                   *)
(*                                                                         *)
(* Every message goes to the channel of its round; listeners keep it there *)
(* until the goroutine looks.  msgs is the set of all messages sent.  What *)
(* a node collects is local to a protocol of a round, and emptied where it *)
(* is read the last time.                                                  *)
(* Nodes follow the protocol or never run it (they are down, or had no     *)
(* pre-block and pointer in time).  A list of commits is one that          *)
(* findSubset made: at least t+1 commits of one round on one block.  It is *)
(* known by that round, and the block by the share that comes with it.     *)
(***************************************************************************)
EXTENDS Integers, FiniteSets, Sequences

CONSTANTS N,         \* number of nodes
          Crashed,   \* nodes that do not run the protocol
          T,         \* ba.t
          Kappa,     \* ba.kappa
          Value,     \* block shares
          None       \* no block share, and no vote

Node == 0 .. N - 1
Up == Node \ Crashed
Round == 0 .. Kappa - 1
NoCommits == -1

ASSUME BLAConstants ==
    /\ N \in Nat \ {0} /\ Kappa \in Nat \ {0} /\ T \in Nat
    /\ Crashed \subseteq Node
    /\ None \notin Value

\* leaderFunc, the same wherever it is set up.
Leader(r) == r % N

Commits == Round \cup {NoCommits}

VoteMessage ==
    [kind : {"vote"}, sender : Up, round : Round, block : Value, commits : Commits]
ProposeMessage ==
    [kind : {"propose"}, round : Round, vote : VoteMessage, votes : SUBSET VoteMessage]
CommitMessage == [kind : {"commit"}, sender : Up, round : Round, block : Value]
NotifyMessage == [kind : {"notify"}, sender : Up, round : Round, block : Value]
Message == VoteMessage \cup ProposeMessage \cup CommitMessage \cup NotifyMessage

Vote(i, r, b, c) ==
    [kind |-> "vote", sender |-> i, round |-> r, block |-> b, commits |-> c]
Proposal(r, v, V) == [kind |-> "propose", round |-> r, vote |-> v, votes |-> V]
Commit(i, r, b) == [kind |-> "commit", sender |-> i, round |-> r, block |-> b]
Notify(i, r, b) == [kind |-> "notify", sender |-> i, round |-> r, block |-> b]

VARIABLES
    ticks,        \* number of ticks taken from tickerChan
    round,        \* ba.round
    phase,        \* where the goroutine waits, see Phase
    blockShare,   \* ba.blockShare
    commits,      \* ba.commits: the round they are of, or NoCommits
    votes,        \* votes of the proposer
    proposed,     \* vote of leaderProposal, None while that is nil
    committed,    \* commits of the graded consensus: pairs (sender, block share)
    out,          \* what was put on ba.out
    msgs          \* messages sent

vars == <<ticks, round, phase, blockShare, commits, votes, proposed, committed, out, msgs>>

Phase == {"handleVotes",      \* the proposer, for votes or a tick
          "run",              \* propose, for tick 2
          "handleProposals",  \* for the proposal or a tick
          "handleCommits",    \* for commits or a tick
          "notified",         \* has sent a notify, for a tick
          "awaitNotify",      \* for a notify or a tick
          "roundOver",        \* block agreement, for the tick that ends the round
          "stuck",            \* for an output of propose that never comes
          "done"}

\* propose puts nothing on its channel if it begins with a tick later than 2.
Begin(i, r) == IF i = Leader(r) THEN "handleVotes" ELSE "run"

TypeOK ==
    /\ ticks \in [Up -> Nat]
    /\ round \in [Up -> Round]
    /\ phase \in [Up -> Phase]
    /\ blockShare \in [Up -> Value]
    /\ commits \in [Up -> Commits]
    /\ votes \in [Up -> SUBSET VoteMessage]
    /\ proposed \in [Up -> VoteMessage \cup {None}]
    /\ committed \in [Up -> SUBSET (Up \X Value)]
    /\ out \in [Up -> Seq(Value)]
    /\ msgs \in SUBSET Message

\* Every node has its input and has sent its vote of the first round.
Init ==
    /\ ticks = [i \in Up |-> 0]
    /\ round = [i \in Up |-> 0]
    /\ phase = [i \in Up |-> Begin(i, 0)]
    /\ blockShare \in [Up -> Value]
    /\ commits = [i \in Up |-> NoCommits]
    /\ votes = [i \in Up |-> {}]
    /\ proposed = [i \in Up |-> None]
    /\ committed = [i \in Up |-> {}]
    /\ out = [i \in Up |-> <<>>]
    /\ msgs = {Vote(i, 0, blockShare[i], NoCommits) : i \in Up}

-------------------------------------------------------------------------------
(* Time *)

\* Mutant of Now: one tick less to a round.
NowOfFive(i) == (ticks[i] + 1) % 5

\* The value of the tick that node i takes next.
Now(i) == (ticks[i] + 1) % 6

TakeTick(i) ==
    /\ ticks[i] + 1 < 7 * Kappa
    /\ ticks' = [ticks EXCEPT ![i] = @ + 1]

-------------------------------------------------------------------------------
(* Votes and proposals *)

Senders(V) == {v.sender : v \in V}
Enough(S) == Cardinality(S) >= T + 1

\* What findMaxVote finds: a vote of the highest round, among those the one of
\* the lowest index.
maxVote(v, V) ==
    \A w \in V : v.round > w.round \/ (v.round = w.round /\ v.sender <= w.sender)

\* Mutant of hasCommits: the commits are not asked for.
AnyVote(m) == TRUE

\* Condition 3 of isValidProposal as the code has it.
hasCommits(m) ==
    IF m.round = 0 THEN m.vote.round = 0 /\ m.vote.commits = NoCommits
    ELSE m.vote.commits # NoCommits /\ m.vote.commits <= m.vote.round

\* The signatures are valid unless a vote was changed after it was signed: a vote
\* is shared with its sender, whose updateVotes overwrites it.
isValidProposal(m, intact) ==
    /\ intact
    /\ hasCommits(m)
    /\ Enough(Senders(m.votes))
    /\ \A v \in m.votes : v.round <= m.vote.round

Unchanged(m) == \A v \in m.votes : round[v.sender] = m.round

handleVote(i, m) ==
    /\ m.kind = "vote" /\ phase[i] = "handleVotes" /\ m.round = round[i]
    /\ m.sender \notin Senders(votes[i])
    /\ votes' = [votes EXCEPT ![i] = @ \cup {m}]
    /\ UNCHANGED <<ticks, round, phase, blockShare, commits, proposed, committed, out, msgs>>

\* The proposer has waited for one tick, whichever that is.
propose(i) ==
    /\ phase[i] = "handleVotes" /\ TakeTick(i)
    /\ phase' = [phase EXCEPT ![i] = "run"]
    /\ \/ /\ Enough(Senders(votes[i]))
          /\ \E v \in votes[i] :
               maxVote(v, votes[i]) /\ msgs' = msgs \cup {Proposal(round[i], v, votes[i])}
       \/ /\ ~Enough(Senders(votes[i]))
          /\ UNCHANGED msgs
    /\ votes' = [votes EXCEPT ![i] = {}]
    /\ UNCHANGED <<round, blockShare, commits, proposed, committed, out>>

runPropose(i) ==
    /\ phase[i] = "run" /\ TakeTick(i)
    /\ phase' = [phase EXCEPT ![i] = CASE Now(i) = 2 -> "handleProposals"
                                       [] Now(i) > 2 -> "stuck"
                                       [] OTHER -> "run"]
    /\ UNCHANGED <<round, blockShare, commits, votes, proposed, committed, out, msgs>>

\* Forwarding it sends the same message again, under the id of the proposer, so
\* that the branch that collects forwarded proposals never sees one.
handleProposal(i, m) ==
    /\ m.kind = "propose" /\ phase[i] = "handleProposals" /\ m.round = round[i]
    /\ proposed[i] = None
    /\ \E intact \in BOOLEAN :
         /\ Unchanged(m) => intact
         /\ IF isValidProposal(m, intact)
            THEN /\ proposed' = [proposed EXCEPT ![i] = m.vote]
                 /\ UNCHANGED phase
            ELSE /\ phase' = [phase EXCEPT ![i] = "handleCommits"]
                 /\ UNCHANGED proposed
    /\ UNCHANGED <<ticks, round, blockShare, commits, votes, committed, out, msgs>>

\* The votes that v may have become: its sender's of the round it is in by now.
Became(v) ==
    {w \in msgs : w.kind = "vote" /\ w.sender = v.sender /\ w.round \in {v.round, round[v.sender]}}

\* The output of propose, if any, is committed to: the block share that the vote
\* has by then.
endProposals(i) ==
    /\ phase[i] = "handleProposals" /\ TakeTick(i)
    /\ phase' = [phase EXCEPT ![i] = "handleCommits"]
    /\ \/ /\ proposed[i] # None
          /\ \E w \in Became(proposed[i]) : msgs' = msgs \cup {Commit(i, round[i], w.block)}
       \/ /\ proposed[i] = None
          /\ UNCHANGED msgs
    /\ proposed' = [proposed EXCEPT ![i] = None]
    /\ UNCHANGED <<round, blockShare, commits, votes, committed, out>>

-------------------------------------------------------------------------------
(* Graded consensus *)

handleCommit(i, m) ==
    /\ m.kind = "commit" /\ phase[i] = "handleCommits" /\ m.round = round[i]
    /\ \A e \in committed[i] : e[1] # m.sender
    /\ committed' = [committed EXCEPT ![i] = @ \cup {<<m.sender, m.block>>}]
    /\ UNCHANGED <<ticks, round, phase, blockShare, commits, votes, proposed, out, msgs>>

\* Mutants of Subset: commits of all nodes are needed, and commits are counted
\* whatever block share they are on.
SubsetOfAll(i, b) == Cardinality({j \in Up : <<j, b>> \in committed[i]}) >= N
SubsetOfAny(i, b) == Enough({e[1] : e \in committed[i]})

Subset(i, b) == Enough({j \in Up : <<j, b>> \in committed[i]})

findSubset(i) ==
    /\ phase[i] = "handleCommits" /\ TakeTick(i)
    /\ \/ \E b \in Value :
            /\ Subset(i, b)
            /\ msgs' = msgs \cup {Notify(i, round[i], b)}
            /\ phase' = [phase EXCEPT ![i] = "notified"]
       \/ /\ \A b \in Value : ~Subset(i, b)
          /\ phase' = [phase EXCEPT ![i] = "awaitNotify"]
          /\ UNCHANGED msgs
    /\ committed' = [committed EXCEPT ![i] = {}]
    /\ UNCHANGED <<round, blockShare, commits, votes, proposed, out>>

\* A grade above 0 sets the block share and the commits of the node.
Graded(i, b) ==
    /\ blockShare' = [blockShare EXCEPT ![i] = b]
    /\ commits' = [commits EXCEPT ![i] = round[i]]
    /\ phase' = [phase EXCEPT ![i] = "roundOver"]

\* Grade 2.
terminate(i) ==
    /\ phase[i] = "notified" /\ TakeTick(i)
    /\ \E b \in Value :
         /\ Notify(i, round[i], b) \in msgs
         /\ Graded(i, b)
         /\ out' = [out EXCEPT ![i] = Append(@, b)]
    /\ UNCHANGED <<round, votes, proposed, committed, msgs>>

\* Grade 1.  A notify comes with the commits of a subset, which isValidNotify
\* accepts in the round of the notify.
handleNotify(i, m) ==
    /\ m.kind = "notify" /\ phase[i] = "awaitNotify" /\ m.round = round[i]
    /\ Graded(i, m.block)
    /\ UNCHANGED <<ticks, round, votes, proposed, committed, out, msgs>>

\* Grade 0.
giveUp(i) ==
    /\ phase[i] = "awaitNotify" /\ TakeTick(i)
    /\ phase' = [phase EXCEPT ![i] = "roundOver"]
    /\ UNCHANGED <<round, blockShare, commits, votes, proposed, committed, out, msgs>>

\* Mutant of Another: one round too many.
AnotherAfterLast(i) == round[i] < Kappa

\* The condition of the loop, with the round of the iteration that ends.
Another(i) == round[i] + 1 < Kappa

\* The end of the loop of Run, and the beginning of the next round: updateVotes,
\* and the vote to the proposer.
incrementRound(i) ==
    /\ phase[i] = "roundOver" /\ TakeTick(i)
    /\ IF Another(i)
       THEN /\ round' = [round EXCEPT ![i] = @ + 1]
            /\ phase' = [phase EXCEPT ![i] = Begin(i, round[i] + 1)]
            /\ msgs' = msgs \cup {Vote(i, round[i] + 1, blockShare[i], commits[i])}
       ELSE /\ phase' = [phase EXCEPT ![i] = "done"]
            /\ UNCHANGED <<round, msgs>>
    /\ UNCHANGED <<blockShare, commits, votes, proposed, committed, out>>

OnTick(i) ==
    \/ propose(i)
    \/ runPropose(i)
    \/ endProposals(i)
    \/ findSubset(i)
    \/ terminate(i)
    \/ giveUp(i)
    \/ incrementRound(i)

OnMessage(i, m) ==
    \/ handleVote(i, m)
    \/ handleProposal(i, m)
    \/ handleCommit(i, m)
    \/ handleNotify(i, m)

\* The timers of the nodes run independently and messages take any time.
Next == \E i \in Up : OnTick(i) \/ \E m \in msgs : OnMessage(i, m)

Spec == Init /\ [][Next]_vars

-------------------------------------------------------------------------------
(* Synchrony *)

\* Node i can handle m where it is.
Awaits(i, m) ==
    /\ m.round = round[i]
    /\ \/ m.kind = "vote" /\ phase[i] = "handleVotes" /\ m.sender \notin Senders(votes[i])
       \/ m.kind = "propose" /\ phase[i] = "handleProposals" /\ proposed[i] = None
       \/ m.kind = "commit" /\ phase[i] = "handleCommits" /\ \A e \in committed[i] : e[1] # m.sender
       \/ m.kind = "notify" /\ phase[i] = "awaitNotify"

\* The timers are in step, and what was sent before a tick arrives before the
\* next one and is handled.
InStep(i) ==
    \A j \in Up :
        /\ ticks[j] >= ticks[i] \/ phase[j] \in {"stuck", "done"}
        /\ ticks[j] = ticks[i] => \A m \in msgs : ~Awaits(j, m)

SyncNext == \E i \in Up : (InStep(i) /\ OnTick(i)) \/ \E m \in msgs : OnMessage(i, m)

SyncSpec == Init /\ [][SyncNext]_vars /\ WF_vars(SyncNext)

-------------------------------------------------------------------------------
(* Properties *)

\* Whatever the timers and the network do: every block share that anybody
\* outputs, in any round, is the one the leader of the first round proposed
\* there.  (So no two nodes, and no two rounds, differ; and without that leader
\* there is no output, as no later proposal is valid.)
First(b) == \E m \in msgs : m.kind = "propose" /\ m.round = 0 /\ m.vote.block = b

OneProposal ==
    \A m1, m2 \in msgs : m1.kind = "propose" /\ m2.kind = "propose" /\ m1.round = 0 /\ m2.round = 0
        => m1 = m2

OutputIsFirst == OneProposal /\ \A i \in Up : \A k \in DOMAIN out[i] : First(out[i][k])

\* A node that adopted a block share did so because t+1 nodes committed to it in
\* that round.
Certified ==
    \A i \in Up : commits[i] # NoCommits =>
        Enough({j \in Up : Commit(j, commits[i], blockShare[i]) \in msgs})

\* The first block share on ba.out, which GetValue takes, implements the
\* abstract agreement.
Output == [i \in Up |-> IF out[i] = <<>> THEN None ELSE Head(out[i])]
Agreed == INSTANCE AgreeOnOne WITH Node <- Up, output <- Output
AgreesOnOne == Agreed!Spec

\* Synchronous only: no node ever begins a round so early or so late that it
\* waits for an output of propose that does not come.
NeverStuck == \A i \in Up : phase[i] # "stuck"

\* Synchronous only: with the leader of the first round up, everyone who is up
\* has an output and ends, also when a leader of a later round is down.
Termination == <>(\A i \in Up : phase[i] = "done" /\ out[i] # <<>>)
================================================================================
