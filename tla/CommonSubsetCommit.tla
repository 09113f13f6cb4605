--------------------------- MODULE CommonSubsetCommit ---------------------------
(***************************************************************************)
(* How the nodes finish a common subset (src/commonsubset/commonsubset.go): *)
(* every node settles on an output (module CommonSubset), the members of   *)
(* the committee sign theirs, whoever has enough shares of a signature on  *)
(* one output joins them and multicasts the signature, and a node returns  *)
(* when the signature it has is one on its own output.                     *)
(*                                                                         *)
(* What a node settles on is left open: different nodes may settle on      *)
(* different outputs, which condition three of the inner protocol allows.  *)
(* Multicasts overtake one another: msgs is the set of all messages        *)
(* multicast by the nodes of Correct, and a node takes any of them, any    *)
(* number of times.                                                        *)
(***************************************************************************)
EXTENDS Integers, FiniteSets

CONSTANTS Node,        \* all n nodes
          Faulty,      \* nodes that deviate from the protocol
          Crashed,     \* nodes that never start
          Committee,   \* the committee members
          Result,      \* the outputs of the inner protocol
          T,           \* acs.t
          Kappa,       \* cfg.Kappa
          Epsilon,     \* cfg.Epsilon, an integer, 0 everywhere in the code
          JoinSize,    \* shares the key of the committee needs for a signature
          None         \* Go's nil

N == Cardinality(Node)
Correct == Node \ (Faulty \cup Crashed)

\* Threshold for distinct committee messages.
tk == ((1 - Epsilon) * Kappa * T) \div N

ASSUME CommitConstants ==
    /\ IsFiniteSet(Node)
    /\ Faulty \subseteq Node /\ Crashed \subseteq Node /\ Committee \subseteq Node
    /\ T \in Nat /\ tk \in Nat /\ JoinSize \in Nat
    /\ None \notin Result

\* The keys are made with JoinSize = k \div 2 + 1 for a committee of k: two sets
\* of that many members share one that follows the protocol, as long as fewer
\* deviate than two of the sets have members in common.
ASSUME CommitKeys ==
    Cardinality(Committee) + Cardinality(Faulty \cap Committee) < 2 * JoinSize

AcsCommitteeMessage == [kind : {"commit"}, sender : Node, value : Result]
AcsSignatureMessage == [kind : {"signature"}, value : Result]

Commit(i, r) == [kind |-> "commit", sender |-> i, value |-> r]
Signature(r) == [kind |-> "signature", value |-> r]

VARIABLES
    settled,         \* what eventHandler put on acsOut
    acsFinished,     \* acsFinished: what the loop of Run took from there
    sharesReceived,  \* pairs (committee member, output)
    signed,          \* the output receivedHash and signature are for; the two are set together
    out,             \* what was put on acs.out, after which Run has returned
    msgs             \* messages multicast by the nodes of Correct

vars == <<settled, acsFinished, sharesReceived, signed, out, msgs>>

TypeOK ==
    /\ settled \in [Correct -> Result \cup {None}]
    /\ acsFinished \in [Correct -> Result \cup {None}]
    /\ sharesReceived \in [Correct -> SUBSET (Committee \X Result)]
    /\ signed \in [Correct -> Result \cup {None}]
    /\ out \in [Correct -> Result \cup {None}]
    /\ msgs \subseteq {m \in AcsCommitteeMessage : m.sender \in Correct} \cup AcsSignatureMessage

Init ==
    /\ settled = [i \in Correct |-> None]
    /\ acsFinished = [i \in Correct |-> None]
    /\ sharesReceived = [i \in Correct |-> {}]
    /\ signed = [i \in Correct |-> None]
    /\ out = [i \in Correct |-> None]
    /\ msgs = {}

-------------------------------------------------------------------------------
(* Shares and signatures *)

SignersOf(tally, r) == {j \in Node : <<j, r>> \in tally}

EnoughCommits(S) == Cardinality(S) >= tk + 1

\* Mutant of Joins: a key made for tk shares.
JoinsTk(S) == Cardinality(S) >= tk

Joins(S) == Cardinality(S) >= JoinSize

\* Further shares on an output change nothing for who has its signature, and are
\* not kept.
Kept(tally, s) == {e \in tally : e[2] # s}

\* Who may have signed r: a member of the committee that multicast a commit, or
\* one that deviates.
Signers(r) == {j \in Committee : j \in Faulty \/ Commit(j, r) \in msgs}

\* What the deviating nodes may have sent: commits under their own names, and
\* signatures they have the shares for.
FaultyMessages ==
    {m \in AcsCommitteeMessage : m.sender \in Faulty}
    \cup {m \in AcsSignatureMessage : Faulty # {} /\ Joins(Signers(m.value))}

-------------------------------------------------------------------------------
(* The steps of a node *)

\* Mutant of Settle: commit is not looked at.
SettleAgain(i, r) ==
    /\ settled' = [settled EXCEPT ![i] = r]
    /\ msgs' = IF i \in Committee THEN msgs \cup {Commit(i, r)} ELSE msgs
    /\ UNCHANGED <<acsFinished, sharesReceived, signed, out>>

\* eventHandler settles on r, and a member of the committee multicasts its commit.
Settle(i, r) ==
    /\ settled[i] = None
    /\ settled' = [settled EXCEPT ![i] = r]
    /\ msgs' = IF i \in Committee THEN msgs \cup {Commit(i, r)} ELSE msgs
    /\ UNCHANGED <<acsFinished, sharesReceived, signed, out>>

\* The end of an iteration of the loop of Run, with output a and a signature on s.
\* Mutant of canTerminate: the hashes are not compared.
AnySignature(a, s) == a # None /\ s # None

canTerminate(a, s) == a # None /\ a = s
Return(i, a, s) == out' = [out EXCEPT ![i] = IF canTerminate(a, s) THEN a ELSE None]

Running(i) == out[i] = None

\* Mutant of TakeOutput: the end of the iteration is skipped.
TakeOnly(i) ==
    /\ Running(i) /\ settled[i] # None /\ acsFinished[i] = None
    /\ acsFinished' = [acsFinished EXCEPT ![i] = settled[i]]
    /\ UNCHANGED <<settled, sharesReceived, signed, out, msgs>>

\* The case acsOut of the loop.
TakeOutput(i) ==
    /\ Running(i) /\ settled[i] # None /\ acsFinished[i] = None
    /\ acsFinished' = [acsFinished EXCEPT ![i] = settled[i]]
    /\ Return(i, settled[i], signed[i])
    /\ UNCHANGED <<settled, sharesReceived, signed, msgs>>

handleCommit(i, m) ==
    /\ m.kind = "commit" /\ m.sender \in Committee
    /\ LET tally == sharesReceived[i] \cup {<<m.sender, m.value>>}
           from == SignersOf(tally, m.value)
           join == EnoughCommits(from) /\ Joins(from)
           s == IF join THEN m.value ELSE signed[i]
       IN  /\ sharesReceived' = [sharesReceived EXCEPT ![i] = Kept(tally, s)]
           /\ signed' = [signed EXCEPT ![i] = s]
           /\ msgs' = IF join THEN msgs \cup {Signature(m.value)} ELSE msgs
           /\ Return(i, acsFinished[i], s)
    /\ UNCHANGED <<settled, acsFinished>>

\* Mutant of handleSignatureMessage: the end of the iteration is skipped.
TakeSignatureOnly(i, m) ==
    /\ m.kind = "signature"
    /\ signed[i] = None
    /\ signed' = [signed EXCEPT ![i] = m.value]
    /\ sharesReceived' = [sharesReceived EXCEPT ![i] = Kept(@, m.value)]
    /\ msgs' = msgs \cup {Signature(m.value)}
    /\ UNCHANGED <<settled, acsFinished, out>>

handleSignatureMessage(i, m) ==
    /\ m.kind = "signature"
    /\ signed[i] = None
    /\ signed' = [signed EXCEPT ![i] = m.value]
    /\ sharesReceived' = [sharesReceived EXCEPT ![i] = Kept(@, m.value)]
    /\ msgs' = msgs \cup {Signature(m.value)}
    /\ Return(i, acsFinished[i], m.value)
    /\ UNCHANGED <<settled, acsFinished>>

Receive(i, m) == Running(i) /\ (handleCommit(i, m) \/ handleSignatureMessage(i, m))

Next == \E i \in Correct :
            \/ \E r \in Result : Settle(i, r)
            \/ TakeOutput(i)
            \/ \E m \in msgs \cup FaultyMessages : Receive(i, m)

Spec == Init /\ [][Next]_vars

(***************************************************************************)
(* The loop is scheduled and takes what was multicast; a commit is only    *)
(* promised to be taken once.  That a node settles is not promised.        *)
(***************************************************************************)
Fresh(i, m) ==
    m.kind = "commit" => m.value # signed[i] /\ <<m.sender, m.value>> \notin sharesReceived[i]
Progress(i) == TakeOutput(i) \/ \E m \in msgs : Fresh(i, m) /\ Receive(i, m)

FairSpec == Spec /\ \A i \in Correct : WF_vars(Progress(i))

-------------------------------------------------------------------------------
(* Properties *)

\* However differently the nodes have settled, no two of them return different
\* outputs: there is a signature on one output at most.
Agreement ==
    \A i, j \in Correct : out[i] # None /\ out[j] # None => out[i] = out[j]

\* Why: a member commits to what it settled on and to nothing else, every share
\* kept was sent, a node has a signature only if enough members signed, and what
\* it returns is what it has the signature on (line 475).
CommitsSettled ==
    \A i \in Correct : \A r \in Result : Commit(i, r) \in msgs => settled[i] = r

SharesWereSent ==
    \A i \in Correct : \A e \in sharesReceived[i] : e[1] \in Signers(e[2])

SignaturesJoined ==
    /\ \A r \in Result : Signature(r) \in msgs => Joins(Signers(r))
    /\ \A i \in Correct : signed[i] # None => Joins(Signers(signed[i]))

OutputsSigned ==
    \A i \in Correct : out[i] # None => out[i] = acsFinished[i] /\ out[i] = signed[i]

Signing == CommitsSettled /\ SharesWereSent /\ SignaturesJoined /\ OutputsSigned

\* Behind every output stand members of the committee that follow the protocol
\* and settled on it; deviating members cannot do without them.
Backed ==
    \A i \in Correct : signed[i] # None =>
        \E j \in Committee \cap Correct : settled[j] = signed[i]

\* acs.out of the nodes implements the abstract agreement.
Out == INSTANCE AgreeOnOne WITH Node <- Correct, output <- out
AgreesOnOne == Out!Spec

\* If all nodes settle on the same output, all return, although a node that
\* returned handles and echoes nothing any more.
Unanimous == \E r \in Result : \A i \in Correct : settled[i] = r
Termination == Unanimous ~> \A i \in Correct : out[i] # None

\* Nothing is left to be done: a node that is still in the loop of Run has taken
\* the output it settled on, if any, and has handled every message.
Handled(i, m) ==
    /\ m.kind = "commit" /\ m.sender \in Committee =>
        m.value = signed[i] \/ <<m.sender, m.value>> \in sharesReceived[i]
    /\ m.kind = "signature" => signed[i] # None

Quiet == \A i \in Correct : Running(i) =>
            (settled[i] # None => acsFinished[i] # None) /\ \A m \in msgs : Handled(i, m)

\* A node is left behind only by having settled differently from the others: when
\* nothing is left to be done and somebody returned r, or enough members that
\* follow the protocol settled on it, everyone who settled on r has returned it.
\* The member whose share completed the signature need not be up any more, and
\* what deviating members signed stands in nobody's way.
SettledReturn ==
    Quiet => \A r \in Result :
        LET members == {j \in Committee \cap Correct : settled[j] = r}
        IN  (EnoughCommits(members) /\ Joins(members)) \/ (\E j \in Correct : out[j] = r)
              => \A i \in Correct : settled[i] = r => out[i] = r
================================================================================
