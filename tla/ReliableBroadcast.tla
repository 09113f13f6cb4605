--------------------------- MODULE ReliableBroadcast ---------------------------
(***************************************************************************)
(* One instance of the committee-based reliable broadcast of               *)
(* src/broadcast/broadcast.go: Bracha's broadcast of the digest of the     *)
(* sender's value (VAL, ECHO, READY), followed by the committee, whose     *)
(* members relay the value itself (CMessage) once the digest they          *)
(* delivered matches the value they hold.  A node of every other instance  *)
(* uses other channels, so one instance is the whole story.                *)
(*                                                                         *)
(* A node is the loop of Run: it takes a message from its channel, handles *)
(* it, and runs the top of the loop again; handling one message and the    *)
(* loop top that follows it are one action.  Messages are multicast in     *)
(* goroutines of their own, so they overtake one another: msgs is the set  *)
(* of all messages multicast so far, from which a node takes any one, any  *)
(* number of times (the loop top multicasts the same CMessage once per     *)
(* iteration).                                                             *)
(*                                                                         *)
(* Nodes of Faulty send whatever they like, to whom they like, under their *)
(* own name; nodes of Crashed run nothing at all (runProtocol returns at   *)
(* its first line for them).                                               *)
(***************************************************************************)
EXTENDS Integers, FiniteSets

CONSTANTS Node,        \* all n nodes
          Faulty,      \* nodes that deviate from the protocol
          Crashed,     \* nodes that never start
          Committee,   \* the committee members
          Sender,      \* the node whose value is broadcast (rbc.senderId)
          Value,       \* block shares
          T,           \* rbc.t
          Kappa,       \* cfg.Kappa, the security parameter
          Epsilon,     \* cfg.Epsilon, an integer, 0 everywhere in the code
          NoValue      \* Go's nil

N == Cardinality(Node)
Correct == Node \ (Faulty \cup Crashed)

\* Threshold for distinct committee messages.
Tk == ((1 - Epsilon) * Kappa * T) \div N

ASSUME RBCConstants ==
    /\ IsFiniteSet(Node)
    /\ Faulty \subseteq Node /\ Crashed \subseteq Node /\ Committee \subseteq Node
    /\ Sender \in Node
    /\ NoValue \notin Value
    /\ T \in Nat

\* At most T nodes deviate, and 2T plus their number is below n: any two sets
\* of n-T nodes share one that follows the protocol.  With T deviating nodes
\* this is the usual n > 3T.
ASSUME RBCFaults ==
    /\ Cardinality(Faulty) <= T
    /\ 2 * T + Cardinality(Faulty) < N

\* At most Tk members of the committee deviate.
ASSUME RBCCommittee ==
    /\ Tk \in Nat
    /\ Cardinality(Faulty \cap Committee) <= Tk

\* sha256 of a value; distinct values have distinct digests.
Hash(v) == <<"sha256", v>>
Digest == {Hash(v) : v \in Value}
NoDigest == <<"sha256", NoValue>>

BMessage == [kind : {"VAL", "ECHO", "READY"}, sender : Node, hash : Digest]
SMessage == [kind : {"SMessage"}, sender : Node, value : Value]
CMessage == [kind : {"CMessage"}, sender : Node, value : Value, hash : Digest]
Message == BMessage \cup SMessage \cup CMessage

Val(i, h) == [kind |-> "VAL", sender |-> i, hash |-> h]
Echo(i, h) == [kind |-> "ECHO", sender |-> i, hash |-> h]
Ready(i, h) == [kind |-> "READY", sender |-> i, hash |-> h]
ToCommittee(i, v) == [kind |-> "SMessage", sender |-> i, value |-> v]
Commit(i, v) == [kind |-> "CMessage", sender |-> i, value |-> v, hash |-> Hash(v)]

VARIABLES
    input,              \* rbc.value of the sender; NoValue until it runs
    initialVal,         \* an ECHO was sent
    ready,              \* a READY was sent
    echoReceived,       \* pairs (sender, digest)
    readyReceived,      \* pairs (sender, digest)
    broadcastValue,     \* digest delivered by Bracha's broadcast; NoDigest until broadcastDone
    senderValue,        \* last value got from the sender; NoValue until senderSent
    committeeReceived,  \* pairs (committee member, value)
    output,             \* what was put on rbc.out, after which Run has returned
    msgs                \* messages multicast by the nodes of Correct

vars == <<input, initialVal, ready, echoReceived, readyReceived, broadcastValue,
          senderValue, committeeReceived, output, msgs>>

TypeOK ==
    /\ input \in Value \cup {NoValue}
    /\ initialVal \in [Correct -> BOOLEAN]
    /\ ready \in [Correct -> BOOLEAN]
    /\ echoReceived \in [Correct -> SUBSET (Node \X Digest)]
    /\ readyReceived \in [Correct -> SUBSET (Node \X Digest)]
    /\ broadcastValue \in [Correct -> Digest \cup {NoDigest}]
    /\ senderValue \in [Correct -> Value \cup {NoValue}]
    /\ committeeReceived \in [Correct -> SUBSET (Committee \X Value)]
    /\ output \in [Correct -> Value \cup {NoValue}]
    /\ msgs \in SUBSET {m \in Message : m.sender \in Correct}

Init ==
    /\ input = NoValue
    /\ initialVal = [i \in Correct |-> FALSE]
    /\ ready = [i \in Correct |-> FALSE]
    /\ echoReceived = [i \in Correct |-> {}]
    /\ readyReceived = [i \in Correct |-> {}]
    /\ broadcastValue = [i \in Correct |-> NoDigest]
    /\ senderValue = [i \in Correct |-> NoValue]
    /\ committeeReceived = [i \in Correct |-> {}]
    /\ output = [i \in Correct |-> NoValue]
    /\ msgs = {}

-------------------------------------------------------------------------------
(* Reading the tallies *)

SendersOf(tally, x) == {i \in Node : <<i, x>> \in tally}

\* Mutants of the thresholds.
EchoOfSome(S) == Cardinality(S) >= T + 1
ReadyOfT(S) == Cardinality(S) >= T
ReadyOfAll(S) == Cardinality(S) >= N
CommitOfMore(S) == Cardinality(S) >= Tk + 2

EchoQuorum(S) == Cardinality(S) >= N - T
ReadyAmplify(S) == Cardinality(S) >= T + 1
ReadyQuorum(S) == Cardinality(S) >= N - T
CommitQuorum(S) == Cardinality(S) >= Tk + 1

broadcastDone(i) == broadcastValue[i] # NoDigest

\* Mutants of CommitteeMessage: it does not wait for the broadcast and the value,
\* or does not compare the two.
RelayAnything(i, v, h) == IF i \in Committee THEN {Commit(i, v)} ELSE {}
RelayUnchecked(i, v, h) ==
    IF i \in Committee /\ v # NoValue /\ h # NoDigest THEN {Commit(i, v)} ELSE {}

\* multicastCommitteeMessage, as called with value v and digest h by a member
\* of the committee once the broadcast is done: the messages it sends.
CommitteeMessage(i, v, h) ==
    IF i \in Committee /\ v # NoValue /\ h # NoDigest /\ Hash(v) = h
    THEN {Commit(i, v)} ELSE {}

\* isValidCommitteeMessage; the proof of membership is valid for the members.
isValidCommitteeMessage(m) == m.sender \in Committee /\ Hash(m.value) = m.hash

-------------------------------------------------------------------------------
(* The steps of a node *)

\* Mutant of Start: it may be run again with another value.
StartAgain(v) ==
    /\ Sender \in Correct
    /\ input' = v
    /\ msgs' = msgs \cup {ToCommittee(Sender, v), Val(Sender, Hash(v))}
    /\ UNCHANGED <<initialVal, ready, echoReceived, readyReceived,
                   broadcastValue, senderValue, committeeReceived, output>>

\* Run of the sender up to the loop.
Start(v) ==
    /\ Sender \in Correct
    /\ input = NoValue
    /\ input' = v
    /\ msgs' = msgs \cup {ToCommittee(Sender, v), Val(Sender, Hash(v))}
    /\ UNCHANGED <<initialVal, ready, echoReceived, readyReceived,
                   broadcastValue, senderValue, committeeReceived, output>>

\* The node is in the loop of Run.
Running(i) == output[i] = NoValue /\ (i = Sender => input # NoValue)

handleVal(i, m) ==
    /\ m.kind = "VAL" /\ ~broadcastDone(i)
    /\ ~initialVal[i]
    /\ initialVal' = [initialVal EXCEPT ![i] = TRUE]
    /\ msgs' = msgs \cup {Echo(i, m.hash)}
    /\ UNCHANGED <<input, ready, echoReceived, readyReceived, broadcastValue,
                   senderValue, committeeReceived, output>>

\* The tally of ECHOs is read only until a READY is sent, and is kept only that
\* long; so are the tally of READYs until the broadcast is done, and the value
\* of the sender by the members of the committee alone.
handleEcho(i, m) ==
    /\ m.kind = "ECHO" /\ ~broadcastDone(i)
    /\ ~ready[i]
    /\ LET tally == echoReceived[i] \cup {<<m.sender, m.hash>>}
           quorum == EchoQuorum(SendersOf(tally, m.hash))
       IN  /\ echoReceived' = [echoReceived EXCEPT ![i] = IF quorum THEN {} ELSE tally]
           /\ ready' = [ready EXCEPT ![i] = quorum]
           /\ msgs' = IF quorum THEN msgs \cup {Ready(i, m.hash)} ELSE msgs
    /\ UNCHANGED <<input, initialVal, readyReceived, broadcastValue,
                   senderValue, committeeReceived, output>>

handleReady(i, m) ==
    /\ m.kind = "READY" /\ ~broadcastDone(i)
    /\ LET tally == readyReceived[i] \cup {<<m.sender, m.hash>>}
           from == SendersOf(tally, m.hash)
           amplify == ReadyAmplify(from) /\ ~ready[i]
           done == ReadyQuorum(from)
           delivered == IF done THEN m.hash ELSE NoDigest
       IN  /\ readyReceived' = [readyReceived EXCEPT ![i] = IF done THEN {} ELSE tally]
           /\ echoReceived' = [echoReceived EXCEPT ![i] = IF amplify \/ done THEN {} ELSE @]
           /\ ready' = [ready EXCEPT ![i] = ready[i] \/ amplify]
           /\ broadcastValue' = [broadcastValue EXCEPT ![i] = delivered]
           /\ msgs' = msgs \cup (IF amplify THEN {Ready(i, m.hash)} ELSE {})
                           \cup CommitteeMessage(i, senderValue[i], delivered)
    /\ UNCHANGED <<input, initialVal, senderValue, committeeReceived, output>>

\* The SMessage case of Run and the loop top after it.
handleSender(i, m) ==
    /\ m.kind = "SMessage" /\ i \in Committee
    /\ senderValue' = [senderValue EXCEPT ![i] = m.value]
    /\ msgs' = msgs \cup CommitteeMessage(i, m.value, broadcastValue[i])
    /\ UNCHANGED <<input, initialVal, ready, echoReceived, readyReceived,
                   broadcastValue, committeeReceived, output>>

handleCommitteeMessage(i, m) ==
    /\ m.kind = "CMessage"
    /\ isValidCommitteeMessage(m)
    /\ LET tally == committeeReceived[i] \cup {<<m.sender, m.value>>}
       IN  /\ committeeReceived' = [committeeReceived EXCEPT ![i] = tally]
           /\ output' = [output EXCEPT ![i] =
                 IF CommitQuorum(SendersOf(tally, m.value)) THEN m.value ELSE NoValue]
    /\ msgs' = msgs \cup CommitteeMessage(i, m.value, broadcastValue[i])
    /\ UNCHANGED <<input, initialVal, ready, echoReceived, readyReceived,
                   broadcastValue, senderValue>>

\* What a deviating node may have sent.
FaultyMessages == {m \in Message : m.sender \in Faulty}

Receive(i, m) ==
    /\ Running(i)
    /\ \/ handleVal(i, m)
       \/ handleEcho(i, m)
       \/ handleReady(i, m)
       \/ handleSender(i, m)
       \/ handleCommitteeMessage(i, m)

Next == \/ \E v \in Value : Start(v)
        \/ \E i \in Correct : \E m \in msgs \cup FaultyMessages : Receive(i, m)

Spec == Init /\ [][Next]_vars

(***************************************************************************)
(* A node that has something to handle eventually handles it: its goroutine *)
(* is scheduled, and the transport delivers what was multicast.  A CMessage *)
(* is only promised to be handled once, so that liveness never rests on the *)
(* further copies of it.                                                    *)
(***************************************************************************)
Fresh(i, m) == m.kind = "CMessage" => <<m.sender, m.value>> \notin committeeReceived[i]
Progress(i) == \E m \in msgs : Fresh(i, m) /\ Receive(i, m)

FairSpec == /\ Spec
            /\ WF_vars(\E v \in Value : Start(v))
            /\ \A i \in Correct : WF_vars(Progress(i))

-------------------------------------------------------------------------------
(* Properties *)

\* No two correct nodes send a READY (lines 176 and 195) for different
\* digests, whichever of the two triggers made them do so.
ReadyAgreement ==
    \A m1, m2 \in msgs : m1.kind = "READY" /\ m2.kind = "READY" => m1.hash = m2.hash

\* Two nodes that terminate output the same value ("Every broadcast run in one
\* instance should output the same value", broadcast_test.go:39).
Agreement ==
    \A i, j \in Correct : output[i] # NoValue /\ output[j] # NoValue => output[i] = output[j]

\* Without deviating nodes only the input of the sender is ever output, and
\* only by committee members' relays of exactly that value.
Validity == \A i \in Correct : output[i] \in {NoValue, input}

(***************************************************************************)
(* Why: a digest is certified when n-t nodes echoed it.  Every READY,      *)
(* delivery, CMessage and output goes back to a certificate, two           *)
(* certificates share a node that follows the protocol, and such a node    *)
(* echoes once (initialVal).  What a tally holds was sent.                 *)
(***************************************************************************)
Sent(m) == m.sender \in Faulty \/ m \in msgs

Certified(h) ==
    \E Q \in SUBSET Node : EchoQuorum(Q) /\ \A j \in Q : Sent(Echo(j, h))

TalliesWereSent ==
    \A i \in Correct :
        /\ \A e \in echoReceived[i] : Sent(Echo(e[1], e[2]))
        /\ \A e \in readyReceived[i] : Sent(Ready(e[1], e[2]))
        /\ \A e \in committeeReceived[i] : Sent(Commit(e[1], e[2]))

EchoOnce ==
    \A i \in Correct : \A g, h \in Digest :
        /\ Echo(i, h) \in msgs => initialVal[i]
        /\ Echo(i, g) \in msgs /\ Echo(i, h) \in msgs => g = h

EverythingCertified ==
    /\ \A m \in msgs : m.kind \in {"READY", "CMessage"} => Certified(m.hash)
    /\ \A i \in Correct :
        /\ broadcastValue[i] # NoDigest => Certified(broadcastValue[i])
        /\ output[i] # NoValue => Certified(Hash(output[i]))

\* Every vote counted was cast, no correct node echoes two digests, and no
\* READY, delivery, CMessage or output exists without n-t echoes behind it,
\* at whichever of the lines 176, 195, 202, 286 and 220 it arises.
Certification == TalliesWereSent /\ EchoOnce /\ EverythingCertified

\* rbc.out of the nodes implements the abstract agreement.
Out == INSTANCE AgreeOnOne WITH Node <- Correct, None <- NoValue
AgreesOnOne == Out!Spec

\* When the sender is up and at most T nodes are down, everyone who is up
\* terminates, although a node that terminates stops answering at once (line
\* 136) and may never have sent its READY or its CMessage.
Termination == <>(\A i \in Correct : output[i] # NoValue)

\* What m is for has been done at node i.
Handled(i, m) ==
    /\ m.kind = "VAL" => broadcastDone(i) \/ initialVal[i]
    /\ m.kind = "ECHO" => broadcastDone(i) \/ ready[i] \/ <<m.sender, m.hash>> \in echoReceived[i]
    /\ m.kind = "READY" => broadcastDone(i) \/ <<m.sender, m.hash>> \in readyReceived[i]
    /\ m.kind = "SMessage" => i \notin Committee \/ senderValue[i] = m.value
    /\ m.kind = "CMessage" /\ isValidCommitteeMessage(m) => <<m.sender, m.value>> \in committeeReceived[i]

Quiet == input # NoValue /\ \A i \in Correct : Running(i) => \A m \in msgs : Handled(i, m)

\* The safety of Termination: when nothing is left to be handled, everyone who is
\* up has terminated.  Nobody waits for what those who terminated early, or never
\* started, did not send.
QuietMeansDone == Quiet => \A i \in Correct : output[i] # NoValue
================================================================================
