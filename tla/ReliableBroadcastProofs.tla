------------------------ MODULE ReliableBroadcastProofs ------------------------
(***************************************************************************)
(* Proofs about ReliableBroadcast, for every number of nodes, every        *)
(* committee and every set of values the assumptions allow.                *)
(***************************************************************************)
EXTENDS ReliableBroadcast, FiniteSetTheorems, TLAPS

IInv == TypeOK /\ Certification

-------------------------------------------------------------------------------
(* Quorums *)

\* The cardinalities the thresholds are compared with are numbers.
LEMMA Sizes ==
    /\ N \in Nat /\ T \in Nat /\ Cardinality(Faulty) \in Nat
    /\ \A S \in SUBSET Node : IsFiniteSet(S) /\ Cardinality(S) \in Nat /\ Cardinality(S) <= N
<1>1. \A S \in SUBSET Node : IsFiniteSet(S) /\ Cardinality(S) <= N
  BY RBCConstants, FS_Subset DEF N
<1>2. \A S \in SUBSET Node : Cardinality(S) \in Nat
  BY <1>1, FS_CardinalityType
<1>. QED
  BY <1>1, <1>2, RBCConstants DEF N

\* A set larger than the set of deviating nodes holds a node that follows
\* the protocol (the threshold t+1 of line 195).
LEMMA SomeoneHonest ==
    ASSUME NEW S \in SUBSET Node, Cardinality(S) > Cardinality(Faulty)
    PROVE  \E j \in S : j \notin Faulty
<1>1. SUFFICES ASSUME S \subseteq Faulty PROVE FALSE
  OBVIOUS
<1>2. IsFiniteSet(Faulty)
  BY Sizes, RBCConstants
<1>3. Cardinality(S) <= Cardinality(Faulty)
  BY <1>1, <1>2, FS_Subset
<1>. QED
  BY <1>3, Sizes

\* Two sets of n-t nodes share one that follows the protocol.
LEMMA QuorumsMeet ==
    ASSUME NEW Q \in SUBSET Node, NEW R \in SUBSET Node, EchoQuorum(Q), EchoQuorum(R)
    PROVE  \E j \in Q \cap R : j \notin Faulty
<1>1. Cardinality(Q \cup R) = Cardinality(Q) + Cardinality(R) - Cardinality(Q \cap R)
  BY Sizes, FS_Union
<1>2. Cardinality(Q \cup R) <= N /\ Q \cap R \in SUBSET Node /\ Q \cup R \in SUBSET Node
  BY Sizes
<1>3. Cardinality(Q \cap R) > Cardinality(Faulty)
  BY <1>1, <1>2, Sizes, RBCFaults DEF EchoQuorum
<1>. QED
  BY <1>2, <1>3, SomeoneHonest

\* n-t READYs, and t+1 READYs, come from at least one correct node.
LEMMA QuorumsAreHonest ==
    ASSUME NEW S \in SUBSET Node, ReadyAmplify(S) \/ ReadyQuorum(S)
    PROVE  \E j \in S : j \notin Faulty
<1>1. Cardinality(S) > Cardinality(Faulty)
  BY Sizes, RBCFaults DEF ReadyAmplify, ReadyQuorum
<1>. QED
  BY <1>1, SomeoneHonest

\* So do tk+1 CMessages, when their senders are members of the committee.
LEMMA CommitQuorumIsHonest ==
    ASSUME NEW S \in SUBSET Committee, CommitQuorum(S)
    PROVE  \E j \in S : j \notin Faulty
<1>1. SUFFICES ASSUME S \subseteq Faulty \cap Committee PROVE FALSE
  OBVIOUS
<1>2. Faulty \cap Committee \in SUBSET Node /\ S \in SUBSET Node
  BY RBCConstants
<1>3. Cardinality(S) <= Cardinality(Faulty \cap Committee)
  BY <1>1, <1>2, Sizes, FS_Subset
<1>. QED
  BY <1>2, <1>3, Sizes, RBCCommittee DEF CommitQuorum

-------------------------------------------------------------------------------
(* Certificates *)

\* At most one digest is ever certified.
LEMMA OneCertificate ==
    ASSUME EchoOnce, NEW g \in Digest, NEW h \in Digest, Certified(g), Certified(h),
           \A m \in msgs : m.sender \in Correct
    PROVE  g = h
<1>1. PICK Q \in SUBSET Node : EchoQuorum(Q) /\ \A j \in Q : Sent(Echo(j, g))
  BY DEF Certified
<1>2. PICK R \in SUBSET Node : EchoQuorum(R) /\ \A j \in R : Sent(Echo(j, h))
  BY DEF Certified
<1>3. PICK j \in Q \cap R : j \notin Faulty
  BY <1>1, <1>2, QuorumsMeet
<1>4. Echo(j, g) \in msgs /\ Echo(j, h) \in msgs
  BY <1>1, <1>2, <1>3 DEF Sent, Echo
<1>5. j \in Correct
  BY <1>4 DEF Echo
<1>. QED
  BY <1>4, <1>5 DEF EchoOnce

\* A digest some correct node sent a READY for is certified.
LEMMA ReadyIsCertified ==
    ASSUME EverythingCertified, NEW j, NEW h, Ready(j, h) \in msgs
    PROVE  Certified(h)
BY DEF EverythingCertified, Ready

LEMMA CommitIsCertified ==
    ASSUME EverythingCertified, NEW j, NEW v, Commit(j, v) \in msgs
    PROVE  Certified(Hash(v))
BY DEF EverythingCertified, Commit

\* Messages are only added, so what was sent stays sent and what was
\* certified stays certified.
LEMMA Monotone ==
    ASSUME msgs \subseteq msgs'
    PROVE  /\ \A m : Sent(m) => Sent(m)'
           /\ \A h : Certified(h) => Certified(h)'
<1>1. \A m : Sent(m) => Sent(m)'
  BY DEF Sent
<1>2. \A h : Certified(h) => Certified(h)'
  BY <1>1 DEF Certified
<1>. QED
  BY <1>1, <1>2

-------------------------------------------------------------------------------
(* Messages *)

\* Distinct values have distinct digests, and none has the digest of nil.
LEMMA Digests ==
    /\ \A v \in Value : Hash(v) \in Digest
    /\ \A v, w : Hash(v) = Hash(w) => v = w
    /\ NoDigest \notin Digest
BY RBCConstants DEF Hash, Digest, NoDigest

\* Every message is what its constructor makes it.
LEMMA MessageForms ==
    ASSUME NEW m \in Message
    PROVE  /\ m.sender \in Node
           /\ m.kind \in {"VAL", "ECHO", "READY", "SMessage", "CMessage"}
           /\ m.kind \in {"VAL", "ECHO", "READY", "CMessage"} => m.hash \in Digest
           /\ m.kind \in {"SMessage", "CMessage"} => m.value \in Value
           /\ m.kind = "ECHO" => m = Echo(m.sender, m.hash)
           /\ m.kind = "READY" => m = Ready(m.sender, m.hash)
           /\ m.kind = "CMessage" /\ Hash(m.value) = m.hash => m = Commit(m.sender, m.value)
<1>1. CASE m \in BMessage
  BY <1>1 DEF BMessage, Echo, Ready
<1>2. CASE m \in SMessage
  BY <1>2 DEF SMessage
<1>3. CASE m \in CMessage
  BY <1>3 DEF CMessage, Commit
<1>. QED
  BY <1>1, <1>2, <1>3 DEF Message

LEMMA MessageTypes ==
    ASSUME NEW i \in Node, NEW h \in Digest, NEW v \in Value
    PROVE  /\ {Val(i, h), Echo(i, h), Ready(i, h)} \subseteq Message
           /\ {ToCommittee(i, v), Commit(i, v)} \subseteq Message
<1>1. {Val(i, h), Echo(i, h), Ready(i, h)} \subseteq BMessage
  BY DEF Val, Echo, Ready, BMessage
<1>2. ToCommittee(i, v) \in SMessage
  BY DEF ToCommittee, SMessage
<1>3. Commit(i, v) \in CMessage
  BY Digests DEF Commit, CMessage
<1>. QED
  BY <1>1, <1>2, <1>3 DEF Message

\* multicastCommitteeMessage sends at most the CMessage for v, and only when
\* h is the digest of v.
LEMMA CommitteeMessages ==
    ASSUME NEW i, NEW v, NEW h, NEW m \in CommitteeMessage(i, v, h)
    PROVE  i \in Committee /\ v # NoValue /\ h = Hash(v) /\ h # NoDigest /\ m = Commit(i, v)
BY DEF CommitteeMessage

\* A message a node takes from its channel was sent.
LEMMA Received ==
    ASSUME TypeOK, NEW m \in msgs \cup FaultyMessages
    PROVE  m \in Message /\ Sent(m)
BY DEF TypeOK, FaultyMessages, Sent

-------------------------------------------------------------------------------
(* Types *)

USE DEF Correct

LEMMA InitType == Init => TypeOK
BY DEF Init, TypeOK, Digest

LEMMA StepType == TypeOK /\ [Next]_vars => TypeOK'
<1>1. SUFFICES ASSUME TypeOK, [Next]_vars PROVE TypeOK'
  OBVIOUS
<1>a. ASSUME NEW v \in Value, Start(v) PROVE TypeOK'
  <2>1. {ToCommittee(Sender, v), Val(Sender, Hash(v))} \subseteq {m \in Message : m.sender \in Correct}
    BY <1>a, MessageTypes, Digests, RBCConstants DEF Start, ToCommittee, Val
  <2>. QED
    BY <1>1, <1>a, <2>1 DEF TypeOK, Start
<1>b. ASSUME NEW i \in Correct, NEW m \in msgs \cup FaultyMessages, Receive(i, m) PROVE TypeOK'
  <2>1. m \in Message /\ i \in Node
    BY <1>1, Received
  <2>c. ASSUME NEW v \in Value \cup {NoValue}, NEW h
        PROVE  CommitteeMessage(i, v, h) \subseteq {x \in Message : x.sender \in Correct}
    BY <2>1, CommitteeMessages, MessageTypes, Digests DEF Commit, Digest
  <2>2. CASE handleVal(i, m)
    <3>1. Echo(i, m.hash) \in {x \in Message : x.sender \in Correct}
      BY <2>1, <2>2, MessageForms, MessageTypes DEF handleVal, Echo, Digest
    <3>. QED
      BY <1>1, <2>2, <3>1 DEF TypeOK, handleVal
  <2>r. ASSUME m.kind \in {"ECHO", "READY"}
        PROVE  /\ Ready(i, m.hash) \in {x \in Message : x.sender \in Correct}
               /\ m.sender \in Node /\ m.hash \in Digest
    <3>1. m.sender \in Node /\ m.hash \in Digest
      BY <2>1, <2>r, MessageForms
    <3>2. Value # {}
      BY <3>1 DEF Digest
    <3>. QED
      BY <2>1, <3>1, <3>2, MessageTypes DEF Ready
  <2>3. CASE handleEcho(i, m)
    BY <1>1, <2>3, <2>r DEF TypeOK, handleEcho, EchoQuorum
  <2>4. CASE handleReady(i, m)
    BY <1>1, <2>4, <2>r, <2>c DEF TypeOK, handleReady, ReadyAmplify, ReadyQuorum
  <2>5. CASE handleSender(i, m)
    <3>1. m.value \in Value
      BY <2>1, <2>5, MessageForms DEF handleSender
    <3>. QED
      BY <1>1, <2>5, <2>c, <3>1 DEF TypeOK, handleSender
  <2>6. CASE handleCommitteeMessage(i, m)
    <3>1. m.value \in Value /\ m.sender \in Committee
      BY <2>1, <2>6, MessageForms DEF handleCommitteeMessage, isValidCommitteeMessage
    <3>. QED
      BY <1>1, <2>6, <2>c, <3>1 DEF TypeOK, handleCommitteeMessage
  <2>. QED
    BY <1>b, <2>2, <2>3, <2>4, <2>5, <2>6 DEF Receive
<1>c. CASE UNCHANGED vars
  BY <1>1, <1>c DEF TypeOK, vars
<1>. QED
  BY <1>1, <1>a, <1>b, <1>c DEF Next

\* The state always has the shape TypeOK gives it.
THEOREM TypeCorrect == Spec => []TypeOK
<1>. QED
  BY InitType, StepType, PTL DEF Spec

-------------------------------------------------------------------------------
(* Every step keeps the certificates *)

LEMMA InitCertification == Init => Certification
BY DEF Init, Certification, TalliesWereSent, EchoOnce, EverythingCertified

\* A step that sends no ECHO.
LEMMA EchoOnceKept ==
    ASSUME EchoOnce, \A x \in msgs' \ msgs : x.kind # "ECHO", initialVal' = initialVal
    PROVE  EchoOnce'
<1>1. \A i, h : Echo(i, h) \in msgs' => Echo(i, h) \in msgs
  BY DEF Echo
<1>. QED
  BY <1>1 DEF EchoOnce

\* A step whose READYs, CMessages, deliveries and outputs are certified.
LEMMA CertifiedKept ==
    ASSUME EverythingCertified, msgs \subseteq msgs',
           \A x \in msgs' \ msgs : x.kind \in {"READY", "CMessage"} => Certified(x.hash),
           \A i \in Correct : /\ broadcastValue'[i] # NoDigest => Certified(broadcastValue'[i])
                              /\ output'[i] # NoValue => Certified(Hash(output'[i]))
    PROVE  EverythingCertified'
<1>1. \A h : Certified(h) => Certified(h)'
  BY Monotone
<1>2. \A x \in msgs' : x.kind \in {"READY", "CMessage"} => Certified(x.hash)
  BY DEF EverythingCertified
<1>3. \A x \in msgs' : x.kind \in {"READY", "CMessage"} => Certified(x.hash)'
  BY <1>1, <1>2
<1>4. (\A i \in Correct : /\ broadcastValue[i] # NoDigest => Certified(broadcastValue[i])
                          /\ output[i] # NoValue => Certified(Hash(output[i])))'
  BY <1>1
<1>. QED
  BY <1>3, <1>4 DEF EverythingCertified

\* A step that only adds votes that were sent to the tallies.
LEMMA TalliesKept ==
    ASSUME TypeOK, TalliesWereSent, msgs \subseteq msgs',
           NEW i \in Correct, NEW STATE e, NEW STATE r, NEW STATE c,
           echoReceived' = [echoReceived EXCEPT ![i] = e],
           readyReceived' = [readyReceived EXCEPT ![i] = r],
           committeeReceived' = [committeeReceived EXCEPT ![i] = c],
           \A x \in e : Sent(Echo(x[1], x[2])),
           \A x \in r : Sent(Ready(x[1], x[2])),
           \A x \in c : Sent(Commit(x[1], x[2]))
    PROVE  TalliesWereSent'
<1>1. \A m : Sent(m) => Sent(m)'
  BY Monotone
<1>2. \A j \in Correct :
        /\ \A x \in echoReceived'[j] : Sent(Echo(x[1], x[2]))
        /\ \A x \in readyReceived'[j] : Sent(Ready(x[1], x[2]))
        /\ \A x \in committeeReceived'[j] : Sent(Commit(x[1], x[2]))
  BY DEF TypeOK, TalliesWereSent
<1>. QED
  BY <1>1, <1>2 DEF TalliesWereSent

\* The step changes no tally.
LEMMA TalliesUnchanged ==
    ASSUME TalliesWereSent, msgs \subseteq msgs',
           UNCHANGED <<echoReceived, readyReceived, committeeReceived>>
    PROVE  TalliesWereSent'
<1>1. \A m : Sent(m) => Sent(m)'
  BY Monotone
<1>. QED
  BY <1>1 DEF TalliesWereSent

LEMMA StepCertification == IInv /\ [Next]_vars => Certification'
<1>1. SUFFICES ASSUME IInv, [Next]_vars PROVE Certification'
  OBVIOUS
<1>2. TypeOK /\ TalliesWereSent /\ EchoOnce /\ EverythingCertified
  BY <1>1 DEF IInv, Certification
<1>3. \A i \in Correct : /\ broadcastValue[i] # NoDigest => Certified(broadcastValue[i])
                         /\ output[i] # NoValue => Certified(Hash(output[i]))
  BY <1>2 DEF EverythingCertified
<1>a. ASSUME NEW v \in Value, Start(v) PROVE Certification'
  <2>1. msgs \subseteq msgs' /\ \A x \in msgs' \ msgs : x.kind \in {"SMessage", "VAL"}
    BY <1>a DEF Start, ToCommittee, Val
  <2>2. TalliesWereSent'
    BY <1>2, <1>a, <2>1, TalliesUnchanged DEF Start
  <2>3. EchoOnce'
    BY <1>2, <1>a, <2>1, EchoOnceKept DEF Start
  <2>4. EverythingCertified'
    <3>1. UNCHANGED <<broadcastValue, output>>
      BY <1>a DEF Start
    <3>. QED
      BY <1>2, <1>3, <2>1, <3>1, CertifiedKept
  <2>. QED
    BY <2>2, <2>3, <2>4 DEF Certification
<1>b. ASSUME NEW i \in Correct, NEW m \in msgs \cup FaultyMessages, Running(i), handleVal(i, m)
      PROVE  Certification'
  <2>1. msgs' = msgs \cup {Echo(i, m.hash)} /\ \A x \in msgs' \ msgs : x.kind = "ECHO"
    BY <1>b DEF handleVal, Echo
  <2>2. TalliesWereSent'
    BY <1>2, <1>b, <2>1, TalliesUnchanged DEF handleVal
  <2>3. EchoOnce'
    <3>1. \A h \in Digest : Echo(i, h) \notin msgs
      BY <1>2, <1>b DEF handleVal, EchoOnce
    <3>2. initialVal' = [initialVal EXCEPT ![i] = TRUE] /\ initialVal \in [Correct -> BOOLEAN]
      BY <1>2, <1>b DEF handleVal, TypeOK
    <3>3. \A j : \A h : Echo(j, h) \in msgs' => Echo(j, h) \in msgs \/ (j = i /\ h = m.hash)
      BY <2>1 DEF Echo
    <3>. QED
      BY <1>2, <3>1, <3>2, <3>3 DEF EchoOnce
  <2>4. EverythingCertified'
    <3>1. UNCHANGED <<broadcastValue, output>>
      BY <1>b DEF handleVal
    <3>. QED
      BY <1>2, <1>3, <2>1, <3>1, CertifiedKept
  <2>. QED
    BY <2>2, <2>3, <2>4 DEF Certification
<1>c. ASSUME NEW i \in Correct, NEW m \in msgs \cup FaultyMessages, Running(i), handleEcho(i, m)
      PROVE  Certification'
  <2>. DEFINE tally == echoReceived[i] \cup {<<m.sender, m.hash>>}
              quorum == EchoQuorum(SendersOf(tally, m.hash))
  <2>1. msgs' = (IF quorum THEN msgs \cup {Ready(i, m.hash)} ELSE msgs)
    BY <1>c DEF handleEcho
  <2>2. \A x \in tally : Sent(Echo(x[1], x[2]))
    <3>1. Sent(Echo(m.sender, m.hash))
      BY <1>2, <1>c, Received, MessageForms DEF handleEcho
    <3>. QED
      BY <1>2, <3>1 DEF TalliesWereSent
  <2>3. quorum => Certified(m.hash)
    <3>1. SUFFICES ASSUME quorum PROVE Certified(m.hash)
      OBVIOUS
    <3>2. SendersOf(tally, m.hash) \in SUBSET Node
      BY DEF SendersOf
    <3>3. \A j \in SendersOf(tally, m.hash) : Sent(Echo(j, m.hash))
      BY <2>2 DEF SendersOf
    <3>. QED
      BY <3>1, <3>2, <3>3 DEF Certified
  <2>4. TalliesWereSent'
    <3>. DEFINE e == IF quorum THEN {} ELSE tally
    <3>1. /\ echoReceived' = [echoReceived EXCEPT ![i] = e]
          /\ readyReceived' = [readyReceived EXCEPT ![i] = readyReceived[i]]
          /\ committeeReceived' = [committeeReceived EXCEPT ![i] = committeeReceived[i]]
      BY <1>2, <1>c DEF handleEcho, TypeOK
    <3>2. \A x \in e : Sent(Echo(x[1], x[2]))
      BY <2>2
    <3>3. /\ \A x \in readyReceived[i] : Sent(Ready(x[1], x[2]))
          /\ \A x \in committeeReceived[i] : Sent(Commit(x[1], x[2]))
      BY <1>2 DEF TalliesWereSent
    <3>4. msgs \subseteq msgs'
      BY <2>1
    <3>. HIDE DEF e
    <3>. QED
      BY <1>2, <3>1, <3>2, <3>3, <3>4, TalliesKept
  <2>5. \A x \in msgs' \ msgs : x.kind = "READY" /\ x.hash = m.hash /\ quorum
    BY <2>1 DEF Ready
  <2>6. EchoOnce'
    BY <1>2, <1>c, <2>5, EchoOnceKept DEF handleEcho
  <2>7. EverythingCertified'
    <3>1. UNCHANGED <<broadcastValue, output>> /\ msgs \subseteq msgs'
      BY <1>c, <2>1 DEF handleEcho
    <3>. QED
      BY <1>2, <1>3, <2>3, <2>5, <3>1, CertifiedKept
  <2>. QED
    BY <2>4, <2>6, <2>7 DEF Certification
<1>d. ASSUME NEW i \in Correct, NEW m \in msgs \cup FaultyMessages, Running(i), handleReady(i, m)
      PROVE  Certification'
  <2>. DEFINE tally == readyReceived[i] \cup {<<m.sender, m.hash>>}
              from == SendersOf(tally, m.hash)
              amplify == ReadyAmplify(from) /\ ~ready[i]
              done == ReadyQuorum(from)
              delivered == IF done THEN m.hash ELSE NoDigest
  <2>1. /\ msgs' = msgs \cup (IF amplify THEN {Ready(i, m.hash)} ELSE {})
                       \cup CommitteeMessage(i, senderValue[i], delivered)
        /\ broadcastValue' = [broadcastValue EXCEPT ![i] = delivered]
    BY <1>d DEF handleReady
  <2>2. \A x \in tally : Sent(Ready(x[1], x[2]))
    <3>1. Sent(Ready(m.sender, m.hash))
      BY <1>2, <1>d, Received, MessageForms DEF handleReady
    <3>. QED
      BY <1>2, <3>1 DEF TalliesWereSent
  <2>3. amplify \/ done => Certified(m.hash)
    <3>1. SUFFICES ASSUME ReadyAmplify(from) \/ ReadyQuorum(from) PROVE Certified(m.hash)
      OBVIOUS
    <3>2. PICK j \in from : j \notin Faulty
      <4>1. from \in SUBSET Node
        BY DEF SendersOf
      <4>. QED
        BY <3>1, <4>1, QuorumsAreHonest
    <3>3. Sent(Ready(j, m.hash))
      BY <2>2, <3>2 DEF SendersOf
    <3>4. Ready(j, m.hash) \in msgs
      BY <3>2, <3>3 DEF Sent, Ready
    <3>. QED
      BY <1>2, <3>4, ReadyIsCertified
  <2>4. TalliesWereSent'
    <3>. DEFINE e == IF amplify \/ done THEN {} ELSE echoReceived[i]
                r == IF done THEN {} ELSE tally
    <3>1. /\ echoReceived' = [echoReceived EXCEPT ![i] = e]
          /\ readyReceived' = [readyReceived EXCEPT ![i] = r]
          /\ committeeReceived' = [committeeReceived EXCEPT ![i] = committeeReceived[i]]
      BY <1>2, <1>d DEF handleReady, TypeOK
    <3>2. \A x \in r : Sent(Ready(x[1], x[2]))
      BY <2>2
    <3>3. /\ \A x \in e : Sent(Echo(x[1], x[2]))
          /\ \A x \in committeeReceived[i] : Sent(Commit(x[1], x[2]))
      BY <1>2 DEF TalliesWereSent
    <3>4. msgs \subseteq msgs'
      BY <2>1
    <3>. HIDE DEF e, r
    <3>. QED
      BY <1>2, <3>1, <3>2, <3>3, <3>4, TalliesKept
  <2>5. \A x \in msgs' \ msgs : x.kind \in {"READY", "CMessage"} /\ Certified(x.hash)
    <3>1. \A x \in CommitteeMessage(i, senderValue[i], delivered) :
             x.kind = "CMessage" /\ x.hash = m.hash /\ done
      BY CommitteeMessages DEF Commit
    <3>. QED
      BY <2>1, <2>3, <3>1 DEF Ready
  <2>6. EchoOnce'
    BY <1>2, <1>d, <2>5, EchoOnceKept DEF handleReady
  <2>7. EverythingCertified'
    <3>1. UNCHANGED output /\ msgs \subseteq msgs'
      BY <1>d, <2>1 DEF handleReady
    <3>2. \A j \in Correct : broadcastValue'[j] # NoDigest => Certified(broadcastValue'[j])
      BY <1>2, <1>3, <2>1, <2>3 DEF TypeOK
    <3>. QED
      BY <1>2, <1>3, <2>5, <3>1, <3>2, CertifiedKept
  <2>. QED
    BY <2>4, <2>6, <2>7 DEF Certification
<1>e. ASSUME NEW i \in Correct, NEW m \in msgs \cup FaultyMessages, Running(i), handleSender(i, m)
      PROVE  Certification'
  <2>1. msgs' = msgs \cup CommitteeMessage(i, m.value, broadcastValue[i])
    BY <1>e DEF handleSender
  <2>2. \A x \in msgs' \ msgs : x.kind = "CMessage" /\ Certified(x.hash)
    BY <1>3, <2>1, CommitteeMessages DEF Commit
  <2>3. TalliesWereSent'
    BY <1>2, <1>e, <2>1, TalliesUnchanged DEF handleSender
  <2>4. EchoOnce'
    BY <1>2, <1>e, <2>2, EchoOnceKept DEF handleSender
  <2>5. EverythingCertified'
    <3>1. UNCHANGED <<broadcastValue, output>> /\ msgs \subseteq msgs'
      BY <1>e, <2>1 DEF handleSender
    <3>. QED
      BY <1>2, <1>3, <2>2, <3>1, CertifiedKept
  <2>. QED
    BY <2>3, <2>4, <2>5 DEF Certification
<1>f. ASSUME NEW i \in Correct, NEW m \in msgs \cup FaultyMessages, Running(i),
             handleCommitteeMessage(i, m)
      PROVE  Certification'
  <2>. DEFINE tally == committeeReceived[i] \cup {<<m.sender, m.value>>}
              from == SendersOf(tally, m.value)
  <2>1. /\ msgs' = msgs \cup CommitteeMessage(i, m.value, broadcastValue[i])
        /\ output' = [output EXCEPT ![i] = IF CommitQuorum(from) THEN m.value ELSE NoValue]
    BY <1>f DEF handleCommitteeMessage
  <2>2. \A x \in tally : Sent(Commit(x[1], x[2])) /\ x[1] \in Committee
    <3>1. Sent(Commit(m.sender, m.value)) /\ m.sender \in Committee
      BY <1>2, <1>f, Received, MessageForms DEF handleCommitteeMessage, isValidCommitteeMessage
    <3>2. \A x \in committeeReceived[i] : x[1] \in Committee
      BY <1>2 DEF TypeOK
    <3>. QED
      BY <1>2, <3>1, <3>2 DEF TalliesWereSent
  <2>3. CommitQuorum(from) => Certified(Hash(m.value))
    <3>1. SUFFICES ASSUME CommitQuorum(from) PROVE Certified(Hash(m.value))
      OBVIOUS
    <3>2. PICK j \in from : j \notin Faulty
      <4>1. from \in SUBSET Committee
        BY <2>2 DEF SendersOf
      <4>. QED
        BY <3>1, <4>1, CommitQuorumIsHonest
    <3>3. Sent(Commit(j, m.value))
      BY <2>2, <3>2 DEF SendersOf
    <3>4. Commit(j, m.value) \in msgs
      BY <3>2, <3>3 DEF Sent, Commit
    <3>. QED
      BY <1>2, <3>4, CommitIsCertified
  <2>4. \A x \in msgs' \ msgs : x.kind = "CMessage" /\ Certified(x.hash)
    BY <1>3, <2>1, CommitteeMessages DEF Commit
  <2>5. TalliesWereSent'
    <3>1. /\ echoReceived' = [echoReceived EXCEPT ![i] = echoReceived[i]]
          /\ readyReceived' = [readyReceived EXCEPT ![i] = readyReceived[i]]
          /\ committeeReceived' = [committeeReceived EXCEPT ![i] = tally]
      BY <1>2, <1>f DEF handleCommitteeMessage, TypeOK
    <3>2. /\ \A x \in echoReceived[i] : Sent(Echo(x[1], x[2]))
          /\ \A x \in readyReceived[i] : Sent(Ready(x[1], x[2]))
          /\ \A x \in tally : Sent(Commit(x[1], x[2]))
      BY <1>2, <2>2 DEF TalliesWereSent
    <3>3. msgs \subseteq msgs'
      BY <2>1
    <3>. HIDE DEF tally
    <3>. QED
      BY <1>2, <3>1, <3>2, <3>3, TalliesKept
  <2>6. EchoOnce'
    BY <1>2, <1>f, <2>4, EchoOnceKept DEF handleCommitteeMessage
  <2>7. EverythingCertified'
    <3>1. UNCHANGED broadcastValue /\ msgs \subseteq msgs'
      BY <1>f, <2>1 DEF handleCommitteeMessage
    <3>2. \A j \in Correct : output'[j] # NoValue => Certified(Hash(output'[j]))
      BY <1>2, <1>3, <2>1, <2>3 DEF TypeOK
    <3>. QED
      BY <1>2, <1>3, <2>4, <3>1, <3>2, CertifiedKept
  <2>. QED
    BY <2>5, <2>6, <2>7 DEF Certification
<1>g. CASE UNCHANGED vars
  <2>1. UNCHANGED <<echoReceived, readyReceived, committeeReceived, msgs, initialVal, broadcastValue, output>>
    BY <1>g DEF vars
  <2>2. msgs \subseteq msgs' /\ msgs' \ msgs = {}
    BY <2>1
  <2>3. TalliesWereSent'
    BY <1>2, <2>1, <2>2, TalliesUnchanged
  <2>4. EchoOnce'
    BY <1>2, <2>1, <2>2, EchoOnceKept
  <2>5. EverythingCertified'
    BY <1>2, <1>3, <2>1, <2>2, CertifiedKept
  <2>. QED
    BY <2>3, <2>4, <2>5 DEF Certification
<1>. QED
  BY <1>1, <1>a, <1>b, <1>c, <1>d, <1>e, <1>f, <1>g DEF Next, Receive

-------------------------------------------------------------------------------
(* The theorems *)

LEMMA Inductive == Spec => []IInv
<1>1. Init => IInv
  BY InitType, InitCertification DEF IInv
<1>2. IInv /\ [Next]_vars => IInv'
  BY StepType, StepCertification DEF IInv
<1>. QED
  BY <1>1, <1>2, PTL DEF Spec

\* Every READY, delivery, CMessage and output has n-t ECHOs behind it.
THEOREM CertificationHolds == Spec => []Certification
<1>1. IInv => Certification
  BY DEF IInv
<1>. QED
  BY <1>1, Inductive, PTL

LEMMA AgreementFromIInv == IInv => ReadyAgreement /\ Agreement
<1>1. SUFFICES ASSUME IInv PROVE ReadyAgreement /\ Agreement
  OBVIOUS
<1>2. TypeOK /\ EchoOnce /\ EverythingCertified /\ \A m \in msgs : m.sender \in Correct
  BY <1>1 DEF IInv, Certification, TypeOK
<1>3. \A g, h \in Digest : Certified(g) /\ Certified(h) => g = h
  BY <1>2, OneCertificate
<1>4. ReadyAgreement
  <2>1. \A m \in msgs : m.kind = "READY" => m.hash \in Digest /\ Certified(m.hash)
    BY <1>2, MessageForms DEF TypeOK, EverythingCertified
  <2>. QED
    BY <1>3, <2>1 DEF ReadyAgreement
<1>5. Agreement
  <2>1. \A i \in Correct : output[i] # NoValue => Certified(Hash(output[i])) /\ Hash(output[i]) \in Digest
    BY <1>2, Digests DEF TypeOK, EverythingCertified
  <2>2. ASSUME NEW i \in Correct, NEW j \in Correct, output[i] # NoValue, output[j] # NoValue
        PROVE  output[i] = output[j]
    <3>1. Hash(output[i]) = Hash(output[j])
      BY <1>3, <2>1, <2>2
    <3>. QED
      BY <3>1, Digests
  <2>. QED
    BY <2>2 DEF Agreement
<1>. QED
  BY <1>4, <1>5

\* No two correct nodes send a READY for different digests.
THEOREM ReadiesAgree == Spec => []ReadyAgreement
BY Inductive, AgreementFromIInv, PTL

\* No two correct nodes output different values.
THEOREM OutputsAgree == Spec => []Agreement
BY Inductive, AgreementFromIInv, PTL

\* The outputs implement the abstract agreement: each node outputs at most
\* once, and always what the others did.
THEOREM ImplementsAgreement == Spec => AgreesOnOne
<1>1. Init => Out!Init
  BY DEF Init, Out!Init
<1>2. IInv /\ Agreement' /\ [Next]_vars => [Out!Next]_output
  <2>1. SUFFICES ASSUME IInv, Agreement', [Next]_vars, output' # output PROVE Out!Next
    BY DEF Out!Next
  <2>2. PICK i \in Correct, m \in msgs \cup FaultyMessages : Running(i) /\ handleCommitteeMessage(i, m)
    <3>1. \A v \in Value : Start(v) => output' = output
      BY DEF Start
    <3>2. \A j, x : handleVal(j, x) \/ handleEcho(j, x) \/ handleReady(j, x) \/ handleSender(j, x)
                     => output' = output
      BY DEF handleVal, handleEcho, handleReady, handleSender
    <3>3. UNCHANGED vars => output' = output
      BY DEF vars
    <3>. QED
      BY <2>1, <3>1, <3>2, <3>3 DEF Next, Receive
  <2>3. PICK v : output' = [output EXCEPT ![i] = v]
    BY <2>2 DEF handleCommitteeMessage
  <2>4. output \in [Correct -> Value \cup {NoValue}] /\ output[i] = NoValue
    BY <2>1, <2>2 DEF IInv, TypeOK, Running
  <2>5. output'[i] = v /\ v # NoValue
    BY <2>1, <2>3, <2>4
  <2>6. \A j \in Correct : output[j] \in {NoValue, v}
    BY <2>1, <2>3, <2>4, <2>5 DEF Agreement
  <2>7. Out!Decide(i, output'[i])
    BY <2>3, <2>4, <2>5, <2>6 DEF Out!Decide
  <2>. QED
    BY <2>7 DEF Out!Next
<1>3. Spec => [][Out!Next]_output
  BY <1>2, Inductive, OutputsAgree, PTL DEF Spec
<1>. QED
  BY <1>1, <1>3, PTL DEF Spec, AgreesOnOne, Out!Spec

-------------------------------------------------------------------------------
(* Validity *)

\* Without deviating nodes everything there is comes from the input.
FromInput ==
    /\ \A m \in msgs :
        /\ m.kind \in {"VAL", "ECHO", "READY"} => m.hash = Hash(input)
        /\ m.kind \in {"SMessage", "CMessage"} => m.value = input
    /\ \A i \in Correct : /\ broadcastValue[i] \in {NoDigest, Hash(input)}
                          /\ senderValue[i] \in {NoValue, input}
                          /\ output[i] \in {NoValue, input}

\* Nothing is there before the sender has its input.
Silent ==
    input = NoValue =>
        /\ msgs = {}
        /\ \A i \in Correct : /\ broadcastValue[i] = NoDigest
                              /\ senderValue[i] = NoValue
                              /\ output[i] = NoValue

LEMMA FromInputStep ==
    ASSUME Faulty = {}
    PROVE  TypeOK /\ FromInput /\ Silent /\ [Next]_vars => FromInput' /\ Silent'
<1>1. SUFFICES ASSUME TypeOK, FromInput, Silent, [Next]_vars PROVE FromInput' /\ Silent'
  OBVIOUS
<1>2. FaultyMessages = {}
  BY DEF FaultyMessages
<1>a. ASSUME NEW v \in Value, Start(v) PROVE FromInput' /\ Silent'
  <2>1. msgs = {} /\ \A i \in Correct : broadcastValue[i] = NoDigest /\ senderValue[i] = NoValue /\ output[i] = NoValue
    BY <1>1, <1>a DEF Start, Silent
  <2>2. /\ input' = v /\ v # NoValue
        /\ msgs' = {ToCommittee(Sender, v), Val(Sender, Hash(v))}
        /\ UNCHANGED <<broadcastValue, senderValue, output>>
    BY <1>a, <2>1, RBCConstants DEF Start
  <2>. QED
    BY <2>1, <2>2 DEF FromInput, Silent, ToCommittee, Val
<1>b. ASSUME NEW i \in Correct, NEW m \in msgs, Receive(i, m) PROVE FromInput' /\ Silent'
  <2>1. input # NoValue /\ input' = input
    BY <1>1, <1>b DEF Silent, Receive, handleVal, handleEcho, handleReady, handleSender, handleCommitteeMessage
  <2>2. Silent'
    BY <2>1 DEF Silent
  <2>3. CASE handleVal(i, m)
    <3>1. m.hash = Hash(input) /\ msgs' = msgs \cup {Echo(i, m.hash)}
      BY <1>1, <2>3 DEF FromInput, handleVal
    <3>2. UNCHANGED <<broadcastValue, senderValue, output>>
      BY <2>3 DEF handleVal
    <3>. QED
      BY <1>1, <2>1, <2>2, <3>1, <3>2 DEF FromInput, Echo
  <2>4. CASE handleEcho(i, m)
    <3>1. m.hash = Hash(input) /\ msgs' \in {msgs, msgs \cup {Ready(i, m.hash)}}
      BY <1>1, <2>4 DEF FromInput, handleEcho
    <3>2. UNCHANGED <<broadcastValue, senderValue, output>>
      BY <2>4 DEF handleEcho
    <3>. QED
      BY <1>1, <2>1, <2>2, <3>1, <3>2 DEF FromInput, Ready
  <2>5. CASE handleReady(i, m)
    <3>1. /\ m.hash = Hash(input)
          /\ UNCHANGED <<senderValue, output>>
      BY <1>1, <2>5 DEF FromInput, handleReady
    <3>2. PICK d \in {NoDigest, m.hash} :
             /\ broadcastValue' = [broadcastValue EXCEPT ![i] = d]
             /\ \A x \in msgs' : \/ x \in msgs
                                \/ x = Ready(i, m.hash)
                                \/ x \in CommitteeMessage(i, senderValue[i], d)
      BY <2>5 DEF handleReady
    <3>3. \A x \in CommitteeMessage(i, senderValue[i], d) : x = Commit(i, input)
      BY <1>1, CommitteeMessages DEF FromInput
    <3>4. \A x \in msgs' : x \in msgs \/ x = Ready(i, Hash(input)) \/ x = Commit(i, input)
      BY <3>1, <3>2, <3>3
    <3>5. \A j \in Correct : broadcastValue'[j] \in {NoDigest, Hash(input)}
      BY <1>1, <3>1, <3>2 DEF FromInput, TypeOK
    <3>. QED
      BY <1>1, <2>1, <2>2, <3>1, <3>4, <3>5 DEF FromInput, Ready, Commit
  <2>6. CASE handleSender(i, m)
    <3>1. /\ m.value = input
          /\ msgs' = msgs \cup CommitteeMessage(i, m.value, broadcastValue[i])
          /\ senderValue' = [senderValue EXCEPT ![i] = m.value]
          /\ UNCHANGED <<broadcastValue, output>>
      BY <1>1, <2>6 DEF FromInput, handleSender
    <3>2. \A x \in msgs' : x \in msgs \/ x = Commit(i, input)
      BY <3>1, CommitteeMessages
    <3>3. \A j \in Correct : senderValue'[j] \in {NoValue, input}
      BY <1>1, <3>1 DEF FromInput, TypeOK
    <3>. QED
      BY <1>1, <2>1, <2>2, <3>1, <3>2, <3>3 DEF FromInput, Commit
  <2>7. CASE handleCommitteeMessage(i, m)
    <3>1. /\ m.value = input
          /\ msgs' = msgs \cup CommitteeMessage(i, m.value, broadcastValue[i])
          /\ UNCHANGED <<broadcastValue, senderValue>>
      BY <1>1, <2>7 DEF FromInput, handleCommitteeMessage
    <3>2. PICK v \in {NoValue, m.value} : output' = [output EXCEPT ![i] = v]
      BY <2>7 DEF handleCommitteeMessage
    <3>3. \A x \in msgs' : x \in msgs \/ x = Commit(i, input)
      BY <3>1, CommitteeMessages
    <3>4. \A j \in Correct : output'[j] \in {NoValue, input}
      BY <1>1, <3>1, <3>2 DEF FromInput, TypeOK
    <3>. QED
      BY <1>1, <2>1, <2>2, <3>1, <3>3, <3>4 DEF FromInput, Commit
  <2>. QED
    BY <1>b, <2>2, <2>3, <2>4, <2>5, <2>6, <2>7 DEF Receive
<1>c. CASE UNCHANGED vars
  BY <1>1, <1>c DEF FromInput, Silent, vars
<1>. QED
  BY <1>1, <1>2, <1>a, <1>b, <1>c DEF Next

\* Without deviating nodes only the input of the sender is ever output.
THEOREM OutputIsInput ==
    ASSUME Faulty = {}
    PROVE  Spec => []Validity
<1>1. Init => FromInput /\ Silent
  BY DEF Init, FromInput, Silent
<1>2. TypeOK /\ FromInput /\ Silent /\ [Next]_vars => FromInput' /\ Silent'
  BY FromInputStep
<1>3. FromInput => Validity
  BY DEF FromInput, Validity
<1>. QED
  BY <1>1, <1>2, <1>3, TypeCorrect, PTL DEF Spec

-------------------------------------------------------------------------------
(* Nobody is left behind *)

\* A tally is kept until it is a quorum, and what a quorum is for is done then.
Open ==
    \A i \in Correct :
        /\ ~ready[i] => \A h \in Digest : ~EchoQuorum(SendersOf(echoReceived[i], h))
        /\ ~broadcastDone(i) => \A h \in Digest : ~ReadyQuorum(SendersOf(readyReceived[i], h))
        /\ output[i] = NoValue => \A v \in Value : ~CommitQuorum(SendersOf(committeeReceived[i], v))

\* What a node has done it has told the others.
Told ==
    /\ input # NoValue =>
        Sender \in Correct /\ {Val(Sender, Hash(input)), ToCommittee(Sender, input)} \subseteq msgs
    /\ \A i \in Correct :
        /\ initialVal[i] => \E h \in Digest : Echo(i, h) \in msgs
        /\ ready[i] => \E h \in Digest : Ready(i, h) \in msgs
        /\ i \in Committee /\ senderValue[i] # NoValue /\ broadcastDone(i)
             /\ broadcastValue[i] = Hash(senderValue[i]) => Commit(i, senderValue[i]) \in msgs

\* A node delivers and outputs what quorums of others sent.
Backed ==
    \A i \in Correct :
        /\ broadcastDone(i) => ReadyQuorum({j \in Node : Sent(Ready(j, broadcastValue[i]))})
        /\ output[i] # NoValue => CommitQuorum({j \in Committee : Sent(Commit(j, output[i]))})

DInv == Open /\ Told /\ Backed

LEMMA NoQuorum == ~EchoQuorum({}) /\ ~ReadyQuorum({}) /\ ~CommitQuorum({})
<1>1. Cardinality({}) = 0
  BY FS_EmptySet
<1>. QED
  BY <1>1, Sizes, RBCFaults, RBCCommittee DEF EchoQuorum, ReadyQuorum, CommitQuorum

LEMMA QuorumsGrow ==
    ASSUME NEW Q \in SUBSET Node, NEW R \in SUBSET Node, Q \subseteq R
    PROVE  /\ EchoQuorum(Q) => EchoQuorum(R)
           /\ ReadyQuorum(Q) => ReadyQuorum(R)
           /\ CommitQuorum(Q) => CommitQuorum(R)
<1>1. Cardinality(Q) <= Cardinality(R)
  BY Sizes, FS_Subset
<1>. QED
  BY <1>1, Sizes, RBCCommittee DEF EchoQuorum, ReadyQuorum, CommitQuorum

LEMMA InitDInv == Init => DInv
<1>1. SUFFICES ASSUME Init PROVE DInv
  OBVIOUS
<1>2. \A x : SendersOf({}, x) = {}
  BY DEF SendersOf
<1>3. Open
  BY <1>1, <1>2, NoQuorum DEF Init, Open
<1>4. Told /\ Backed
  BY <1>1 DEF Init, Told, Backed, broadcastDone
<1>. QED
  BY <1>3, <1>4 DEF DInv

\* A node that changes, and what the others keep.
LEMMA OpenKept ==
    ASSUME Open, NEW i \in Correct,
           \A j \in Correct \ {i} :
               /\ echoReceived'[j] = echoReceived[j] /\ ready'[j] = ready[j]
               /\ readyReceived'[j] = readyReceived[j] /\ broadcastValue'[j] = broadcastValue[j]
               /\ committeeReceived'[j] = committeeReceived[j] /\ output'[j] = output[j],
           ~ready'[i] => \A h \in Digest : ~EchoQuorum(SendersOf(echoReceived'[i], h)),
           broadcastValue'[i] = NoDigest =>
               \A h \in Digest : ~ReadyQuorum(SendersOf(readyReceived'[i], h)),
           output'[i] = NoValue => \A v \in Value : ~CommitQuorum(SendersOf(committeeReceived'[i], v))
    PROVE  Open'
BY DEF Open, broadcastDone, SendersOf, EchoQuorum, ReadyQuorum, CommitQuorum

\* The same for what is told, if nothing is taken back.
LEMMA ToldKept ==
    ASSUME Told, NEW i \in Correct, msgs \subseteq msgs', UNCHANGED input,
           \A j \in Correct \ {i} :
               /\ initialVal'[j] = initialVal[j] /\ ready'[j] = ready[j]
               /\ senderValue'[j] = senderValue[j] /\ broadcastValue'[j] = broadcastValue[j],
           initialVal'[i] => initialVal[i] \/ \E h \in Digest : Echo(i, h) \in msgs',
           ready'[i] => ready[i] \/ \E h \in Digest : Ready(i, h) \in msgs',
           \/ senderValue'[i] = senderValue[i] /\ broadcastValue'[i] = broadcastValue[i]
           \/ i \in Committee /\ senderValue'[i] # NoValue /\ broadcastValue'[i] # NoDigest
                /\ broadcastValue'[i] = Hash(senderValue'[i]) => Commit(i, senderValue'[i]) \in msgs'
    PROVE  Told'
<1>1. input # NoValue =>
        Sender \in Correct /\ {Val(Sender, Hash(input)), ToCommittee(Sender, input)} \subseteq msgs'
  BY DEF Told
<1>2. \A j \in Correct :
        /\ initialVal'[j] => \E h \in Digest : Echo(j, h) \in msgs'
        /\ ready'[j] => \E h \in Digest : Ready(j, h) \in msgs'
  BY DEF Told
<1>3. \A j \in Correct :
        j \in Committee /\ senderValue'[j] # NoValue /\ broadcastValue'[j] # NoDigest
          /\ broadcastValue'[j] = Hash(senderValue'[j]) => Commit(j, senderValue'[j]) \in msgs'
  BY DEF Told, broadcastDone
<1>. QED
  BY <1>1, <1>2, <1>3 DEF Told, broadcastDone

LEMMA BackedKept ==
    ASSUME Backed, NEW i \in Correct, msgs \subseteq msgs',
           \A j \in Correct \ {i} : broadcastValue'[j] = broadcastValue[j] /\ output'[j] = output[j],
           \/ broadcastValue'[i] \in {NoDigest, broadcastValue[i]}
           \/ ReadyQuorum({j \in Node : Sent(Ready(j, broadcastValue'[i]))}),
           \/ output'[i] \in {NoValue, output[i]}
           \/ CommitQuorum({j \in Committee : Sent(Commit(j, output'[i]))})
    PROVE  Backed'
<1>. DEFINE SentNext(m) == m.sender \in Faulty \/ m \in msgs'
<1>1. \A m : Sent(m) => SentNext(m)
  BY DEF Sent
<1>2. ASSUME NEW k \in Correct, broadcastValue'[k] # NoDigest
      PROVE  ReadyQuorum({j \in Node : SentNext(Ready(j, broadcastValue'[k]))})
  <2>. DEFINE Q == {j \in Node : Sent(Ready(j, broadcastValue'[k]))}
              R == {j \in Node : SentNext(Ready(j, broadcastValue'[k]))}
  <2>1. ReadyQuorum(Q)
    BY <1>2 DEF Backed, broadcastDone
  <2>2. Q \in SUBSET Node /\ R \in SUBSET Node /\ Q \subseteq R
    BY <1>1
  <2>. HIDE DEF Q, R, SentNext
  <2>3. ReadyQuorum(R)
    BY <2>1, <2>2, QuorumsGrow
  <2>. QED
    BY <2>3 DEF R
<1>3. ASSUME NEW k \in Correct, output'[k] # NoValue
      PROVE  CommitQuorum({j \in Committee : SentNext(Commit(j, output'[k]))})
  <2>. DEFINE Q == {j \in Committee : Sent(Commit(j, output'[k]))}
              R == {j \in Committee : SentNext(Commit(j, output'[k]))}
  <2>1. CommitQuorum(Q)
    BY <1>3 DEF Backed
  <2>2. Q \in SUBSET Node /\ R \in SUBSET Node /\ Q \subseteq R
    BY <1>1, RBCConstants
  <2>. HIDE DEF Q, R, SentNext
  <2>3. CommitQuorum(R)
    BY <2>1, <2>2, QuorumsGrow
  <2>. QED
    BY <2>3 DEF R
<1>. QED
  <2>1. \A k \in Correct : broadcastDone(k)' => ReadyQuorum({j \in Node : Sent(Ready(j, broadcastValue[k]))})'
    BY <1>2 DEF broadcastDone, Sent, Ready, ReadyQuorum
  <2>2. \A k \in Correct : (output[k] # NoValue)' => CommitQuorum({j \in Committee : Sent(Commit(j, output[k]))})'
    BY <1>3 DEF Sent, Commit, CommitQuorum
  <2>. QED
    BY <2>1, <2>2 DEF Backed

\* The cases of a step that handles a message.
LEMMA ReceiveDInv ==
    ASSUME IInv, DInv, NEW i \in Correct, NEW m \in msgs \cup FaultyMessages, Receive(i, m)
    PROVE  DInv'
<1>1. /\ TypeOK /\ TalliesWereSent /\ Open /\ Told /\ Backed
      /\ m \in Message /\ Sent(m) /\ i \in Node /\ output[i] = NoValue
  BY Received DEF IInv, Certification, DInv, Receive, Running
<1>2. /\ \A e \in readyReceived[i] : Sent(Ready(e[1], e[2]))
      /\ \A e \in committeeReceived[i] : Sent(Commit(e[1], e[2]))
  BY <1>1 DEF TalliesWereSent
<1>3. /\ ~ready[i] => \A h \in Digest : ~EchoQuorum(SendersOf(echoReceived[i], h))
      /\ ~broadcastDone(i) => \A h \in Digest : ~ReadyQuorum(SendersOf(readyReceived[i], h))
      /\ \A v \in Value : ~CommitQuorum(SendersOf(committeeReceived[i], v))
  BY <1>1 DEF Open
<1>4. \A x : SendersOf({}, x) = {}
  BY DEF SendersOf
<1>a. CASE handleVal(i, m)
  <2>1. /\ initialVal' = [initialVal EXCEPT ![i] = TRUE]
        /\ msgs' = msgs \cup {Echo(i, m.hash)} /\ m.hash \in Digest
        /\ UNCHANGED <<input, ready, echoReceived, readyReceived, broadcastValue,
                       senderValue, committeeReceived, output>>
    BY <1>1, <1>a, MessageForms DEF handleVal
  <2>2. Open'
    BY <1>1, <1>3, <2>1, OpenKept DEF broadcastDone
  <2>3. Told'
    BY <1>1, <2>1, ToldKept DEF TypeOK
  <2>4. Backed'
    BY <1>1, <2>1, BackedKept
  <2>. QED
    BY <2>2, <2>3, <2>4 DEF DInv
<1>b. CASE handleEcho(i, m)
  <2>. DEFINE tally == echoReceived[i] \cup {<<m.sender, m.hash>>}
              quorum == EchoQuorum(SendersOf(tally, m.hash))
  <2>1. /\ ~ready[i] /\ m.hash \in Digest /\ m.sender \in Node
        /\ echoReceived' = [echoReceived EXCEPT ![i] = IF quorum THEN {} ELSE tally]
        /\ ready' = [ready EXCEPT ![i] = quorum]
        /\ msgs' = IF quorum THEN msgs \cup {Ready(i, m.hash)} ELSE msgs
        /\ UNCHANGED <<input, initialVal, readyReceived, broadcastValue,
                       senderValue, committeeReceived, output>>
    BY <1>1, <1>b, MessageForms DEF handleEcho
  <2>2. Open'
    <3>1. ~quorum => \A h \in Digest : ~EchoQuorum(SendersOf(tally, h))
      <4>1. \A h : h # m.hash => SendersOf(tally, h) = SendersOf(echoReceived[i], h)
        BY DEF SendersOf
      <4>. HIDE DEF tally
      <4>. QED
        BY <1>3, <2>1, <4>1
    <3>. HIDE DEF quorum, tally
    <3>2. ~ready'[i] => \A h \in Digest : ~EchoQuorum(SendersOf(echoReceived'[i], h))
      BY <1>1, <2>1, <3>1 DEF TypeOK
    <3>. QED
      BY <1>1, <1>3, <2>1, <3>2, OpenKept DEF broadcastDone
  <2>. HIDE DEF quorum, tally
  <2>3. Told'
    <3>1. ready'[i] => \E h \in Digest : Ready(i, h) \in msgs'
      BY <1>1, <2>1 DEF TypeOK
    <3>2. msgs \subseteq msgs'
      BY <2>1
    <3>. QED
      BY <1>1, <2>1, <3>1, <3>2, ToldKept
  <2>4. Backed'
    BY <1>1, <2>1, BackedKept
  <2>. QED
    BY <2>2, <2>3, <2>4 DEF DInv
<1>c. CASE handleReady(i, m)
  <2>. DEFINE tally == readyReceived[i] \cup {<<m.sender, m.hash>>}
              from == SendersOf(tally, m.hash)
              amplify == ReadyAmplify(from) /\ ~ready[i]
              done == ReadyQuorum(from)
              delivered == IF done THEN m.hash ELSE NoDigest
  <2>1. /\ ~broadcastDone(i) /\ m.hash \in Digest /\ m.sender \in Node /\ m = Ready(m.sender, m.hash)
        /\ readyReceived' = [readyReceived EXCEPT ![i] = IF done THEN {} ELSE tally]
        /\ echoReceived' = [echoReceived EXCEPT ![i] = IF amplify \/ done THEN {} ELSE echoReceived[i]]
        /\ ready' = [ready EXCEPT ![i] = ready[i] \/ amplify]
        /\ broadcastValue' = [broadcastValue EXCEPT ![i] = delivered]
        /\ msgs' = msgs \cup (IF amplify THEN {Ready(i, m.hash)} ELSE {})
                        \cup CommitteeMessage(i, senderValue[i], delivered)
        /\ UNCHANGED <<input, initialVal, senderValue, committeeReceived, output>>
    BY <1>1, <1>c, MessageForms DEF handleReady
  <2>2. ~done => \A h \in Digest : ~ReadyQuorum(SendersOf(tally, h))
    <3>1. \A h : h # m.hash => SendersOf(tally, h) = SendersOf(readyReceived[i], h)
      BY DEF SendersOf
    <3>. HIDE DEF tally
    <3>. QED
      BY <1>3, <2>1, <3>1
  <2>3. done => ReadyQuorum({j \in Node : Sent(Ready(j, m.hash))})
    <3>1. \A e \in tally : Sent(Ready(e[1], e[2]))
      BY <1>1, <1>2, <2>1
    <3>2. from \subseteq {j \in Node : Sent(Ready(j, m.hash))} /\ from \in SUBSET Node
      BY <3>1 DEF SendersOf
    <3>. HIDE DEF from
    <3>. QED
      BY <3>2, QuorumsGrow
  <2>. HIDE DEF tally, done, amplify
  <2>4. Open'
    <3>1. ~ready'[i] => \A h \in Digest : ~EchoQuorum(SendersOf(echoReceived'[i], h))
      BY <1>1, <1>3, <1>4, <2>1, NoQuorum DEF TypeOK
    <3>2. broadcastValue'[i] = NoDigest => \A h \in Digest : ~ReadyQuorum(SendersOf(readyReceived'[i], h))
      BY <1>1, <2>1, <2>2, Digests DEF TypeOK
    <3>. QED
      BY <1>1, <1>3, <2>1, <3>1, <3>2, OpenKept
  <2>5. Told'
    <3>1. ready'[i] => ready[i] \/ \E h \in Digest : Ready(i, h) \in msgs'
      BY <1>1, <2>1 DEF TypeOK
    <3>2. msgs \subseteq msgs' /\ CommitteeMessage(i, senderValue[i], delivered) \subseteq msgs'
      BY <2>1
    <3>3. senderValue'[i] = senderValue[i] /\ broadcastValue'[i] = delivered
      BY <1>1, <2>1 DEF TypeOK
    <3>4. i \in Committee /\ senderValue'[i] # NoValue /\ broadcastValue'[i] # NoDigest
            /\ broadcastValue'[i] = Hash(senderValue'[i]) => Commit(i, senderValue'[i]) \in msgs'
      BY <3>2, <3>3 DEF CommitteeMessage
    <3>5. \A j \in Correct \ {i} :
               /\ initialVal'[j] = initialVal[j] /\ ready'[j] = ready[j]
               /\ senderValue'[j] = senderValue[j] /\ broadcastValue'[j] = broadcastValue[j]
      BY <2>1
    <3>6. UNCHANGED input /\ initialVal'[i] = initialVal[i]
      BY <2>1
    <3>. QED
      BY <1>1, <3>1, <3>2, <3>4, <3>5, <3>6, ToldKept
  <2>6. Backed'
    <3>1. \/ broadcastValue'[i] \in {NoDigest, broadcastValue[i]}
          \/ ReadyQuorum({j \in Node : Sent(Ready(j, broadcastValue'[i]))})
      BY <1>1, <2>1, <2>3 DEF TypeOK
    <3>. QED
      BY <1>1, <2>1, <3>1, BackedKept
  <2>. QED
    BY <2>4, <2>5, <2>6 DEF DInv
<1>d. CASE handleSender(i, m)
  <2>1. /\ senderValue' = [senderValue EXCEPT ![i] = m.value]
        /\ msgs' = msgs \cup CommitteeMessage(i, m.value, broadcastValue[i])
        /\ UNCHANGED <<input, initialVal, ready, echoReceived, readyReceived,
                       broadcastValue, committeeReceived, output>>
    BY <1>d DEF handleSender
  <2>2. Open'
    BY <1>1, <1>3, <2>1, OpenKept DEF broadcastDone
  <2>3. Told'
    <3>1. senderValue'[i] = m.value
      BY <1>1, <2>1 DEF TypeOK
    <3>2. i \in Committee /\ senderValue'[i] # NoValue /\ broadcastValue'[i] # NoDigest
            /\ broadcastValue'[i] = Hash(senderValue'[i]) => Commit(i, senderValue'[i]) \in msgs'
      BY <2>1, <3>1 DEF CommitteeMessage
    <3>. QED
      BY <1>1, <2>1, <3>2, ToldKept
  <2>4. Backed'
    BY <1>1, <2>1, BackedKept
  <2>. QED
    BY <2>2, <2>3, <2>4 DEF DInv
<1>e. CASE handleCommitteeMessage(i, m)
  <2>. DEFINE tally == committeeReceived[i] \cup {<<m.sender, m.value>>}
              from == SendersOf(tally, m.value)
  <2>1. /\ m.value \in Value /\ m.sender \in Node /\ m = Commit(m.sender, m.value)
        /\ committeeReceived' = [committeeReceived EXCEPT ![i] = tally]
        /\ output' = [output EXCEPT ![i] = IF CommitQuorum(from) THEN m.value ELSE NoValue]
        /\ msgs' = msgs \cup CommitteeMessage(i, m.value, broadcastValue[i])
        /\ UNCHANGED <<input, initialVal, ready, echoReceived, readyReceived,
                       broadcastValue, senderValue>>
    BY <1>1, <1>e, MessageForms DEF handleCommitteeMessage, isValidCommitteeMessage
  <2>2. CommitQuorum(from) => CommitQuorum({j \in Committee : Sent(Commit(j, m.value))})
    <3>1. \A e \in tally : Sent(Commit(e[1], e[2])) /\ e[1] \in Committee
      BY <1>1, <1>2, <1>e, <2>1 DEF TypeOK, handleCommitteeMessage, isValidCommitteeMessage
    <3>2. /\ from \subseteq {j \in Committee : Sent(Commit(j, m.value))}
          /\ from \in SUBSET Node
          /\ {j \in Committee : Sent(Commit(j, m.value))} \in SUBSET Node
      BY <3>1, RBCConstants DEF SendersOf
    <3>. HIDE DEF from
    <3>. QED
      BY <3>2, QuorumsGrow
  <2>3. ~CommitQuorum(from) => \A v \in Value : ~CommitQuorum(SendersOf(tally, v))
    <3>1. \A v : v # m.value => SendersOf(tally, v) = SendersOf(committeeReceived[i], v)
      BY DEF SendersOf
    <3>. HIDE DEF tally
    <3>. QED
      BY <1>3, <3>1
  <2>4. output'[i] = IF CommitQuorum(from) THEN m.value ELSE NoValue
    BY <1>1, <2>1 DEF TypeOK
  <2>5. committeeReceived'[i] = tally
    BY <1>1, <2>1 DEF TypeOK
  <2>. HIDE DEF tally, from
  <2>6. Open'
    <3>1. output'[i] = NoValue => \A v \in Value : ~CommitQuorum(SendersOf(committeeReceived'[i], v))
      BY <2>1, <2>3, <2>4, <2>5, RBCConstants
    <3>. QED
      BY <1>1, <1>3, <2>1, <3>1, OpenKept DEF broadcastDone
  <2>7. Told'
    BY <1>1, <2>1, ToldKept
  <2>8. Backed'
    <3>1. \/ output'[i] \in {NoValue, output[i]}
          \/ CommitQuorum({j \in Committee : Sent(Commit(j, output'[i]))})
      BY <2>2, <2>4
    <3>. QED
      BY <1>1, <2>1, <3>1, BackedKept
  <2>. QED
    BY <2>6, <2>7, <2>8 DEF DInv
<1>. QED
  BY <1>a, <1>b, <1>c, <1>d, <1>e DEF Receive

\* The sender of Start announces its input.
LEMMA StartDInv ==
    ASSUME IInv, DInv, NEW v \in Value, Start(v)
    PROVE  DInv'
<1>1. /\ Sender \in Correct /\ input = NoValue /\ input' = v
      /\ msgs' = msgs \cup {ToCommittee(Sender, v), Val(Sender, Hash(v))}
      /\ UNCHANGED <<initialVal, ready, echoReceived, readyReceived,
                     broadcastValue, senderValue, committeeReceived, output>>
  BY DEF Start
<1>2. Open'
  BY <1>1 DEF DInv, Open, broadcastDone, SendersOf, EchoQuorum, ReadyQuorum, CommitQuorum
<1>3. Told'
  <2>1. {Val(Sender, Hash(v)), ToCommittee(Sender, v)} \subseteq msgs' /\ msgs \subseteq msgs'
    BY <1>1
  <2>2. \A i \in Correct :
        /\ initialVal'[i] => \E h \in Digest : Echo(i, h) \in msgs'
        /\ ready'[i] => \E h \in Digest : Ready(i, h) \in msgs'
        /\ i \in Committee /\ senderValue'[i] # NoValue /\ broadcastValue'[i] # NoDigest
             /\ broadcastValue'[i] = Hash(senderValue'[i]) => Commit(i, senderValue'[i]) \in msgs'
    BY <1>1, <2>1 DEF DInv, Told, broadcastDone
  <2>. QED
    BY <1>1, <2>1, <2>2 DEF Told, broadcastDone
<1>4. Backed'
  BY <1>1, BackedKept DEF DInv
<1>. QED
  BY <1>2, <1>3, <1>4 DEF DInv

LEMMA StepDInv == IInv /\ DInv /\ [Next]_vars => DInv'
<1>1. SUFFICES ASSUME IInv, DInv, [Next]_vars PROVE DInv'
  OBVIOUS
<1>2. CASE UNCHANGED vars
  <2>1. UNCHANGED <<input, initialVal, ready, echoReceived, readyReceived, broadcastValue,
                    senderValue, committeeReceived, output, msgs>>
    BY <1>2 DEF vars
  <2>2. Open'
    BY <1>1, <2>1 DEF DInv, Open, broadcastDone, SendersOf, EchoQuorum, ReadyQuorum, CommitQuorum
  <2>3. Told' /\ Backed'
    BY <1>1, <2>1 DEF DInv, Told, Backed, broadcastDone, Sent, ReadyQuorum, CommitQuorum, Val, Echo, Ready, Commit, ToCommittee, Hash
  <2>. QED
    BY <2>2, <2>3 DEF DInv
<1>. QED
  BY <1>1, <1>2, StartDInv, ReceiveDInv DEF Next

LEMMA AlwaysDInv == Spec => []DInv
<1>. QED
  BY InitDInv, StepDInv, Inductive, PTL DEF Spec

\* When nothing is left to be handled: a node without an output lacks t_k+1
\* CMessages, which therefore were not sent, so nobody has terminated and
\* somebody has not delivered.  Then n-t READYs were not sent, so nobody has
\* delivered and everybody handled n-t ECHOs, and with them sent its READY.
LEMMA QuietNodesAreDone ==
    ASSUME Faulty = {}, Cardinality(Crashed) <= T, CommitQuorum(Committee \cap Correct),
           IInv, DInv, FromInput, Quiet
    PROVE  \A i \in Correct : output[i] # NoValue
<1>. DEFINE h == Hash(input)
<1>1. /\ TypeOK /\ Open /\ Told /\ Backed
      /\ input \in Value /\ input # NoValue /\ h \in Digest
      /\ \A m : Sent(m) <=> m \in msgs
  BY Digests DEF IInv, TypeOK, DInv, Quiet, Sent
<1>2. EchoQuorum(Correct) /\ ReadyQuorum(Correct)
  <2>1. Crashed \in SUBSET Node /\ Correct \in SUBSET Node /\ Correct = Node \ Crashed
    BY RBCConstants
  <2>2. Cardinality(Correct) = N - Cardinality(Node \cap Crashed) /\ Node \cap Crashed = Crashed
    BY <2>1, RBCConstants, FS_Difference DEF N
  <2>. QED
    BY <2>1, <2>2, Sizes DEF EchoQuorum, ReadyQuorum
<1>3. SUFFICES ASSUME NEW i \in Correct, output[i] = NoValue PROVE FALSE
  OBVIOUS
<1>4. \A j \in Correct : output[j] = NoValue => \A m \in msgs : Handled(j, m)
  BY <1>1 DEF Quiet, Running
<1>5. ASSUME NEW Q \in SUBSET Committee, \A j \in Q : Commit(j, input) \in msgs
      PROVE  ~CommitQuorum(Q)
  <2>1. \A j \in Q : <<j, input>> \in committeeReceived[i]
    BY <1>3, <1>4, <1>5 DEF Handled, isValidCommitteeMessage, Commit
  <2>2. Q \subseteq SendersOf(committeeReceived[i], input)
    BY <2>1, RBCConstants DEF SendersOf
  <2>3. Q \in SUBSET Node /\ SendersOf(committeeReceived[i], input) \in SUBSET Node
    BY RBCConstants DEF SendersOf
  <2>4. ~CommitQuorum(SendersOf(committeeReceived[i], input))
    BY <1>1, <1>3 DEF Open
  <2>. QED
    BY <2>2, <2>3, <2>4, QuorumsGrow
<1>6. \A j \in Correct : output[j] = NoValue
  <2>1. SUFFICES ASSUME NEW j \in Correct, output[j] # NoValue PROVE FALSE
    OBVIOUS
  <2>2. output[j] = input
    BY <2>1 DEF FromInput
  <2>. DEFINE Q == {k \in Committee : Sent(Commit(k, input))}
  <2>3. CommitQuorum(Q)
    BY <1>1, <2>1, <2>2 DEF Backed
  <2>4. Q \in SUBSET Committee /\ \A k \in Q : Commit(k, input) \in msgs
    BY <1>1
  <2>. QED
    BY <1>5, <2>3, <2>4
<1>7. \A j \in Correct : \A m \in msgs : Handled(j, m)
  BY <1>4, <1>6
<1>8. PICK k \in Correct : ~broadcastDone(k)
  <2>1. SUFFICES ASSUME \A j \in Correct : broadcastDone(j) PROVE FALSE
    OBVIOUS
  <2>2. ASSUME NEW j \in Committee \cap Correct PROVE Commit(j, input) \in msgs
    <3>1. broadcastValue[j] = h /\ broadcastDone(j)
      BY <2>1 DEF FromInput, broadcastDone
    <3>2. ToCommittee(Sender, input) \in msgs
      BY <1>1 DEF Told
    <3>3. senderValue[j] = input
      BY <1>7, <3>2 DEF Handled, ToCommittee
    <3>. QED
      BY <1>1, <3>1, <3>3 DEF Told
  <2>. QED
    BY <1>5, <2>2
<1>9. ASSUME NEW Q \in SUBSET Node, \A j \in Q : Ready(j, h) \in msgs
      PROVE  ~ReadyQuorum(Q)
  <2>1. \A j \in Q : <<j, h>> \in readyReceived[k]
    BY <1>7, <1>8, <1>9 DEF Handled, Ready
  <2>2. Q \subseteq SendersOf(readyReceived[k], h) /\ SendersOf(readyReceived[k], h) \in SUBSET Node
    BY <2>1 DEF SendersOf
  <2>3. ~ReadyQuorum(SendersOf(readyReceived[k], h))
    BY <1>1, <1>8 DEF Open
  <2>. QED
    BY <2>2, <2>3, QuorumsGrow
<1>10. \A j \in Correct : ~broadcastDone(j)
  <2>1. SUFFICES ASSUME NEW j \in Correct, broadcastDone(j) PROVE FALSE
    OBVIOUS
  <2>2. broadcastValue[j] = h
    BY <2>1 DEF FromInput, broadcastDone
  <2>. DEFINE Q == {l \in Node : Sent(Ready(l, h))}
  <2>3. ReadyQuorum(Q)
    BY <1>1, <2>1, <2>2 DEF Backed
  <2>4. Q \in SUBSET Node /\ \A l \in Q : Ready(l, h) \in msgs
    BY <1>1
  <2>. QED
    BY <1>9, <2>3, <2>4
<1>11. \A j \in Correct : Echo(j, h) \in msgs
  <2>1. TAKE j \in Correct
  <2>2. initialVal[j]
    <3>1. Val(Sender, h) \in msgs
      BY <1>1 DEF Told
    <3>. QED
      BY <1>7, <1>10, <3>1 DEF Handled, Val
  <2>3. PICK g \in Digest : Echo(j, g) \in msgs
    BY <1>1, <2>2 DEF Told
  <2>4. g = h
    BY <2>3 DEF FromInput, Echo
  <2>. QED
    BY <2>3, <2>4
<1>12. \A j \in Correct : ready[j]
  <2>1. SUFFICES ASSUME NEW j \in Correct, ~ready[j] PROVE FALSE
    OBVIOUS
  <2>2. \A l \in Correct : <<l, h>> \in echoReceived[j]
    BY <1>7, <1>10, <1>11, <2>1 DEF Handled, Echo
  <2>3. Correct \subseteq SendersOf(echoReceived[j], h)
    BY <2>2 DEF SendersOf
  <2>4. Correct \in SUBSET Node /\ SendersOf(echoReceived[j], h) \in SUBSET Node
    BY DEF SendersOf
  <2>5. ~EchoQuorum(SendersOf(echoReceived[j], h))
    BY <1>1, <2>1 DEF Open
  <2>. QED
    BY <1>2, <2>3, <2>4, <2>5, QuorumsGrow
<1>13. \A j \in Correct : Ready(j, h) \in msgs
  <2>1. TAKE j \in Correct
  <2>2. PICK g \in Digest : Ready(j, g) \in msgs
    BY <1>1, <1>12 DEF Told
  <2>3. g = h
    BY <2>2 DEF FromInput, Ready
  <2>. QED
    BY <2>2, <2>3
<1>. QED
  <2>1. Correct \in SUBSET Node
    OBVIOUS
  <2>. QED
    BY <1>2, <1>9, <1>13, <2>1

\* When at most t nodes never start, none deviates, and the committee members
\* that are up exceed t_k, a broadcast in which nothing is left to be handled
\* has terminated everywhere: nobody is left behind by those who return as
\* soon as they have their output.
THEOREM NobodyLeftBehind ==
    ASSUME Faulty = {}, Cardinality(Crashed) <= T, CommitQuorum(Committee \cap Correct)
    PROVE  Spec => []QuietMeansDone
<1>1. Init => FromInput /\ Silent
  BY DEF Init, FromInput, Silent
<1>2. TypeOK /\ FromInput /\ Silent /\ [Next]_vars => FromInput' /\ Silent'
  BY FromInputStep
<1>3. IInv /\ DInv /\ FromInput => QuietMeansDone
  BY QuietNodesAreDone DEF QuietMeansDone
<1>. QED
  BY <1>1, <1>2, <1>3, TypeCorrect, Inductive, AlwaysDInv, PTL DEF Spec
================================================================================
