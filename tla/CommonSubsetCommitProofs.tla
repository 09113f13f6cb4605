------------------------ MODULE CommonSubsetCommitProofs ------------------------
(***************************************************************************)
(* Proofs about CommonSubsetCommit, for every number of nodes, every       *)
(* committee and every set of outputs the assumptions allow.               *)
(***************************************************************************)
EXTENDS CommonSubsetCommit, FiniteSetTheorems, TLAPS

IInv == TypeOK /\ Signing

-------------------------------------------------------------------------------
(* Sets of members *)

LEMMA Sizes ==
    /\ Cardinality(Committee) \in Nat /\ Cardinality(Faulty \cap Committee) \in Nat
    /\ \A S \in SUBSET Committee :
         IsFiniteSet(S) /\ Cardinality(S) \in Nat /\ Cardinality(S) <= Cardinality(Committee)
<1>1. IsFiniteSet(Committee)
  BY CommitConstants, FS_Subset
<1>2. \A S \in SUBSET Committee : IsFiniteSet(S) /\ Cardinality(S) <= Cardinality(Committee)
  BY <1>1, FS_Subset
<1>3. \A S \in SUBSET Committee : Cardinality(S) \in Nat
  BY <1>2, FS_CardinalityType
<1>. QED
  BY <1>2, <1>3

\* More members than deviate: one of them follows the protocol.
LEMMA SomeoneHonest ==
    ASSUME NEW S \in SUBSET Committee, Cardinality(S) > Cardinality(Faulty \cap Committee)
    PROVE  \E j \in S : j \notin Faulty
<1>1. SUFFICES ASSUME S \subseteq Faulty \cap Committee PROVE FALSE
  OBVIOUS
<1>2. Cardinality(S) <= Cardinality(Faulty \cap Committee)
  BY <1>1, Sizes, FS_Subset
<1>. QED
  BY <1>2, Sizes

\* Two sets of members large enough to sign share one that follows the protocol.
LEMMA SignersMeet ==
    ASSUME NEW Q \in SUBSET Committee, NEW R \in SUBSET Committee, Joins(Q), Joins(R)
    PROVE  \E j \in Q \cap R : j \notin Faulty
<1>1. Cardinality(Q \cup R) = Cardinality(Q) + Cardinality(R) - Cardinality(Q \cap R)
  BY Sizes, FS_Union
<1>2. Q \cap R \in SUBSET Committee /\ Q \cup R \in SUBSET Committee
  OBVIOUS
<1>3. Cardinality(Q \cap R) > Cardinality(Faulty \cap Committee)
  BY <1>1, <1>2, Sizes, CommitConstants, CommitKeys DEF Joins
<1>. QED
  BY <1>2, <1>3, SomeoneHonest

\* A set large enough to sign stays so when members are added to it.
LEMMA JoinsMonotone ==
    ASSUME NEW Q \in SUBSET Committee, NEW R \in SUBSET Committee, Q \subseteq R, Joins(Q)
    PROVE  Joins(R)
<1>1. Cardinality(Q) <= Cardinality(R)
  BY Sizes, FS_Subset
<1>. QED
  BY <1>1, Sizes, CommitConstants DEF Joins

\* Members only ever sign more.
LEMMA SignersMonotone ==
    ASSUME msgs \subseteq msgs'
    PROVE  \A r : Signers(r) \subseteq Signers(r)' /\ (Joins(Signers(r)) => Joins(Signers(r))')
<1>1. \A r : Signers(r) \subseteq Signers(r)' /\ Signers(r) \in SUBSET Committee /\ Signers(r)' \in SUBSET Committee
  BY DEF Signers
<1>2. \A r : Joins(Signers(r)) => Joins(Signers(r)')
  BY <1>1, JoinsMonotone
<1>3. \A r : Joins(Signers(r))' <=> Joins(Signers(r)')
  BY DEF Joins
<1>. QED
  BY <1>1, <1>2, <1>3

\* At most one output is ever signed.
LEMMA OneSignature ==
    ASSUME TypeOK, CommitsSettled, NEW r \in Result, NEW s \in Result,
           Joins(Signers(r)), Joins(Signers(s))
    PROVE  r = s
<1>1. Signers(r) \in SUBSET Committee /\ Signers(s) \in SUBSET Committee
  BY DEF Signers
<1>2. PICK j \in Signers(r) \cap Signers(s) : j \notin Faulty
  BY <1>1, SignersMeet
<1>3. Commit(j, r) \in msgs /\ Commit(j, s) \in msgs
  BY <1>2 DEF Signers
<1>4. j \in Correct
  BY <1>3 DEF TypeOK, Commit, AcsCommitteeMessage, AcsSignatureMessage
<1>. QED
  BY <1>3, <1>4 DEF CommitsSettled

-------------------------------------------------------------------------------
(* Types *)

LEMMA InitIInv == Init => IInv
BY DEF Init, IInv, TypeOK, Signing, CommitsSettled, SharesWereSent, SignaturesJoined, OutputsSigned

LEMMA ReturnType ==
    ASSUME TypeOK, NEW i \in Correct, NEW STATE a, NEW STATE s, a \in Result \cup {None}, Return(i, a, s)
    PROVE  out' \in [Correct -> Result \cup {None}]
BY DEF TypeOK, Return, canTerminate

\* A message a node takes is of one of the two kinds.
LEMMA Received ==
    ASSUME TypeOK, NEW m \in msgs \cup FaultyMessages
    PROVE  /\ m.value \in Result
           /\ m.kind = "commit" => m.sender \in Node /\ m = Commit(m.sender, m.value)
           /\ m.kind = "signature" => m = Signature(m.value)
<1>1. m \in AcsCommitteeMessage \cup AcsSignatureMessage
  BY DEF TypeOK, FaultyMessages
<1>. QED
  BY <1>1 DEF AcsCommitteeMessage, AcsSignatureMessage, Commit, Signature

\* A commit is put into the tally; if that is enough, the shares are joined.
LEMMA CommitCases ==
    ASSUME NEW i, NEW m, handleCommit(i, m)
    PROVE  \E s : \E tally :
             /\ tally = sharesReceived[i] \cup {<<m.sender, m.value>>}
             /\ sharesReceived' = [sharesReceived EXCEPT ![i] = Kept(tally, s)]
             /\ signed' = [signed EXCEPT ![i] = s]
             /\ Return(i, acsFinished[i], s)
             /\ UNCHANGED <<settled, acsFinished>>
             /\ \/ s = signed[i] /\ msgs' = msgs
                \/ /\ s = m.value /\ msgs' = msgs \cup {Signature(m.value)}
                   /\ Joins(SignersOf(tally, m.value))
<1>. DEFINE tally == sharesReceived[i] \cup {<<m.sender, m.value>>}
            join == EnoughCommits(SignersOf(tally, m.value)) /\ Joins(SignersOf(tally, m.value))
            s == IF join THEN m.value ELSE signed[i]
<1>1. /\ sharesReceived' = [sharesReceived EXCEPT ![i] = Kept(tally, s)]
      /\ signed' = [signed EXCEPT ![i] = s]
      /\ msgs' = IF join THEN msgs \cup {Signature(m.value)} ELSE msgs
      /\ Return(i, acsFinished[i], s)
      /\ UNCHANGED <<settled, acsFinished>>
  BY DEF handleCommit
<1>2. join \in BOOLEAN
  BY DEF EnoughCommits, Joins
<1>3. \/ s = signed[i] /\ msgs' = msgs
      \/ /\ s = m.value /\ msgs' = msgs \cup {Signature(m.value)}
         /\ Joins(SignersOf(tally, m.value))
  BY <1>1, <1>2
<1>. HIDE DEF s
<1>. QED
  BY <1>1, <1>3

LEMMA StepType == TypeOK /\ [Next]_vars => TypeOK'
<1>1. SUFFICES ASSUME TypeOK, [Next]_vars PROVE TypeOK'
  OBVIOUS
<1>2. \A i \in Correct, r \in Result : Commit(i, r) \in {m \in AcsCommitteeMessage : m.sender \in Correct}
  BY DEF Commit, AcsCommitteeMessage, Correct
<1>3. \A r \in Result : Signature(r) \in AcsSignatureMessage
  BY DEF Signature, AcsSignatureMessage
<1>a. ASSUME NEW i \in Correct, NEW r \in Result, Settle(i, r) PROVE TypeOK'
  BY <1>1, <1>2, <1>a DEF TypeOK, Settle
<1>b. ASSUME NEW i \in Correct, TakeOutput(i) PROVE TypeOK'
  <2>1. out' \in [Correct -> Result \cup {None}]
    BY <1>1, <1>b, ReturnType DEF TakeOutput, TypeOK
  <2>. QED
    BY <1>1, <1>b, <2>1 DEF TypeOK, TakeOutput
<1>c. ASSUME NEW i \in Correct, NEW m \in msgs \cup FaultyMessages, handleCommit(i, m) PROVE TypeOK'
  <2>1. m.value \in Result /\ m.sender \in Committee
    BY <1>1, <1>c, Received DEF handleCommit
  <2>2. out' \in [Correct -> Result \cup {None}]
    BY <1>1, <1>c, ReturnType DEF handleCommit, TypeOK
  <2>. QED
    BY <1>1, <1>3, <1>c, <2>1, <2>2, CommitCases DEF TypeOK, Kept
<1>d. ASSUME NEW i \in Correct, NEW m \in msgs \cup FaultyMessages, handleSignatureMessage(i, m) PROVE TypeOK'
  <2>1. m.value \in Result
    BY <1>1, Received
  <2>2. out' \in [Correct -> Result \cup {None}]
    BY <1>1, <1>d, ReturnType DEF handleSignatureMessage, TypeOK
  <2>. QED
    BY <1>1, <1>3, <1>d, <2>1, <2>2 DEF TypeOK, handleSignatureMessage, Kept
<1>e. CASE UNCHANGED vars
  BY <1>1, <1>e DEF TypeOK, vars
<1>. QED
  BY <1>1, <1>a, <1>b, <1>c, <1>d, <1>e DEF Next, Receive

\* The state always has the shape TypeOK gives it.
THEOREM TypeCorrect == Spec => []TypeOK
<1>1. Init => TypeOK
  BY InitIInv DEF IInv
<1>. QED
  BY <1>1, StepType, PTL DEF Spec

-------------------------------------------------------------------------------
(* Every step keeps the shares and signatures *)

\* A step in which node i sends no commit but what it has settled on.
LEMMA SettledKept ==
    ASSUME CommitsSettled, settled' = settled, \A x \in msgs' \ msgs : x.kind = "signature"
    PROVE  CommitsSettled'
<1>1. \A i, r : Commit(i, r) \in msgs' => Commit(i, r) \in msgs
  BY DEF Commit
<1>. QED
  BY <1>1 DEF CommitsSettled

\* A step that keeps in the tally of node i only shares that were sent.
LEMMA SharesKept ==
    ASSUME TypeOK, SharesWereSent, msgs \subseteq msgs', NEW i \in Correct, NEW STATE c,
           sharesReceived' = [sharesReceived EXCEPT ![i] = c],
           \A e \in c : e[1] \in Signers(e[2])
    PROVE  SharesWereSent'
<1>1. \A j \in Correct : \A e \in sharesReceived'[j] : e[1] \in Signers(e[2])
  BY DEF TypeOK, SharesWereSent
<1>2. \A r : Signers(r) \subseteq Signers(r)'
  BY SignersMonotone
<1>. QED
  BY <1>1, <1>2 DEF SharesWereSent

\* A step that gives node i a signature on s only if enough members signed s.
LEMMA SignaturesKept ==
    ASSUME TypeOK, SignaturesJoined, msgs \subseteq msgs', NEW i \in Correct, NEW STATE s,
           signed' = [signed EXCEPT ![i] = s],
           s # None => Joins(Signers(s)),
           \A r : Signature(r) \in msgs' \ msgs => r = s /\ s # None
    PROVE  SignaturesJoined'
<1>1. \A r : Joins(Signers(r)) => Joins(Signers(r))'
  BY SignersMonotone
<1>2. \A j \in Correct : signed'[j] # None => Joins(Signers(signed'[j]))
  BY DEF TypeOK, SignaturesJoined
<1>3. \A r \in Result : Signature(r) \in msgs' => Joins(Signers(r))
  BY DEF SignaturesJoined
<1>4. (\A j \in Correct : signed[j] # None => Joins(Signers(signed[j])))'
  BY <1>1, <1>2
<1>. QED
  BY <1>1, <1>3, <1>4 DEF SignaturesJoined

\* The end of an iteration of a running node.
LEMMA OutputsKept ==
    ASSUME TypeOK, OutputsSigned, NEW i \in Correct, NEW STATE a, NEW STATE s, Return(i, a, s),
           acsFinished' = [acsFinished EXCEPT ![i] = a],
           signed' = [signed EXCEPT ![i] = s]
    PROVE  OutputsSigned'
BY DEF TypeOK, OutputsSigned, Return, canTerminate

LEMMA StepSigning == IInv /\ [Next]_vars => Signing'
<1>1. SUFFICES ASSUME IInv, [Next]_vars PROVE Signing'
  OBVIOUS
<1>2. TypeOK /\ CommitsSettled /\ SharesWereSent /\ SignaturesJoined /\ OutputsSigned
  BY <1>1 DEF IInv, Signing
<1>3. \A i \in Correct : /\ acsFinished = [acsFinished EXCEPT ![i] = acsFinished[i]]
                         /\ signed = [signed EXCEPT ![i] = signed[i]]
                         /\ sharesReceived = [sharesReceived EXCEPT ![i] = sharesReceived[i]]
  BY <1>2 DEF TypeOK
<1>4. \A i \in Correct : signed[i] # None => Joins(Signers(signed[i]))
  BY <1>2 DEF SignaturesJoined
<1>5. \A i \in Correct : \A e \in sharesReceived[i] : e[1] \in Signers(e[2])
  BY <1>2 DEF SharesWereSent
<1>a. ASSUME NEW i \in Correct, NEW r \in Result, Settle(i, r) PROVE Signing'
  <2>1. msgs \subseteq msgs' /\ \A x \in msgs' \ msgs : x = Commit(i, r)
    BY <1>a DEF Settle
  <2>2. CommitsSettled'
    <3>1. settled' = [settled EXCEPT ![i] = r] /\ settled[i] = None
      BY <1>a DEF Settle
    <3>2. \A j \in Correct : \A q \in Result : Commit(j, q) \in msgs => j # i
      BY <1>2, <3>1, CommitConstants DEF CommitsSettled
    <3>3. \A j \in Correct : \A q \in Result : Commit(j, q) \in msgs' => settled'[j] = q
      BY <1>2, <2>1, <3>1, <3>2 DEF CommitsSettled, TypeOK, Commit
    <3>. QED
      BY <3>3 DEF CommitsSettled
  <2>3. SharesWereSent'
    BY <1>2, <1>3, <1>5, <1>a, <2>1, SharesKept DEF Settle
  <2>4. SignaturesJoined'
    <3>1. \A q : Signature(q) \notin msgs' \ msgs
      BY <2>1 DEF Signature, Commit
    <3>. QED
      BY <1>2, <1>3, <1>4, <1>a, <2>1, <3>1, SignaturesKept DEF Settle
  <2>5. OutputsSigned'
    BY <1>2, <1>a DEF OutputsSigned, Settle
  <2>. QED
    BY <2>2, <2>3, <2>4, <2>5 DEF Signing
<1>b. ASSUME NEW i \in Correct, TakeOutput(i) PROVE Signing'
  <2>1. /\ UNCHANGED <<settled, sharesReceived, signed, msgs>>
        /\ acsFinished' = [acsFinished EXCEPT ![i] = settled[i]]
        /\ Return(i, settled[i], signed[i])
    BY <1>b DEF TakeOutput
  <2>2. CommitsSettled' /\ SharesWereSent'
    BY <1>2, <1>3, <1>5, <2>1, SettledKept, SharesKept
  <2>3. SignaturesJoined'
    BY <1>2, <1>3, <1>4, <2>1, SignaturesKept
  <2>4. OutputsSigned'
    BY <1>2, <1>3, <2>1, OutputsKept
  <2>. QED
    BY <2>2, <2>3, <2>4 DEF Signing
<1>c. ASSUME NEW i \in Correct, NEW m \in msgs \cup FaultyMessages, handleCommit(i, m) PROVE Signing'
  <2>1. m.value \in Result /\ m.sender \in Signers(m.value)
    <3>1. m.kind = "commit" /\ m.sender \in Committee
      BY <1>c DEF handleCommit
    <3>2. m.value \in Result /\ m = Commit(m.sender, m.value)
      BY <1>2, <3>1, Received
    <3>3. m \in msgs \/ m.sender \in Faulty
      BY <3>1 DEF FaultyMessages, AcsSignatureMessage
    <3>. QED
      BY <3>1, <3>2, <3>3 DEF Signers
  <2>. DEFINE tally == sharesReceived[i] \cup {<<m.sender, m.value>>}
  <2>2. PICK s : /\ sharesReceived' = [sharesReceived EXCEPT ![i] = Kept(tally, s)]
                 /\ signed' = [signed EXCEPT ![i] = s]
                 /\ Return(i, acsFinished[i], s)
                 /\ UNCHANGED <<settled, acsFinished>>
                 /\ \/ s = signed[i] /\ msgs' = msgs
                    \/ /\ s = m.value /\ msgs' = msgs \cup {Signature(m.value)}
                       /\ Joins(SignersOf(tally, m.value))
    BY <1>c, CommitCases
  <2>3. \A e \in tally : e[1] \in Signers(e[2])
    BY <1>5, <2>1
  <2>4. s # None => Joins(Signers(s))
    <3>1. SignersOf(tally, m.value) \subseteq Signers(m.value) /\ Signers(m.value) \in SUBSET Committee
      BY <2>3 DEF SignersOf, Signers
    <3>2. Joins(SignersOf(tally, m.value)) => Joins(Signers(m.value))
      BY <3>1, JoinsMonotone
    <3>. QED
      BY <1>4, <2>2, <3>2
  <2>5. msgs \subseteq msgs' /\ \A x \in msgs' \ msgs : x.kind = "signature"
    BY <2>2 DEF Signature
  <2>6. \A r : Signature(r) \in msgs' \ msgs => r = s /\ s # None
    BY <2>1, <2>2, CommitConstants DEF Signature
  <2>7. CommitsSettled'
    BY <1>2, <2>2, <2>5, SettledKept
  <2>8. SharesWereSent'
    BY <1>2, <2>2, <2>3, <2>5, SharesKept DEF Kept
  <2>9. SignaturesJoined'
    BY <1>2, <2>2, <2>4, <2>5, <2>6, SignaturesKept
  <2>10. OutputsSigned'
    BY <1>2, <1>3, <2>2, OutputsKept
  <2>. QED
    BY <2>7, <2>8, <2>9, <2>10 DEF Signing
<1>d. ASSUME NEW i \in Correct, NEW m \in msgs \cup FaultyMessages, handleSignatureMessage(i, m) PROVE Signing'
  <2>1. /\ signed' = [signed EXCEPT ![i] = m.value]
        /\ sharesReceived' = [sharesReceived EXCEPT ![i] = Kept(sharesReceived[i], m.value)]
        /\ msgs' = msgs \cup {Signature(m.value)}
        /\ Return(i, acsFinished[i], m.value)
        /\ UNCHANGED <<settled, acsFinished>>
        /\ m.kind = "signature"
    BY <1>d DEF handleSignatureMessage
  <2>2. m.value \in Result /\ m = Signature(m.value)
    BY <1>2, <2>1, Received
  <2>3. Joins(Signers(m.value))
    BY <1>2, <2>1, <2>2 DEF SignaturesJoined, FaultyMessages, AcsCommitteeMessage
  <2>4. msgs \subseteq msgs' /\ \A x \in msgs' \ msgs : x.kind = "signature"
    BY <2>1 DEF Signature
  <2>5. \A r : Signature(r) \in msgs' \ msgs => r = m.value /\ m.value # None
    BY <2>1, <2>2, CommitConstants DEF Signature
  <2>6. CommitsSettled'
    BY <1>2, <2>1, <2>4, SettledKept
  <2>7. SharesWereSent'
    <3>1. \A e \in Kept(sharesReceived[i], m.value) : e[1] \in Signers(e[2])
      BY <1>5 DEF Kept
    <3>. QED
      BY <1>2, <2>1, <2>4, <3>1, SharesKept
  <2>8. SignaturesJoined'
    BY <1>2, <2>1, <2>3, <2>4, <2>5, SignaturesKept
  <2>9. OutputsSigned'
    BY <1>2, <1>3, <2>1, OutputsKept
  <2>. QED
    BY <2>6, <2>7, <2>8, <2>9 DEF Signing
<1>e. CASE UNCHANGED vars
  BY <1>2, <1>e DEF vars, Signing, CommitsSettled, SharesWereSent, SignaturesJoined, OutputsSigned, Signers
<1>. QED
  BY <1>1, <1>a, <1>b, <1>c, <1>d, <1>e DEF Next, Receive

LEMMA Inductive == Spec => []IInv
<1>1. IInv /\ [Next]_vars => IInv'
  BY StepType, StepSigning DEF IInv
<1>. QED
  BY <1>1, InitIInv, PTL DEF Spec

-------------------------------------------------------------------------------
(* What follows *)

\* Every share kept was sent, and every signature and output goes back to enough
\* members of the committee.
THEOREM SigningHolds == Spec => []Signing
<1>1. IInv => Signing
  BY DEF IInv
<1>. QED
  BY <1>1, Inductive, PTL

LEMMA AgreementFromIInv == IInv => Agreement
<1>1. SUFFICES ASSUME IInv, NEW i \in Correct, NEW j \in Correct, out[i] # None, out[j] # None
               PROVE  out[i] = out[j]
  BY DEF Agreement
<1>2. Joins(Signers(out[i])) /\ Joins(Signers(out[j])) /\ out[i] \in Result /\ out[j] \in Result
  BY <1>1 DEF IInv, TypeOK, Signing, SignaturesJoined, OutputsSigned
<1>. QED
  BY <1>1, <1>2, OneSignature DEF IInv, Signing

\* No two nodes that follow the protocol return different outputs, whatever
\* they settled on.
THEOREM OutputsAgree == Spec => []Agreement
BY Inductive, AgreementFromIInv, PTL

\* Behind every signature stands a member that follows the protocol and
\* settled on the output it is for.
THEOREM SignaturesBacked == Spec => []Backed
<1>1. IInv => Backed
  <2>1. SUFFICES ASSUME IInv, NEW i \in Correct, signed[i] # None
                 PROVE  \E j \in Committee \cap Correct : settled[j] = signed[i]
    BY DEF Backed
  <2>2. Joins(Signers(signed[i])) /\ signed[i] \in Result /\ Signers(signed[i]) \in SUBSET Committee
    BY <2>1 DEF IInv, TypeOK, Signing, SignaturesJoined, Signers
  <2>3. PICK j \in Signers(signed[i]) : j \notin Faulty
    BY <2>2, SignersMeet
  <2>4. Commit(j, signed[i]) \in msgs /\ j \in Committee
    BY <2>3 DEF Signers
  <2>5. j \in Correct
    BY <2>1, <2>4 DEF IInv, TypeOK, Commit, AcsCommitteeMessage, AcsSignatureMessage
  <2>. QED
    BY <2>1, <2>2, <2>4, <2>5 DEF IInv, Signing, CommitsSettled
<1>. QED
  BY <1>1, Inductive, PTL

\* The outputs implement the abstract agreement: each node returns at most
\* once, and always with what the others returned.
THEOREM ImplementsAgreement == Spec => AgreesOnOne
<1>1. Init => Out!Init
  BY DEF Init, Out!Init
<1>2. IInv /\ Agreement' /\ [Next]_vars => [Out!Next]_out
  <2>1. SUFFICES ASSUME IInv, Agreement', [Next]_vars, out' # out PROVE Out!Next
    BY DEF Out!Next
  <2>2. PICK i \in Correct : Running(i) /\ \E a, s : Return(i, a, s)
    <3>1. \A j, r : Settle(j, r) => out' = out
      BY DEF Settle
    <3>2. \A j : TakeOutput(j) => Running(j) /\ \E a, s : Return(j, a, s)
      BY DEF TakeOutput
    <3>3. \A j, m : handleCommit(j, m) => \E a, s : Return(j, a, s)
      BY CommitCases
    <3>4. \A j, m : handleSignatureMessage(j, m) => \E a, s : Return(j, a, s)
      BY DEF handleSignatureMessage
    <3>5. UNCHANGED vars => out' = out
      BY DEF vars
    <3>. QED
      BY <2>1, <3>1, <3>2, <3>3, <3>4, <3>5 DEF Next, Receive
  <2>3. PICK v : out' = [out EXCEPT ![i] = v]
    BY <2>2 DEF Return
  <2>4. out \in [Correct -> Result \cup {None}] /\ out[i] = None
    BY <2>1, <2>2 DEF IInv, TypeOK, Running
  <2>5. out'[i] = v /\ v # None
    BY <2>1, <2>3, <2>4
  <2>6. \A j \in Correct : out[j] \in {None, v}
    BY <2>1, <2>3, <2>4, <2>5 DEF Agreement
  <2>7. Out!Decide(i, out'[i])
    BY <2>3, <2>4, <2>5, <2>6 DEF Out!Decide
  <2>. QED
    BY <2>7 DEF Out!Next
<1>3. Spec => [][Out!Next]_out
  BY <1>2, Inductive, OutputsAgree, PTL DEF Spec
<1>. QED
  BY <1>1, <1>3, PTL DEF Spec, AgreesOnOne, Out!Spec

-------------------------------------------------------------------------------
(* Nobody waits in vain *)

Enough(S) == EnoughCommits(S) /\ Joins(S)

\* What is told and kept: a commit of every member that settled, a signature of
\* everyone who has one; an output is what was settled on; no tally is enough
\* for a signature the node has not; who has its output signed has returned.
Complete ==
    /\ \A i \in Correct :
        /\ i \in Committee /\ settled[i] # None => Commit(i, settled[i]) \in msgs
        /\ signed[i] # None => Signature(signed[i]) \in msgs
        /\ acsFinished[i] \in {None, settled[i]}
        /\ acsFinished[i] # None /\ acsFinished[i] = signed[i] => out[i] = signed[i]
    /\ \A i \in Correct : \A r \in Result : ~Enough(SignersOf(sharesReceived[i], r))

LEMMA EnoughMonotone ==
    ASSUME NEW Q \in SUBSET Committee, NEW R \in SUBSET Committee, Q \subseteq R, Enough(Q)
    PROVE  Enough(R)
<1>1. Cardinality(Q) <= Cardinality(R)
  BY Sizes, FS_Subset
<1>. QED
  BY <1>1, Sizes, CommitConstants DEF Enough, EnoughCommits, Joins

LEMMA NotEnough == ~Enough({})
<1>1. Cardinality({}) = 0
  BY FS_EmptySet
<1>. QED
  BY <1>1, CommitConstants DEF Enough, EnoughCommits

LEMMA InitComplete == Init => Complete
<1>1. \A r : SignersOf({}, r) = {}
  BY DEF SignersOf
<1>. QED
  BY <1>1, NotEnough DEF Init, Complete

\* What remains of a tally has no more signers of anything.
LEMMA KeptSigners ==
    ASSUME NEW tally, NEW s, NEW r
    PROVE  SignersOf(Kept(tally, s), r) = IF r = s THEN {} ELSE SignersOf(tally, r)
BY DEF SignersOf, Kept

\* A step of a running node i, after which it has a signature on s or none.
LEMMA IterationComplete ==
    ASSUME TypeOK, Complete, NEW i \in Correct, NEW STATE a, NEW STATE s, NEW STATE c,
           msgs \subseteq msgs', UNCHANGED settled, Running(i), Return(i, a, s),
           acsFinished' = [acsFinished EXCEPT ![i] = a],
           signed' = [signed EXCEPT ![i] = s],
           sharesReceived' = [sharesReceived EXCEPT ![i] = c],
           a \in {None, settled[i]},
           s # None => Signature(s) \in msgs',
           \A r \in Result : ~Enough(SignersOf(c, r))
    PROVE  Complete'
<1>1. \A j \in Correct :
        /\ j \in Committee /\ settled[j] # None => Commit(j, settled[j]) \in msgs'
        /\ signed'[j] # None => Signature(signed'[j]) \in msgs'
        /\ acsFinished'[j] \in {None, settled[j]}
  BY DEF Complete, TypeOK
<1>2. \A j \in Correct : acsFinished'[j] # None /\ acsFinished'[j] = signed'[j] => out'[j] = signed'[j]
  BY DEF Complete, TypeOK, Return, canTerminate
<1>3. \A j \in Correct : \A r \in Result : ~Enough(SignersOf(sharesReceived'[j], r))
  BY DEF Complete, TypeOK
<1>4. (\A j \in Correct : \A r \in Result : ~Enough(SignersOf(sharesReceived[j], r)))'
  BY <1>3 DEF SignersOf, Enough, EnoughCommits, Joins
<1>. QED
  BY <1>1, <1>2, <1>4 DEF Complete, Commit, Signature

LEMMA StepComplete == IInv /\ Complete /\ [Next]_vars => Complete'
<1>1. SUFFICES ASSUME IInv, Complete, [Next]_vars PROVE Complete'
  OBVIOUS
<1>2. TypeOK
  BY <1>1 DEF IInv
<1>3. \A i \in Correct : /\ acsFinished = [acsFinished EXCEPT ![i] = acsFinished[i]]
                         /\ signed = [signed EXCEPT ![i] = signed[i]]
                         /\ sharesReceived = [sharesReceived EXCEPT ![i] = sharesReceived[i]]
  BY <1>2 DEF TypeOK
<1>4. \A i \in Correct : /\ acsFinished[i] \in {None, settled[i]}
                         /\ signed[i] # None => Signature(signed[i]) \in msgs
                         /\ \A r \in Result : ~Enough(SignersOf(sharesReceived[i], r))
  BY <1>1 DEF Complete
<1>a. ASSUME NEW i \in Correct, NEW r \in Result, Settle(i, r) PROVE Complete'
  <2>1. /\ settled' = [settled EXCEPT ![i] = r] /\ settled[i] = None
        /\ msgs' = IF i \in Committee THEN msgs \cup {Commit(i, r)} ELSE msgs
        /\ UNCHANGED <<acsFinished, sharesReceived, signed, out>>
    BY <1>a DEF Settle
  <2>2. \A j \in Correct :
        /\ j \in Committee /\ settled'[j] # None => Commit(j, settled'[j]) \in msgs'
        /\ signed[j] # None => Signature(signed[j]) \in msgs'
        /\ acsFinished[j] \in {None, settled'[j]}
        /\ acsFinished[j] # None /\ acsFinished[j] = signed[j] => out[j] = signed[j]
    BY <1>1, <1>2, <2>1 DEF Complete, TypeOK
  <2>3. (\A j \in Correct : \A q \in Result : ~Enough(SignersOf(sharesReceived[j], q)))'
    BY <1>4, <2>1 DEF SignersOf, Enough, EnoughCommits, Joins
  <2>. QED
    BY <2>1, <2>2, <2>3 DEF Complete, Commit, Signature
<1>b. ASSUME NEW i \in Correct, TakeOutput(i) PROVE Complete'
  <2>1. /\ UNCHANGED <<settled, sharesReceived, signed, msgs>>
        /\ acsFinished' = [acsFinished EXCEPT ![i] = settled[i]]
        /\ Return(i, settled[i], signed[i]) /\ Running(i)
    BY <1>b DEF TakeOutput
  <2>. QED
    BY <1>1, <1>2, <1>3, <1>4, <2>1, IterationComplete
<1>c. ASSUME NEW i \in Correct, NEW m \in msgs \cup FaultyMessages, Running(i), handleCommit(i, m)
      PROVE  Complete'
  <2>. DEFINE tally == sharesReceived[i] \cup {<<m.sender, m.value>>}
              from == SignersOf(tally, m.value)
              join == EnoughCommits(from) /\ Joins(from)
              s == IF join THEN m.value ELSE signed[i]
              c == Kept(tally, s)
  <2>1. /\ sharesReceived' = [sharesReceived EXCEPT ![i] = c]
        /\ signed' = [signed EXCEPT ![i] = s]
        /\ msgs' = IF join THEN msgs \cup {Signature(m.value)} ELSE msgs
        /\ Return(i, acsFinished[i], s)
        /\ UNCHANGED <<settled, acsFinished>>
    BY <1>c DEF handleCommit
  <2>2. \A r : r # m.value => SignersOf(tally, r) = SignersOf(sharesReceived[i], r)
    BY DEF SignersOf
  <2>3. join <=> Enough(SignersOf(tally, m.value))
    BY DEF Enough
  <2>. HIDE DEF tally, join
  <2>4. \A r \in Result : ~Enough(SignersOf(c, r))
    BY <1>4, <2>2, <2>3, KeptSigners, NotEnough
  <2>5. s # None => Signature(s) \in msgs'
    BY <1>4, <2>1
  <2>6. msgs \subseteq msgs'
    BY <2>1
  <2>. HIDE DEF s, c
  <2>. QED
    BY <1>1, <1>2, <1>3, <1>4, <1>c, <2>1, <2>4, <2>5, <2>6, IterationComplete
<1>d. ASSUME NEW i \in Correct, NEW m \in msgs \cup FaultyMessages, Running(i), handleSignatureMessage(i, m)
      PROVE  Complete'
  <2>. DEFINE c == Kept(sharesReceived[i], m.value)
  <2>1. /\ signed' = [signed EXCEPT ![i] = m.value]
        /\ sharesReceived' = [sharesReceived EXCEPT ![i] = c]
        /\ msgs' = msgs \cup {Signature(m.value)}
        /\ Return(i, acsFinished[i], m.value)
        /\ UNCHANGED <<settled, acsFinished>>
    BY <1>d DEF handleSignatureMessage
  <2>2. \A r \in Result : ~Enough(SignersOf(c, r))
    BY <1>4, KeptSigners, NotEnough
  <2>. HIDE DEF c
  <2>. QED
    BY <1>1, <1>2, <1>3, <1>4, <1>d, <2>1, <2>2, IterationComplete
<1>e. CASE UNCHANGED vars
  <2>1. UNCHANGED <<settled, acsFinished, sharesReceived, signed, out, msgs>>
    BY <1>e DEF vars
  <2>2. (\A j \in Correct : \A q \in Result : ~Enough(SignersOf(sharesReceived[j], q)))'
    BY <1>4, <2>1 DEF SignersOf, Enough, EnoughCommits, Joins
  <2>. QED
    BY <1>1, <2>1, <2>2 DEF Complete, Commit, Signature
<1>. QED
  BY <1>1, <1>a, <1>b, <1>c, <1>d, <1>e DEF Next, Receive

LEMMA AlwaysComplete == Spec => []Complete
<1>. QED
  BY InitComplete, StepComplete, Inductive, PTL DEF Spec

\* When nothing is left to be done, whoever settled on the output that somebody
\* returned, or that enough members settled on, has returned it: it has a
\* signature, since it was sent one or the shares for it, and that can only be
\* one on this output, since there is no other.
THEOREM NobodyWaitsInVain == Spec => []SettledReturn
<1>1. IInv /\ Complete => SettledReturn
  <2>. SUFFICES ASSUME IInv, Complete, Quiet, NEW r \in Result,
                       NEW members, members = {j \in Committee \cap Correct : settled[j] = r},
                       (EnoughCommits(members) /\ Joins(members)) \/ (\E j \in Correct : out[j] = r),
                       NEW i \in Correct, settled[i] = r, out[i] # r
                PROVE  FALSE
    BY DEF SettledReturn
  <2>1. /\ TypeOK /\ CommitsSettled /\ SignaturesJoined /\ OutputsSigned
        /\ r # None
    BY CommitConstants DEF IInv, Signing
  <2>2. Running(i)
    <3>1. out[i] # None => out[i] = acsFinished[i] /\ acsFinished[i] \in {None, settled[i]}
      BY <2>1 DEF OutputsSigned, Complete
    <3>. QED
      BY <3>1 DEF Running
  <2>3. acsFinished[i] = r /\ \A m \in msgs : Handled(i, m)
    BY <2>1, <2>2 DEF Quiet, Complete
  <2>4. signed[i] # r
    BY <2>1, <2>3 DEF Complete
  <2>5. Joins(Signers(r))
    <3>1. CASE Joins(members)
      <4>1. members \subseteq Signers(r) /\ Signers(r) \in SUBSET Committee
        BY <2>1 DEF Signers, Complete
      <4>. QED
        BY <3>1, <4>1, JoinsMonotone
    <3>2. CASE \E j \in Correct : out[j] = r
      BY <2>1, <3>2 DEF OutputsSigned, SignaturesJoined
    <3>. QED
      BY <3>1, <3>2
  <2>6. signed[i] = None
    <3>1. signed[i] # None => Joins(Signers(signed[i])) /\ signed[i] \in Result
      BY <2>1 DEF SignaturesJoined, TypeOK
    <3>. QED
      BY <2>1, <2>4, <2>5, <3>1, OneSignature
  <2>7. CASE \E j \in Correct : out[j] = r
    <3>1. Signature(r) \in msgs
      BY <2>1, <2>7 DEF OutputsSigned, Complete
    <3>. QED
      BY <2>3, <2>6, <3>1 DEF Handled, Signature
  <2>8. CASE EnoughCommits(members) /\ Joins(members)
    <3>1. \A j \in members : Commit(j, r) \in msgs
      BY <2>1 DEF Complete
    <3>2. \A j \in members : <<j, r>> \in sharesReceived[i]
      BY <2>1, <2>3, <2>6, <3>1 DEF Handled, Commit
    <3>3. /\ members \subseteq SignersOf(sharesReceived[i], r)
          /\ SignersOf(sharesReceived[i], r) \in SUBSET Committee /\ members \in SUBSET Committee
      BY <2>1, <3>2 DEF SignersOf, TypeOK, Correct
    <3>4. Enough(SignersOf(sharesReceived[i], r))
      BY <2>8, <3>3, EnoughMonotone DEF Enough
    <3>. QED
      BY <3>4 DEF Complete
  <2>. QED
    BY <2>7, <2>8
<1>. QED
  BY <1>1, Inductive, AlwaysComplete, PTL
================================================================================
