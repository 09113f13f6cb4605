----------------------------- MODULE CoinCallsProofs -----------------------------
(***************************************************************************)
(* Proofs about CoinCalls, for every number of nodes, rounds and calls,    *)
(* good shares and bad, and handlers of both kinds: all calls of a round   *)
(* get the same value, not before enough nodes have asked, and what the    *)
(* handlers guarantee to their readers they guarantee to these calls.      *)
(* No call is left waiting when nothing is left to be done.                *)
(*                                                                         *)
(* The argument: whatever carries a value of the coin, be it coinVals, an  *)
(* answer, a message on its way or a result, carries the last bit of the   *)
(* one signature, and its key is among those given out; and a key comes    *)
(* there with one good request of more than half of the nodes.             *)
(***************************************************************************)
EXTENDS CoinCalls, HandlerProofs, FiniteSetTheorems

-------------------------------------------------------------------------------
(* The inductive invariant *)

Messages == net \cup {h.msg : h \in handling} \cup {c.msg : c \in content} \cup got

Given(k, v) == k \in alreadySent /\ v = coin[k.round]

ValuesFit ==
    /\ \A k \in alreadySent : coinVals[k.uround][k.round] = coin[k.round]
    /\ \A a \in answers \cup vals : Given(a.key, a.val)
    /\ \A m \in Messages : m.for.slot.origin = "COIN" =>
         Given(Key(m.for), m.payload) /\ m.for.to \notin LocalNodes

\* A request was made by a call, a good one by one of Calls, and the coin has one
\* of each sender.
Requested(q) ==
    /\ <<q.sender, q.key>> \in asked
    /\ q.valid => <<q.sender, q.key>> \in Calls

RequestsFit ==
    /\ \A q \in requestChan : Requested(q)
    /\ \A k \in Coin!Key : \A q \in received[k] : q.key = k /\ Requested(q)
    /\ \A k \in Coin!Key : \A p, q \in received[k] : p.sender = q.sender => p = q

AnswersFit == \A a \in answers : <<a.to, a.key>> \in Calls

Askers(k) == {i \in Node : <<i, k>> \in asked}
EnoughAsked == \A k \in alreadySent : Cardinality(Askers(k)) >= Cardinality(Node) \div 2 + 1

CoinTypes ==
    /\ Coin!CoinTypeOK
    /\ asked \in SUBSET (Calls \cup BadCalls)
    /\ vals \in SUBSET Coin!CoinAnswer

CoinInv == CoinTypes /\ ValuesFit /\ RequestsFit /\ AnswersFit /\ EnoughAsked

-------------------------------------------------------------------------------
(* Requests *)

\* CommonCoin counts as this module does.
LEMMA SameCardinality == \A S : Coin!Cardinality(S) = Cardinality(S)
BY DEF Coin!Cardinality, Cardinality

LEMMA AskersFinite == \A k : IsFiniteSet(Askers(k)) /\ Cardinality(Askers(k)) \in Nat
<1>1. \A k : IsFiniteSet(Askers(k))
  BY CallConstants, FS_Subset DEF Askers
<1>. QED
  BY <1>1, FS_CardinalityType

LEMMA AskersGrow ==
    ASSUME EnoughAsked, asked \subseteq asked', UNCHANGED alreadySent
    PROVE  EnoughAsked'
<1>1. \A k : Cardinality(Askers(k)) <= Cardinality(Askers(k)')
  <2>1. TAKE k
  <2>2. Askers(k) \subseteq Askers(k)' /\ IsFiniteSet(Askers(k)')
    BY CallConstants, FS_Subset DEF Askers
  <2>. QED
    BY <2>2, FS_Subset
<1>2. \A k : Cardinality(Askers(k)) \in Nat /\ Cardinality(Askers(k)') \in Nat
  <2>1. \A k : IsFiniteSet(Askers(k)')
    BY CallConstants, FS_Subset DEF Askers
  <2>. QED
    BY <2>1, AskersFinite, FS_CardinalityType
<1>3. Cardinality(Node) \in Nat
  BY CallConstants, FS_CardinalityType
<1>. QED
  BY <1>1, <1>2, <1>3 DEF EnoughAsked

\* The requests that the coin has when it takes one into account.
LEMMA WithFits ==
    ASSUME CoinInv, NEW req \in requestChan
    PROVE  /\ req \in Coin!CoinRequest /\ req.key \in Coin!Key /\ req.sender \in Node
           /\ Coin!With(req) \in SUBSET Coin!CoinRequest
           /\ \A q \in Coin!With(req) : q.key = req.key /\ Requested(q)
           /\ \A p, q \in Coin!With(req) : p.sender = q.sender => p = q
<1>1. req \in Coin!CoinRequest /\ req.key \in Coin!Key /\ req.sender \in Node
  BY DEF CoinInv, CoinTypes, Coin!CoinTypeOK, Coin!CoinRequest
<1>2. received[req.key] \in SUBSET Coin!CoinRequest
  BY <1>1 DEF CoinInv, CoinTypes, Coin!CoinTypeOK
<1>3. Coin!With(req) \in SUBSET Coin!CoinRequest
  BY <1>1, <1>2 DEF Coin!With
<1>4. /\ \A q \in Coin!With(req) : q.key = req.key /\ Requested(q)
      /\ \A p, q \in Coin!With(req) : p.sender = q.sender => p = q
  BY <1>1 DEF CoinInv, RequestsFit, Coin!With
<1>. QED
  BY <1>1, <1>3, <1>4

\* No more requests are together than nodes have asked.
LEMMA WithAsked ==
    ASSUME CoinInv, NEW req \in requestChan, Coin!Enough(Coin!With(req))
    PROVE  Cardinality(Askers(req.key)) >= Cardinality(Node) \div 2 + 1
<1>. DEFINE W == Coin!With(req)
            f == [q \in W |-> q.sender]
<1>1. f \in Injection(W, Askers(req.key))
  <2>1. \A q \in W : q.sender \in Askers(req.key)
    BY WithFits DEF Requested, Askers, Coin!CoinRequest
  <2>. QED
    BY <2>1, WithFits DEF Injection, IsInjective
<1>2. Cardinality(W) <= Cardinality(Askers(req.key)) /\ IsFiniteSet(W)
  BY <1>1, AskersFinite, FS_Injection
<1>3. Cardinality(W) \in Nat /\ Cardinality(Askers(req.key)) \in Nat /\ Cardinality(Node) \in Nat
  BY <1>2, AskersFinite, CallConstants, FS_CardinalityType
<1>. QED
  BY <1>2, <1>3, SameCardinality DEF Coin!Enough, Coin!N

-------------------------------------------------------------------------------
(* Steps of the coin *)

LEMMA KeepFits ==
    ASSUME CoinInv, NEW req \in requestChan, Coin!Keep(req), asked' = asked
    PROVE  /\ requestChan' \in SUBSET Coin!CoinRequest
           /\ received' \in [Coin!Key -> SUBSET Coin!CoinRequest]
           /\ RequestsFit'
<1>1. /\ requestChan' \subseteq requestChan
      /\ received' = [received EXCEPT ![req.key] = Coin!With(req)]
  BY DEF Coin!Keep
<1>2. requestChan' \in SUBSET Coin!CoinRequest /\ received' \in [Coin!Key -> SUBSET Coin!CoinRequest]
  BY <1>1, WithFits DEF CoinInv, CoinTypes, Coin!CoinTypeOK
<1>3. \A q : Requested(q) => Requested(q)'
  BY DEF Requested
<1>4. \A k \in Coin!Key : received'[k] = IF k = req.key THEN Coin!With(req) ELSE received[k]
  BY <1>1 DEF CoinInv, CoinTypes, Coin!CoinTypeOK
<1>5. RequestsFit'
  <2>1. \A q \in requestChan' : Requested(q)'
    BY <1>1, <1>3 DEF CoinInv, RequestsFit
  <2>2. \A k \in Coin!Key : \A q \in received'[k] : q.key = k /\ Requested(q)'
    BY <1>3, <1>4, WithFits DEF CoinInv, RequestsFit
  <2>3. \A k \in Coin!Key : \A p, q \in received'[k] : p.sender = q.sender => p = q
    BY <1>4, WithFits DEF CoinInv, RequestsFit
  <2>. QED
    BY <2>1, <2>2, <2>3 DEF RequestsFit
<1>. QED
  BY <1>2, <1>5

LEMMA AnswerForms ==
    ASSUME NEW q \in Coin!CoinRequest, NEW v \in Coin!Bit
    PROVE  /\ Coin!Answer(q, v) \in Coin!CoinAnswer
           /\ Coin!Answer(q, v).to = q.sender /\ Coin!Answer(q, v).key = q.key
           /\ Coin!Answer(q, v).val = v
BY DEF Coin!Answer, Coin!CoinAnswer, Coin!CoinRequest

LEMMA SameMessages == UNCHANGED vars => Messages' = Messages
BY DEF vars, Messages

\* Nothing is given out.
LEMMA NothingGiven ==
    ASSUME CoinInv, UNCHANGED <<vars, coin, alreadySent, coinVals, answers, asked, vals>>,
           requestChan' \in SUBSET Coin!CoinRequest,
           received' \in [Coin!Key -> SUBSET Coin!CoinRequest], RequestsFit'
    PROVE  CoinInv'
<1>1. CoinTypes'
  BY DEF CoinInv, CoinTypes, Coin!CoinTypeOK
<1>2. ValuesFit' /\ AnswersFit' /\ EnoughAsked'
  BY SameMessages DEF CoinInv, ValuesFit, AnswersFit, EnoughAsked, Given, Askers
<1>. QED
  BY <1>1, <1>2 DEF CoinInv

LEMMA AnswerLateKeeps ==
    ASSUME CoinInv, NEW req \in requestChan, Coin!AnswerLate(req), UNCHANGED <<vars, asked, vals>>
    PROVE  CoinInv'
<1>. DEFINE v == coinVals[req.key.uround][req.key.round]
            a == Coin!Answer(req, v)
<1>1. /\ Coin!Keep(req) /\ req.valid /\ req.key \in alreadySent /\ answers' = answers \cup {a}
      /\ UNCHANGED <<coin, alreadySent, coinVals>>
  BY DEF Coin!AnswerLate, Coin!Keep
<1>2. req \in Coin!CoinRequest /\ Requested(req)
  BY WithFits DEF CoinInv, RequestsFit
<1>3. v = coin[req.key.round] /\ v \in Coin!Bit
  BY <1>1, <1>2 DEF CoinInv, CoinTypes, ValuesFit, Coin!CoinTypeOK, Coin!CoinRequest, Coin!Key
<1>4. /\ a \in Coin!CoinAnswer /\ a.key = req.key /\ a.val = v
      /\ <<a.to, a.key>> \in Calls
  BY <1>1, <1>2, <1>3, AnswerForms DEF Requested
<1>. HIDE DEF a, v
<1>5. CoinTypes'
  BY <1>1, <1>4, KeepFits DEF CoinInv, CoinTypes, Coin!CoinTypeOK
<1>6. ValuesFit'
  BY <1>1, <1>3, <1>4, SameMessages DEF CoinInv, ValuesFit, Given
<1>7. AnswersFit' /\ EnoughAsked'
  BY <1>1, <1>4 DEF CoinInv, AnswersFit, EnoughAsked, Askers
<1>. QED
  BY <1>1, <1>5, <1>6, <1>7, KeepFits DEF CoinInv

LEMMA CombineKeeps ==
    ASSUME CoinInv, NEW req \in requestChan, Coin!Combine(req), UNCHANGED <<vars, asked, vals>>
    PROVE  CoinInv'
<1>. DEFINE v == coin[req.key.round]
            W == Coin!With(req)
            A == {Coin!Answer(q, v) : q \in W}
<1>1. /\ Coin!Keep(req) /\ Coin!Enough(W) /\ \A q \in W : q.valid
      /\ answers' = answers \cup A /\ alreadySent' = alreadySent \cup {req.key}
      /\ coinVals' = [coinVals EXCEPT ![req.key.uround][req.key.round] = v]
      /\ UNCHANGED coin
  BY DEF Coin!Combine, Coin!Keep, Coin!AllValid
<1>2. /\ req.key \in Coin!Key /\ req.key.round \in Round /\ req.key.uround \in Uround
      /\ v \in Coin!Bit
  BY WithFits DEF CoinInv, CoinTypes, Coin!CoinTypeOK, Coin!Key
<1>3. \A a \in A : /\ a \in Coin!CoinAnswer /\ a.key = req.key /\ a.val = v
                    /\ <<a.to, a.key>> \in Calls
  BY <1>1, <1>2, WithFits, AnswerForms DEF Requested
<1>. HIDE DEF A, W
<1>4. /\ coinVals' \in [Uround -> [Round -> Coin!Bit]]
      /\ \A k \in Coin!Key : coinVals'[k.uround][k.round] =
           IF k.uround = req.key.uround /\ k.round = req.key.round THEN v
           ELSE coinVals[k.uround][k.round]
  BY <1>1, <1>2 DEF CoinInv, CoinTypes, Coin!CoinTypeOK, Coin!Key
<1>5. CoinTypes'
  BY <1>1, <1>2, <1>3, <1>4, KeepFits DEF CoinInv, CoinTypes, Coin!CoinTypeOK
<1>6. ValuesFit'
  <2>1. \A k \in alreadySent' : coinVals'[k.uround][k.round] = coin[k.round]
    BY <1>1, <1>2, <1>4 DEF CoinInv, CoinTypes, Coin!CoinTypeOK, ValuesFit
  <2>2. \A k, x : Given(k, x) => Given(k, x)'
    BY <1>1 DEF Given
  <2>3. \A a \in A : Given(a.key, a.val)'
    BY <1>1, <1>3 DEF Given
  <2>. QED
    BY <1>1, <2>1, <2>2, <2>3, SameMessages DEF CoinInv, ValuesFit
<1>7. AnswersFit'
  BY <1>1, <1>3 DEF CoinInv, AnswersFit
<1>8. EnoughAsked'
  BY <1>1, WithAsked DEF CoinInv, EnoughAsked, Askers, W
<1>. QED
  BY <1>1, <1>5, <1>6, <1>7, <1>8, KeepFits DEF CoinInv

LEMMA RunCoinKeeps ==
    ASSUME CoinInv, RunCoin
    PROVE  CoinInv'
<1>1. PICK req \in requestChan : \/ Coin!Refuse(req) \/ Coin!JoinFails(req)
                                 \/ Coin!AnswerLate(req) \/ Coin!Combine(req)
  BY DEF RunCoin, Coin!RunCoin
<1>2. UNCHANGED <<vars, asked, vals>>
  BY DEF RunCoin
<1>3. CASE Coin!Refuse(req) \/ Coin!JoinFails(req)
  <2>1. Coin!Keep(req) /\ UNCHANGED <<coin, alreadySent, coinVals, answers>>
    BY <1>3 DEF Coin!Refuse, Coin!JoinFails, Coin!Keep
  <2>. QED
    BY <1>2, <2>1, KeepFits, NothingGiven
<1>. QED
  BY <1>1, <1>2, <1>3, AnswerLateKeeps, CombineKeeps

-------------------------------------------------------------------------------
(* Calls and answers *)

LEMMA AskKeeps ==
    ASSUME CoinInv, NEW c \in Calls \cup BadCalls, NEW valid \in BOOLEAN, valid => c \in Calls,
           Coin!Ask(c[1], c[2], valid), asked' = asked \cup {c}, vals' = vals, Messages' = Messages
    PROVE  CoinInv'
<1>. DEFINE req == [sender |-> c[1], key |-> c[2], valid |-> valid]
<1>1. /\ requestChan' = requestChan \cup {req}
      /\ UNCHANGED <<coin, received, alreadySent, coinVals, answers>>
  BY DEF Coin!Ask
<1>2. c[1] \in Node /\ c[2] \in Coin!Key /\ <<c[1], c[2]>> = c
  BY CallConstants
<1>3. /\ req \in Coin!CoinRequest /\ req.sender = c[1] /\ req.key = c[2] /\ req.valid = valid
  BY <1>2 DEF Coin!CoinRequest
<1>. HIDE DEF req
<1>4. CoinTypes'
  BY <1>1, <1>3 DEF CoinInv, CoinTypes, Coin!CoinTypeOK
<1>5. ValuesFit' /\ AnswersFit'
  BY <1>1 DEF CoinInv, ValuesFit, AnswersFit, Given
<1>6. RequestsFit'
  <2>1. \A q : Requested(q) => Requested(q)'
    BY DEF Requested
  <2>2. Requested(req)'
    BY <1>2, <1>3 DEF Requested
  <2>. QED
    BY <1>1, <2>1, <2>2 DEF CoinInv, RequestsFit
<1>7. EnoughAsked'
  BY <1>1, AskersGrow DEF CoinInv
<1>. QED
  BY <1>4, <1>5, <1>6, <1>7 DEF CoinInv

LEMMA coinCallKeeps ==
    ASSUME IInv, CoinInv, coinCall
    PROVE  IInv' /\ CoinInv'
<1>1. PICK c \in Calls \cup BadCalls : CallBad(c) \/ CallLocal(c) \/ CallNetwork(c)
  BY DEF coinCall
<1>2. CASE CallBad(c)
  BY <1>2, AskKeeps, StutterKeeps, SameMessages DEF CallBad
<1>3. CASE CallLocal(c)
  BY <1>3, AskKeeps, StutterKeeps, SameMessages DEF CallLocal
<1>4. CASE CallNetwork(c)
  <2>1. AnswerReader(c[1], c[2]) \in Reader /\ c \in Calls
    BY <1>4, CallConstants DEF CallNetwork
  <2>2. Messages' = Messages
    BY <1>4 DEF CallNetwork, Call, Messages
  <2>. QED
    BY <1>4, <2>1, <2>2, AskKeeps, CallKeeps DEF CallNetwork
<1>. QED
  BY <1>1, <1>2, <1>3, <1>4

LEMMA AnswerReaderFacts ==
    ASSUME NEW i, NEW k \in Coin!Key
    PROVE  /\ AnswerReader(i, k).slot.origin = "COIN" /\ AnswerReader(i, k).to = i
           /\ Key(AnswerReader(i, k)) = k
BY DEF AnswerReader, Key, Coin!Key

LEMMA AnswerCallsKeeps ==
    ASSUME IInv, CoinInv, AnswerCalls
    PROVE  IInv' /\ CoinInv'
<1>1. PICK a \in answers : AnswerLocal(a) \/ AnswerNetwork(a)
  BY DEF AnswerCalls
<1>2. /\ a \in Coin!CoinAnswer /\ Given(a.key, a.val) /\ <<a.to, a.key>> \in Calls
      /\ a.key \in Coin!Key /\ a.val \in Coin!Bit
  BY DEF CoinInv, CoinTypes, ValuesFit, AnswersFit, Coin!CoinTypeOK, Coin!CoinAnswer
<1>3. /\ answers' = answers \ {a} /\ asked' = asked
      /\ UNCHANGED <<coin, requestChan, received, alreadySent, coinVals>>
  BY <1>1 DEF AnswerLocal, AnswerNetwork, Coin!SendAnswer
<1>4. RequestsFit' /\ AnswersFit' /\ EnoughAsked'
  BY <1>3 DEF CoinInv, RequestsFit, AnswersFit, EnoughAsked, Requested, Askers
<1>5. CASE AnswerLocal(a)
  <2>1. vals' = vals \cup {a} /\ UNCHANGED vars
    BY <1>5 DEF AnswerLocal
  <2>2. CoinTypes'
    BY <1>2, <1>3, <2>1 DEF CoinInv, CoinTypes, Coin!CoinTypeOK
  <2>3. ValuesFit'
    BY <1>2, <1>3, <2>1, SameMessages DEF CoinInv, ValuesFit, Given
  <2>. QED
    BY <1>4, <2>1, <2>2, <2>3, StutterKeeps DEF CoinInv
<1>6. CASE AnswerNetwork(a)
  <2>. DEFINE m == AnswerMessage(a)
  <2>1. Send({m}) /\ vals' = vals /\ a.to \notin LocalNodes
    BY <1>6 DEF AnswerNetwork
  <2>2. AnswerReader(a.to, a.key) \in Reader
    BY <1>2, <2>1, CallConstants
  <2>3. m \in HandlerMessage /\ m.for = AnswerReader(a.to, a.key) /\ m.payload = a.val
    BY <1>2, <2>2, CallConstants DEF AnswerMessage, HandlerMessage
  <2>4. Given(Key(m.for), m.payload) /\ m.for.to \notin LocalNodes
    BY <1>2, <2>1, <2>3, AnswerReaderFacts
  <2>5. Messages' = Messages \cup {m}
    BY <2>1 DEF Send, Messages
  <2>. HIDE DEF m
  <2>6. CoinTypes'
    BY <1>3, <2>1 DEF CoinInv, CoinTypes, Coin!CoinTypeOK
  <2>7. ValuesFit'
    BY <1>3, <2>1, <2>4, <2>5 DEF CoinInv, ValuesFit, Given
  <2>8. IInv'
    BY <2>1, <2>3, SendKeeps
  <2>. QED
    BY <1>4, <2>6, <2>7, <2>8 DEF CoinInv
<1>. QED
  BY <1>1, <1>5, <1>6

-------------------------------------------------------------------------------
(* Steps of the handlers *)

\* A message is moved, never made.
LEMMA MessagesMove ==
    ASSUME IInv, receiver \/ \E q \in Reader : receive(q)
    PROVE  Messages' \subseteq Messages
<1>1. ASSUME NEW m \in net, Accept(m) PROVE Messages' \subseteq Messages
  BY <1>1 DEF Accept, Messages
<1>2. ASSUME NEW h \in handling, Handle(h) PROVE Messages' \subseteq Messages
  <2>1. PICK next \in Steps : handling' = (handling \ {h}) \cup {[h EXCEPT !.at = next]}
    BY <1>2 DEF Handle
  <2>2. [h EXCEPT !.at = next].msg = h.msg
    BY DEF IInv, TypeOK
  <2>. QED
    BY <1>2, <2>1, <2>2 DEF Handle, Messages
<1>3. ASSUME NEW h \in handling, Put(h) PROVE Messages' \subseteq Messages
  BY <1>3 DEF Put, Messages
<1>4. ASSUME NEW q \in Reader, receive(q) PROVE Messages' \subseteq Messages
  <2>1. Seek(q) \/ Fetch(q) => UNCHANGED <<net, handling, content, got>>
    BY DEF Seek, Fetch
  <2>2. CASE Seek(q) \/ Fetch(q)
    BY <2>1, <2>2 DEF Messages
  <2>3. CASE Return(q)
    BY <2>3 DEF Return, Messages
  <2>. QED
    BY <1>4, <2>2, <2>3 DEF receive
<1>. QED
  BY <1>1, <1>2, <1>3, <1>4 DEF receiver

LEMMA HandlersKeeps ==
    ASSUME IInv, CoinInv, Handlers
    PROVE  IInv' /\ CoinInv'
<1>1. IInv'
  BY receiverKeeps, receiveKeeps DEF Handlers
<1>2. Messages' \subseteq Messages
  BY MessagesMove DEF Handlers
<1>3. UNCHANGED <<coin, requestChan, received, alreadySent, coinVals, answers, asked>>
  BY DEF Handlers, coinVars
<1>4. \A a \in vals' : a \in vals \/ (a \in Coin!CoinAnswer /\ Given(a.key, a.val))
  <2>1. ASSUME NEW m \in got', m.for.slot.origin = "COIN"
        PROVE  LET a == [to |-> m.for.to, key |-> Key(m.for), val |-> m.payload]
               IN  a \in Coin!CoinAnswer /\ Given(a.key, a.val)
    <3>1. m \in Messages
      BY <1>2, <2>1 DEF Messages
    <3>2. Given(Key(m.for), m.payload)
      BY <2>1, <3>1 DEF CoinInv, ValuesFit
    <3>3. Key(m.for) \in Coin!Key /\ m.payload \in Coin!Bit
      BY <3>2 DEF Given, CoinInv, CoinTypes, Coin!CoinTypeOK, Coin!Key
    <3>4. m.for.to \in Node
      BY <1>1, <2>1, SlotFields DEF IInv, TypeOK, HandlerMessage
    <3>. QED
      BY <3>2, <3>3, <3>4 DEF Coin!CoinAnswer
  <2>. QED
    BY <2>1 DEF Handlers
<1>5. CoinTypes'
  BY <1>3, <1>4 DEF CoinInv, CoinTypes, Coin!CoinTypeOK
<1>6. ValuesFit'
  BY <1>2, <1>3, <1>4 DEF CoinInv, ValuesFit, Given
<1>7. RequestsFit' /\ AnswersFit' /\ EnoughAsked'
  BY <1>3 DEF CoinInv, RequestsFit, AnswersFit, EnoughAsked, Requested, Askers
<1>. QED
  BY <1>1, <1>5, <1>6, <1>7 DEF CoinInv

LEMMA ListenKeeps ==
    ASSUME IInv, CoinInv, Listen
    PROVE  IInv' /\ CoinInv'
<1>1. PICK q \in Listening : Call(q)
  BY DEF Listen
<1>2. IInv'
  BY <1>1, CallKeeps, CallConstants
<1>3. Messages' = Messages
  BY <1>1 DEF Call, Messages
<1>4. UNCHANGED <<coin, requestChan, received, alreadySent, coinVals, answers, asked, vals>>
  BY DEF Listen, coinVars
<1>5. CoinTypes'
  BY <1>4 DEF CoinInv, CoinTypes, Coin!CoinTypeOK
<1>6. ValuesFit' /\ RequestsFit' /\ AnswersFit' /\ EnoughAsked'
  BY <1>3, <1>4 DEF CoinInv, ValuesFit, RequestsFit, AnswersFit, EnoughAsked, Given, Requested, Askers
<1>. QED
  BY <1>2, <1>5, <1>6 DEF CoinInv

-------------------------------------------------------------------------------
(* The theorems *)

LEMMA CallsInitInv == CallsInit => IInv /\ CoinInv
<1>. SUFFICES ASSUME CallsInit PROVE IInv /\ CoinInv
  OBVIOUS
<1>1. IInv
  BY InitIInv, CallConstants DEF CallsInit
<1>2. CoinTypes
  BY DEF CallsInit, CoinTypes, Coin!CoinInit, Coin!CoinTypeOK, Coin!Bit
<1>3. ValuesFit
  <2>1. Messages = Traffic
    BY DEF CallsInit, NewHandlers, Messages
  <2>. QED
    BY <2>1, CallConstants DEF CallsInit, Coin!CoinInit, ValuesFit
<1>4. RequestsFit /\ AnswersFit /\ EnoughAsked
  BY DEF CallsInit, Coin!CoinInit, RequestsFit, AnswersFit, EnoughAsked
<1>. QED
  BY <1>1, <1>2, <1>3, <1>4 DEF CoinInv

\* What makes up the argument holds throughout.
THEOREM CallsInvariance == CallsSpec => [](IInv /\ CoinInv)
<1>1. IInv /\ CoinInv /\ [CallsNext]_allVars => (IInv /\ CoinInv)'
  <2>1. SUFFICES ASSUME IInv, CoinInv, [CallsNext]_allVars PROVE IInv' /\ CoinInv'
    OBVIOUS
  <2>2. CASE RunCoin
    BY <2>1, <2>2, RunCoinKeeps, StutterKeeps DEF RunCoin
  <2>3. CASE UNCHANGED allVars
    <3>1. UNCHANGED <<vars, coin, requestChan, received, alreadySent, coinVals, answers, asked, vals>>
      BY <2>3 DEF allVars, coinVars
    <3>2. RequestsFit'
      BY <2>1, <3>1 DEF CoinInv, RequestsFit, Requested
    <3>3. requestChan' \in SUBSET Coin!CoinRequest /\ received' \in [Coin!Key -> SUBSET Coin!CoinRequest]
      BY <2>1, <3>1 DEF CoinInv, CoinTypes, Coin!CoinTypeOK
    <3>. QED
      BY <2>1, <3>1, <3>2, <3>3, NothingGiven, StutterKeeps
  <2>. QED
    BY <2>1, <2>2, <2>3, coinCallKeeps, AnswerCallsKeeps, HandlersKeeps, ListenKeeps DEF CallsNext
<1>. QED
  BY <1>1, CallsInitInv, PTL DEF CallsSpec

\* The variables have their types in every state.
THEOREM CallsTypeCorrect == CallsSpec => []CallsTypeOK
<1>1. IInv /\ CoinInv => CallsTypeOK
  BY DEF IInv, CoinInv, CoinTypes, CallsTypeOK
<1>. QED
  BY <1>1, CallsInvariance, PTL

\* An answer that was put into a channel is in the one that the maps hold.
AnswersKept ==
    \A c \in content : c.msg.for.slot.origin = "COIN" => c.chan = chans[c.msg.for.to][c.msg.for.slot]

\* With calls of the coin and answers to them on top the steady channels stay, and
\* those that answers are put into are steady, in any round of any agreement: only
\* the handler of the network carries answers.
THEOREM NoAnswerIsLost == CallsSpec => [](NothingLost /\ AnswersKept)
<1>1. ASSUME IInv, CoinInv PROVE AnswersKept
  <2>1. SUFFICES ASSUME NEW c \in content, c.msg.for.slot.origin = "COIN"
                 PROVE  c.chan = chans[c.msg.for.to][c.msg.for.slot]
    BY DEF AnswersKept
  <2>2. Steady(c.msg.for)
    BY <1>1, <2>1 DEF CoinInv, ValuesFit, Messages, Steady
  <2>. QED
    BY <1>1, <2>2 DEF IInv, NothingLost
<1>2. IInv => NothingLost
  BY DEF IInv
<1>. QED
  BY <1>1, <1>2, CallsInvariance, PTL

\* Everyone gets the same coin in a round, whatever instance asked, early or late.
THEOREM CoinsAgree == CallsSpec => []SameCoin
<1>1. CoinInv => SameCoin
  BY DEF CoinInv, ValuesFit, Given, SameCoin
<1>. QED
  BY <1>1, CallsInvariance, PTL

\* Nobody gets the coin before more than half of the nodes have asked for it.
THEOREM EnoughHaveAsked == CallsSpec => []AskedEnough
<1>1. CoinInv => AskedEnough
  BY DEF CoinInv, ValuesFit, Given, EnoughAsked, Askers, AskedEnough
<1>. QED
  BY <1>1, CallsInvariance, PTL

-------------------------------------------------------------------------------
(* When nothing is left to be done *)

\* The requests for the coin of a key, those it has and those it will get.
Requests(k) == {q \in requestChan : q.key = k} \cup received[k]

\* Every call is there as one request, good or bad.
RequestsStay ==
    /\ \A k \in Coin!Key : \A p, q \in Requests(k) : p.sender = q.sender => p = q
    /\ \A c \in asked : \E q \in Requests(c[2]) : q.sender = c[1]

\* With enough good requests the coin of a key is given out, and not before.
GivenOut ==
    \A k \in Coin!Key :
        IF k \in alreadySent THEN Coin!Enough(received[k])
        ELSE Coin!Enough(received[k]) => \E q \in received[k] : ~q.valid

\* An answer is with the coin, with the handlers, or has been returned.
HasAnswer(i, k) ==
    \/ \E a \in answers \cup vals : a.to = i /\ a.key = k
    \/ i \notin LocalNodes /\ \E m \in Messages : m.for = AnswerReader(i, k)

GoodAreAnswered ==
    \A k \in alreadySent : \A q \in received[k] : q.valid => HasAnswer(q.sender, k)

\* Whoever called in the network receives until its call returns, and nobody else
\* receives in its place.
CallersReceive ==
    \A c \in Calls : c[1] \notin LocalNodes =>
        /\ c \notin asked => reading[AnswerReader(c[1], c[2])] = "idle"
        /\ (\E q \in Requests(c[2]) : q.sender = c[1] /\ q.valid) =>
             reading[AnswerReader(c[1], c[2])] # "idle" \/ Returned(c)

GotIsReturned ==
    \A m \in got : m.for.slot.origin = "COIN" =>
        \E a \in vals : a.to = m.for.to /\ a.key = Key(m.for)

TrafficStays == Traffic \subseteq Messages

QInv == /\ RequestsStay /\ GivenOut /\ GoodAreAnswered
        /\ CallersReceive /\ GotIsReturned /\ TrafficStays

-------------------------------------------------------------------------------
(* Requests stay *)

LEMMA WithIs ==
    ASSUME CoinInv, RequestsStay, NEW req \in requestChan
    PROVE  /\ req.key \in Coin!Key
           /\ Coin!With(req) = received[req.key] \cup {req}
<1>1. req.key \in Coin!Key
  BY WithFits
<1>2. \A q \in received[req.key] : q.sender = req.sender => q = req
  BY <1>1 DEF RequestsStay, Requests
<1>. QED
  BY <1>1, <1>2 DEF Coin!With

LEMMA ReceivedFinite ==
    ASSUME CoinInv, NEW k \in Coin!Key
    PROVE  /\ IsFiniteSet(received[k])
           /\ \A req \in requestChan : IsFiniteSet(Coin!With(req))
<1>1. ASSUME NEW W \in SUBSET Coin!CoinRequest, \A p, q \in W : p.sender = q.sender => p = q
      PROVE  IsFiniteSet(W)
  <2>. DEFINE g == [q \in W |-> q.sender]
  <2>1. g \in Injection(W, Node)
    BY <1>1 DEF Injection, IsInjective, Coin!CoinRequest
  <2>. QED
    BY <2>1, CallConstants, FS_Injection
<1>2. IsFiniteSet(received[k])
  BY <1>1 DEF CoinInv, CoinTypes, Coin!CoinTypeOK, RequestsFit
<1>. QED
  BY <1>1, <1>2, WithFits

LEMMA EnoughGrows ==
    ASSUME NEW S, NEW W, S \subseteq W, IsFiniteSet(W), Coin!Enough(S)
    PROVE  Coin!Enough(W)
<1>1. IsFiniteSet(S) /\ Cardinality(S) <= Cardinality(W)
  BY FS_Subset
<1>2. Cardinality(S) \in Nat /\ Cardinality(W) \in Nat /\ Cardinality(Node) \in Nat
  BY <1>1, CallConstants, FS_CardinalityType
<1>. QED
  BY <1>1, <1>2, SameCardinality DEF Coin!Enough, Coin!N

LEMMA NoneIsNotEnough == ~Coin!Enough({})
<1>1. Cardinality({}) = 0 /\ Cardinality(Node) \in Nat
  BY CallConstants, FS_EmptySet, FS_CardinalityType
<1>. QED
  BY <1>1, SameCardinality DEF Coin!Enough, Coin!N

LEMMA KeepStays ==
    ASSUME CoinInv, RequestsStay, NEW req \in requestChan, Coin!Keep(req), asked' = asked
    PROVE  /\ \A k \in Coin!Key :
                /\ received'[k] = IF k = req.key THEN received[k] \cup {req} ELSE received[k]
                /\ Requests(k)' = Requests(k)
           /\ RequestsStay'
<1>1. /\ requestChan' = requestChan \ {req}
      /\ received' = [received EXCEPT ![req.key] = received[req.key] \cup {req}]
  BY WithIs DEF Coin!Keep
<1>2. \A k \in Coin!Key : received'[k] = IF k = req.key THEN received[k] \cup {req} ELSE received[k]
  BY <1>1 DEF CoinInv, CoinTypes, Coin!CoinTypeOK
<1>3. \A k \in Coin!Key : Requests(k)' = Requests(k)
  BY <1>1, <1>2, WithIs DEF Requests
<1>4. \A c \in asked : c[2] \in Coin!Key
  BY CallConstants DEF CoinInv, CoinTypes
<1>. QED
  BY <1>2, <1>3, <1>4 DEF RequestsStay

LEMMA AskStays ==
    ASSUME CoinInv, RequestsStay, NEW c \in Calls \cup BadCalls, NEW valid \in BOOLEAN,
           c \notin asked, Coin!Ask(c[1], c[2], valid), asked' = asked \cup {c}
    PROVE  /\ RequestsStay'
           /\ \A k \in Coin!Key : \A q \in Requests(k)' :
                q \in Requests(k) \/ (q.sender = c[1] /\ q.key = c[2] /\ k = c[2] /\ q.valid = valid)
<1>. DEFINE req == [sender |-> c[1], key |-> c[2], valid |-> valid]
<1>1. requestChan' = requestChan \cup {req} /\ received' = received
  BY DEF Coin!Ask
<1>2. c = <<c[1], c[2]>> /\ c[2] \in Coin!Key
  BY CallConstants
<1>3. req.sender = c[1] /\ req.key = c[2] /\ req.valid = valid
  OBVIOUS
<1>. HIDE DEF req
<1>4. \A k : Requests(k)' = IF k = c[2] THEN Requests(k) \cup {req} ELSE Requests(k)
  BY <1>1, <1>3 DEF Requests
<1>5. \A k \in Coin!Key : \A q \in Requests(k) : q.key = k /\ <<q.sender, k>> \in asked
  BY DEF CoinInv, RequestsFit, Requests, Requested
<1>6. \A q \in Requests(c[2]) : q.sender # c[1]
  BY <1>2, <1>5
<1>7. \A k \in Coin!Key : \A p, q \in Requests(k)' : p.sender = q.sender => p = q
  <2>. SUFFICES ASSUME NEW k \in Coin!Key, NEW p \in Requests(k)', NEW q \in Requests(k)',
                       p.sender = q.sender
                PROVE  p = q
    OBVIOUS
  <2>. QED
    BY <1>3, <1>4, <1>6 DEF RequestsStay
<1>8. \A d \in asked' : \E q \in Requests(d[2])' : q.sender = d[1]
  <2>. SUFFICES ASSUME NEW d \in asked \cup {c} PROVE \E q \in Requests(d[2])' : q.sender = d[1]
    OBVIOUS
  <2>1. CASE d \in asked
    BY <1>4, <2>1 DEF RequestsStay
  <2>2. CASE d = c
    BY <1>3, <1>4, <2>2
  <2>. QED
    BY <2>1, <2>2
<1>. QED
  BY <1>3, <1>4, <1>7, <1>8 DEF RequestsStay

-------------------------------------------------------------------------------
(* Answers stay *)

LEMMA HasAnswerStays ==
    ASSUME answers \cup vals \subseteq answers' \cup vals', Messages \subseteq Messages'
    PROVE  \A i, k : HasAnswer(i, k) => HasAnswer(i, k)'
BY DEF HasAnswer

LEMMA RunCoinStays ==
    ASSUME CoinInv, QInv, RunCoin
    PROVE  QInv'
<1>. USE DEF QInv
<1>1. PICK req \in requestChan : \/ Coin!Refuse(req) \/ Coin!JoinFails(req)
                                 \/ Coin!AnswerLate(req) \/ Coin!Combine(req)
  BY DEF RunCoin, Coin!RunCoin
<1>2. UNCHANGED <<vars, asked, vals>> /\ Messages' = Messages
  BY SameMessages DEF RunCoin
<1>3. Coin!Keep(req)
  BY <1>1 DEF Coin!Refuse, Coin!JoinFails, Coin!AnswerLate, Coin!Combine
<1>4. /\ \A k \in Coin!Key :
           /\ received'[k] = IF k = req.key THEN received[k] \cup {req} ELSE received[k]
           /\ Requests(k)' = Requests(k)
      /\ RequestsStay' /\ req.key \in Coin!Key
  BY <1>2, <1>3, KeepStays, WithIs
<1>5. Coin!Enough(received[req.key]) => Coin!Enough(Coin!With(req))
  BY <1>4, WithIs, ReceivedFinite, EnoughGrows
<1>6. CallersReceive' /\ GotIsReturned' /\ TrafficStays'
  <2>1. \A c \in Calls : c[2] \in Coin!Key
    BY CallConstants
  <2>2. UNCHANGED <<reading, got>>
    BY <1>2 DEF vars
  <2>. QED
    BY <1>2, <1>4, <2>1, <2>2 DEF CallersReceive, Returned, GotIsReturned, TrafficStays
<1>7. alreadySent \subseteq Coin!Key
  BY DEF CoinInv, CoinTypes, Coin!CoinTypeOK
<1>8. answers \subseteq answers' /\ \A i, k : HasAnswer(i, k) => HasAnswer(i, k)'
  <2>1. answers \subseteq answers'
    BY <1>1 DEF Coin!Refuse, Coin!JoinFails, Coin!AnswerLate, Coin!Combine
  <2>. QED
    BY <1>2, <2>1, HasAnswerStays
<1>9. GivenOut' /\ GoodAreAnswered'
  <2>1. CASE Coin!Refuse(req) \/ Coin!JoinFails(req)
    <3>1. alreadySent' = alreadySent
      BY <2>1 DEF Coin!Refuse, Coin!JoinFails
    <3>2. req.key \in alreadySent => ~req.valid /\ Coin!Enough(Coin!With(req))
      BY <1>4, <1>5, <2>1 DEF Coin!Refuse, Coin!JoinFails, GivenOut
    <3>3. Coin!Enough(Coin!With(req)) => \E q \in Coin!With(req) : ~q.valid
      BY <2>1, WithIs DEF Coin!Refuse, Coin!JoinFails, Coin!AllValid
    <3>4. GivenOut'
      BY <1>4, <3>1, <3>2, <3>3, WithIs DEF GivenOut, Coin!Enough
    <3>5. GoodAreAnswered'
      BY <1>4, <1>7, <1>8, <3>1, <3>2 DEF GoodAreAnswered
    <3>. QED
      BY <3>4, <3>5
  <2>2. CASE Coin!AnswerLate(req)
    <3>. DEFINE a == Coin!Answer(req, coinVals[req.key.uround][req.key.round])
    <3>1. /\ alreadySent' = alreadySent /\ req.key \in alreadySent /\ a \in answers'
          /\ Coin!Enough(Coin!With(req))
          /\ a.to = req.sender /\ a.key = req.key
      BY <2>2 DEF Coin!AnswerLate, Coin!Answer
    <3>. HIDE DEF a
    <3>2. HasAnswer(req.sender, req.key)'
      BY <3>1 DEF HasAnswer
    <3>3. GivenOut'
      BY <1>4, <3>1, WithIs DEF GivenOut, Coin!Enough
    <3>4. GoodAreAnswered'
      <4>1. SUFFICES ASSUME NEW k \in alreadySent', NEW q \in received'[k], q.valid
                     PROVE  HasAnswer(q.sender, k)'
        BY DEF GoodAreAnswered
      <4>2. q \in received[k] => HasAnswer(q.sender, k)
        BY <3>1, <4>1 DEF GoodAreAnswered
      <4>3. q \in received[k] \/ (q = req /\ k = req.key)
        BY <1>4, <1>7, <3>1
      <4>. QED
        BY <1>8, <3>2, <4>2, <4>3
    <3>. QED
      BY <3>3, <3>4
  <2>3. CASE Coin!Combine(req)
    <3>1. /\ alreadySent' = alreadySent \cup {req.key} /\ Coin!Enough(Coin!With(req))
          /\ \A q \in Coin!With(req) : Coin!Answer(q, coin[req.key.round]) \in answers'
      BY <2>3 DEF Coin!Combine
    <3>2. \A q \in Coin!With(req) : q.key = req.key
      BY WithFits
    <3>3. \A q \in Coin!With(req) : HasAnswer(q.sender, req.key)'
      <4>1. ASSUME NEW q \in Coin!With(req) PROVE HasAnswer(q.sender, req.key)'
        <5>. DEFINE a == Coin!Answer(q, coin[req.key.round])
        <5>1. a \in answers' /\ a.to = q.sender /\ a.key = req.key
          BY <3>1, <3>2, <4>1 DEF Coin!Answer
        <5>. HIDE DEF a
        <5>. QED
          BY <5>1 DEF HasAnswer
      <4>. QED
        BY <4>1
    <3>4. GivenOut'
      BY <1>4, <3>1, WithIs DEF GivenOut, Coin!Enough
    <3>5. GoodAreAnswered'
      BY <1>4, <1>7, <1>8, <3>1, <3>3, WithIs DEF GoodAreAnswered
    <3>. QED
      BY <3>4, <3>5
  <2>. QED
    BY <1>1, <2>1, <2>2, <2>3
<1>. QED
  BY <1>4, <1>6, <1>9

LEMMA ReaderOfOne ==
    ASSUME NEW c \in Calls, NEW d \in Calls,
           AnswerReader(c[1], c[2]) = AnswerReader(d[1], d[2])
    PROVE  c = d
<1>1. c[2] \in Coin!Key /\ d[2] \in Coin!Key /\ c = <<c[1], c[2]>> /\ d = <<d[1], d[2]>>
  BY CallConstants
<1>2. c[1] = d[1] /\ c[2] = d[2]
  BY <1>1, AnswerReaderFacts
<1>. QED
  BY <1>1, <1>2

\* What a call changes: it asks, and in the network it receives.
LEMMA CallStays ==
    ASSUME IInv, CoinInv, QInv, NEW c \in Calls \cup BadCalls, NEW valid \in BOOLEAN,
           c \notin asked, Coin!Ask(c[1], c[2], valid), asked' = asked \cup {c},
           UNCHANGED <<vals, got>>, Messages' = Messages,
           \A q \in Reader : reading[q] # "idle" => reading'[q] # "idle",
           \A d \in Calls : d[1] \notin LocalNodes /\ d # c =>
               reading'[AnswerReader(d[1], d[2])] = reading[AnswerReader(d[1], d[2])],
           valid /\ c[1] \notin LocalNodes =>
               c \in Calls /\ reading'[AnswerReader(c[1], c[2])] # "idle"
    PROVE  QInv'
<1>. USE DEF QInv
<1>1. /\ RequestsStay'
      /\ \A k \in Coin!Key : \A q \in Requests(k)' :
           q \in Requests(k) \/ (q.sender = c[1] /\ q.key = c[2] /\ k = c[2] /\ q.valid = valid)
  BY AskStays
<1>2. UNCHANGED <<received, alreadySent, answers>>
  BY DEF Coin!Ask
<1>3. GivenOut'
  BY <1>2 DEF GivenOut, Coin!Enough
<1>4. GoodAreAnswered'
  BY <1>2, HasAnswerStays DEF GoodAreAnswered
<1>5. CallersReceive'
  <2>1. SUFFICES ASSUME NEW d \in Calls, d[1] \notin LocalNodes
                 PROVE  /\ d \notin asked' => reading'[AnswerReader(d[1], d[2])] = "idle"
                        /\ (\E q \in Requests(d[2])' : q.sender = d[1] /\ q.valid) =>
                             reading'[AnswerReader(d[1], d[2])] # "idle" \/ Returned(d)'
    BY DEF CallersReceive
  <2>2. d \notin asked' => reading'[AnswerReader(d[1], d[2])] = "idle"
    BY <2>1 DEF CallersReceive
  <2>3. ASSUME NEW q \in Requests(d[2])', q.sender = d[1], q.valid
        PROVE  reading'[AnswerReader(d[1], d[2])] # "idle" \/ Returned(d)'
    <3>1. d[2] \in Coin!Key /\ d = <<d[1], d[2]>> /\ c = <<c[1], c[2]>>
          /\ AnswerReader(d[1], d[2]) \in Reader
      BY <2>1, CallConstants
    <3>2. CASE q \in Requests(d[2])
      BY <2>1, <2>3, <3>1, <3>2 DEF CallersReceive, Returned
    <3>3. CASE q \notin Requests(d[2])
      <4>1. c = d /\ valid
        BY <1>1, <2>3, <3>1, <3>3
      <4>. QED
        BY <2>1, <4>1
    <3>. QED
      BY <3>2, <3>3
  <2>. QED
    BY <2>2, <2>3
<1>6. GotIsReturned' /\ TrafficStays'
  BY DEF GotIsReturned, TrafficStays
<1>. QED
  BY <1>1, <1>3, <1>4, <1>5, <1>6

LEMMA coinCallStays ==
    ASSUME IInv, CoinInv, QInv, coinCall
    PROVE  QInv'
<1>1. PICK c \in Calls \cup BadCalls : CallBad(c) \/ CallLocal(c) \/ CallNetwork(c)
  BY DEF coinCall
<1>2. CASE CallBad(c) \/ CallLocal(c)
  <2>1. UNCHANGED <<reading, got>> /\ Messages' = Messages
    BY <1>2, SameMessages DEF CallBad, CallLocal, vars
  <2>2. CASE CallBad(c)
    BY <2>1, <2>2, CallStays DEF CallBad
  <2>3. CASE CallLocal(c)
    BY <2>1, <2>3, CallStays DEF CallLocal
  <2>. QED
    BY <1>2, <2>2, <2>3
<1>3. CASE CallNetwork(c)
  <2>. DEFINE r == AnswerReader(c[1], c[2])
  <2>1. /\ c \in Calls \ asked /\ c[1] \notin LocalNodes /\ Coin!Ask(c[1], c[2], TRUE)
        /\ Call(r) /\ asked' = asked \cup {c} /\ vals' = vals /\ r \in Reader
    BY <1>3, CallConstants DEF CallNetwork
  <2>2. Messages' = Messages /\ got' = got
    BY <2>1 DEF Call, Messages
  <2>3. /\ reading' = [reading EXCEPT ![r] = First(r.to, r.slot)]
        /\ First(r.to, r.slot) # "idle"
        /\ reading \in [Reader -> Steps \cup {"idle", "wait"}]
    BY <2>1, FirstFits DEF Call, IInv, TypeOK
  <2>4. \A d \in Calls : d[1] \notin LocalNodes /\ d # c =>
            AnswerReader(d[1], d[2]) \in Reader /\ AnswerReader(d[1], d[2]) # r
    BY <2>1, ReaderOfOne, CallConstants
  <2>. HIDE DEF r
  <2>5. /\ \A q \in Reader : reading[q] # "idle" => reading'[q] # "idle"
        /\ reading'[r] # "idle"
        /\ \A d \in Calls : d[1] \notin LocalNodes /\ d # c =>
             reading'[AnswerReader(d[1], d[2])] = reading[AnswerReader(d[1], d[2])]
    BY <2>1, <2>3, <2>4
  <2>. QED
    BY <2>1, <2>2, <2>5, CallStays DEF r
<1>. QED
  BY <1>1, <1>2, <1>3

LEMMA AnswerCallsStays ==
    ASSUME CoinInv, QInv, AnswerCalls
    PROVE  QInv'
<1>. USE DEF QInv
<1>1. PICK a \in answers : AnswerLocal(a) \/ AnswerNetwork(a)
  BY DEF AnswerCalls
<1>2. /\ answers' = answers \ {a} /\ asked' = asked
      /\ UNCHANGED <<coin, requestChan, received, alreadySent, coinVals>>
  BY <1>1 DEF AnswerLocal, AnswerNetwork, Coin!SendAnswer
<1>3. /\ UNCHANGED <<reading, got>> /\ vals \subseteq vals' /\ Messages \subseteq Messages'
  <2>1. CASE AnswerLocal(a)
    BY <2>1, SameMessages DEF AnswerLocal, vars
  <2>2. CASE AnswerNetwork(a)
    BY <2>2 DEF AnswerNetwork, Send, Messages
  <2>. QED
    BY <1>1, <2>1, <2>2
<1>4. \A i, k : HasAnswer(i, k) => HasAnswer(i, k)'
  <2>1. CASE AnswerLocal(a)
    <3>1. answers \cup vals \subseteq answers' \cup vals'
      BY <1>2, <2>1 DEF AnswerLocal
    <3>. QED
      BY <1>3, <3>1, HasAnswerStays
  <2>2. CASE AnswerNetwork(a)
    <3>. DEFINE m == AnswerMessage(a)
    <3>1. m \in Messages' /\ m.for = AnswerReader(a.to, a.key) /\ a.to \notin LocalNodes
      BY <2>2 DEF AnswerNetwork, Send, Messages, AnswerMessage
    <3>. HIDE DEF m
    <3>2. ASSUME NEW i, NEW k, HasAnswer(i, k) PROVE HasAnswer(i, k)'
      <4>1. CASE a.to = i /\ a.key = k
        BY <3>1, <4>1 DEF HasAnswer
      <4>2. CASE ~(a.to = i /\ a.key = k)
        BY <1>2, <1>3, <3>2, <4>2 DEF HasAnswer
      <4>. QED
        BY <4>1, <4>2
    <3>. QED
      BY <3>2
  <2>. QED
    BY <1>1, <2>1, <2>2
<1>5. RequestsStay' /\ GivenOut' /\ GoodAreAnswered'
  BY <1>2, <1>4 DEF RequestsStay, Requests, GivenOut, Coin!Enough, GoodAreAnswered
<1>6. CallersReceive' /\ GotIsReturned' /\ TrafficStays'
  BY <1>2, <1>3 DEF CallersReceive, Requests, Returned, GotIsReturned, TrafficStays
<1>. QED
  BY <1>5, <1>6

\* A message stays, and who receives goes on to receive until it has got one.
LEMMA HandlersMove ==
    ASSUME IInv, receiver \/ \E q \in Reader : receive(q)
    PROVE  /\ Messages \subseteq Messages' /\ got \subseteq got'
           /\ \A p \in Reader :
                /\ reading[p] = "idle" => reading'[p] = "idle"
                /\ reading[p] # "idle" => reading'[p] # "idle" \/ \E m \in got' : m.for = p
<1>1. ASSUME NEW m \in net, Accept(m)
      PROVE  Messages \subseteq Messages' /\ UNCHANGED <<reading, got>>
  <2>. DEFINE h == [msg |-> m, at |-> First(m.for.to, m.for.slot)]
  <2>1. /\ net' = net \ {m} /\ handling' = handling \cup {h} /\ h.msg = m
        /\ UNCHANGED <<content, reading, got>>
    BY <1>1 DEF Accept
  <2>. HIDE DEF h
  <2>. QED
    BY <2>1 DEF Messages
<1>2. ASSUME NEW h \in handling, Handle(h)
      PROVE  Messages \subseteq Messages' /\ UNCHANGED <<reading, got>>
  <2>1. PICK next \in Steps : handling' = (handling \ {h}) \cup {[h EXCEPT !.at = next]}
    BY <1>2 DEF Handle
  <2>2. [h EXCEPT !.at = next].msg = h.msg
    BY DEF IInv, TypeOK
  <2>. QED
    BY <1>2, <2>1, <2>2 DEF Handle, Messages
<1>3. ASSUME NEW h \in handling, Put(h)
      PROVE  Messages \subseteq Messages' /\ UNCHANGED <<reading, got>>
  <2>. DEFINE c == [msg |-> h.msg, chan |-> chans[h.msg.for.to][h.msg.for.slot]]
  <2>1. /\ handling' = handling \ {h} /\ content' = content \cup {c} /\ c.msg = h.msg
        /\ UNCHANGED <<net, reading, got>>
    BY <1>3 DEF Put
  <2>. HIDE DEF c
  <2>. QED
    BY <2>1 DEF Messages
<1>4. ASSUME NEW q \in Reader, receive(q)
      PROVE  /\ Messages \subseteq Messages' /\ got \subseteq got'
             /\ \A p \in Reader :
                  /\ reading[p] = "idle" => reading'[p] = "idle"
                  /\ reading[p] # "idle" => reading'[p] # "idle" \/ \E m \in got' : m.for = p
  <2>1. reading \in [Reader -> Steps \cup {"idle", "wait"}]
    BY DEF IInv, TypeOK
  <2>2. CASE Seek(q)
    <3>1. PICK next \in Steps :
            /\ Toward(q.to, q.slot, reading[q], next)
            /\ reading' = [reading EXCEPT ![q] = next]
      BY <2>2 DEF Seek
    <3>2. reading[q] # "idle" /\ next # "idle"
      BY <3>1 DEF Toward, Steps
    <3>3. Messages' = Messages /\ got' = got
      BY <2>2 DEF Seek, Messages
    <3>. QED
      BY <2>1, <3>1, <3>2, <3>3
  <2>3. CASE Fetch(q)
    <3>1. Messages' = Messages /\ got' = got
      BY <2>3 DEF Fetch, Messages
    <3>. QED
      BY <2>1, <2>3, <3>1 DEF Fetch
  <2>4. CASE Return(q)
    <3>1. PICK c \in content :
            c.msg.for = q /\ content' = content \ {c} /\ got' = got \cup {c.msg}
      BY <2>4 DEF Return
    <3>2. Messages \subseteq Messages'
      BY <2>4, <3>1 DEF Return, Messages
    <3>. QED
      BY <2>1, <2>4, <3>1, <3>2 DEF Return
  <2>. QED
    BY <1>4, <2>2, <2>3, <2>4 DEF receive
<1>. QED
  BY <1>1, <1>2, <1>3, <1>4 DEF receiver

LEMMA HandlersStays ==
    ASSUME IInv, CoinInv, QInv, Handlers
    PROVE  QInv'
<1>. USE DEF QInv
<1>1. /\ Messages \subseteq Messages' /\ got \subseteq got'
      /\ \A p \in Reader :
           /\ reading[p] = "idle" => reading'[p] = "idle"
           /\ reading[p] # "idle" => reading'[p] # "idle" \/ \E m \in got' : m.for = p
  BY HandlersMove DEF Handlers
<1>2. /\ UNCHANGED <<coin, requestChan, received, alreadySent, coinVals, answers, asked>>
      /\ vals \subseteq vals'
  BY DEF Handlers, coinVars
<1>3. RequestsStay' /\ GivenOut'
  BY <1>2 DEF RequestsStay, Requests, GivenOut, Coin!Enough
<1>4. GoodAreAnswered' /\ TrafficStays'
  BY <1>1, <1>2, HasAnswerStays DEF GoodAreAnswered, TrafficStays
<1>5. GotIsReturned'
  <2>1. ASSUME NEW m \in got', m.for.slot.origin = "COIN"
        PROVE  \E a \in vals' : a.to = m.for.to /\ a.key = Key(m.for)
    <3>1. CASE m \in got
      BY <1>2, <2>1, <3>1 DEF GotIsReturned
    <3>2. CASE m \notin got
      <4>. DEFINE a == [to |-> m.for.to, key |-> Key(m.for), val |-> m.payload]
      <4>1. a \in vals'
        BY <2>1, <3>2 DEF Handlers
      <4>2. a.to = m.for.to /\ a.key = Key(m.for)
        OBVIOUS
      <4>. QED
        BY <4>1, <4>2
    <3>. QED
      BY <3>1, <3>2
  <2>. QED
    BY <2>1 DEF GotIsReturned, Key
<1>6. CallersReceive'
  <2>1. SUFFICES ASSUME NEW d \in Calls, d[1] \notin LocalNodes
                 PROVE  /\ d \notin asked' => reading'[AnswerReader(d[1], d[2])] = "idle"
                        /\ (\E q \in Requests(d[2])' : q.sender = d[1] /\ q.valid) =>
                             reading'[AnswerReader(d[1], d[2])] # "idle" \/ Returned(d)'
    BY DEF CallersReceive
  <2>. DEFINE r == AnswerReader(d[1], d[2])
  <2>2. /\ r \in Reader /\ r.slot.origin = "COIN" /\ r.to = d[1] /\ Key(r) = d[2]
    BY <2>1, CallConstants, AnswerReaderFacts
  <2>3. ASSUME NEW m \in got', m.for = r PROVE Returned(d)'
    BY <1>5, <2>2, <2>3 DEF GotIsReturned, Returned, Key
  <2>4. Requests(d[2])' = Requests(d[2])
    BY <1>2 DEF Requests
  <2>5. Returned(d) => Returned(d)'
    BY <1>2 DEF Returned
  <2>. QED
    BY <1>1, <1>2, <2>1, <2>2, <2>3, <2>4, <2>5 DEF CallersReceive
<1>. QED
  BY <1>3, <1>4, <1>5, <1>6

LEMMA ListenStays ==
    ASSUME IInv, CoinInv, QInv, Listen
    PROVE  QInv'
<1>. USE DEF QInv
<1>1. PICK q \in Listening : Call(q)
  BY DEF Listen
<1>2. /\ UNCHANGED <<coin, requestChan, received, alreadySent, coinVals, answers, asked, vals, got>>
      /\ Messages' = Messages
  BY <1>1 DEF Listen, coinVars, Call, Messages
<1>3. q.slot.origin # "COIN" /\ reading' = [reading EXCEPT ![q] = First(q.to, q.slot)]
      /\ reading \in [Reader -> Steps \cup {"idle", "wait"}]
  BY <1>1, CallConstants DEF Call, IInv, TypeOK
<1>4. RequestsStay' /\ GivenOut' /\ GotIsReturned' /\ TrafficStays'
  BY <1>2 DEF RequestsStay, Requests, GivenOut, Coin!Enough, GotIsReturned, TrafficStays
<1>5. GoodAreAnswered'
  BY <1>2, HasAnswerStays DEF GoodAreAnswered
<1>6. CallersReceive'
  <2>1. \A d \in Calls : d[1] \notin LocalNodes =>
            reading'[AnswerReader(d[1], d[2])] = reading[AnswerReader(d[1], d[2])]
    <3>1. SUFFICES ASSUME NEW d \in Calls, d[1] \notin LocalNodes
                   PROVE  reading'[AnswerReader(d[1], d[2])] = reading[AnswerReader(d[1], d[2])]
      OBVIOUS
    <3>. DEFINE r == AnswerReader(d[1], d[2])
    <3>2. r \in Reader /\ r.slot.origin = "COIN"
      BY <3>1, CallConstants, AnswerReaderFacts
    <3>3. r # q
      BY <1>3, <3>2
    <3>. QED
      BY <1>3, <3>2, <3>3
  <2>. QED
    BY <1>2, <2>1 DEF CallersReceive, Requests, Returned
<1>. QED
  BY <1>4, <1>5, <1>6

LEMMA InitQInv == CallsInit => QInv
<1>. SUFFICES ASSUME CallsInit PROVE QInv
  OBVIOUS
<1>. USE DEF CallsInit, NewHandlers, Coin!CoinInit
<1>1. RequestsStay /\ GivenOut /\ GoodAreAnswered
  BY NoneIsNotEnough DEF RequestsStay, Requests, GivenOut, GoodAreAnswered
<1>2. CallersReceive
  <2>1. \A c \in Calls : Requests(c[2]) = {}
    BY CallConstants DEF Requests
  <2>. QED
    BY <2>1, CallConstants DEF CallersReceive
<1>3. GotIsReturned /\ TrafficStays
  BY DEF GotIsReturned, TrafficStays, Messages
<1>. QED
  BY <1>1, <1>2, <1>3 DEF QInv

LEMMA AlwaysQInv == CallsSpec => []QInv
<1>1. IInv /\ CoinInv /\ QInv /\ [CallsNext]_allVars => QInv'
  <2>1. SUFFICES ASSUME IInv, CoinInv, QInv, [CallsNext]_allVars PROVE QInv'
    OBVIOUS
  <2>2. CASE UNCHANGED allVars
    <3>1. UNCHANGED <<vars, coin, requestChan, received, alreadySent, coinVals, answers, asked, vals>>
      BY <2>2 DEF allVars, coinVars
    <3>2. UNCHANGED <<reading, got>> /\ Messages' = Messages
      BY <3>1, SameMessages DEF vars
    <3>3. RequestsStay' /\ GivenOut' /\ GotIsReturned' /\ TrafficStays'
      BY <2>1, <3>1, <3>2
         DEF QInv, RequestsStay, Requests, GivenOut, Coin!Enough, GotIsReturned, TrafficStays
    <3>4. GoodAreAnswered' /\ CallersReceive'
      BY <2>1, <3>1, <3>2, HasAnswerStays
         DEF QInv, GoodAreAnswered, CallersReceive, Requests, Returned
    <3>. QED
      BY <3>3, <3>4 DEF QInv
  <2>. QED
    BY <2>1, <2>2, coinCallStays, RunCoinStays, AnswerCallsStays, HandlersStays, ListenStays DEF CallsNext
<1>. QED
  BY <1>1, InitQInv, CallsInvariance, PTL DEF CallsSpec

\* When nothing is left to be done, whoever receives waits in the channel of the
\* maps, so that it holds nothing for a steady reader that receives.
LEMMA QuietMessages ==
    ASSUME IInv, Quiet, NEW m \in Messages, Steady(m.for), m.for \in Reader, reading[m.for] # "idle"
    PROVE  m \in got
<1>1. net = {} /\ handling = {}
  BY DEF Quiet
<1>2. ASSUME NEW c \in content, c.msg = m PROVE FALSE
  <2>1. reading[m.for] = "wait" /\ waits[m.for] = chans[m.for.to][m.for.slot]
    BY DEF Quiet, IInv, NothingLost
  <2>2. c.chan = chans[m.for.to][m.for.slot]
    BY <1>2 DEF IInv, NothingLost
  <2>. QED
    BY <1>2, <2>1, <2>2 DEF Quiet
<1>. QED
  BY <1>1, <1>2 DEF Messages

\* A coin that enough nodes ask for is given out, if no bad share keeps it from that.
LEMMA QuietCoin ==
    ASSUME CoinInv, QInv, Quiet, asked = Calls \cup BadCalls, NEW k \in Coin!Key,
           Cardinality({i \in Node : <<i, k>> \in Calls \cup BadCalls}) >= Cardinality(Node) \div 2 + 1
    PROVE  k \in alreadySent \/ BadSenders(k) # {}
<1>. DEFINE S == {q.sender : q \in received[k]}
            f == [q \in received[k] |-> q.sender]
<1>1. Requests(k) = received[k]
  BY DEF Quiet, Requests
<1>2. Askers(k) = S
  <2>1. Askers(k) \subseteq S
    <3>1. SUFFICES ASSUME NEW i \in Node, <<i, k>> \in asked PROVE i \in S
      BY DEF Askers
    <3>. QED
      BY <1>1, <3>1 DEF QInv, RequestsStay
  <2>2. S \subseteq Askers(k)
    <3>1. SUFFICES ASSUME NEW q \in received[k] PROVE q.sender \in Askers(k)
      OBVIOUS
    <3>2. q \in Coin!CoinRequest
      BY <3>1 DEF CoinInv, CoinTypes, Coin!CoinTypeOK
    <3>3. q.sender \in Node /\ <<q.sender, k>> \in asked
      BY <3>1, <3>2 DEF CoinInv, Coin!CoinRequest, RequestsFit, Requested
    <3>. QED
      BY <3>3 DEF Askers
  <2>. QED
    BY <2>1, <2>2
<1>3. f \in Surjection(received[k], S)
  BY DEF Surjection
<1>4. IsFiniteSet(received[k])
  BY ReceivedFinite
<1>5. Cardinality(S) <= Cardinality(received[k])
  BY <1>3, <1>4, FS_Surjection
<1>6. Cardinality(Askers(k)) >= Cardinality(Node) \div 2 + 1
  BY DEF Askers
<1>7. /\ Cardinality(S) \in Nat /\ Cardinality(received[k]) \in Nat /\ Cardinality(Node) \in Nat
  BY <1>2, <1>4, AskersFinite, CallConstants, FS_CardinalityType
<1>8. Coin!Enough(received[k])
  BY <1>2, <1>5, <1>6, <1>7, SameCardinality DEF Coin!Enough, Coin!N
<1>. QED
  BY <1>8 DEF QInv, GivenOut, BadSenders

\* When nothing is left to be done every call has returned that no bad share kept
\* from it, early or late, over the network or locally, and every message for
\* somebody who receives has been received, if more than half of the nodes ask for
\* each coin that is asked for.
THEOREM NoCallWaits ==
    ASSUME \A c \in Calls :
               Cardinality({i \in Node : <<i, c[2]>> \in Calls \cup BadCalls})
                   >= Cardinality(Node) \div 2 + 1
    PROVE  CallsSpec => []QuietMeansReturned
<1>1. ASSUME IInv, CoinInv, QInv, Quiet, NEW c \in Calls PROVE Returned(c) \/ Spoilt(c)
  <2>. USE <1>1 DEF QInv
  <2>. DEFINE r == AnswerReader(c[1], c[2])
  <2>1. asked = Calls \cup BadCalls
    BY DEF Quiet, CallersReceive, CoinInv, CoinTypes
  <2>2. c[2] \in Coin!Key /\ c[1] \in Node
    BY CallConstants
  <2>3. PICK q \in received[c[2]] : q.sender = c[1]
    BY <2>1 DEF Quiet, RequestsStay, Requests
  <2>4. CASE ~q.valid
    BY <2>3, <2>4 DEF Spoilt, BadSenders
  <2>5. CASE c[2] \notin alreadySent
    BY <2>1, <2>2, <2>5, QuietCoin DEF Spoilt
  <2>6. CASE q.valid /\ c[2] \in alreadySent
    <3>1. HasAnswer(c[1], c[2])
      BY <2>3, <2>6 DEF GoodAreAnswered
    <3>2. CASE \E a \in answers \cup vals : a.to = c[1] /\ a.key = c[2]
      BY <3>2 DEF Quiet, Returned
    <3>3. ASSUME NEW m \in Messages, m.for = r, c[1] \notin LocalNodes PROVE Returned(c)
      <4>1. r \in Reader /\ r.to = c[1] /\ r.slot.origin = "COIN" /\ Key(r) = c[2]
        BY <2>2, <3>3, CallConstants, AnswerReaderFacts
      <4>2. CASE reading[r] = "idle"
        BY <2>3, <2>6, <3>3, <4>2 DEF CallersReceive, Requests
      <4>3. CASE reading[r] # "idle"
        <5>1. m \in got
          BY <3>3, <4>1, <4>3, QuietMessages DEF Steady
        <5>. QED
          BY <3>3, <4>1, <5>1 DEF GotIsReturned, Returned
      <4>. QED
        BY <4>2, <4>3
    <3>. QED
      BY <3>1, <3>2, <3>3 DEF HasAnswer
  <2>. QED
    BY <2>4, <2>5, <2>6
<1>2. ASSUME IInv, QInv, Quiet, NEW m \in Traffic, m.for \in Listening, Steady(m.for)
      PROVE  m \in got
  <2>1. m \in Messages /\ m.for \in Reader
    BY <1>2, CallConstants DEF QInv, TrafficStays
  <2>2. reading[m.for] # "idle"
    BY <1>2, <2>1 DEF Quiet
  <2>. QED
    BY <1>2, <2>1, <2>2, QuietMessages
<1>3. IInv /\ CoinInv /\ QInv => QuietMeansReturned
  BY <1>1, <1>2 DEF QuietMeansReturned
<1>. QED
  BY <1>3, CallsInvariance, AlwaysQInv, PTL
================================================================================
