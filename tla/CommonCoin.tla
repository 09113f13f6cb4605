------------------------------- MODULE CommonCoin -------------------------------
(***************************************************************************)
(* The common coin of src/binaryagreement/commoncoin.go: one process that  *)
(* takes requests of all nodes and answers them when it has enough for the *)
(* same instance of the same round of the same UROUND.                     *)
(*                                                                         *)
(* A request carries a share of the signature on the round.  More than     *)
(* half of the shares make the signature, whose last bit is the coin; the  *)
(* signature does not depend on whose shares they are.                     *)
(***************************************************************************)
EXTENDS Naturals, FiniteSets

CONSTANTS Node, Uround, Round, Instance

N == Cardinality(Node)
Bit == {0, 1}

\* What a request is about.
Key == [uround : Uround, round : Round, instance : Instance]
CoinRequest == [sender : Node, key : Key, valid : BOOLEAN]
CoinAnswer == [to : Node, key : Key, val : Bit]

VARIABLES
    coin,          \* the last bit of the signature on a round, fixed by the keys
    requestChan,   \* requests that are on their way or in the channel
    received,      \* received[k]: the last request of each sender
    alreadySent,   \* the keys for which coins were given out
    coinVals,      \* coinVals[u][r], 0 before it is set
    answers        \* answers given to goroutines to be sent

CoinTypeOK ==
    /\ coin \in [Round -> Bit]
    /\ requestChan \in SUBSET CoinRequest
    /\ received \in [Key -> SUBSET CoinRequest]
    /\ alreadySent \in SUBSET Key
    /\ coinVals \in [Uround -> [Round -> Bit]]
    /\ answers \in SUBSET CoinAnswer

CoinInit ==
    /\ coin \in [Round -> Bit]
    /\ requestChan = {} /\ answers = {}
    /\ received = [k \in Key |-> {}]
    /\ alreadySent = {}
    /\ coinVals = [u \in Uround |-> [r \in Round |-> 0]]

-------------------------------------------------------------------------------
\* A node asks, with a share that is good or not.
Ask(i, k, valid) ==
    /\ requestChan' = requestChan \cup {[sender |-> i, key |-> k, valid |-> valid]}
    /\ UNCHANGED <<coin, received, alreadySent, coinVals, answers>>

With(req) == {q \in received[req.key] : q.sender # req.sender} \cup {req}

\* Mutant: half of the nodes are enough.
HalfIsEnough(S) == Cardinality(S) >= N \div 2

Enough(S) == Cardinality(S) >= N \div 2 + 1
Answer(q, v) == [to |-> q.sender, key |-> q.key, val |-> v]

\* A request is kept before its share is verified.
Keep(req) ==
    /\ req \in requestChan
    /\ requestChan' = requestChan \ {req}
    /\ received' = [received EXCEPT ![req.key] = With(req)]
    /\ UNCHANGED coin

Refuse(req) ==
    /\ ~(req.valid /\ Enough(With(req)))
    /\ Keep(req)
    /\ UNCHANGED <<alreadySent, coinVals, answers>>

\* Mutant: later requests are not answered.
IgnoreLate(req) ==
    /\ req.valid /\ Enough(With(req)) /\ req.key \in alreadySent
    /\ Keep(req)
    /\ UNCHANGED <<alreadySent, coinVals, answers>>

\* Who asks later gets the value that was computed.
AnswerLate(req) ==
    /\ req.valid /\ Enough(With(req)) /\ req.key \in alreadySent
    /\ Keep(req)
    /\ answers' = answers \cup {Answer(req, coinVals[req.key.uround][req.key.round])}
    /\ UNCHANGED <<alreadySent, coinVals>>

AllValid(S) == \A q \in S : q.valid

\* Join gives no signature if one of the shares it is given is bad.
JoinFails(req) ==
    /\ req.valid /\ Enough(With(req)) /\ req.key \notin alreadySent
    /\ ~AllValid(With(req))
    /\ Keep(req)
    /\ UNCHANGED <<alreadySent, coinVals, answers>>

\* Mutant: the value is not kept for who asks later.
CombineOnce(req) ==
    /\ req.valid /\ Enough(With(req)) /\ req.key \notin alreadySent
    /\ AllValid(With(req))
    /\ Keep(req)
    /\ answers' = answers \cup {Answer(q, coin[req.key.round]) : q \in With(req)}
    /\ alreadySent' = alreadySent \cup {req.key}
    /\ UNCHANGED coinVals

Combine(req) ==
    /\ req.valid /\ Enough(With(req)) /\ req.key \notin alreadySent
    /\ AllValid(With(req))
    /\ Keep(req)
    /\ answers' = answers \cup {Answer(q, coin[req.key.round]) : q \in With(req)}
    /\ alreadySent' = alreadySent \cup {req.key}
    /\ coinVals' = [coinVals EXCEPT ![req.key.uround][req.key.round] = coin[req.key.round]]

RunCoin == \E req \in requestChan :
    Refuse(req) \/ AnswerLate(req) \/ JoinFails(req) \/ Combine(req)

\* The goroutine of an answer sends it.
SendAnswer(a) ==
    /\ a \in answers
    /\ answers' = answers \ {a}
    /\ UNCHANGED <<coin, requestChan, received, alreadySent, coinVals>>
================================================================================
