------------------------------- MODULE CoinCalls -------------------------------
(***************************************************************************)
(* The common coin, the nodes that call it and the handlers that carry its *)
(* answers.  The answers to nodes with a handler of the network are        *)
(* messages, which come in among those of the protocols and go into a      *)
(* channel, made by whoever needs it first; those to nodes with a local    *)
(* one go straight to the goroutine that called.                           *)
(***************************************************************************)
EXTENDS Handler

CONSTANTS Calls,      \* pairs (node, key): the calls that are made
          BadCalls,   \* the same for requests with a bad share
          Traffic,    \* messages of the protocols
          Listening   \* the readers of the protocols that run

VARIABLES coin, requestChan, received, alreadySent, coinVals, answers,
          asked,      \* the calls made so far
          vals        \* what they returned

Coin == INSTANCE CommonCoin

coinVars == <<coin, requestChan, received, alreadySent, coinVals, answers>>
allVars == <<vars, coinVars, asked, vals>>

\* Where a call waits for its answer.
AnswerReader(i, k) ==
    [to |-> i, slot |-> [origin |-> "COIN", uround |-> k.uround, round |-> k.round],
     instance |-> k.instance]

ASSUME CallConstants ==
    /\ IsFiniteSet(Node)
    /\ Calls \subseteq Node \X Coin!Key /\ BadCalls \subseteq Node \X Coin!Key
    /\ Traffic \subseteq HandlerMessage /\ Listening \subseteq Reader
    /\ \A m \in Traffic : m.for.slot.origin # "COIN"
    /\ \A q \in Listening : q.slot.origin # "COIN"
    /\ Coin!Bit \subseteq Payload
    /\ \A c \in Calls : c[1] \notin LocalNodes => AnswerReader(c[1], c[2]) \in Reader

CallsTypeOK ==
    /\ TypeOK /\ Coin!CoinTypeOK
    /\ asked \in SUBSET (Calls \cup BadCalls)
    /\ vals \in SUBSET Coin!CoinAnswer

CallsInit ==
    /\ net = Traffic /\ NewHandlers
    /\ Coin!CoinInit
    /\ asked = {} /\ vals = {}

-------------------------------------------------------------------------------
\* What brings the answer.
AnswerMessage(a) == [for |-> AnswerReader(a.to, a.key), payload |-> a.val]

CallBad(c) ==
    /\ c \in BadCalls \ asked /\ Coin!Ask(c[1], c[2], FALSE)
    /\ asked' = asked \cup {c}
    /\ UNCHANGED <<vars, vals>>

\* coinCall of a local node: only the coin has to do with it.
CallLocal(c) ==
    /\ c \in Calls \ asked /\ c[1] \in LocalNodes /\ Coin!Ask(c[1], c[2], TRUE)
    /\ asked' = asked \cup {c}
    /\ UNCHANGED <<vars, vals>>

\* coinCall of a node in the network: it sends the request and receives.
CallNetwork(c) ==
    /\ c \in Calls \ asked /\ c[1] \notin LocalNodes /\ Coin!Ask(c[1], c[2], TRUE)
    /\ Call(AnswerReader(c[1], c[2]))
    /\ asked' = asked \cup {c}
    /\ UNCHANGED vals

coinCall == \E c \in Calls \cup BadCalls : CallBad(c) \/ CallLocal(c) \/ CallNetwork(c)

RunCoin == Coin!RunCoin /\ UNCHANGED <<vars, asked, vals>>

\* Mutant: the local coin answers as that of the network does.
AnswerAll(a) ==
    /\ a.to \in LocalNodes /\ Coin!SendAnswer(a)
    /\ Send({AnswerMessage(a)})
    /\ UNCHANGED <<asked, vals>>

AnswerLocal(a) ==
    /\ a.to \in LocalNodes /\ Coin!SendAnswer(a)
    /\ vals' = vals \cup {a}
    /\ UNCHANGED <<vars, asked>>

AnswerNetwork(a) ==
    /\ a.to \notin LocalNodes /\ Coin!SendAnswer(a)
    /\ Send({AnswerMessage(a)})
    /\ UNCHANGED <<asked, vals>>

AnswerCalls == \E a \in answers : AnswerLocal(a) \/ AnswerNetwork(a)

\* The steps of the handlers.  What receive returns for a call, the call returns.
Key(q) == [uround |-> q.slot.uround, round |-> q.slot.round, instance |-> q.instance]

Handlers ==
    /\ receiver \/ (\E q \in Reader : receive(q))
    /\ vals' = vals \cup {[to |-> m.for.to, key |-> Key(m.for), val |-> m.payload] :
                           m \in {x \in got' \ got : x.for.slot.origin = "COIN"}}
    /\ UNCHANGED <<coinVars, asked>>

\* The goroutine of a protocol calls receive again and again.
Listen ==
    /\ \E q \in Listening : Call(q)
    /\ UNCHANGED <<coinVars, asked, vals>>

CallsNext == coinCall \/ RunCoin \/ AnswerCalls \/ Handlers \/ Listen

CallsSpec == CallsInit /\ [][CallsNext]_allVars

\* The goroutines run and what is sent arrives.
FairCallsSpec ==
    /\ CallsSpec
    /\ WF_allVars(coinCall) /\ WF_allVars(RunCoin) /\ WF_allVars(AnswerCalls)
    /\ WF_allVars(Handlers) /\ WF_allVars(Listen)

-------------------------------------------------------------------------------
(* Properties *)

\* "Everyone needs to get the same answer per round" (commoncoin_test.go:127),
\* whatever instance asked, early or late, and through whatever handler.
SameCoin ==
    \A a, b \in answers \cup vals :
        a.key.uround = b.key.uround /\ a.key.round = b.key.round => a.val = b.val

\* The coin of a key is given to nobody before more than half of the nodes have
\* asked for it.
AskedEnough ==
    \A a \in answers \cup vals :
        Cardinality({i \in Node : <<i, a.key>> \in asked}) >= Cardinality(Node) \div 2 + 1

\* A call with a good share returns, if no bad share got in before the coin could
\* be computed.
BadSenders(k) == {q.sender : q \in {x \in received[k] : ~x.valid}}
Returned(c) == \E a \in vals : a.to = c[1] /\ a.key = c[2]
Spoilt(c) ==
    \/ BadSenders(c[2]) # {} /\ c[2] \notin alreadySent
    \/ c[1] \in BadSenders(c[2])
CallsReturn == \A c \in Calls : <>(Returned(c) \/ Spoilt(c))

\* What was sent to a protocol gets to it, through whichever handler, whoever made
\* the channel.
Delivered == \A m \in Traffic : m.for \in Listening /\ Steady(m.for) => <>(m \in got)

\* Nothing is left to be done: all have called, the coin and the handlers have
\* nothing, and whoever receives waits on a channel that has nothing for it.
Quiet ==
    /\ BadCalls \subseteq asked /\ requestChan = {} /\ answers = {}
    /\ \A c \in Calls \ asked :
         c[1] \notin LocalNodes /\ reading[AnswerReader(c[1], c[2])] # "idle"
    /\ net = {} /\ handling = {}
    /\ \A q \in Reader :
         /\ reading[q] \in {"idle", "wait"} /\ (q \in Listening => reading[q] # "idle")
         /\ reading[q] = "wait" => ~\E c \in content : c.msg.for = q /\ c.chan = waits[q]

\* The safety of CallsReturn and Delivered: when nothing is left to be done no
\* call waits that was not spoilt, and no message to a protocol is left.
QuietMeansReturned ==
    Quiet =>
        /\ \A c \in Calls : Returned(c) \/ Spoilt(c)
        /\ \A m \in Traffic : m.for \in Listening /\ Steady(m.for) => m \in got
================================================================================
