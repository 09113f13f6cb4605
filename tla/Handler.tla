-------------------------------- MODULE Handler --------------------------------
(***************************************************************************)
(* The message handlers of src/utils: how a message gets from the others   *)
(* to the goroutine of a node that waits for it.                           *)
(*                                                                         *)
(* Each protocol of each round of a node reads a channel of its own.  A    *)
(* goroutine that receives from the others ("receiver" of localhandler.go, *)
(* "listener" of utils.go) puts every message into the channel it is for,  *)
(* and "receive" takes it from there.  Both look first whether the channel *)
(* is there and make it if not: whoever comes first.  updateRound makes    *)
(* those of a round of the node (UROUND), but of the agreements and of the *)
(* coin only those of the first Pre rounds.  What is for later ones the    *)
(* handler of the network makes under the lock under which it looks; the   *)
(* local one looks under a read lock, gives it up and takes the write lock *)
(* to make the channel.                                                    *)
(*                                                                         *)
(* Multicasts run in goroutines of their own and connections are many, so  *)
(* messages overtake one another.  Channels are never full: their capacity *)
(* is 999, and a round sends less on each.                                 *)
(***************************************************************************)
EXTENDS Naturals, FiniteSets

CONSTANTS Node,
          LocalNodes,   \* the nodes that have a LocalHandler
          Receivers,    \* the goroutines of a local node that receive
          Uround,       \* UROUND
          Round,        \* the rounds within an agreement
          Instance,     \* the instances of an agreement
          Pre,          \* the rounds whose channels updateRound makes, 10
          Reader,       \* who waits for messages: an agreement in a round at a node, ...
          Payload       \* what messages carry

\* ABC stands for RBC, ACS and BLA too: updateRound makes all of their channels.
Origin == {"ABA", "COIN", "ABC"}

ASSUME HandlerConstants ==
    /\ LocalNodes \subseteq Node
    /\ Pre \in Nat /\ Round \subseteq Nat
    /\ Reader \subseteq [to : Node, instance : Instance,
                         slot : [origin : Origin, uround : Uround, round : Round]]

Slot == {q.slot : q \in Reader}
HandlerMessage == [for : Reader, payload : Payload]

\* The channels that updateRound makes.
MadeWithRound(s) == s.origin = "ABC" \/ s.round < Pre

Steps == {"update", "look", "create", "use"}

VARIABLES
    net,        \* messages sent and not yet received by a goroutine
    round,      \* round[i]: the UROUNDs for which node i made channels
    chans,      \* chans[i][s]: which channel is in the maps for s, 0 for none: they
                \* count from 1 as each takes the place of the one before
    handling,   \* messages with a receiver, and how far it is
    content,    \* messages put into a channel, and into which
    reading,    \* how far a call of receive is
    waits,      \* the channel it waits on, 0 before
    got         \* messages it returned

vars == <<net, round, chans, handling, content, reading, waits, got>>

TypeOK ==
    /\ net \in SUBSET HandlerMessage
    /\ round \in [Node -> SUBSET Uround]
    /\ chans \in [Node -> [Slot -> Nat]]
    /\ handling \in SUBSET [msg : HandlerMessage, at : Steps]
    /\ content \in SUBSET [msg : HandlerMessage, chan : Nat]
    /\ reading \in [Reader -> Steps \cup {"idle", "wait"}]
    /\ waits \in [Reader -> Nat]
    /\ got \in SUBSET HandlerMessage

\* NewLocalHandler and NewNetworkHandler make the channels of UROUND 0.
NewHandlers ==
    /\ round = [i \in Node |-> Uround \cap {0}]
    /\ chans = [i \in Node |-> [s \in Slot |-> IF s.uround = 0 /\ MadeWithRound(s) THEN 1 ELSE 0]]
    /\ handling = {} /\ content = {} /\ got = {}
    /\ reading = [q \in Reader |-> "idle"]
    /\ waits = [q \in Reader |-> 0]

Init == net = {} /\ NewHandlers

-------------------------------------------------------------------------------
(* Channels *)

\* The first thing that is looked at is whether the UROUND has channels.
First(i, s) == IF s.uround \in round[i] THEN "look" ELSE "update"

NewChannels(i, S) == chans' = [chans EXCEPT ![i] = [s \in Slot |-> IF s \in S THEN @[s] + 1 ELSE @[s]]]

\* Mutant: it is not looked at again under the lock.
UpdateAgain(i, u) ==
    /\ round' = [round EXCEPT ![i] = @ \cup {u}]
    /\ NewChannels(i, {s \in Slot : s.uround = u /\ MadeWithRound(s)})

\* Somebody else may have made them before the lock was got.
updateRound(i, u) ==
    /\ round' = [round EXCEPT ![i] = @ \cup {u}]
    /\ NewChannels(i, IF u \in round[i] THEN {} ELSE {s \in Slot : s.uround = u /\ MadeWithRound(s)})

Missing(i, s) == chans[i][s] = 0

\* Mutant: the handler of the network makes a channel whether there is one or not.
MakeAgain(i, s) == NewChannels(i, {s})

\* Looks and makes the channel under one lock.
LookAndMake(i, s) == NewChannels(i, IF Missing(i, s) THEN {s} ELSE {})

\* One step of receive or of a receiver on the way to the channel of s.
Toward(i, s, at, next) ==
    \/ at = "update" /\ next = "look" /\ updateRound(i, s.uround)
    \/ at = "look" /\ i \notin LocalNodes /\ next = "use" /\ LookAndMake(i, s) /\ UNCHANGED round
    \/ /\ at = "look" /\ i \in LocalNodes
       /\ next = IF Missing(i, s) THEN "create" ELSE "use"
       /\ UNCHANGED <<round, chans>>
    \/ at = "create" /\ next = "use" /\ NewChannels(i, {s}) /\ UNCHANGED round

-------------------------------------------------------------------------------
(* Messages *)

\* multicast, or send.
Send(M) ==
    /\ net' = net \cup M
    /\ UNCHANGED <<round, chans, handling, content, reading, waits, got>>

Busy(i) == {h \in handling : h.msg.for.to = i}

\* A goroutine of the node receives a message.
Accept(m) ==
    LET i == m.for.to
    IN  /\ m \in net
        /\ i \in LocalNodes => Cardinality(Busy(i)) < Receivers
        /\ net' = net \ {m}
        /\ handling' = handling \cup {[msg |-> m, at |-> First(i, m.for.slot)]}
        /\ UNCHANGED <<round, chans, content, reading, waits, got>>

Handle(h) ==
    /\ \E next \in Steps :
         /\ Toward(h.msg.for.to, h.msg.for.slot, h.at, next)
         /\ handling' = (handling \ {h}) \cup {[h EXCEPT !.at = next]}
    /\ UNCHANGED <<net, content, reading, waits, got>>

Put(h) ==
    /\ h.at = "use"
    /\ content' = content \cup {[msg |-> h.msg, chan |-> chans[h.msg.for.to][h.msg.for.slot]]}
    /\ handling' = handling \ {h}
    /\ UNCHANGED <<net, round, chans, reading, waits, got>>

receiver == (\E m \in net : Accept(m)) \/ (\E h \in handling : Handle(h) \/ Put(h))

\* A goroutine calls receive.
Call(q) ==
    /\ reading[q] = "idle"
    /\ reading' = [reading EXCEPT ![q] = First(q.to, q.slot)]
    /\ UNCHANGED <<net, round, chans, handling, content, waits, got>>

Seek(q) ==
    /\ \E next \in Steps :
         /\ Toward(q.to, q.slot, reading[q], next)
         /\ reading' = [reading EXCEPT ![q] = next]
    /\ UNCHANGED <<net, handling, content, waits, got>>

Fetch(q) ==
    /\ reading[q] = "use"
    /\ reading' = [reading EXCEPT ![q] = "wait"]
    /\ waits' = [waits EXCEPT ![q] = chans[q.to][q.slot]]
    /\ UNCHANGED <<net, round, chans, handling, content, got>>

Return(q) ==
    /\ reading[q] = "wait"
    /\ \E c \in content :
         /\ c.msg.for = q /\ c.chan = waits[q]
         /\ content' = content \ {c}
         /\ got' = got \cup {c.msg}
    /\ reading' = [reading EXCEPT ![q] = "idle"]
    /\ waits' = [waits EXCEPT ![q] = 0]
    /\ UNCHANGED <<net, round, chans, handling>>

receive(q) == Seek(q) \/ Fetch(q) \/ Return(q)

Next ==
    \/ receiver
    \/ \E q \in Reader : Call(q) \/ receive(q)
    \/ \E m \in HandlerMessage : Send({m})

Spec == Init /\ [][Next]_vars

-------------------------------------------------------------------------------
(* Properties *)

\* What updateRound makes is made once, and so are, by the handler of the
\* network, the channels of later rounds.
Steady(q) == q.to \notin LocalNodes \/ MadeWithRound(q.slot)

\* A message in a channel of a steady reader can be had: the maps hold that channel
\* still, so that the next call of receive finds it, and nobody waits on another one
\* in its place.  And nobody, steady or not, uses a channel that is not there.
NothingLost ==
    /\ \A h \in handling : h.at = "use" => ~Missing(h.msg.for.to, h.msg.for.slot)
    /\ \A q \in Reader : reading[q] = "use" => ~Missing(q.to, q.slot)
    /\ \A c \in content : Steady(c.msg.for) => c.chan = chans[c.msg.for.to][c.msg.for.slot]
    /\ \A q \in Reader : Steady(q) /\ reading[q] = "wait" => waits[q] = chans[q.to][q.slot]
================================================================================
