----------------------------- MODULE HandlerProofs -----------------------------
(***************************************************************************)
(* Proofs about Handler, for every number of nodes, rounds and goroutines: *)
(* a channel that is there when the first message or the first call comes  *)
(* to use it is there for good, for all channels of the handler of the     *)
(* network and for those of the local one that updateRound makes.          *)
(***************************************************************************)
EXTENDS Handler, TLAPS

-------------------------------------------------------------------------------
(* The inductive invariant *)

Known(q) == q.slot.uround \in round[q.to]
Made(q) == ~Missing(q.to, q.slot)

RoundsMade ==
    \A i \in Node, s \in Slot : s.uround \in round[i] /\ MadeWithRound(s) => ~Missing(i, s)

\* Only the local handler goes on to make a channel after it has looked, and not
\* for one that updateRound makes.
MayCreate(q) == q.to \in LocalNodes /\ ~MadeWithRound(q.slot)

StepsFit ==
    /\ \A h \in handling :
         /\ h.at # "update" => Known(h.msg.for)
         /\ h.at = "create" => MayCreate(h.msg.for)
         /\ h.at = "use" => Made(h.msg.for)
    /\ \A q \in Reader :
         /\ reading[q] \notin {"idle", "update"} => Known(q)
         /\ reading[q] = "create" => MayCreate(q)
         /\ reading[q] \in {"use", "wait"} => Made(q)

ContentFits == \A c \in content : Known(c.msg.for) /\ Made(c.msg.for)

IInv == TypeOK /\ RoundsMade /\ StepsFit /\ ContentFits /\ NothingLost

-------------------------------------------------------------------------------
(* Channels *)

LEMMA SlotFields ==
    \A q \in Reader : q.to \in Node /\ q.slot \in Slot /\ q.slot.uround \in Uround
BY HandlerConstants DEF Slot

\* Nothing that is there is taken away.
Kept ==
    /\ \A i \in Node : round[i] \subseteq round'[i]
    /\ \A i \in Node, s \in Slot : chans[i][s] # 0 => chans'[i][s] # 0
    /\ \A q \in Reader : Steady(q) /\ Known(q) /\ Made(q) =>
         chans'[q.to][q.slot] = chans[q.to][q.slot]

LEMMA TowardKeeps ==
    ASSUME TypeOK, RoundsMade, NEW q \in Reader, NEW at \in Steps, NEW next \in Steps,
           Toward(q.to, q.slot, at, next),
           at # "update" => Known(q),
           at = "create" => MayCreate(q)
    PROVE  /\ round' \in [Node -> SUBSET Uround] /\ chans' \in [Node -> [Slot -> Nat]]
           /\ RoundsMade' /\ Kept
           /\ next # "update" /\ Known(q)'
           /\ next = "create" => MayCreate(q)
           /\ next = "use" => Made(q)'
<1>. USE SlotFields DEF TypeOK, Missing
<1>. DEFINE i == q.to  s == q.slot
<1>1. ASSUME NEW S \in SUBSET Slot, NewChannels(i, S)
      PROVE  /\ chans' \in [Node -> [Slot -> Nat]]
             /\ \A j \in Node, t \in Slot :
                  chans'[j][t] = IF j = i /\ t \in S THEN chans[j][t] + 1 ELSE chans[j][t]
             /\ \A j \in Node, t \in Slot : chans[j][t] # 0 => chans'[j][t] # 0
  BY <1>1 DEF NewChannels
<1>2. CASE at = "update" /\ next = "look" /\ updateRound(i, s.uround)
  <2>. DEFINE S == IF s.uround \in round[i] THEN {}
                   ELSE {t \in Slot : t.uround = s.uround /\ MadeWithRound(t)}
  <2>1. S \in SUBSET Slot /\ NewChannels(i, S)
    BY <1>2 DEF updateRound
  <2>2. round' = [round EXCEPT ![i] = @ \cup {s.uround}]
    BY <1>2 DEF updateRound
  <2>3. round' \in [Node -> SUBSET Uround] /\ \A j \in Node : round[j] \subseteq round'[j]
    BY <2>2
  <2>4. RoundsMade'
    <3>1. ASSUME NEW j \in Node, NEW t \in Slot, t.uround \in round'[j], MadeWithRound(t)
          PROVE  chans'[j][t] # 0
      <4>1. CASE t.uround \in round[j]
        BY <1>1, <2>1, <3>1, <4>1 DEF RoundsMade
      <4>2. CASE t.uround \notin round[j]
        <5>1. j = i /\ t \in S
          BY <2>2, <3>1, <4>2
        <5>. QED
          BY <1>1, <2>1, <5>1
      <4>. QED
        BY <4>1, <4>2
    <3>. QED
      BY <3>1 DEF RoundsMade
  <2>5. Kept
    <3>1. ASSUME NEW p \in Reader, Known(p)
          PROVE  chans'[p.to][p.slot] = chans[p.to][p.slot]
      <4>1. ~(p.to = i /\ p.slot \in S)
        BY <3>1 DEF Known
      <4>. QED
        BY <1>1, <2>1, <4>1
    <3>2. \A j \in Node, t \in Slot : chans[j][t] # 0 => chans'[j][t] # 0
      BY <1>1, <2>1
    <3>. QED
      BY <2>3, <3>1, <3>2 DEF Kept
  <2>. QED
    BY <1>1, <1>2, <2>1, <2>2, <2>3, <2>4, <2>5 DEF Known
<1>3. CASE at = "look" /\ i \notin LocalNodes /\ next = "use" /\ LookAndMake(i, s) /\ UNCHANGED round
  <2>. DEFINE S == IF Missing(i, s) THEN {s} ELSE {}
  <2>1. S \in SUBSET Slot /\ NewChannels(i, S)
    BY <1>3 DEF LookAndMake
  <2>2. chans'[i][s] # 0
    <3>1. chans'[i][s] = IF s \in S THEN chans[i][s] + 1 ELSE chans[i][s]
      BY <1>1, <2>1
    <3>2. chans[i][s] \in Nat
      OBVIOUS
    <3>3. CASE Missing(i, s)
      BY <3>1, <3>2, <3>3
    <3>4. CASE ~Missing(i, s)
      BY <3>1, <3>2, <3>4
    <3>. QED
      BY <3>3, <3>4
  <2>3. RoundsMade'
    <3>1. \A j \in Node, t \in Slot : chans[j][t] # 0 => chans'[j][t] # 0
      BY <1>1, <2>1
    <3>. QED
      BY <1>3, <3>1 DEF RoundsMade
  <2>4. Kept
    <3>1. ASSUME NEW p \in Reader, Made(p)
          PROVE  chans'[p.to][p.slot] = chans[p.to][p.slot]
      <4>1. ~(p.to = i /\ p.slot \in S)
        BY <3>1 DEF Made
      <4>. QED
        BY <1>1, <2>1, <4>1
    <3>2. \A j \in Node, t \in Slot : chans[j][t] # 0 => chans'[j][t] # 0
      BY <1>1, <2>1
    <3>3. \A j \in Node : round[j] \subseteq round'[j]
      BY <1>3
    <3>. QED
      BY <3>1, <3>2, <3>3 DEF Kept
  <2>. QED
    BY <1>1, <1>3, <2>1, <2>2, <2>3, <2>4 DEF Known, Made
<1>4. CASE /\ at = "look" /\ i \in LocalNodes
           /\ next = IF Missing(i, s) THEN "create" ELSE "use"
           /\ UNCHANGED <<round, chans>>
  <2>1. RoundsMade' /\ Kept
    BY <1>4 DEF RoundsMade, Kept
  <2>2. Missing(i, s) => ~MadeWithRound(s)
    BY <1>4 DEF RoundsMade, Known
  <2>. QED
    BY <1>4, <2>1, <2>2 DEF MayCreate, Known, Made
<1>5. CASE at = "create" /\ next = "use" /\ NewChannels(i, {s}) /\ UNCHANGED round
  <2>1. chans'[i][s] # 0
    BY <1>1, <1>5
  <2>2. RoundsMade'
    BY <1>1, <1>5 DEF RoundsMade
  <2>3. Kept
    <3>1. ASSUME NEW p \in Reader, Steady(p)
          PROVE  chans'[p.to][p.slot] = chans[p.to][p.slot]
      <4>1. ~(p.to = i /\ p.slot = s)
        BY <1>5, <3>1 DEF MayCreate, Steady
      <4>. QED
        BY <1>1, <1>5, <4>1
    <3>2. \A j \in Node, t \in Slot : chans[j][t] # 0 => chans'[j][t] # 0
      BY <1>1, <1>5
    <3>3. \A j \in Node : round[j] \subseteq round'[j]
      BY <1>5
    <3>. QED
      BY <3>1, <3>2, <3>3 DEF Kept
  <2>. QED
    BY <1>1, <1>5, <2>1, <2>2, <2>3 DEF Known, Made
<1>. QED
  BY <1>2, <1>3, <1>4, <1>5 DEF Toward

LEMMA KeptFacts ==
    ASSUME TypeOK, Kept, NEW q \in Reader
    PROVE  (Known(q) => Known(q)') /\ (Made(q) => Made(q)')
BY SlotFields DEF TypeOK, Kept, Known, Made, Missing

\* A step that touches no channel keeps what is known of the channels.
LEMMA Untouched ==
    ASSUME TypeOK, RoundsMade, UNCHANGED <<round, chans>>
    PROVE  RoundsMade' /\ Kept
BY SlotFields DEF TypeOK, RoundsMade, Kept, Missing

-------------------------------------------------------------------------------
(* Steps *)

LEMMA InitIInv == NewHandlers /\ net \in SUBSET HandlerMessage => IInv
<1>. SUFFICES ASSUME NewHandlers, net \in SUBSET HandlerMessage PROVE IInv
  OBVIOUS
<1>. USE DEF NewHandlers
<1>1. TypeOK
  BY SlotFields DEF TypeOK, Steps
<1>2. RoundsMade
  BY DEF RoundsMade, Missing
<1>3. StepsFit /\ ContentFits /\ NothingLost
  BY DEF StepsFit, ContentFits, NothingLost
<1>. QED
  BY <1>1, <1>2, <1>3 DEF IInv

LEMMA SendKeeps ==
    ASSUME IInv, NEW M \in SUBSET HandlerMessage, Send(M) PROVE IInv'
<1>. USE DEF IInv, Send
<1>1. TypeOK'
  BY DEF TypeOK
<1>2. RoundsMade' /\ StepsFit' /\ ContentFits' /\ NothingLost'
  BY DEF RoundsMade, StepsFit, ContentFits, NothingLost, Missing, Known, Made
<1>. QED
  BY <1>1, <1>2

\* Who takes no channel into use keeps what was kept.
LEMMA LostNothing ==
    ASSUME IInv, Kept, TypeOK', StepsFit', UNCHANGED <<content, waits>>,
           \A p \in Reader : reading'[p] = "wait" => reading[p] = "wait"
    PROVE  NothingLost'
<1>. USE DEF IInv
<1>1. \A h \in handling' : h.at = "use" => ~Missing(h.msg.for.to, h.msg.for.slot)'
  BY DEF StepsFit, Made
<1>2. \A p \in Reader : reading'[p] = "use" => ~Missing(p.to, p.slot)'
  BY DEF StepsFit, Made
<1>3. ASSUME NEW c \in content, Steady(c.msg.for)
      PROVE  c.chan = chans'[c.msg.for.to][c.msg.for.slot]
  <2>1. c.msg.for \in Reader /\ Known(c.msg.for) /\ Made(c.msg.for)
    BY DEF TypeOK, HandlerMessage, ContentFits
  <2>2. c.chan = chans[c.msg.for.to][c.msg.for.slot]
    BY <1>3 DEF NothingLost
  <2>. QED
    BY <1>3, <2>1, <2>2 DEF Kept
<1>4. ASSUME NEW p \in Reader, Steady(p), reading'[p] = "wait"
      PROVE  waits[p] = chans'[p.to][p.slot]
  <2>1. Known(p) /\ Made(p)
    BY <1>4 DEF StepsFit
  <2>2. waits[p] = chans[p.to][p.slot]
    BY <1>4 DEF NothingLost
  <2>. QED
    BY <1>4, <2>1, <2>2 DEF Kept
<1>. QED
  BY <1>1, <1>2, <1>3, <1>4 DEF NothingLost, Steady

LEMMA FirstFits ==
    ASSUME NEW q \in Reader
    PROVE  First(q.to, q.slot) \in {"update", "look"} /\
           (First(q.to, q.slot) = "look" => Known(q))
BY DEF First, Known

LEMMA AcceptKeeps ==
    ASSUME IInv, NEW m \in net, Accept(m) PROVE IInv'
<1>. USE DEF IInv
<1>. DEFINE h == [msg |-> m, at |-> First(m.for.to, m.for.slot)]
<1>1. m \in HandlerMessage /\ m.for \in Reader
  BY DEF TypeOK, HandlerMessage
<1>2. /\ net' = net \ {m} /\ handling' = handling \cup {h}
      /\ UNCHANGED <<round, chans, content, reading, waits, got>>
  BY DEF Accept
<1>3. h.at \in {"update", "look"} /\ (h.at = "look" => Known(h.msg.for))
  BY <1>1, FirstFits
<1>4. TypeOK'
  BY <1>1, <1>2, <1>3 DEF TypeOK, Steps
<1>5. StepsFit'
  BY <1>2, <1>3 DEF StepsFit, Known, Made, Missing
<1>6. NothingLost'
  BY <1>2, <1>3 DEF NothingLost, Missing
<1>7. RoundsMade' /\ ContentFits'
  BY <1>2 DEF RoundsMade, ContentFits, Known, Made, Missing
<1>. QED
  BY <1>4, <1>5, <1>6, <1>7

LEMMA HandleKeeps ==
    ASSUME IInv, NEW h \in handling, Handle(h) PROVE IInv'
<1>. USE DEF IInv
<1>. DEFINE q == h.msg.for
<1>1. PICK next \in Steps :
        /\ Toward(q.to, q.slot, h.at, next)
        /\ handling' = (handling \ {h}) \cup {[h EXCEPT !.at = next]}
  BY DEF Handle
<1>2. UNCHANGED <<net, content, reading, waits, got>>
  BY DEF Handle
<1>3. /\ h \in [msg : HandlerMessage, at : Steps] /\ q \in Reader
      /\ [h EXCEPT !.at = next] = [msg |-> h.msg, at |-> next]
  BY DEF TypeOK, HandlerMessage
<1>4. /\ round' \in [Node -> SUBSET Uround] /\ chans' \in [Node -> [Slot -> Nat]]
      /\ RoundsMade' /\ Kept
      /\ next # "update" /\ Known(q)'
      /\ next = "create" => MayCreate(q)
      /\ next = "use" => Made(q)'
  <2>1. (h.at # "update" => Known(q)) /\ (h.at = "create" => MayCreate(q))
    BY DEF StepsFit
  <2>. QED
    BY <1>1, <1>3, <2>1, TowardKeeps
<1>5. \A p \in Reader : (Known(p) => Known(p)') /\ (Made(p) => Made(p)')
  BY <1>4, KeptFacts
<1>6. TypeOK'
  BY <1>1, <1>2, <1>3, <1>4 DEF TypeOK
<1>7. StepsFit'
  <2>1. ASSUME NEW g \in handling'
        PROVE  /\ g.at # "update" => Known(g.msg.for)'
               /\ g.at = "create" => MayCreate(g.msg.for)
               /\ g.at = "use" => Made(g.msg.for)'
    <3>1. CASE g \in handling
      <4>1. g.msg.for \in Reader
        BY <3>1 DEF TypeOK, HandlerMessage
      <4>. QED
        BY <3>1, <4>1, <1>5 DEF StepsFit
    <3>2. CASE g = [msg |-> h.msg, at |-> next]
      BY <3>2, <1>4
    <3>. QED
      BY <1>1, <1>3, <2>1, <3>1, <3>2
  <2>2. ASSUME NEW p \in Reader
        PROVE  /\ reading'[p] \notin {"idle", "update"} => Known(p)'
               /\ reading'[p] = "create" => MayCreate(p)
               /\ reading'[p] \in {"use", "wait"} => Made(p)'
    BY <1>2, <1>5 DEF StepsFit
  <2>. QED
    BY <2>1, <2>2 DEF StepsFit, MayCreate
<1>8. ContentFits'
  <2>1. \A c \in content : c.msg.for \in Reader
    BY DEF TypeOK, HandlerMessage
  <2>. QED
    BY <1>2, <1>5, <2>1 DEF ContentFits
<1>9. NothingLost'
  BY <1>2, <1>4, <1>6, <1>7, <1>8, LostNothing
<1>. QED
  BY <1>4, <1>6, <1>7, <1>8, <1>9

LEMMA PutKeeps ==
    ASSUME IInv, NEW h \in handling, Put(h) PROVE IInv'
<1>. USE DEF IInv
<1>. DEFINE q == h.msg.for
            new == [msg |-> h.msg, chan |-> chans[q.to][q.slot]]
<1>1. /\ h.at = "use" /\ content' = content \cup {new} /\ handling' = handling \ {h}
      /\ UNCHANGED <<net, round, chans, reading, waits, got>>
  BY DEF Put
<1>2. h.msg \in HandlerMessage /\ q \in Reader /\ chans[q.to][q.slot] \in Nat
  BY SlotFields DEF TypeOK, HandlerMessage
<1>3. TypeOK'
  BY <1>1, <1>2 DEF TypeOK
<1>4. RoundsMade' /\ StepsFit'
  BY <1>1 DEF RoundsMade, StepsFit, Known, Made, Missing
<1>5. ContentFits'
  <2>1. Known(q) /\ Made(q)
    BY <1>1 DEF StepsFit
  <2>. QED
    BY <1>1, <2>1 DEF ContentFits, Known, Made, Missing
<1>6. NothingLost'
  BY <1>1 DEF NothingLost, Missing
<1>. QED
  BY <1>3, <1>4, <1>5, <1>6

LEMMA CallKeeps ==
    ASSUME IInv, NEW q \in Reader, Call(q) PROVE IInv'
<1>. USE DEF IInv
<1>1. /\ reading' = [reading EXCEPT ![q] = First(q.to, q.slot)]
      /\ UNCHANGED <<net, round, chans, handling, content, waits, got>>
  BY DEF Call
<1>2. First(q.to, q.slot) \in {"update", "look"} /\ (First(q.to, q.slot) = "look" => Known(q))
  BY FirstFits
<1>. HIDE DEF First
<1>3. TypeOK'
  BY <1>1, <1>2 DEF TypeOK, Steps
<1>4. \A p \in Reader : reading'[p] = IF p = q THEN First(q.to, q.slot) ELSE reading[p]
  BY <1>1 DEF TypeOK
<1>5. StepsFit'
  BY <1>1, <1>2, <1>4 DEF StepsFit, Known, Made, Missing
<1>6. RoundsMade' /\ ContentFits'
  BY <1>1 DEF RoundsMade, ContentFits, Known, Made, Missing
<1>7. NothingLost'
  BY <1>1, <1>2, <1>4 DEF NothingLost, Missing, Steady
<1>. QED
  BY <1>3, <1>5, <1>6, <1>7

LEMMA SeekKeeps ==
    ASSUME IInv, NEW q \in Reader, Seek(q) PROVE IInv'
<1>. USE DEF IInv
<1>1. PICK next \in Steps :
        /\ Toward(q.to, q.slot, reading[q], next)
        /\ reading' = [reading EXCEPT ![q] = next]
  BY DEF Seek
<1>2. UNCHANGED <<net, handling, content, waits, got>>
  BY DEF Seek
<1>3. reading[q] \in {"update", "look", "create"}
  BY <1>1 DEF Toward
<1>4. /\ round' \in [Node -> SUBSET Uround] /\ chans' \in [Node -> [Slot -> Nat]]
      /\ RoundsMade' /\ Kept
      /\ next # "update" /\ Known(q)'
      /\ next = "create" => MayCreate(q)
      /\ next = "use" => Made(q)'
  <2>1. (reading[q] # "update" => Known(q)) /\ (reading[q] = "create" => MayCreate(q))
    BY <1>3 DEF StepsFit
  <2>2. reading[q] \in Steps
    BY <1>3 DEF Steps
  <2>. QED
    BY <1>1, <2>1, <2>2, TowardKeeps
<1>5. \A p \in Reader : (Known(p) => Known(p)') /\ (Made(p) => Made(p)')
  BY <1>4, KeptFacts
<1>6. TypeOK'
  BY <1>1, <1>2, <1>4 DEF TypeOK
<1>7. \A p \in Reader : reading'[p] = IF p = q THEN next ELSE reading[p]
  BY <1>1 DEF TypeOK
<1>8. StepsFit'
  <2>1. ASSUME NEW g \in handling
        PROVE  /\ g.at # "update" => Known(g.msg.for)'
               /\ g.at = "create" => MayCreate(g.msg.for)
               /\ g.at = "use" => Made(g.msg.for)'
    <3>1. g.msg.for \in Reader
      BY DEF TypeOK, HandlerMessage
    <3>. QED
      BY <3>1, <1>5 DEF StepsFit
  <2>2. ASSUME NEW p \in Reader
        PROVE  /\ reading'[p] \notin {"idle", "update"} => Known(p)'
               /\ reading'[p] = "create" => MayCreate(p)
               /\ reading'[p] \in {"use", "wait"} => Made(p)'
    <3>1. CASE p = q
      BY <1>4, <1>7, <3>1 DEF Steps
    <3>2. CASE p # q
      BY <1>5, <1>7, <3>2 DEF StepsFit
    <3>. QED
      BY <3>1, <3>2
  <2>. QED
    BY <1>2, <2>1, <2>2 DEF StepsFit, MayCreate
<1>9. ContentFits'
  <2>1. \A c \in content : c.msg.for \in Reader
    BY DEF TypeOK, HandlerMessage
  <2>. QED
    BY <1>2, <1>5, <2>1 DEF ContentFits
<1>10. NothingLost'
  <2>1. next \in Steps => next # "wait"
    BY DEF Steps
  <2>. QED
    BY <1>2, <1>4, <1>6, <1>7, <1>8, <1>9, <2>1, LostNothing
<1>. QED
  BY <1>4, <1>6, <1>8, <1>9, <1>10

LEMMA FetchKeeps ==
    ASSUME IInv, NEW q \in Reader, Fetch(q) PROVE IInv'
<1>. USE DEF IInv
<1>1. /\ reading[q] = "use" /\ reading' = [reading EXCEPT ![q] = "wait"]
      /\ waits' = [waits EXCEPT ![q] = chans[q.to][q.slot]]
      /\ UNCHANGED <<net, round, chans, handling, content, got>>
  BY DEF Fetch
<1>2. chans[q.to][q.slot] \in Nat
  BY SlotFields DEF TypeOK
<1>3. TypeOK'
  BY <1>1, <1>2 DEF TypeOK
<1>4. \A p \in Reader : /\ reading'[p] = IF p = q THEN "wait" ELSE reading[p]
                        /\ waits'[p] = IF p = q THEN chans[q.to][q.slot] ELSE waits[p]
  BY <1>1 DEF TypeOK
<1>5. StepsFit'
  BY <1>1, <1>4 DEF StepsFit, Known, Made, Missing
<1>6. RoundsMade' /\ ContentFits'
  BY <1>1 DEF RoundsMade, ContentFits, Known, Made, Missing
<1>7. NothingLost'
  BY <1>1, <1>4 DEF NothingLost, Missing, Steady
<1>. QED
  BY <1>3, <1>5, <1>6, <1>7

LEMMA ReturnKeeps ==
    ASSUME IInv, NEW q \in Reader, Return(q) PROVE IInv'
<1>. USE DEF IInv
<1>1. PICK c \in content :
        /\ content' = content \ {c}
        /\ got' = got \cup {c.msg}
  BY DEF Return
<1>2. /\ reading' = [reading EXCEPT ![q] = "idle"] /\ waits' = [waits EXCEPT ![q] = 0]
      /\ UNCHANGED <<net, round, chans, handling>>
  BY DEF Return
<1>3. TypeOK'
  BY <1>1, <1>2 DEF TypeOK
<1>4. \A p \in Reader : /\ reading'[p] = IF p = q THEN "idle" ELSE reading[p]
                        /\ waits'[p] = IF p = q THEN 0 ELSE waits[p]
  BY <1>2 DEF TypeOK
<1>5. StepsFit'
  BY <1>2, <1>4 DEF StepsFit, Known, Made, Missing
<1>6. RoundsMade' /\ ContentFits'
  BY <1>1, <1>2 DEF RoundsMade, ContentFits, Known, Made, Missing
<1>7. NothingLost'
  BY <1>1, <1>2, <1>4 DEF NothingLost, Missing, Steady
<1>. QED
  BY <1>3, <1>5, <1>6, <1>7

-------------------------------------------------------------------------------
(* The theorems *)

LEMMA receiverKeeps == ASSUME IInv, receiver PROVE IInv'
BY AcceptKeeps, HandleKeeps, PutKeeps DEF receiver

LEMMA receiveKeeps == ASSUME IInv, NEW q \in Reader, receive(q) PROVE IInv'
BY SeekKeeps, FetchKeeps, ReturnKeeps DEF receive

LEMMA StutterKeeps == ASSUME IInv, UNCHANGED vars PROVE IInv'
<1>. USE DEF IInv, vars
<1>1. TypeOK'
  BY DEF TypeOK
<1>2. RoundsMade' /\ StepsFit' /\ ContentFits' /\ NothingLost'
  BY DEF RoundsMade, StepsFit, ContentFits, NothingLost, Missing, Known, Made
<1>. QED
  BY <1>1, <1>2

LEMMA NextKeeps == IInv /\ [Next]_vars => IInv'
<1>. SUFFICES ASSUME IInv, [Next]_vars PROVE IInv'
  OBVIOUS
<1>1. CASE receiver
  BY <1>1, receiverKeeps
<1>2. CASE \E q \in Reader : Call(q) \/ receive(q)
  BY <1>2, CallKeeps, receiveKeeps
<1>3. CASE \E m \in HandlerMessage : Send({m})
  BY <1>3, SendKeeps
<1>4. CASE UNCHANGED vars
  BY <1>4, StutterKeeps
<1>. QED
  BY <1>1, <1>2, <1>3, <1>4 DEF Next

\* The invariant above holds in every state, for any number of nodes, rounds,
\* readers and receiving goroutines, local or in the network (receive and receiver
\* of localhandler.go, listener and receive of networkhandler.go).
THEOREM Invariance == Spec => []IInv
<1>1. Init => IInv
  BY InitIInv DEF Init
<1>. QED
  BY <1>1, NextKeeps, PTL DEF Spec

\* The variables keep their types.
THEOREM TypeCorrect == Spec => []TypeOK
<1>1. IInv => TypeOK
  BY DEF IInv
<1>. QED
  BY <1>1, Invariance, PTL

\* A channel that updateRound makes, or the handler of the network, is not replaced
\* once a message is in it or somebody waits on it, however the goroutines that look
\* for it and make it interleave.  Nothing is said of the channels that the local
\* handler makes for an agreement's rounds from Pre on: it does replace them.
THEOREM SteadyChannelsStay == Spec => []NothingLost
<1>1. IInv => NothingLost
  BY DEF IInv
<1>. QED
  BY <1>1, Invariance, PTL
================================================================================
