---------------------------- MODULE NetworkProofs -----------------------------
(***************************************************************************)
(* The network accounts for every message, its timers are punctual and     *)
(* messages that take equally long arrive in order: for any nodes,         *)
(* latencies, partitions and bounds, whatever crashes or is split on the   *)
(* way.                                                                    *)
(***************************************************************************)
EXTENDS Network, Deadlines, SequenceTheorems, FiniteSetTheorems, WellFoundedInduction, TLAPS

\* What a message and a timer hold.
Message == [src : Node, dst : Node, seq : Nat, delay : Nat]
Timer == [at : Nat, id : Nat, what : Message, cancelled : BOOLEAN]
Counters == [sent : Nat, delivered : Nat, unknown : Nat, partition : Nat, loss : Nat]

\* The types of what the accounts are about.
Typed ==
    /\ now \in Nat /\ counter \in Nat
    /\ heap \subseteq Timer /\ IsFiniteSet(heap)
    /\ seq \in [Node -> Nat]
    /\ inbox \in [Node -> Seq(Message)]
    /\ stats \in Counters

\* What makes a new timer differ from those in the heap.
IdsAreFresh == \A e \in heap : e.id < counter

\* The numbers in use are below the sender's next one.
InboxIsFresh ==
    \A n \in Node : \A i \in DOMAIN inbox[n] : inbox[n][i].seq < seq[inbox[n][i].src]
HeapIsFresh == \A e \in heap : e.what.seq < seq[e.what.src]
HeapIsDistinct ==
    \A e, f \in heap : e # f => <<e.what.src, e.what.seq>> # <<f.what.src, f.what.seq>>

\* The invariant of the accounts.
Inv ==
    /\ Typed /\ IdsAreFresh /\ Conservation
    /\ InboxIsFresh /\ HeapIsFresh /\ HeapIsDistinct

-----------------------------------------------------------------------------
\* The invariant says of the messages one by one what the property says of all.
LEMMA InvAccounts == Inv => MessagesAreAccounted
<1> SUFFICES ASSUME Inv PROVE MessagesAreAccounted
  OBVIOUS
<1>1. ASSUME NEW m \in InFlight
      PROVE  m.seq < seq[m.src]
  <2>1. CASE m \in {e.what : e \in heap}
    BY <2>1 DEF Inv, HeapIsFresh
  <2>2. CASE m \in Waiting
    <3>1. PICK n \in Node : \E i \in DOMAIN inbox[n] : m = inbox[n][i]
      BY <2>2 DEF Waiting
    <3> QED
      BY <3>1 DEF Inv, InboxIsFresh
  <2> QED
    BY <1>1, <2>1, <2>2 DEF InFlight
<1> QED
  BY <1>1 DEF Inv, MessagesAreAccounted, NumbersAreFresh, HeapIsDistinct

\* Nothing sent yet.
LEMMA InitInv == Init => Inv
<1> SUFFICES ASSUME Init PROVE Inv
  OBVIOUS
<1>1. IsFiniteSet(heap) /\ Cardinality(heap) = 0 /\ heap = {}
  BY FS_EmptySet DEF Init, InitClock
<1>2. Typed
  BY <1>1 DEF Init, InitClock, Typed, Counters
<1>3. Conservation
  BY <1>1 DEF Init, Conservation
<1>4. InboxIsFresh
  BY DEF Init, InboxIsFresh
<1> QED
  BY <1>1, <1>2, <1>3, <1>4 DEF Inv, IdsAreFresh, HeapIsFresh, HeapIsDistinct

\* A step that neither sends nor delivers: an inbox may lose messages.
LEMMA QuietStep ==
    ASSUME Inv, UNCHANGED <<heap, counter, seq, stats>>, now' \in Nat,
           inbox' \in [Node -> Seq(Message)],
           \A n \in Node : inbox'[n] \in {inbox[n], <<>>} \/ (inbox[n] # <<>> /\ inbox'[n] = Tail(inbox[n]))
    PROVE  Inv'
<1>1. Typed' /\ IdsAreFresh' /\ Conservation' /\ HeapIsFresh' /\ HeapIsDistinct'
  BY DEF Inv, Typed, IdsAreFresh, Conservation, HeapIsFresh, HeapIsDistinct
<1>2. ASSUME NEW n \in Node, NEW i \in DOMAIN inbox'[n]
      PROVE  inbox'[n][i].seq < seq'[inbox'[n][i].src]
  <2>1. inbox[n] \in Seq(Message)
    BY DEF Inv, Typed
  <2>2. CASE inbox'[n] = inbox[n]
    BY <1>2, <2>2 DEF Inv, InboxIsFresh
  <2>3. CASE inbox'[n] = <<>>
    BY <1>2, <2>3
  <2>4. CASE inbox[n] # <<>> /\ inbox'[n] = Tail(inbox[n])
    <3>1. i + 1 \in DOMAIN inbox[n] /\ inbox'[n][i] = inbox[n][i + 1]
      BY <1>2, <2>1, <2>4
    <3> QED
      BY <3>1 DEF Inv, InboxIsFresh
  <2> QED
    BY <2>2, <2>3, <2>4
<1> QED
  BY <1>1, <1>2 DEF Inv, InboxIsFresh

\* A message put into an inbox keeps the inboxes typed and fresh.
LEMMA PutKeeps ==
    ASSUME Inv, NEW m \in Message, Put(m), seq' \in [Node -> Nat],
           \A n \in Node : seq[n] <= seq'[n], m.seq < seq'[m.src]
    PROVE  inbox' \in [Node -> Seq(Message)] /\ InboxIsFresh'
<1>1. inbox \in [Node -> Seq(Message)] /\ m.dst \in Node /\ seq \in [Node -> Nat]
  BY DEF Inv, Typed, Message
<1>2. inbox' \in [Node -> Seq(Message)]
  BY <1>1 DEF Put
<1>3. ASSUME NEW n \in Node, NEW i \in DOMAIN inbox'[n]
      PROVE  inbox'[n][i].seq < seq'[inbox'[n][i].src]
  <2>1. CASE i \in DOMAIN inbox[n] /\ inbox'[n][i] = inbox[n][i]
    <3>1. inbox[n][i] \in Message
      BY <1>1, <2>1
    <3>2. inbox[n][i].seq \in Nat /\ inbox[n][i].src \in Node
      BY <3>1 DEF Message
    <3>3. inbox[n][i].seq < seq[inbox[n][i].src]
      BY <2>1 DEF Inv, InboxIsFresh
    <3> QED
      BY <1>1, <2>1, <3>2, <3>3
  <2>2. CASE inbox'[n][i] = m
    BY <2>2
  <2>3. \/ i \in DOMAIN inbox[n] /\ inbox'[n][i] = inbox[n][i]
        \/ inbox'[n][i] = m
    BY <1>1, <1>3 DEF Put
  <2> QED
    BY <2>1, <2>2, <2>3
<1> QED
  BY <1>2, <1>3 DEF InboxIsFresh

\* The counters are numbers.
LEMMA CountsAreNumbers ==
    ASSUME NEW s \in Counters
    PROVE  /\ s.sent \in Nat /\ s.delivered \in Nat /\ s.unknown \in Nat
           /\ s.partition \in Nat /\ s.loss \in Nat
BY DEF Counters

\* Counting one more message, by what became of it.
LEMMA CountAddsUp ==
    ASSUME NEW s \in Counters, NEW t,
           NEW what \in {"delivered", "unknown", "partition", "loss"},
           t = [s EXCEPT !.sent = @ + 1, ![what] = @ + 1]
    PROVE  /\ t \in Counters /\ t.sent = s.sent + 1
           /\ t.delivered + t.unknown + t.partition + t.loss
              = s.delivered + s.unknown + s.partition + s.loss + 1
<1>1. /\ s.sent \in Nat /\ s.delivered \in Nat /\ s.unknown \in Nat
      /\ s.partition \in Nat /\ s.loss \in Nat
  BY CountsAreNumbers
<1>2. /\ s.sent + 1 \in Nat /\ s.delivered + 1 \in Nat /\ s.unknown + 1 \in Nat
      /\ s.partition + 1 \in Nat /\ s.loss + 1 \in Nat
  BY <1>1
<1>3. CASE what = "delivered"
  <2>1. t = [s EXCEPT !.sent = @ + 1, !.delivered = @ + 1]
    BY <1>3
  <2>2. t \in Counters
    BY <1>2, <2>1 DEF Counters
  <2>3. /\ t.sent = s.sent + 1 /\ t.delivered = s.delivered + 1
        /\ t.unknown = s.unknown /\ t.partition = s.partition /\ t.loss = s.loss
    BY <2>1 DEF Counters
  <2> QED
    BY <1>1, <2>2, <2>3
<1>4. CASE what = "unknown"
  <2>1. t = [s EXCEPT !.sent = @ + 1, !.unknown = @ + 1]
    BY <1>4
  <2>2. t \in Counters
    BY <1>2, <2>1 DEF Counters
  <2>3. /\ t.sent = s.sent + 1 /\ t.unknown = s.unknown + 1
        /\ t.delivered = s.delivered /\ t.partition = s.partition /\ t.loss = s.loss
    BY <2>1 DEF Counters
  <2> QED
    BY <1>1, <2>2, <2>3
<1>5. CASE what = "partition"
  <2>1. t = [s EXCEPT !.sent = @ + 1, !.partition = @ + 1]
    BY <1>5
  <2>2. t \in Counters
    BY <1>2, <2>1 DEF Counters
  <2>3. /\ t.sent = s.sent + 1 /\ t.partition = s.partition + 1
        /\ t.delivered = s.delivered /\ t.unknown = s.unknown /\ t.loss = s.loss
    BY <2>1 DEF Counters
  <2> QED
    BY <1>1, <2>2, <2>3
<1>6. CASE what = "loss"
  <2>1. t = [s EXCEPT !.sent = @ + 1, !.loss = @ + 1]
    BY <1>6
  <2>2. t \in Counters
    BY <1>2, <2>1 DEF Counters
  <2>3. /\ t.sent = s.sent + 1 /\ t.loss = s.loss + 1
        /\ t.delivered = s.delivered /\ t.unknown = s.unknown /\ t.partition = s.partition
    BY <2>1 DEF Counters
  <2> QED
    BY <1>1, <2>2, <2>3
<1> QED
  BY <1>3, <1>4, <1>5, <1>6

\* The books balance when a message is counted with its end,
LEMMA CountedAtOnce ==
    ASSUME Inv, NEW what \in {"delivered", "unknown", "partition", "loss"},
           stats' = [stats EXCEPT !.sent = @ + 1, ![what] = @ + 1], heap' = heap
    PROVE  stats' \in Counters /\ Conservation'
<1>1. stats \in Counters /\ IsFiniteSet(heap)
  BY DEF Inv, Typed
<1>2. Cardinality(heap) \in Nat
  BY <1>1, FS_CardinalityType
<1>3. /\ stats' \in Counters /\ stats'.sent = stats.sent + 1
      /\ stats'.delivered + stats'.unknown + stats'.partition + stats'.loss
         = stats.delivered + stats.unknown + stats.partition + stats.loss + 1
  BY <1>1, CountAddsUp
<1>4. /\ stats.sent \in Nat /\ stats.delivered \in Nat /\ stats.unknown \in Nat
      /\ stats.partition \in Nat /\ stats.loss \in Nat
  BY <1>1, CountsAreNumbers
<1>5. /\ stats'.delivered \in Nat /\ stats'.unknown \in Nat
      /\ stats'.partition \in Nat /\ stats'.loss \in Nat
  BY <1>3, CountsAreNumbers
<1> QED
  BY <1>2, <1>3, <1>4, <1>5 DEF Inv, Conservation

\* or becomes one more timer,
LEMMA CountedAsTimer ==
    ASSUME Inv, stats' = [stats EXCEPT !.sent = @ + 1],
           Cardinality(heap') = Cardinality(heap) + 1
    PROVE  stats' \in Counters /\ Conservation'
<1>1. stats \in Counters /\ IsFiniteSet(heap)
  BY DEF Inv, Typed
<1>2. Cardinality(heap) \in Nat
  BY <1>1, FS_CardinalityType
<1>3. /\ stats.sent \in Nat /\ stats.delivered \in Nat /\ stats.unknown \in Nat
      /\ stats.partition \in Nat /\ stats.loss \in Nat
  BY <1>1, CountsAreNumbers
<1>4. stats' \in Counters /\ stats'.sent = stats.sent + 1
  BY <1>1, <1>3 DEF Counters
<1>5. /\ stats'.delivered = stats.delivered /\ stats'.unknown = stats.unknown
      /\ stats'.partition = stats.partition /\ stats'.loss = stats.loss
  BY <1>1 DEF Counters
<1> QED
  BY <1>2, <1>3, <1>4, <1>5 DEF Inv, Conservation

\* or when such a timer is over.
LEMMA CountedOnDelivery ==
    ASSUME Inv, Cardinality(heap') = Cardinality(heap) - 1,
           \/ stats' = [stats EXCEPT !.delivered = @ + 1]
           \/ stats' = [stats EXCEPT !.unknown = @ + 1]
    PROVE  stats' \in Counters /\ Conservation'
<1>1. stats \in Counters /\ IsFiniteSet(heap)
  BY DEF Inv, Typed
<1>2. Cardinality(heap) \in Nat
  BY <1>1, FS_CardinalityType
<1>3. /\ stats.sent \in Nat /\ stats.delivered \in Nat /\ stats.unknown \in Nat
      /\ stats.partition \in Nat /\ stats.loss \in Nat
  BY <1>1, CountsAreNumbers
<1>4. CASE stats' = [stats EXCEPT !.delivered = @ + 1]
  <2>1. stats' \in Counters /\ stats'.delivered = stats.delivered + 1
    BY <1>1, <1>3, <1>4 DEF Counters
  <2>2. /\ stats'.sent = stats.sent /\ stats'.unknown = stats.unknown
        /\ stats'.partition = stats.partition /\ stats'.loss = stats.loss
    BY <1>1, <1>4 DEF Counters
  <2> QED
    BY <1>2, <1>3, <2>1, <2>2 DEF Inv, Conservation
<1>5. CASE stats' = [stats EXCEPT !.unknown = @ + 1]
  <2>1. stats' \in Counters /\ stats'.unknown = stats.unknown + 1
    BY <1>1, <1>3, <1>5 DEF Counters
  <2>2. /\ stats'.sent = stats.sent /\ stats'.delivered = stats.delivered
        /\ stats'.partition = stats.partition /\ stats'.loss = stats.loss
    BY <1>1, <1>5 DEF Counters
  <2> QED
    BY <1>2, <1>3, <2>1, <2>2 DEF Inv, Conservation
<1> QED
  BY <1>4, <1>5

\* Timers that were there keep numbers of their own, and below the next ones.
LEMMA OldTimersKeep ==
    ASSUME Inv, heap' \subseteq heap, seq' \in [Node -> Nat],
           \A n \in Node : seq[n] <= seq'[n]
    PROVE  HeapIsFresh' /\ HeapIsDistinct'
<1>1. ASSUME NEW e \in heap'
      PROVE  e.what.seq < seq'[e.what.src]
  <2>1. e \in heap /\ e.what.seq \in Nat /\ e.what.src \in Node
    BY <1>1 DEF Inv, Typed, Timer, Message
  <2>2. e.what.seq < seq[e.what.src] /\ seq \in [Node -> Nat]
    BY <2>1 DEF Inv, HeapIsFresh, Typed
  <2> QED
    BY <2>1, <2>2
<1> QED
  BY <1>1 DEF Inv, HeapIsFresh, HeapIsDistinct

\* The inboxes as they are, numbered below the next ones.
LEMMA OldInboxesKeep ==
    ASSUME Inv, inbox' = inbox, seq' \in [Node -> Nat],
           \A n \in Node : seq[n] <= seq'[n]
    PROVE  InboxIsFresh'
<1> SUFFICES ASSUME NEW n \in Node, NEW i \in DOMAIN inbox[n]
             PROVE  inbox[n][i].seq < seq'[inbox[n][i].src]
  BY DEF InboxIsFresh
<1>1. inbox[n] \in Seq(Message)
  BY DEF Inv, Typed
<1>2. inbox[n][i] \in Message
  BY <1>1
<1>3. inbox[n][i].seq \in Nat /\ inbox[n][i].src \in Node
  BY <1>2 DEF Message
<1>4. inbox[n][i].seq < seq[inbox[n][i].src] /\ seq \in [Node -> Nat]
  BY DEF Inv, InboxIsFresh, Typed
<1> QED
  BY <1>3, <1>4

\* A message that takes its time is one more timer, the only one of its id and
\* of its sender's number.
LEMMA PushKeeps ==
    ASSUME Inv, NEW m \in Message, NEW at \in Nat, Push(at, m),
           m.seq = seq[m.src], seq' = [seq EXCEPT ![m.src] = @ + 1]
    PROVE  /\ heap' \subseteq Timer /\ IsFiniteSet(heap') /\ counter' \in Nat
           /\ Cardinality(heap') = Cardinality(heap) + 1
           /\ IdsAreFresh' /\ HeapIsFresh' /\ HeapIsDistinct'
<1> DEFINE t == [at |-> at, id |-> counter, what |-> m, cancelled |-> FALSE]
<1>1. heap' = heap \cup {t} /\ counter' = counter + 1
  BY DEF Push
<1>2. t \in Timer /\ t \notin heap /\ counter \in Nat
  BY DEF Inv, Typed, IdsAreFresh, Timer
<1>3. IsFiniteSet(heap') /\ Cardinality(heap') = Cardinality(heap) + 1
  <2>1. IsFiniteSet(heap)
    BY DEF Inv, Typed
  <2> QED
    BY <1>1, <1>2, <2>1, FS_AddElement
<1>4. heap' \subseteq Timer /\ counter' \in Nat
  <2>1. heap \subseteq Timer
    BY DEF Inv, Typed
  <2>2. heap' \subseteq Timer
    BY <1>1, <1>2, <2>1
  <2>3. counter' \in Nat
    BY <1>1, <1>2
  <2> QED
    BY <2>2, <2>3
<1>5. IdsAreFresh'
  <2>1. ASSUME NEW e \in heap
        PROVE  e.id < counter + 1
    <3>1. e.id < counter /\ e.id \in Nat
      BY <2>1 DEF Inv, IdsAreFresh, Typed, Timer
    <3> QED
      BY <1>2, <3>1
  <2>2. t.id < counter + 1
    BY <1>2
  <2> QED
    BY <1>1, <2>1, <2>2 DEF IdsAreFresh
<1>6. seq \in [Node -> Nat] /\ m.src \in Node
  BY DEF Inv, Typed, Message
<1>7. ASSUME NEW e \in heap
      PROVE  /\ e.what.seq \in Nat /\ e.what.src \in Node
             /\ e.what.seq < seq[e.what.src]
  BY DEF Inv, Typed, Timer, Message, HeapIsFresh
<1>8. HeapIsFresh'
  <2>1. ASSUME NEW e \in heap
        PROVE  e.what.seq < seq'[e.what.src]
    BY <1>6, <1>7
  <2>2. t.what.seq < seq'[t.what.src]
    BY <1>6
  <2> QED
    BY <1>1, <2>1, <2>2 DEF HeapIsFresh
<1>9. HeapIsDistinct'
  <2>1. ASSUME NEW e \in heap
        PROVE  <<e.what.src, e.what.seq>> # <<t.what.src, t.what.seq>>
    BY <1>6, <1>7
  <2> QED
    BY <1>1, <2>1 DEF Inv, HeapIsDistinct
<1> QED
  BY <1>3, <1>4, <1>5, <1>8, <1>9

-----------------------------------------------------------------------------
\* A message is dropped, is there at once, or becomes a timer.
LEMMA SendStep ==
    ASSUME Inv, NEW src \in Node, NEW dst \in Node, Send(src, dst)
    PROVE  Inv'
<1>1. /\ seq \in [Node -> Nat] /\ seq' = [seq EXCEPT ![src] = @ + 1]
      /\ stats \in Counters /\ heap \subseteq Timer /\ IsFiniteSet(heap)
      /\ now \in Nat /\ counter \in Nat /\ inbox \in [Node -> Seq(Message)]
  BY DEF Inv, Typed, Send
<1>2. seq' \in [Node -> Nat] /\ \A n \in Node : seq[n] <= seq'[n]
  BY <1>1
<1>3. ASSUME NEW why \in {"unknown", "partition", "loss"}, Drop(why)
      PROVE  Inv'
  <2>1. UNCHANGED <<clock, inbox>>
    BY <1>3 DEF Drop
  <2>2. stats' \in Counters /\ Conservation'
    <3>1. stats' = [stats EXCEPT !.sent = @ + 1, ![why] = @ + 1] /\ heap' = heap
      BY <1>3, <2>1 DEF Drop, Count, clock
    <3> QED
      BY <3>1, CountedAtOnce
  <2>3. Typed' /\ IdsAreFresh'
    BY <1>1, <1>2, <2>1, <2>2 DEF Typed, clock, Inv, IdsAreFresh
  <2>4. HeapIsFresh' /\ HeapIsDistinct' /\ InboxIsFresh'
    BY <1>2, <2>1, OldTimersKeep, OldInboxesKeep DEF clock
  <2> QED
    BY <2>2, <2>3, <2>4 DEF Inv
<1>4. ASSUME NEW delay \in Delay,
             NEW m, m = [src |-> src, dst |-> dst, seq |-> seq[src], delay |-> delay],
             IF AtOnce(now + delay)
             THEN Put(m) /\ Count("delivered") /\ UNCHANGED clock
             ELSE /\ Push(now + delay, m)
                  /\ stats' = [stats EXCEPT !.sent = @ + 1]
                  /\ UNCHANGED inbox
      PROVE  Inv'
  <2>1. delay \in Nat
    BY <1>4, NetworkAssumption
  <2>2. m \in Message /\ m.src = src /\ m.seq = seq[src]
    BY <1>1, <1>4, <2>1 DEF Message
  <2>3. CASE AtOnce(now + delay)
    <3>1. Put(m) /\ Count("delivered") /\ UNCHANGED clock
      BY <1>4, <2>3
    <3>2. inbox' \in [Node -> Seq(Message)] /\ InboxIsFresh'
      BY <1>1, <1>2, <2>2, <3>1, PutKeeps
    <3>3. HeapIsFresh' /\ HeapIsDistinct'
      BY <1>2, <3>1, OldTimersKeep DEF clock
    <3>4. stats' \in Counters /\ Conservation'
      <4>1. stats' = [stats EXCEPT !.sent = @ + 1, !["delivered"] = @ + 1] /\ heap' = heap
        BY <3>1 DEF Count, clock
      <4> QED
        BY <4>1, CountedAtOnce
    <3>5. Typed' /\ IdsAreFresh'
      BY <1>1, <1>2, <3>1, <3>2, <3>4 DEF Typed, clock, Inv, IdsAreFresh
    <3> QED
      BY <3>2, <3>3, <3>4, <3>5 DEF Inv
  <2>4. CASE ~ AtOnce(now + delay)
    <3>1. /\ Push(now + delay, m) /\ stats' = [stats EXCEPT !.sent = @ + 1]
          /\ inbox' = inbox
      BY <1>4, <2>4
    <3>2. /\ heap' \subseteq Timer /\ IsFiniteSet(heap') /\ counter' \in Nat
          /\ Cardinality(heap') = Cardinality(heap) + 1
          /\ IdsAreFresh' /\ HeapIsFresh' /\ HeapIsDistinct'
      <4>1. now + delay \in Nat
        BY <1>1, <2>1
      <4>2. m.seq = seq[m.src] /\ seq' = [seq EXCEPT ![m.src] = @ + 1]
        BY <1>1, <2>2
      <4> QED
        BY <2>2, <3>1, <4>1, <4>2, PushKeeps
    <3>3. InboxIsFresh'
      BY <1>2, <3>1, OldInboxesKeep
    <3>4. stats' \in Counters /\ Conservation'
      BY <3>1, <3>2, CountedAsTimer
    <3>5. Typed'
      BY <1>1, <1>2, <3>1, <3>2, <3>4 DEF Typed, Push
    <3> QED
      BY <3>2, <3>3, <3>4, <3>5 DEF Inv
  <2> QED
    BY <2>3, <2>4
<1>5. \/ \E why \in {"unknown", "partition", "loss"} : Drop(why)
      \/ \E delay \in Delay :
            LET m == [src |-> src, dst |-> dst, seq |-> seq[src], delay |-> delay] IN
            IF AtOnce(now + delay)
            THEN Put(m) /\ Count("delivered") /\ UNCHANGED clock
            ELSE /\ Push(now + delay, m)
                 /\ stats' = [stats EXCEPT !.sent = @ + 1]
                 /\ UNCHANGED inbox
  BY DEF Send
<1> QED
  BY <1>3, <1>4, <1>5

\* A timer becomes a message, or is counted as lost with whom it was for.
LEMMA DeliverStep ==
    ASSUME Inv, NEW e \in heap, Deliver(e)
    PROVE  Inv'
<1>1. /\ heap' = heap \ {e} /\ UNCHANGED <<now, counter, seq>>
      /\ seq \in [Node -> Nat] /\ stats \in Counters /\ heap \subseteq Timer
      /\ IsFiniteSet(heap) /\ inbox \in [Node -> Seq(Message)]
  BY DEF Deliver, Inv, Typed
<1>2. /\ IsFiniteSet(heap') /\ Cardinality(heap) \in Nat
      /\ Cardinality(heap') = Cardinality(heap) - 1
  BY <1>1, FS_RemoveElement, FS_CardinalityType
<1>3. e.what \in Message /\ e.what.seq < seq[e.what.src]
  BY <1>1 DEF Timer, Inv, HeapIsFresh
<1>4. HeapIsFresh' /\ HeapIsDistinct' /\ IdsAreFresh'
  BY <1>1, OldTimersKeep DEF Inv, IdsAreFresh
<1>5. \/ Put(e.what) /\ stats' = [stats EXCEPT !.delivered = @ + 1]
      \/ stats' = [stats EXCEPT !.unknown = @ + 1] /\ inbox' = inbox
  BY DEF Deliver
<1>6. inbox' \in [Node -> Seq(Message)] /\ InboxIsFresh'
  <2>1. CASE Put(e.what)
    BY <1>1, <1>3, <2>1, PutKeeps
  <2>2. CASE inbox' = inbox
    BY <1>1, <2>2, OldInboxesKeep
  <2> QED
    BY <1>5, <2>1, <2>2
<1>7. stats' \in Counters /\ Conservation'
  BY <1>2, <1>5, CountedOnDelivery
<1>8. Typed'
  BY <1>1, <1>2, <1>6, <1>7 DEF Inv, Typed
<1> QED
  BY <1>4, <1>6, <1>7, <1>8 DEF Inv

\* Everything else leaves the messages alone, but for the inbox of someone who
\* comes, goes or receives.
LEMMA OtherStep ==
    ASSUME Inv,
           Membership \/ Faults \/ (\E n \in Node : Receive(n)) \/ Drive \/ Arrived
    PROVE  Inv'
<1>1. inbox \in [Node -> Seq(Message)] /\ now \in Nat
  BY DEF Inv, Typed
<1>2. CASE Membership
  <2>1. PICK n \in Node : Register(n) \/ \E crash \in BOOLEAN : Unregister(n, crash)
    BY <1>2 DEF Membership
  <2>2. UNCHANGED <<heap, counter, seq, stats, now>> /\ inbox' = [inbox EXCEPT ![n] = <<>>]
    BY <2>1 DEF Register, Unregister, clock
  <2> QED
    BY <1>1, <2>2, QuietStep
<1>3. CASE Faults
  <2>1. UNCHANGED <<heap, counter, seq, stats, now, inbox>>
    BY <1>3 DEF Faults, SetLatency, SetLoss, SetLink, ClearLink, Partition, Heal,
                ResetFaults, clock, members
  <2> QED
    BY <1>1, <2>1, QuietStep
<1>4. CASE \E n \in Node : Receive(n)
  <2>1. PICK n \in Node : Receive(n)
    BY <1>4
  <2>2. /\ UNCHANGED <<heap, counter, seq, stats, now>>
        /\ inbox[n] # <<>> /\ inbox' = [inbox EXCEPT ![n] = Tail(@)]
    BY <2>1 DEF Receive, clock
  <2>3. Tail(inbox[n]) \in Seq(Message)
    BY <1>1, <2>2
  <2> QED
    BY <1>1, <2>2, <2>3, QuietStep
<1>5. CASE Drive
  <2>1. UNCHANGED <<heap, counter, seq, stats, inbox>>
    BY <1>5 DEF Drive, AdvanceTo, members
  <2>2. PICK t \in (now + 1)..(MaxTime + 1) \cup NextDeadlines : now' = t
    BY <1>5 DEF Drive, AdvanceTo
  <2>3. now' \in Nat
    <3>1. NextDeadlines \subseteq Nat
      BY DEF NextDeadlines, Pruned, Inv, Typed, Timer
    <3> QED
      BY <1>1, <2>2, <3>1, NetworkAssumption
  <2> QED
    BY <1>1, <2>1, <2>3, QuietStep
<1>6. CASE Arrived
  <2>1. UNCHANGED <<heap, counter, seq, stats, now, inbox>>
    BY <1>6 DEF Arrived, Arrive, members
  <2> QED
    BY <1>1, <2>1, QuietStep
<1> QED
  BY <1>2, <1>3, <1>4, <1>5, <1>6

\* Nor does a step that changes nothing.
LEMMA StutterStep ==
    ASSUME Inv, UNCHANGED vars
    PROVE  Inv'
<1>1. UNCHANGED <<heap, counter, seq, stats, now, inbox>>
  BY DEF vars, clock, members
<1> QED
  BY <1>1, QuietStep DEF Inv, Typed

\* Every step keeps the accounts.
LEMMA NextInv == Inv /\ [Next]_vars => Inv'
<1> SUFFICES ASSUME Inv, [Next]_vars PROVE Inv'
  OBVIOUS
<1>1. CASE \E src \in Node : \E dst \in Node \ {src} : Send(src, dst)
  BY <1>1, SendStep
<1>2. CASE \E e \in heap : Deliver(e)
  BY <1>2, DeliverStep
<1>3. CASE Membership \/ Faults \/ (\E n \in Node : Receive(n)) \/ Drive \/ Arrived
  BY <1>3, OtherStep
<1>4. CASE UNCHANGED vars
  BY <1>4, StutterStep
<1> QED
  BY <1>1, <1>2, <1>3, <1>4 DEF Next

\* Whatever crashes, is split or is slow, SimulatedNetwork counts each message
\* once, as delivered, dropped for one reason or still a timer, and no two
\* messages of a sender have one number.
THEOREM EveryMessageIsAccounted == Spec => []MessagesAreAccounted
<1>1. Inv => MessagesAreAccounted
  BY InvAccounts
<1> QED
  BY <1>1, InitInv, NextInv, PTL DEF Spec
-----------------------------------------------------------------------------
(***************************************************************************)
(* Times and order.                                                        *)
(***************************************************************************)
\* What advance_to has come to, and what it leaves: no timer is overdue, nobody
\* cancels one, and one is due as long after it was sent as its message takes.
Punctual ==
    /\ target \in {NotAdvancing, now}
    /\ OnTime
    /\ \A e \in heap :
          ~ e.cancelled /\ e.what.delay > 0 /\ e.at <= now + e.what.delay

\* The timers of the messages that take equally long, in the order sent.
TimersInOrder ==
    \A e, f \in heap :
        /\ e.what.src = f.what.src /\ e.what.delay = f.what.delay
        /\ e.what.seq < f.what.seq
        => Before(e, f)

\* What waits in an inbox was sent before what is still to come.
InboxesFirst ==
    \A n \in Node : \A i \in DOMAIN inbox[n] : \A e \in heap :
        /\ e.what.src = inbox[n][i].src /\ e.what.delay = inbox[n][i].delay
        /\ e.what.dst = n
        => inbox[n][i].seq < e.what.seq

\* The invariant of times and order.
OrderInv == Inv /\ Punctual /\ TimersInOrder /\ InboxesFirst /\ SameDelayInOrder

\* Of some timers one is due first.
LEMMA OneIsFirst ==
  ASSUME NEW S \in SUBSET Timer, S # {}
  PROVE  \E e \in S : \A f \in S : e.at <= f.at
<1> DEFINE T == {e.at : e \in S}
<1>1. T \in SUBSET Nat /\ T # {}
  BY DEF Timer
<1>2. PICK y \in T : \A x \in T : ~ (<<x, y>> \in OpToRel(<, Nat))
  BY <1>1, WFMin, NatLessThanWellFounded
<1>3. \A x \in T : y <= x
  <2> TAKE x \in T
  <2>1. x \in Nat /\ y \in Nat
    BY <1>1
  <2>2. <<x, y>> \in Nat \X Nat
    BY <2>1
  <2>3. <<x, y>>[1] = x /\ <<x, y>>[2] = y
    OBVIOUS
  <2>4. ~ (x < y)
    BY <1>2, <2>2, <2>3 DEF OpToRel
  <2> QED BY <2>1, <2>4
<1> QED BY <1>2, <1>3

\* A driver that asks for the next deadline passes no timer.
LEMMA DriverPassesNone ==
  ASSUME Inv, Punctual, NEW t \in Int, \A d \in NextDeadlines : t <= d, NEW e \in heap
  PROVE  t <= e.at
<1>1. heap \in SUBSET Timer /\ Pruned(heap) = heap
  BY DEF Inv, Typed, Punctual, Pruned, Live
<1>2. PICK f \in heap : \A g \in heap : f.at <= g.at
  BY <1>1, OneIsFirst
<1>3. f.at \in NextDeadlines
  BY <1>1, <1>2 DEF NextDeadlines
<1>4. f.at \in Nat /\ e.at \in Nat
  BY <1>1 DEF Timer
<1> QED BY <1>2, <1>3, <1>4

\* Nothing is due before anything is sent.
LEMMA InitOrder == Init => OrderInv
<1> SUFFICES ASSUME Init PROVE OrderInv
  OBVIOUS
<1>1. Inv
  BY InitInv
<1>2. heap = {} /\ target = NotAdvancing /\ \A n \in Node : inbox[n] = <<>>
  BY DEF Init, InitClock
<1> QED BY <1>1, <1>2 DEF OrderInv, Punctual, OnTime, HeapIsAhead, TimersInOrder,
                         InboxesFirst, SameDelayInOrder

\* An inbox that loses messages keeps the order of the rest.
LEMMA InboxesShrink ==
  ASSUME OrderInv, heap' = heap,
         \A n \in Node : \/ inbox'[n] \in {inbox[n], <<>>}
                         \/ inbox[n] # <<>> /\ inbox'[n] = Tail(inbox[n])
  PROVE  InboxesFirst' /\ SameDelayInOrder'
<1>1. ASSUME NEW n \in Node
      PROVE  \E k \in {0, 1} : \A i \in DOMAIN inbox'[n] :
                i \in Nat /\ i + k \in DOMAIN inbox[n] /\ inbox'[n][i] = inbox[n][i + k]
  <2>1. inbox[n] \in Seq(Message)
    BY DEF OrderInv, Inv, Typed
  <2>2. CASE inbox'[n] = inbox[n]
    <3>1. \A i \in DOMAIN inbox'[n] :
             i \in Nat /\ i + 0 \in DOMAIN inbox[n] /\ inbox'[n][i] = inbox[n][i + 0]
      BY <2>1, <2>2
    <3> QED BY <3>1
  <2>3. CASE inbox'[n] = <<>>
    BY <2>3
  <2>4. CASE inbox[n] # <<>> /\ inbox'[n] = Tail(inbox[n])
    <3>1. \A i \in DOMAIN inbox'[n] :
             i \in Nat /\ i + 1 \in DOMAIN inbox[n] /\ inbox'[n][i] = inbox[n][i + 1]
      BY <2>1, <2>4
    <3> QED BY <3>1
  <2> QED BY <2>2, <2>3, <2>4
<1>2. InboxesFirst'
  BY <1>1 DEF OrderInv, InboxesFirst
<1>3. SameDelayInOrder'
  <2> SUFFICES ASSUME NEW n \in Node, NEW i \in DOMAIN inbox'[n], NEW j \in DOMAIN inbox'[n],
                      i < j, inbox'[n][i].src = inbox'[n][j].src,
                      inbox'[n][i].delay = inbox'[n][j].delay
               PROVE  inbox'[n][i].seq < inbox'[n][j].seq
    BY DEF SameDelayInOrder
  <2>1. PICK k \in {0, 1} : \A l \in DOMAIN inbox'[n] :
           l \in Nat /\ l + k \in DOMAIN inbox[n] /\ inbox'[n][l] = inbox[n][l + k]
    BY <1>1
  <2>2. i + k < j + k
    BY <2>1
  <2> QED BY <2>1, <2>2 DEF OrderInv, SameDelayInOrder
<1> QED BY <1>2, <1>3
\* What is put last into an inbox.
LEMMA PutLast ==
  ASSUME inbox \in [Node -> Seq(Message)], NEW m \in Message, Put(m)
  PROVE  /\ \A n \in Node \ {m.dst} : inbox'[n] = inbox[n]
         /\ Len(inbox[m.dst]) \in Nat
         /\ DOMAIN inbox'[m.dst] = 1..(Len(inbox[m.dst]) + 1)
         /\ DOMAIN inbox[m.dst] = 1..Len(inbox[m.dst])
         /\ inbox'[m.dst][Len(inbox[m.dst]) + 1] = m
         /\ \A i \in 1..Len(inbox[m.dst]) : inbox'[m.dst][i] = inbox[m.dst][i]
<1>1. m.dst \in Node /\ inbox[m.dst] \in Seq(Message)
  BY DEF Message
<1>2. inbox'[m.dst] = Append(inbox[m.dst], m)
  BY <1>1 DEF Put
<1>3. \A n \in Node \ {m.dst} : inbox'[n] = inbox[n]
  BY DEF Put
<1> QED BY <1>1, <1>2, <1>3

\* A message put behind those sent before it, and before those still to come.
LEMMA PutInOrder ==
  ASSUME OrderInv, NEW m \in Message, Put(m), heap' \subseteq heap,
         \A i \in DOMAIN inbox[m.dst] :
            inbox[m.dst][i].src = m.src /\ inbox[m.dst][i].delay = m.delay
            => inbox[m.dst][i].seq < m.seq,
         \A e \in heap' : e.what.src = m.src /\ e.what.delay = m.delay
                          => m.seq < e.what.seq
  PROVE  InboxesFirst' /\ SameDelayInOrder'
<1>1. /\ inbox \in [Node -> Seq(Message)]
      /\ InboxesFirst /\ SameDelayInOrder
  BY DEF OrderInv, Inv, Typed
<1> DEFINE len == Len(inbox[m.dst])
<1>2. /\ \A n \in Node \ {m.dst} : inbox'[n] = inbox[n]
      /\ len \in Nat
      /\ DOMAIN inbox'[m.dst] = 1..(len + 1)
      /\ DOMAIN inbox[m.dst] = 1..len
      /\ inbox'[m.dst][len + 1] = m
      /\ \A i \in 1..len : inbox'[m.dst][i] = inbox[m.dst][i]
  BY <1>1, PutLast
<1> HIDE DEF len
<1>3. ASSUME NEW n \in Node, NEW i \in DOMAIN inbox'[n], NEW e \in heap',
             e.what.src = inbox'[n][i].src, e.what.delay = inbox'[n][i].delay,
             e.what.dst = n
      PROVE  inbox'[n][i].seq < e.what.seq
  <2>1. e \in heap
    BY <1>3
  <2>2. CASE n # m.dst
    <3>1. inbox'[n] = inbox[n]
      BY <1>2, <2>2
    <3> QED BY <1>1, <1>3, <2>1, <3>1 DEF InboxesFirst
  <2>3. CASE n = m.dst /\ i = len + 1
    BY <1>2, <1>3, <2>3
  <2>4. CASE n = m.dst /\ i # len + 1
    <3>1. i \in 1..len
      BY <1>2, <1>3, <2>4
    <3>2. i \in DOMAIN inbox[n] /\ inbox'[n][i] = inbox[n][i]
      BY <1>2, <2>4, <3>1
    <3> QED BY <1>1, <1>3, <2>1, <3>2 DEF InboxesFirst
  <2> QED BY <2>2, <2>3, <2>4
<1>4. ASSUME NEW n \in Node, NEW i \in DOMAIN inbox'[n], NEW j \in DOMAIN inbox'[n],
             i < j, inbox'[n][i].src = inbox'[n][j].src,
             inbox'[n][i].delay = inbox'[n][j].delay
      PROVE  inbox'[n][i].seq < inbox'[n][j].seq
  <2>1. CASE n # m.dst
    <3>1. inbox'[n] = inbox[n]
      BY <1>2, <2>1
    <3> QED BY <1>1, <1>4, <3>1 DEF SameDelayInOrder
  <2>2. CASE n = m.dst
    <3>1. i \in 1..len /\ j \in 1..(len + 1)
      BY <1>2, <1>4, <2>2
    <3>2. i \in DOMAIN inbox[n] /\ inbox'[n][i] = inbox[n][i]
      BY <1>2, <2>2, <3>1
    <3>3. CASE j = len + 1
      BY <1>2, <1>4, <2>2, <3>2, <3>3
    <3>4. CASE j # len + 1
      <4>1. j \in 1..len
        BY <1>2, <3>1, <3>4
      <4>2. j \in DOMAIN inbox[n] /\ inbox'[n][j] = inbox[n][j]
        BY <1>2, <2>2, <4>1
      <4> QED BY <1>1, <1>4, <3>2, <4>2 DEF SameDelayInOrder
    <3> QED BY <3>3, <3>4
  <2> QED BY <2>1, <2>2
<1> QED BY <1>3, <1>4 DEF InboxesFirst, SameDelayInOrder

\* Sending keeps the order: a message that is there at once took no time, as no
\* timer does, and a timer comes after all those it could overtake.
LEMMA SendInOrder ==
  ASSUME OrderInv, NEW src \in Node, NEW dst \in Node, Send(src, dst)
  PROVE  OrderInv'
<1>1. /\ Inv' /\ Inv /\ Punctual /\ TimersInOrder /\ InboxesFirst /\ SameDelayInOrder
  BY SendStep DEF OrderInv
<1>2. /\ now \in Nat /\ counter \in Nat /\ heap \subseteq Timer
      /\ seq \in [Node -> Nat] /\ inbox \in [Node -> Seq(Message)]
  BY <1>1 DEF Inv, Typed
<1>3. ASSUME UNCHANGED <<clock, inbox>>
      PROVE  OrderInv'
  BY <1>1, <1>3 DEF OrderInv, Punctual, OnTime, HeapIsAhead, TimersInOrder, Before,
                    InboxesFirst, SameDelayInOrder, clock
<1>4. ASSUME NEW delay \in Delay,
             NEW m, m = [src |-> src, dst |-> dst, seq |-> seq[src], delay |-> delay],
             IF AtOnce(now + delay)
             THEN Put(m) /\ Count("delivered") /\ UNCHANGED clock
             ELSE /\ Push(now + delay, m)
                  /\ stats' = [stats EXCEPT !.sent = @ + 1]
                  /\ UNCHANGED inbox
      PROVE  OrderInv'
  <2>1. delay \in Nat
    BY <1>4, NetworkAssumption
  <2>2. m \in Message /\ m.src = src /\ m.dst = dst /\ m.seq = seq[src] /\ m.delay = delay
    BY <1>2, <1>4, <2>1 DEF Message
  <2>3. \A n \in Node : \A i \in DOMAIN inbox[n] :
           inbox[n][i].src = src => inbox[n][i].seq < m.seq
    BY <1>1, <2>2 DEF Inv, InboxIsFresh
  <2>4. \A e \in heap : e.what.src = src => e.what.seq < m.seq
    BY <1>1, <2>2 DEF Inv, HeapIsFresh
  <2>5. CASE AtOnce(now + delay)
    <3>1. Put(m) /\ UNCHANGED clock
      BY <1>4, <2>5
    <3>2. delay = 0
      BY <1>2, <2>1, <2>5 DEF AtOnce
    <3>3. \A e \in heap' : e.what.delay # m.delay
      <4>1. \A e \in heap : e.what.delay > 0 /\ e.what.delay \in Nat
        BY <1>1, <1>2 DEF Punctual, Timer, Message
      <4> QED BY <2>2, <3>1, <3>2, <4>1 DEF clock
    <3>4. heap' \subseteq heap
      BY <3>1 DEF clock
    <3>5. \A i \in DOMAIN inbox[m.dst] :
             inbox[m.dst][i].src = m.src /\ inbox[m.dst][i].delay = m.delay
             => inbox[m.dst][i].seq < m.seq
      BY <2>2, <2>3
    <3>6. InboxesFirst' /\ SameDelayInOrder'
      BY <2>2, <3>1, <3>3, <3>4, <3>5, PutInOrder
    <3>7. Punctual' /\ TimersInOrder'
      BY <1>1, <3>1 DEF clock, Punctual, OnTime, HeapIsAhead, TimersInOrder, Before
    <3> QED BY <1>1, <3>6, <3>7 DEF OrderInv
  <2>6. CASE ~ AtOnce(now + delay)
    <3> DEFINE t == [at |-> now + delay, id |-> counter, what |-> m, cancelled |-> FALSE]
    <3>1. /\ heap' = heap \cup {t} /\ UNCHANGED <<now, target, inbox>>
      BY <1>4, <2>6 DEF Push
    <3>2. delay > 0
      BY <1>2, <2>1, <2>6 DEF AtOnce
    <3>3. /\ t.at = now + delay /\ t.id = counter /\ t.what = m /\ ~ t.cancelled
      OBVIOUS
    <3> HIDE DEF t
    <3>4. Punctual'
      <4>1. t.at > now
        BY <1>2, <2>1, <3>2, <3>3
      <4>2. OnTime'
        <5>1. t.at >= now
          BY <1>2, <2>1, <3>3
        <5>2. \A e \in heap' : e.at >= now
          BY <1>1, <3>1, <5>1 DEF Punctual, OnTime
        <5>3. target = NotAdvancing => \A e \in heap' : e.at > now
          BY <1>1, <3>1, <4>1 DEF Punctual, OnTime, HeapIsAhead
        <5> QED BY <3>1, <5>2, <5>3 DEF OnTime, HeapIsAhead
      <4>3. ~ t.cancelled /\ t.what.delay > 0 /\ t.at <= now + t.what.delay
        BY <1>2, <2>1, <2>2, <3>2, <3>3
      <4> QED BY <1>1, <3>1, <4>2, <4>3 DEF Punctual
    <3>5. TimersInOrder'
      <4>1. ASSUME NEW e \in heap, e.what.src = src, e.what.delay = delay
            PROVE  Before(e, t)
        <5>1. e.at \in Nat /\ e.id \in Nat
          BY <1>2 DEF Timer
        <5>2. e.at <= now + delay /\ e.id < counter
          BY <1>1, <4>1 DEF Punctual, Inv, IdsAreFresh
        <5>3. now + delay \in Nat
          BY <1>2, <2>1
        <5> QED BY <3>3, <5>1, <5>2, <5>3 DEF Before
      <4>2. ASSUME NEW e \in heap, e.what.src = src
            PROVE  ~ (m.seq < e.what.seq)
        <5>1. e.what.seq \in Nat /\ m.seq \in Nat
          BY <1>2, <2>2 DEF Timer, Message
        <5> QED BY <2>4, <4>2, <5>1
      <4>3. ~ (m.seq < m.seq)
        BY <2>2 DEF Message
      <4> QED BY <1>1, <2>2, <3>1, <3>3, <4>1, <4>2, <4>3 DEF TimersInOrder
    <3>6. InboxesFirst' /\ SameDelayInOrder'
      BY <1>1, <2>2, <2>3, <3>1, <3>3 DEF InboxesFirst, SameDelayInOrder
    <3> QED BY <1>1, <3>4, <3>5, <3>6 DEF OrderInv
  <2> QED BY <2>5, <2>6
<1>5. \/ \E why \in {"unknown", "partition", "loss"} : Drop(why)
      \/ \E delay \in Delay :
            LET m == [src |-> src, dst |-> dst, seq |-> seq[src], delay |-> delay] IN
            IF AtOnce(now + delay)
            THEN Put(m) /\ Count("delivered") /\ UNCHANGED clock
            ELSE /\ Push(now + delay, m)
                 /\ stats' = [stats EXCEPT !.sent = @ + 1]
                 /\ UNCHANGED inbox
  BY DEF Send
<1>6. ASSUME NEW why, Drop(why)
      PROVE  UNCHANGED <<clock, inbox>>
  BY <1>6 DEF Drop
<1> QED BY <1>3, <1>4, <1>5, <1>6

\* What is delivered first was sent first.
LEMMA DeliverInOrder ==
  ASSUME OrderInv, NEW e \in heap, Deliver(e)
  PROVE  OrderInv'
<1>1. /\ Inv' /\ Inv /\ Punctual /\ TimersInOrder /\ InboxesFirst /\ SameDelayInOrder
  BY DeliverStep DEF OrderInv
<1>2. /\ heap' = heap \ {e} /\ UNCHANGED <<now, target>> /\ heap \subseteq Timer
      /\ inbox \in [Node -> Seq(Message)] /\ \A f \in heap \ {e} : Before(e, f)
  BY <1>1 DEF Deliver, Pops, IsEarliest, Inv, Typed
<1>3. e.what \in Message
  BY <1>2 DEF Timer
<1>4. Punctual' /\ TimersInOrder'
  BY <1>1, <1>2 DEF Punctual, OnTime, HeapIsAhead, TimersInOrder, Before
<1>5. ASSUME NEW f \in heap', f.what.src = e.what.src, f.what.delay = e.what.delay
      PROVE  e.what.seq < f.what.seq
  <2>1. f \in heap /\ f # e
    BY <1>2
  <2>2. /\ e.at \in Nat /\ f.at \in Nat /\ e.id \in Nat /\ f.id \in Nat
        /\ e.what.seq \in Nat /\ f.what.seq \in Nat
    BY <1>2, <2>1 DEF Timer, Message
  <2>3. ~ Before(f, e)
    BY <1>2, <2>1, <2>2 DEF Before
  <2>4. ~ (f.what.seq < e.what.seq)
    BY <1>1, <1>5, <2>1, <2>3 DEF TimersInOrder
  <2>5. e.what.seq # f.what.seq
    BY <1>1, <1>5, <2>1 DEF Inv, HeapIsDistinct
  <2> QED BY <2>2, <2>4, <2>5
<1>6. CASE Put(e.what)
  <2>1. \A i \in DOMAIN inbox[e.what.dst] :
           inbox[e.what.dst][i].src = e.what.src /\ inbox[e.what.dst][i].delay = e.what.delay
           => inbox[e.what.dst][i].seq < e.what.seq
    BY <1>1, <1>3 DEF InboxesFirst, Message
  <2>2. InboxesFirst' /\ SameDelayInOrder'
    BY <1>2, <1>3, <1>5, <1>6, <2>1, PutInOrder
  <2> QED BY <1>1, <1>4, <2>2 DEF OrderInv
<1>7. CASE inbox' = inbox
  <2>1. InboxesFirst' /\ SameDelayInOrder'
    BY <1>1, <1>2, <1>7 DEF InboxesFirst, SameDelayInOrder
  <2> QED BY <1>1, <1>4, <2>1 DEF OrderInv
<1> QED BY <1>6, <1>7 DEF Deliver

\* The driver goes to the next deadline and no further, and advance_to returns
\* when nothing is due.
LEMMA TimePasses ==
  ASSUME OrderInv, Drive \/ Arrived
  PROVE  OrderInv'
<1>1. /\ Inv' /\ Inv /\ Punctual /\ TimersInOrder /\ InboxesFirst /\ SameDelayInOrder
  BY OtherStep DEF OrderInv
<1>2. heap' = heap /\ inbox' = inbox /\ heap \subseteq Timer /\ now \in Nat
  BY <1>1 DEF Drive, Arrived, AdvanceTo, Arrive, members, Inv, Typed
<1>3. TimersInOrder' /\ InboxesFirst' /\ SameDelayInOrder'
  BY <1>1, <1>2 DEF TimersInOrder, Before, InboxesFirst, SameDelayInOrder
<1>4. CASE Drive
  <2>1. PICK t \in (now + 1)..(MaxTime + 1) \cup NextDeadlines :
           (\A d \in NextDeadlines : t <= d) /\ AdvanceTo(t)
    BY <1>4 DEF Drive
  <2>2. NextDeadlines \subseteq Nat
    BY <1>2 DEF NextDeadlines, Pruned, Timer
  <2>3. t \in Nat /\ now' = t /\ target' = t /\ t >= now
    BY <1>2, <2>1, <2>2, NetworkAssumption DEF AdvanceTo
  <2>4. \A e \in heap : t <= e.at
    BY <1>1, <2>1, <2>3, DriverPassesNone
  <2>5. \A e \in heap : e.at <= t + e.what.delay
    <3> TAKE e \in heap
    <3>1. e.at \in Nat /\ e.what.delay \in Nat /\ e.at <= now + e.what.delay
      BY <1>1, <1>2 DEF Timer, Message, Punctual
    <3> QED BY <1>2, <2>3, <3>1
  <2>6. Punctual'
    BY <1>1, <1>2, <2>3, <2>4, <2>5, NetworkAssumption DEF Punctual, OnTime, HeapIsAhead
  <2> QED BY <1>1, <1>3, <2>6 DEF OrderInv
<1>5. CASE Arrived
  <2>1. /\ target # NotAdvancing /\ Due = {} /\ target' = NotAdvancing /\ now' = now
    BY <1>5 DEF Arrived, Arrive
  <2>2. target = now
    BY <1>1, <2>1 DEF Punctual
  <2>3. \A e \in heap : e.at > now
    <3> TAKE e \in heap
    <3>1. e.at \in Nat
      BY <1>2 DEF Timer
    <3> QED BY <1>2, <2>1, <2>2, <3>1 DEF Due
  <2>4. Punctual'
    BY <1>1, <1>2, <2>1, <2>3 DEF Punctual, OnTime, HeapIsAhead
  <2> QED BY <1>1, <1>3, <2>4 DEF OrderInv
<1> QED BY <1>4, <1>5

\* Members and faults touch no timer, and an inbox only to empty it.
LEMMA QuietInOrder ==
  ASSUME OrderInv,
         Membership \/ Faults \/ (\E n \in Node : Receive(n)) \/ UNCHANGED vars
  PROVE  OrderInv'
<1>1. /\ Inv' /\ Inv /\ Punctual /\ TimersInOrder
  BY OtherStep, StutterStep DEF OrderInv
<1>2. heap' = heap /\ now' = now /\ target' = target
  BY DEF Membership, Register, Unregister, Faults, SetLatency, SetLoss, SetLink, ClearLink,
         Partition, Heal, ResetFaults, Receive, clock, vars
<1>3. \A n \in Node : \/ inbox'[n] \in {inbox[n], <<>>}
                      \/ inbox[n] # <<>> /\ inbox'[n] = Tail(inbox[n])
  <2>1. inbox \in [Node -> Seq(Message)]
    BY <1>1 DEF Inv, Typed
  <2>2. CASE Membership
    BY <2>1, <2>2 DEF Membership, Register, Unregister
  <2>3. CASE Faults \/ UNCHANGED vars
    BY <2>3 DEF Faults, SetLatency, SetLoss, SetLink, ClearLink, Partition, Heal,
                ResetFaults, members, vars
  <2>4. CASE \E n \in Node : Receive(n)
    BY <2>1, <2>4 DEF Receive
  <2> QED BY <2>2, <2>3, <2>4
<1>4. InboxesFirst' /\ SameDelayInOrder'
  BY <1>2, <1>3, InboxesShrink
<1>5. Punctual' /\ TimersInOrder'
  BY <1>1, <1>2 DEF Punctual, OnTime, HeapIsAhead, TimersInOrder, Before
<1> QED BY <1>1, <1>4, <1>5 DEF OrderInv

\* Every step keeps the order.
LEMMA NextOrder == OrderInv /\ [Next]_vars => OrderInv'
<1> SUFFICES ASSUME OrderInv, [Next]_vars PROVE OrderInv'
  OBVIOUS
<1>1. CASE \E src \in Node : \E dst \in Node \ {src} : Send(src, dst)
  BY <1>1, SendInOrder
<1>2. CASE \E e \in heap : Deliver(e)
  BY <1>2, DeliverInOrder
<1>3. CASE Drive \/ Arrived
  BY <1>3, TimePasses
<1>4. CASE Membership \/ Faults \/ (\E n \in Node : Receive(n)) \/ UNCHANGED vars
  BY <1>4, QuietInOrder
<1> QED BY <1>1, <1>2, <1>3, <1>4 DEF Next

\* A timer of SimulatedNetwork fires at its time, neither early nor late, when the
\* driver asks next_deadline and goes no further.
THEOREM TimersAreOnTime == Spec => []OnTime
<1>1. OrderInv => OnTime
  BY DEF OrderInv, Punctual
<1> QED BY <1>1, InitOrder, NextOrder, PTL DEF Spec

\* Messages of one sender that took equally long reach an inbox in the order sent,
\* however latencies change meanwhile.
THEOREM EquallyLongInOrder == Spec => []SameDelayInOrder
<1>1. OrderInv => SameDelayInOrder
  BY DEF OrderInv
<1> QED BY <1>1, InitOrder, NextOrder, PTL DEF Spec

-----------------------------------------------------------------------------
(***************************************************************************)
(* The ideal network.                                                      *)
(***************************************************************************)
\* While nothing is broken every link is ideal.
CleanIsIdeal ==
    clean => default = IdealLink /\ DOMAIN links = {} /\ groups = NoSplit

\* Every step keeps it.
LEMMA NextIdeal == CleanIsIdeal /\ [Next]_vars => CleanIsIdeal'
<1> SUFFICES ASSUME CleanIsIdeal, [Next]_vars PROVE CleanIsIdeal'
  OBVIOUS
<1>1. CASE UNCHANGED <<config, clean>>
  BY <1>1 DEF CleanIsIdeal, config
<1>2. CASE Faults
  <2>1. CASE clean'
    <3>1. \/ Heal \/ ResetFaults \/ \E p \in Pair : ClearLink(p)
      BY <1>2, <2>1 DEF Faults, SetLatency, SetLoss, SetLink, Partition, Breaks
    <3> QED BY <3>1 DEF Heal, ResetFaults, ClearLink, CleanIsIdeal
  <2> QED BY <2>1 DEF CleanIsIdeal
<1> QED BY <1>1, <1>2 DEF Next, Membership, Register, Unregister, Send, Receive, Deliver,
                         Drive, Arrived, vars

\* Sending over an ideal network.
LEMMA IdealSend ==
  ASSUME Inv, CleanIsIdeal, clean, NEW src \in Node, NEW dst \in Node, Send(src, dst)
  PROVE  stats' \in {[stats EXCEPT !.sent = @ + 1, ![what] = @ + 1] :
                        what \in {"delivered", "unknown"}}
<1>1. LinkFor(src, dst) = IdealLink /\ ~ IsPartitioned(src, dst)
  BY DEF CleanIsIdeal, LinkFor, IsPartitioned
<1>2. IdealLink.loss = "none" /\ IdealLink.max = 0 /\ IdealLink.min = 0
  BY DEF IdealLink
<1>3. now \in Nat
  BY DEF Inv, Typed
<1>4. ASSUME NEW delay \in Delay, 0 <= delay, delay <= 0
      PROVE  AtOnce(now + delay)
  BY <1>3, <1>4, NetworkAssumption DEF AtOnce
<1>5. Count("unknown") \/ Count("delivered")
  BY <1>1, <1>2, <1>4 DEF Send, Drop
<1> QED BY <1>5 DEF Count

\* After reset_faults, and until the next fault, whatever is sent to a registered
\* node is there at once and nothing is lost.
THEOREM ResetMeansIdeal == Spec => IdealAfterReset
<1> DEFINE Good == clean /\ stats'.sent > stats.sent =>
              stats' \in {[stats EXCEPT !.sent = @ + 1, ![what] = @ + 1] :
                            what \in {"delivered", "unknown"}}
<1>1. Init => CleanIsIdeal
  BY DEF Init, CleanIsIdeal
<1>2. Inv /\ CleanIsIdeal /\ [Next]_vars => [Good]_vars
  <2> SUFFICES ASSUME Inv, CleanIsIdeal, Next, clean, stats'.sent > stats.sent
               PROVE  stats' \in {[stats EXCEPT !.sent = @ + 1, ![what] = @ + 1] :
                                    what \in {"delivered", "unknown"}}
    OBVIOUS
  <2>1. stats \in Counters /\ stats.sent \in Nat
    BY DEF Inv, Typed, Counters
  <2>2. stats'.sent # stats.sent
    BY <2>1
  <2>3. ~ (\E e \in heap : Deliver(e))
    <3> SUFFICES ASSUME NEW e \in heap, Deliver(e) PROVE FALSE
      OBVIOUS
    <3>1. \/ stats' = [stats EXCEPT !.delivered = @ + 1]
          \/ stats' = [stats EXCEPT !.unknown = @ + 1]
      BY DEF Deliver
    <3>2. stats'.sent = stats.sent
      BY <2>1, <3>1 DEF Counters
    <3> QED BY <2>2, <3>2
  <2>4. PICK src \in Node, dst \in Node : Send(src, dst)
    BY <2>2, <2>3 DEF Next, Membership, Register, Unregister, Faults, SetLatency, SetLoss,
       SetLink, ClearLink, Partition, Heal, ResetFaults, Receive, Drive, Arrived
  <2> QED BY <2>4, IdealSend
<1> QED BY <1>1, <1>2, InitInv, NextInv, NextIdeal, PTL DEF Spec, IdealAfterReset
-----------------------------------------------------------------------------
(***************************************************************************)
(* Waits that race a deadline.                                             *)
(***************************************************************************)
\* What a racer has in its hand.
InHand(h) == IF h = NOTHING THEN <<>> ELSE <<h>>

\* The first n messages.
FirstOnes(n) == [i \in 1..n |-> i]

RaceTimer == [at : Nat, id : Nat, what : Racer \X Nat, cancelled : BOOLEAN]

\* The types of what is said of a racer.
RacersTyped ==
    /\ queue \in [Racer -> Seq(Nat)] /\ got \in [Racer -> Seq(Nat)]
    /\ queued \in [Racer -> Nat] /\ races \in [Racer -> Nat]
    /\ held \in [Racer -> Nat \cup {NOTHING}]
    /\ outer \in [Racer -> {"idle", "waiting", "collecting", "stopping", "stopped"}]
    /\ work \in [Racer -> {"new", "getting", "woken"} \cup Ended]
    /\ timer \in [Racer -> {"new", "sleeping", "fired"} \cup Ended]
    /\ doomed \in [Racer -> SUBSET {"work", "timer"}]
    /\ deadline \in [Racer -> Nat] /\ time \in Nat /\ made \in Nat
    /\ timers \subseteq RaceTimer

\* Between races no task is left, and in one the receiver that is done has what it
\* took, and no other does.
TasksAreSound(r) ==
    /\ outer[r] \in {"idle", "stopped"} => work[r] \in Ended /\ timer[r] \in Ended
    /\ outer[r] = "idle" => held[r] = NOTHING
    /\ outer[r] # "idle" => (held[r] # NOTHING <=> work[r] = "done")

\* A live timer is of a race whose timer sleeps, and is the only one of its racer.
TimersAreSound ==
    /\ \A e \in Clock!Live(timers) :
          timer[e.what[1]] = "sleeping" /\ e.what = TimerOf(e.what[1])
    /\ \A e, f \in Clock!Live(timers) : e.what[1] = f.what[1] => e = f

\* What the racer took, in its hand and in the queue is all there was, in order.
AllIsThere(r) == got[r] \o InHand(held[r]) \o queue[r] = FirstOnes(queued[r])

RacesInv ==
    /\ RacersTyped
    /\ \A r \in Racer : TasksAreSound(r) /\ AllIsThere(r)
    /\ TimersAreSound

-----------------------------------------------------------------------------
LEMMA ConcatOfThree ==
  \A s, t, u \in Seq(Nat) : (s \o t) \o u = s \o (t \o u)
BY ConcatAssociative

\* The message at the front of the queue passes into the hand.
LEMMA TakenInOrder ==
  ASSUME NEW g \in Seq(Nat), NEW q \in Seq(Nat), q # <<>>
  PROVE  /\ Head(q) \in Nat /\ Tail(q) \in Seq(Nat)
         /\ g \o InHand(NOTHING) \o q = g \o InHand(Head(q)) \o Tail(q)
<1> DEFINE x == Head(q)
           t == Tail(q)
<1>1. /\ x \in Nat /\ t \in Seq(Nat) /\ Len(q) \in Nat /\ Len(t) = Len(q) - 1 /\ q[1] = x
      /\ \A i \in 1..Len(t) : t[i] = q[i + 1]
  BY HeadTailProperties
<1> HIDE DEF x, t
<1>2. <<x>> \in Seq(Nat) /\ Len(<<x>>) = 1 /\ <<x>>[1] = x
  BY <1>1
<1>3. q = <<x>> \o t
  <2> DEFINE c == <<x>> \o t
  <2>1. c \in Seq(Nat) /\ Len(c) = Len(q)
    BY <1>1, <1>2, ConcatProperties
  <2>2. ASSUME NEW i \in 1..Len(q) PROVE q[i] = c[i]
    <3>1. c[i] = IF i <= 1 THEN <<x>>[i] ELSE t[i - 1]
      BY <1>1, <1>2, ConcatProperties
    <3>2. i > 1 => t[i - 1] = q[i]
      <4> SUFFICES ASSUME i > 1 PROVE t[i - 1] = q[i]
        OBVIOUS
      <4>1. i - 1 \in 1..Len(t) /\ (i - 1) + 1 = i
        BY <1>1
      <4> QED BY <1>1, <4>1
    <3> QED BY <1>1, <1>2, <3>1, <3>2
  <2> HIDE DEF c
  <2>3. q = c
    BY <2>1, <2>2, SeqEqual
  <2> QED BY <2>3 DEF c
<1>4. g \o <<>> \o q = g \o <<x>> \o t
  <2>1. g \o <<>> = g
    BY ConcatEmptySeq
  <2>2. (g \o <<x>>) \o t = g \o (<<x>> \o t)
    BY <1>1, <1>2, ConcatOfThree
  <2> QED BY <1>3, <2>1, <2>2
<1>5. x # NOTHING
  BY <1>1, RaceAssumption
<1> QED BY <1>1, <1>4, <1>5 DEF InHand, x, t

\* What was in the hand is returned.
LEMMA ReturnedInOrder ==
  ASSUME NEW g \in Seq(Nat), NEW q \in Seq(Nat), NEW h \in Nat
  PROVE  /\ Append(g, h) \in Seq(Nat)
         /\ g \o InHand(h) \o q = Append(g, h) \o InHand(NOTHING) \o q
<1>1. h # NOTHING
  BY RaceAssumption
<1>2. Append(g, h) \in Seq(Nat) /\ Append(g, h) = g \o <<h>>
  BY AppendProperties, AppendIsConcat
<1>3. Append(g, h) \o <<>> = Append(g, h)
  BY <1>2, ConcatEmptySeq
<1> QED BY <1>1, <1>2, <1>3 DEF InHand

\* A message queued is the next one.
LEMMA QueuedInOrder ==
  ASSUME NEW g \in Seq(Nat), NEW h \in Nat \cup {NOTHING}, NEW q \in Seq(Nat),
         NEW n \in Nat, g \o InHand(h) \o q = FirstOnes(n)
  PROVE  /\ Append(q, n + 1) \in Seq(Nat)
         /\ g \o InHand(h) \o Append(q, n + 1) = FirstOnes(n + 1)
<1>1. InHand(h) \in Seq(Nat)
  BY DEF InHand
<1> DEFINE a == g \o InHand(h)
<1>2. a \in Seq(Nat)
  BY <1>1, ConcatProperties
<1>3. a \o q = FirstOnes(n)
  OBVIOUS
<1> HIDE DEF a
<1>4. <<n + 1>> \in Seq(Nat) /\ n + 1 \in Nat
  OBVIOUS
<1>5. a \o Append(q, n + 1) = (a \o q) \o <<n + 1>>
  <2>1. Append(q, n + 1) = q \o <<n + 1>>
    BY <1>4, AppendIsConcat
  <2>2. \A y \in Seq(Nat) : (a \o q) \o y = a \o (q \o y)
    BY <1>2, ConcatOfThree
  <2> QED BY <1>4, <2>1, <2>2
<1> DEFINE s == FirstOnes(n)
           e == FirstOnes(n + 1)
<1>6. s \in Seq(Nat) /\ Len(s) = n /\ e \in Seq(Nat) /\ Len(e) = n + 1
      /\ (\A i \in 1..n : s[i] = i) /\ \A i \in 1..n + 1 : e[i] = i
  BY DEF FirstOnes
<1> HIDE DEF s, e
<1>7. Append(s, n + 1) = e
  <2>1. /\ Append(s, n + 1) \in Seq(Nat) /\ Len(Append(s, n + 1)) = n + 1
        /\ \A i \in 1..n : Append(s, n + 1)[i] = s[i]
        /\ Append(s, n + 1)[n + 1] = n + 1
    BY <1>4, <1>6, AppendProperties
  <2>2. \A i \in 1..n + 1 : Append(s, n + 1)[i] = e[i]
    BY <1>6, <2>1
  <2> QED BY <1>6, <2>1, <2>2, SeqEqual
<1>8. Append(s, n + 1) = s \o <<n + 1>>
  BY <1>4, <1>6, AppendIsConcat
<1>9. Append(q, n + 1) \in Seq(Nat)
  BY <1>4, AppendProperties
<1> QED BY <1>3, <1>5, <1>7, <1>8, <1>9 DEF a, s, e
-----------------------------------------------------------------------------
\* Whom a step is not about keeps what is said of him.
LEMMA OthersStay ==
  ASSUME RacesInv, NEW r \in Racer,
         outer'[r] = outer[r], work'[r] = work[r], timer'[r] = timer[r],
         held'[r] = held[r], got'[r] = got[r], queue'[r] = queue[r], queued'[r] = queued[r]
  PROVE  TasksAreSound(r)' /\ AllIsThere(r)'
<1>1. TasksAreSound(r) /\ AllIsThere(r)
  BY DEF RacesInv
<1>2. TasksAreSound(r)'
  BY <1>1 DEF TasksAreSound, Ended
<1>3. AllIsThere(r)'
  BY <1>1 DEF AllIsThere
<1> QED BY <1>2, <1>3

\* Timers stay as they are while nobody who sleeps wakes up.
LEMMA TimersStay ==
  ASSUME TimersAreSound, RacersTyped, timers' = timers,
         \A r \in Racer : timer[r] = "sleeping" =>
             timer'[r] = "sleeping" /\ races'[r] = races[r]
  PROVE  TimersAreSound'
<1>1. Clock!Live(timers)' = Clock!Live(timers)
  BY DEF Clock!Live
<1>2. ASSUME NEW e \in Clock!Live(timers)
      PROVE  timer'[e.what[1]] = "sleeping" /\ e.what = TimerOf(e.what[1])'
  <2>1. e.what[1] \in Racer
    BY <1>2 DEF RacersTyped, RaceTimer, Clock!Live
  <2> QED BY <1>2, <2>1 DEF TimersAreSound, TimerOf
<1> QED BY <1>1, <1>2 DEF TimersAreSound

LEMMA RaceKeeps ==
  ASSUME RacesInv, NEW r \in Racer, NEW d \in Nat, Race(r, d)
  PROVE  RacesInv'
<1>1. RacersTyped'
  BY DEF RacesInv, RacersTyped, Race, clockVars, inboxes, Ended
<1>2. TasksAreSound(r) /\ AllIsThere(r) /\ outer[r] = "idle" /\ held[r] = NOTHING
  BY DEF RacesInv, Race, TasksAreSound
<1>3. TasksAreSound(r)' /\ AllIsThere(r)'
  <2>1. TasksAreSound(r)'
    BY DEF TasksAreSound, Race, RacesInv, RacersTyped, Ended
  <2>2. AllIsThere(r)'
    BY <1>2 DEF AllIsThere, Race, RacesInv, RacersTyped, inboxes
  <2> QED BY <2>1, <2>2
<1>4. ASSUME NEW x \in Racer, x # r PROVE TasksAreSound(x)' /\ AllIsThere(x)'
  BY <1>4, OthersStay DEF Race, RacesInv, RacersTyped, inboxes
<1>5. TimersAreSound'
  BY <1>2, TimersStay DEF Race, RacesInv, RacersTyped, clockVars, TasksAreSound, Ended
<1> QED BY <1>1, <1>3, <1>4, <1>5 DEF RacesInv

\* A race moves on from waiting: what its tasks hold stays.
LEMMA OuterKeeps ==
  ASSUME RacesInv, NEW r \in Racer, Settle(r) \/ Stop(r) \/ Stopped(r)
  PROVE  RacesInv'
<1>1. RacersTyped'
  <2>1. PICK d \in SUBSET {"work", "timer"} :
            doomed' = [doomed EXCEPT ![r] = d] \/ doomed' = doomed
    BY DEF Settle, Stop, Stopped
  <2>2. PICK o \in {"collecting", "stopping", "stopped"} : outer' = [outer EXCEPT ![r] = o]
    BY DEF Settle, Stop, Stopped
  <2>3. UNCHANGED <<queue, got, queued, deadline, races, held, work, timer, time, timers, made>>
    BY DEF Settle, Stop, Stopped, clockVars, inboxes
  <2> QED BY <2>1, <2>2, <2>3 DEF RacesInv, RacersTyped
<1>2. TasksAreSound(r)'
  BY DEF RacesInv, RacersTyped, TasksAreSound, Settle, Stop, Stopped, Ended
<1>3. AllIsThere(r)'
  BY DEF RacesInv, AllIsThere, Settle, Stop, Stopped, inboxes
<1>4. ASSUME NEW x \in Racer, x # r PROVE TasksAreSound(x)' /\ AllIsThere(x)'
  BY <1>4, OthersStay DEF Settle, Stop, Stopped, RacesInv, RacersTyped, inboxes
<1>5. TimersAreSound'
  BY TimersStay DEF Settle, Stop, Stopped, RacesInv, clockVars
<1> QED BY <1>1, <1>2, <1>3, <1>4, <1>5 DEF RacesInv

\* A race that returns hands over what the receiver took.
LEMMA ReturnKeeps ==
  ASSUME RacesInv, NEW r \in Racer, Return(r)
  PROVE  RacesInv'
<1>1. /\ got[r] \in Seq(Nat) /\ queue[r] \in Seq(Nat) /\ held[r] \in Nat \cup {NOTHING}
      /\ TasksAreSound(r) /\ AllIsThere(r)
  BY DEF RacesInv, RacersTyped
<1>2. work[r] = "done" <=> held[r] # NOTHING
  BY <1>1 DEF TasksAreSound, Return
<1>3. /\ got'[r] \in Seq(Nat)
      /\ got'[r] \o InHand(NOTHING) \o queue[r] = got[r] \o InHand(held[r]) \o queue[r]
  <2>1. CASE work[r] = "done"
    <3>1. held[r] \in Nat /\ got'[r] = Append(got[r], held[r])
      BY <1>1, <1>2, <2>1 DEF Return, RacesInv, RacersTyped
    <3> DEFINE g == got[r]
               h == held[r]
               q == queue[r]
    <3>2. g \in Seq(Nat) /\ h \in Nat /\ q \in Seq(Nat)
      BY <1>1, <3>1
    <3> HIDE DEF g, h, q
    <3>3. /\ Append(g, h) \in Seq(Nat)
          /\ g \o InHand(h) \o q = Append(g, h) \o InHand(NOTHING) \o q
      BY <3>2, ReturnedInOrder
    <3> QED BY <3>1, <3>3 DEF g, h, q
  <2>2. CASE work[r] # "done"
    <3>1. held[r] = NOTHING /\ got' = got
      BY <1>1, <1>2, <2>2 DEF Return
    <3> QED BY <1>1, <3>1
  <2> QED BY <2>1, <2>2
<1>4. RacersTyped'
  <2>1. got' \in [Racer -> Seq(Nat)]
    <3>1. got' = [got EXCEPT ![r] = got'[r]]
      BY DEF Return, RacesInv, RacersTyped
    <3> QED BY <1>3, <3>1 DEF RacesInv, RacersTyped
  <2> QED BY <2>1 DEF RacesInv, RacersTyped, Return, clockVars, inboxes
<1>5. TasksAreSound(r)'
  BY DEF RacesInv, RacersTyped, TasksAreSound, Return, Ended
<1>6. AllIsThere(r)'
  <2>1. held'[r] = NOTHING /\ queue'[r] = queue[r] /\ queued'[r] = queued[r]
    BY DEF Return, RacesInv, RacersTyped, inboxes
  <2> QED BY <1>1, <1>3, <2>1 DEF AllIsThere
<1>7. ASSUME NEW x \in Racer, x # r PROVE TasksAreSound(x)' /\ AllIsThere(x)'
  BY <1>7, OthersStay DEF Return, RacesInv, RacersTyped, inboxes
<1>8. TimersAreSound'
  BY TimersStay DEF Return, RacesInv, clockVars
<1> QED BY <1>4, <1>5, <1>6, <1>7, <1>8 DEF RacesInv

LEMMA EnqueueKeeps ==
  ASSUME RacesInv, NEW r \in Racer, Enqueue(r)
  PROVE  RacesInv'
<1>1. /\ got[r] \in Seq(Nat) /\ queue[r] \in Seq(Nat) /\ held[r] \in Nat \cup {NOTHING}
      /\ queued[r] \in Nat /\ TasksAreSound(r) /\ AllIsThere(r)
  BY DEF RacesInv, RacersTyped
<1> DEFINE more == Append(queue[r], queued[r] + 1)
<1>2. more \in Seq(Nat) /\ got[r] \o InHand(held[r]) \o more = FirstOnes(queued[r] + 1)
  <2> DEFINE g == got[r]
             h == held[r]
             q == queue[r]
             n == queued[r]
  <2>1. /\ g \in Seq(Nat) /\ h \in Nat \cup {NOTHING} /\ q \in Seq(Nat) /\ n \in Nat
        /\ g \o InHand(h) \o q = FirstOnes(n)
    BY <1>1 DEF AllIsThere
  <2> HIDE DEF g, h, q, n
  <2>2. /\ Append(q, n + 1) \in Seq(Nat)
        /\ g \o InHand(h) \o Append(q, n + 1) = FirstOnes(n + 1)
    BY <2>1, QueuedInOrder
  <2> QED BY <2>2 DEF g, h, q, n
<1>3. queue' = [queue EXCEPT ![r] = more] /\ queued' = [queued EXCEPT ![r] = queued[r] + 1]
  BY DEF Enqueue
<1> HIDE DEF more
<1>4. RacersTyped'
  BY <1>1, <1>2, <1>3 DEF RacesInv, RacersTyped, Enqueue, clockVars
<1>5. TasksAreSound(r)'
  BY <1>1 DEF RacesInv, RacersTyped, TasksAreSound, Enqueue, Ended
<1>6. AllIsThere(r)'
  <2>1. /\ held'[r] = held[r] /\ got'[r] = got[r] /\ queue'[r] = more
        /\ queued'[r] = queued[r] + 1
    BY <1>3 DEF Enqueue, RacesInv, RacersTyped
  <2> QED BY <1>2, <2>1 DEF AllIsThere
<1>7. ASSUME NEW x \in Racer, x # r PROVE TasksAreSound(x)' /\ AllIsThere(x)'
  BY <1>7, OthersStay DEF Enqueue, RacesInv, RacersTyped
<1>8. TimersAreSound'
  BY TimersStay DEF Enqueue, RacesInv, clockVars
<1> QED BY <1>4, <1>5, <1>6, <1>7, <1>8 DEF RacesInv

\* A receiver takes the message at the front, waits for one, or is cancelled with
\* nothing in its hand.
LEMMA WorkKeeps ==
  ASSUME RacesInv, NEW r \in Racer, Work(r)
  PROVE  RacesInv'
<1>1. /\ got[r] \in Seq(Nat) /\ queue[r] \in Seq(Nat)
      /\ TasksAreSound(r) /\ AllIsThere(r)
  BY DEF RacesInv, RacersTyped
<1>2. work[r] \notin Ended /\ held[r] = NOTHING /\ outer[r] \notin {"idle", "stopped"}
  <2>1. work[r] \notin Ended
    BY DEF Work, Ended
  <2> QED BY <1>1, <2>1 DEF TasksAreSound, Ended
<1>3. /\ queue' \in [Racer -> Seq(Nat)] /\ held' \in [Racer -> Nat \cup {NOTHING}]
      /\ work' \in [Racer -> {"new", "getting", "woken"} \cup Ended]
      /\ \A x \in Racer : x # r => queue'[x] = queue[x] /\ held'[x] = held[x]
                                   /\ work'[x] = work[x]
      /\ held'[r] # NOTHING <=> work'[r] = "done"
      /\ got[r] \o InHand(held'[r]) \o queue'[r] = got[r] \o InHand(NOTHING) \o queue[r]
  <2>1. CASE queue[r] # <<>> /\ Take(r)
    <3>1. /\ Head(queue[r]) \in Nat /\ Tail(queue[r]) \in Seq(Nat)
          /\ got[r] \o InHand(NOTHING) \o queue[r]
               = got[r] \o InHand(Head(queue[r])) \o Tail(queue[r])
      BY <1>1, <2>1, TakenInOrder
    <3>2. /\ queue' = [queue EXCEPT ![r] = Tail(queue[r])]
          /\ held' = [held EXCEPT ![r] = Head(queue[r])]
          /\ work' = [work EXCEPT ![r] = "done"]
      BY <2>1 DEF Take
    <3>3. queue'[r] = Tail(queue[r]) /\ held'[r] = Head(queue[r]) /\ work'[r] = "done"
      BY <3>2 DEF RacesInv, RacersTyped
    <3>4. held'[r] # NOTHING
      BY <3>1, <3>3, RaceAssumption
    <3>5. /\ queue' \in [Racer -> Seq(Nat)] /\ held' \in [Racer -> Nat \cup {NOTHING}]
          /\ work' \in [Racer -> {"new", "getting", "woken"} \cup Ended]
          /\ \A x \in Racer : x # r => queue'[x] = queue[x] /\ held'[x] = held[x]
                                       /\ work'[x] = work[x]
      BY <3>1, <3>2 DEF RacesInv, RacersTyped, Ended
    <3> QED BY <3>1, <3>3, <3>4, <3>5
  <2>2. CASE /\ UNCHANGED <<queue, held>>
             /\ work' \in {[work EXCEPT ![r] = "gone"], [work EXCEPT ![r] = "getting"]}
    <3>1. work'[r] # "done" /\ held'[r] = NOTHING /\ queue'[r] = queue[r]
      BY <1>2, <2>2 DEF RacesInv, RacersTyped
    <3>2. /\ work' \in [Racer -> {"new", "getting", "woken"} \cup Ended]
          /\ \A x \in Racer : x # r => work'[x] = work[x]
      BY <2>2 DEF RacesInv, RacersTyped, Ended
    <3> QED BY <2>2, <3>1, <3>2 DEF RacesInv, RacersTyped
  <2> QED BY <2>1, <2>2 DEF Work
<1>4. /\ UNCHANGED <<queued, outer, deadline, races, timer, doomed, got, time, timers, made>>
  BY DEF Work, clockVars
<1>5. RacersTyped'
  BY <1>3, <1>4 DEF RacesInv, RacersTyped
<1>6. TasksAreSound(r)'
  BY <1>2, <1>3, <1>4 DEF TasksAreSound
<1>7. AllIsThere(r)'
  BY <1>1, <1>2, <1>3, <1>4 DEF AllIsThere
<1>8. ASSUME NEW x \in Racer, x # r PROVE TasksAreSound(x)' /\ AllIsThere(x)'
  BY <1>3, <1>4, <1>8, OthersStay
<1>9. TimersAreSound'
  BY <1>4, TimersStay DEF RacesInv
<1> QED BY <1>5, <1>6, <1>7, <1>8, <1>9 DEF RacesInv

\* A sleeper that starts is the only one of its racer: its timers before are over.
LEMMA SleepKeeps ==
  ASSUME RacesInv, NEW r \in Racer, Sleep(r)
  PROVE  RacesInv'
<1>1. /\ TasksAreSound(r) /\ AllIsThere(r) /\ TimersAreSound /\ RacersTyped
      /\ timer[r] = "new" /\ UNCHANGED <<inboxes, outer, deadline, races, work, doomed, held, got>>
  BY DEF RacesInv, Sleep
<1>2. /\ outer[r] \notin {"idle", "stopped"}
      /\ \A x \in Racer : x # r => timer'[x] = timer[x]
      /\ timer' \in [Racer -> {"new", "sleeping", "fired"} \cup Ended]
  <2>1. PICK t \in {"done", "sleeping"} : timer' = [timer EXCEPT ![r] = t]
    BY DEF Sleep
  <2> QED BY <1>1, <2>1 DEF TasksAreSound, RacersTyped, Ended
<1>3. TasksAreSound(r)'
  BY <1>1, <1>2 DEF TasksAreSound
<1>4. AllIsThere(r)'
  BY <1>1 DEF AllIsThere, inboxes
<1>5. ASSUME NEW x \in Racer, x # r PROVE TasksAreSound(x)' /\ AllIsThere(x)'
  BY <1>1, <1>2, <1>5, OthersStay DEF inboxes
<1>6. CASE deadline[r] <= time
  <2>1. UNCHANGED <<time, timers, made>>
    BY <1>6 DEF Sleep, clockVars
  <2>2. RacersTyped'
    BY <1>1, <1>2, <2>1 DEF RacersTyped, inboxes
  <2>3. TimersAreSound'
    BY <1>1, <1>2, <2>1, TimersStay
  <2> QED BY <1>3, <1>4, <1>5, <2>2, <2>3 DEF RacesInv
<1>7. CASE ~ (deadline[r] <= time)
  <2> DEFINE new == [at |-> deadline[r], id |-> made, what |-> TimerOf(r), cancelled |-> FALSE]
  <2>1. /\ timers' = timers \cup {new} /\ timer' = [timer EXCEPT ![r] = "sleeping"]
        /\ time' = time /\ made' = made + 1
    BY <1>7 DEF Sleep, Clock!Push
  <2>2. new.what = TimerOf(r) /\ ~ new.cancelled /\ new \in RaceTimer
    <3>1. deadline[r] \in Nat /\ made \in Nat /\ TimerOf(r) \in Racer \X Nat
      BY <1>1 DEF RacersTyped, TimerOf
    <3> QED BY <3>1 DEF RaceTimer
  <2> HIDE DEF new
  <2>3. TimerOf(r) \in Racer \X Nat /\ TimerOf(r)[1] = r /\ TimerOf(r)' = TimerOf(r)
    BY <1>1 DEF TimerOf, RacersTyped
  <2>4. RacersTyped'
    BY <1>1, <1>2, <2>1, <2>2, <2>3 DEF RacersTyped, inboxes
  <2>5. /\ \A e \in Clock!Live(timers) : e.what[1] \in Racer \ {r}
        /\ Clock!Live(timers)' = Clock!Live(timers) \cup {new}
    <3>1. \A e \in Clock!Live(timers) : e.what[1] \in Racer
      BY <1>1 DEF RacersTyped, RaceTimer, Clock!Live
    <3> QED BY <1>1, <2>1, <2>2, <3>1 DEF TimersAreSound, Clock!Live
  <2>6. \A e \in Clock!Live(timers) :
           timer'[e.what[1]] = "sleeping" /\ e.what = TimerOf(e.what[1])'
    BY <1>1, <1>2, <2>5 DEF TimersAreSound, TimerOf
  <2>7. timer'[r] = "sleeping" /\ new.what[1] = r
    BY <1>1, <2>1, <2>2, <2>3 DEF RacersTyped
  <2>8. \A e, f \in Clock!Live(timers)' : e.what[1] = f.what[1] => e = f
    BY <1>1, <2>5, <2>7 DEF TimersAreSound
  <2>9. TimersAreSound'
    BY <2>2, <2>3, <2>5, <2>6, <2>7, <2>8 DEF TimersAreSound
  <2> QED BY <1>3, <1>4, <1>5, <2>4, <2>9 DEF RacesInv
<1> QED BY <1>6, <1>7

LEMMA WakeKeeps ==
  ASSUME RacesInv, NEW r \in Racer, Wake(r)
  PROVE  RacesInv'
<1>1. /\ TasksAreSound(r) /\ AllIsThere(r) /\ TimersAreSound /\ RacersTyped
      /\ UNCHANGED <<clockVars, inboxes, outer, deadline, races, work, doomed, held, got>>
      /\ timer[r] = "fired" /\ timer' = [timer EXCEPT ![r] = "done"]
  BY DEF RacesInv, Wake
<1>2. /\ outer[r] \notin {"idle", "stopped"}
      /\ \A x \in Racer : x # r => timer'[x] = timer[x]
      /\ timer' \in [Racer -> {"new", "sleeping", "fired"} \cup Ended]
  BY <1>1 DEF TasksAreSound, RacersTyped, Ended
<1>3. RacersTyped'
  BY <1>1, <1>2 DEF RacersTyped, clockVars, inboxes
<1>4. TasksAreSound(r)' /\ AllIsThere(r)'
  <2>1. TasksAreSound(r)'
    BY <1>1, <1>2 DEF TasksAreSound
  <2>2. AllIsThere(r)'
    BY <1>1 DEF AllIsThere, inboxes
  <2> QED BY <2>1, <2>2
<1>5. ASSUME NEW x \in Racer, x # r PROVE TasksAreSound(x)' /\ AllIsThere(x)'
  BY <1>1, <1>2, <1>5, OthersStay DEF inboxes
<1>6. TimersAreSound'
  BY <1>1, <1>2, TimersStay DEF clockVars
<1> QED BY <1>3, <1>4, <1>5, <1>6 DEF RacesInv

\* What is cancelled in the heap is no longer live, and nothing else changes.
LEMMA CancelledIsNotLive ==
  ASSUME timers \subseteq RaceTimer, NEW what,
         timers' = Clock!WithCancelled(timers, what)
  PROVE  /\ Clock!Live(timers)' = {e \in Clock!Live(timers) : e.what # what}
         /\ timers' \subseteq RaceTimer
<1> DEFINE Off(o) == [o EXCEPT !.cancelled = TRUE]
<1>1. ASSUME NEW o \in timers
      PROVE  Off(o) \in RaceTimer /\ Off(o).cancelled /\ Off(o).what = o.what
  <2>1. o \in RaceTimer
    OBVIOUS
  <2> QED BY <2>1 DEF RaceTimer
<1>2. timers' = {IF e.what = what THEN Off(e) ELSE e : e \in timers}
  BY DEF Clock!WithCancelled
<1> HIDE DEF Off
<1>3. timers' \subseteq RaceTimer
  BY <1>1, <1>2
<1>4. Clock!Live(timers)' = {e \in Clock!Live(timers) : e.what # what}
  BY <1>1, <1>2 DEF Clock!Live
<1> QED BY <1>3, <1>4

\* A sleeper that is cancelled leaves no live timer.
LEMMA WakeCancelledKeeps ==
  ASSUME RacesInv, NEW r \in Racer, WakeCancelled(r)
  PROVE  RacesInv'
<1>1. /\ TasksAreSound(r) /\ AllIsThere(r) /\ TimersAreSound /\ RacersTyped
      /\ UNCHANGED <<inboxes, outer, deadline, races, work, doomed, held, got>>
      /\ timer[r] \notin Ended /\ timer' = [timer EXCEPT ![r] = "gone"]
      /\ timers' = Clock!WithCancelled(timers, TimerOf(r)) /\ UNCHANGED <<time, made>>
  BY DEF RacesInv, WakeCancelled
<1>2. /\ outer[r] \notin {"idle", "stopped"}
      /\ \A x \in Racer : x # r => timer'[x] = timer[x]
      /\ timer' \in [Racer -> {"new", "sleeping", "fired"} \cup Ended]
  BY <1>1 DEF TasksAreSound, RacersTyped, Ended
<1>3. /\ Clock!Live(timers)' = {e \in Clock!Live(timers) : e.what # TimerOf(r)}
      /\ timers' \subseteq RaceTimer
  BY <1>1, CancelledIsNotLive DEF RacersTyped
<1>4. RacersTyped'
  BY <1>1, <1>2, <1>3 DEF RacersTyped, inboxes
<1>5. TasksAreSound(r)' /\ AllIsThere(r)'
  <2>1. TasksAreSound(r)'
    BY <1>1, <1>2 DEF TasksAreSound
  <2>2. AllIsThere(r)'
    BY <1>1 DEF AllIsThere, inboxes
  <2> QED BY <2>1, <2>2
<1>6. ASSUME NEW x \in Racer, x # r PROVE TasksAreSound(x)' /\ AllIsThere(x)'
  BY <1>1, <1>2, <1>6, OthersStay DEF inboxes
<1>7. ASSUME NEW e \in Clock!Live(timers)'
      PROVE  /\ e \in Clock!Live(timers) /\ timer'[e.what[1]] = "sleeping"
             /\ e.what = TimerOf(e.what[1])'
  <2>1. e \in Clock!Live(timers) /\ e.what # TimerOf(r) /\ e.what[1] \in Racer
    BY <1>1, <1>3, <1>7 DEF RacersTyped, RaceTimer, Clock!Live
  <2>2. e.what[1] # r
    BY <1>1, <2>1 DEF TimersAreSound
  <2> QED BY <1>1, <1>2, <2>1, <2>2 DEF TimersAreSound, TimerOf
<1>8. TimersAreSound'
  BY <1>1, <1>7 DEF TimersAreSound
<1> QED BY <1>4, <1>5, <1>6, <1>8 DEF RacesInv

\* A timer that fires is its racer's only live one.
LEMMA FireKeeps ==
  ASSUME RacesInv, NEW e \in timers, Fire(e)
  PROVE  RacesInv'
<1> DEFINE r == e.what[1]
<1>1. /\ TimersAreSound /\ RacersTyped /\ r \in Racer /\ e.cancelled \in BOOLEAN
      /\ UNCHANGED <<inboxes, outer, deadline, races, work, doomed, held, got>>
      /\ timers' = timers \ {e} /\ UNCHANGED <<time, made>>
      /\ timer' = IF e.cancelled THEN timer ELSE [timer EXCEPT ![r] = "fired"]
  BY DEF RacesInv, RacersTyped, RaceTimer, Fire
<1> HIDE DEF r
<1>2. /\ \A x \in Racer : timer'[x] = timer[x] \/ (timer[x] = "sleeping" /\ timer'[x] = "fired")
      /\ timer' \in [Racer -> {"new", "sleeping", "fired"} \cup Ended]
  <2>1. CASE e.cancelled
    BY <1>1, <2>1 DEF RacersTyped
  <2>2. CASE ~ e.cancelled
    <3>1. e \in Clock!Live(timers) /\ timer[r] = "sleeping"
      BY <1>1, <2>2 DEF Clock!Live, TimersAreSound, r
    <3> QED BY <1>1, <2>2, <3>1 DEF RacersTyped
  <2> QED BY <2>1, <2>2
<1>3. RacersTyped'
  BY <1>1, <1>2 DEF RacersTyped, inboxes
<1>4. ASSUME NEW x \in Racer PROVE TasksAreSound(x)' /\ AllIsThere(x)'
  <2>1. TasksAreSound(x) /\ AllIsThere(x)
    BY DEF RacesInv
  <2>2. TasksAreSound(x)'
    BY <1>1, <1>2, <2>1 DEF TasksAreSound, Ended
  <2>3. AllIsThere(x)'
    BY <1>1, <2>1 DEF AllIsThere, inboxes
  <2> QED BY <2>2, <2>3
<1>5. ASSUME NEW f \in Clock!Live(timers)'
      PROVE  /\ f \in Clock!Live(timers) /\ timer'[f.what[1]] = "sleeping"
             /\ f.what = TimerOf(f.what[1])'
  <2>1. f \in Clock!Live(timers) /\ f # e /\ f.what[1] \in Racer
    BY <1>1, <1>5 DEF RacersTyped, RaceTimer, Clock!Live
  <2>2. ~ e.cancelled => f.what[1] # r
    BY <1>1, <2>1 DEF TimersAreSound, Clock!Live, r
  <2>3. timer'[f.what[1]] = timer[f.what[1]]
    BY <1>1, <2>1, <2>2 DEF RacersTyped
  <2> QED BY <1>1, <2>1, <2>3 DEF TimersAreSound, TimerOf
<1>6. TimersAreSound'
  BY <1>1, <1>5 DEF TimersAreSound
<1> QED BY <1>3, <1>4, <1>6 DEF RacesInv

\* What only moves the clock changes no race.
LEMMA TimePassesKeeps ==
  ASSUME RacesInv, UNCHANGED <<timers, made, inboxes, tasks>>, time' \in Nat
  PROVE  RacesInv'
<1>1. RacersTyped'
  BY DEF RacesInv, RacersTyped, inboxes, tasks
<1>2. ASSUME NEW x \in Racer PROVE TasksAreSound(x)' /\ AllIsThere(x)'
  BY <1>2, OthersStay DEF inboxes, tasks
<1>3. TimersAreSound'
  BY TimersStay DEF RacesInv, tasks
<1> QED BY <1>1, <1>2, <1>3 DEF RacesInv

LEMMA InitRaces == NoRaces => RacesInv
<1> SUFFICES ASSUME NoRaces PROVE RacesInv
  OBVIOUS
<1>1. RacersTyped
  BY DEF NoRaces, Clock!InitClock, RacersTyped, Ended
<1>2. ASSUME NEW r \in Racer PROVE TasksAreSound(r) /\ AllIsThere(r)
  <2>1. TasksAreSound(r)
    BY DEF NoRaces, TasksAreSound, Ended
  <2>2. <<>> \o <<>> \o <<>> = FirstOnes(0)
    BY DEF FirstOnes
  <2>3. AllIsThere(r)
    BY <2>2 DEF NoRaces, AllIsThere, InHand
  <2> QED BY <2>1, <2>3
<1>3. TimersAreSound
  BY DEF NoRaces, Clock!InitClock, Clock!Live, TimersAreSound
<1> QED BY <1>1, <1>2, <1>3 DEF RacesInv

LEMMA NextRaces == RacesInv /\ [RaceNext]_raceVars => RacesInv'
<1> SUFFICES ASSUME RacesInv, [RaceNext]_raceVars PROVE RacesInv'
  OBVIOUS
<1>1. ASSUME NEW r \in Racer, Step(r) PROVE RacesInv'
  BY <1>1, OuterKeeps, ReturnKeeps, WorkKeeps, SleepKeeps, WakeKeeps, WakeCancelledKeeps DEF Step
<1>2. ASSUME NEW r \in Racer, Stop(r) PROVE RacesInv'
  BY <1>2, OuterKeeps
<1>3. ASSUME NEW r \in Racer, Enqueue(r) PROVE RacesInv'
  BY <1>3, EnqueueKeeps
<1>4. ASSUME NEW r \in Racer, NEW d \in time..MaxWait, Race(r, d) PROVE RacesInv'
  <2>1. d \in Nat
    BY DEF RacesInv, RacersTyped
  <2> QED BY <1>4, <2>1, RaceKeeps
<1>5. ASSUME Advance \/ AtTime \/ UNCHANGED raceVars PROVE RacesInv'
  <2>1. UNCHANGED <<timers, made, inboxes, tasks>>
    BY <1>5 DEF Advance, AtTime, Clock!AdvanceTo, Clock!Arrive, raceVars, clockVars
  <2>2. time' \in Nat
    <3>1. time \in Nat
      BY DEF RacesInv, RacersTyped
    <3>2. time' = time \/ \E t \in time + 1..MaxWait : time' = t
      BY <1>5 DEF Advance, AtTime, Clock!AdvanceTo, Clock!Arrive, raceVars, clockVars
    <3> QED BY <3>1, <3>2
  <2> QED BY <2>1, <2>2, TimePassesKeeps
<1>6. ASSUME NEW e \in timers, Fire(e) PROVE RacesInv'
  BY <1>6, FireKeeps
<1> QED BY <1>1, <1>2, <1>3, <1>4, <1>5, <1>6 DEF RaceNext

LEMMA RacesInvIsClean == RacesInv => RacesAreClean
<1> SUFFICES ASSUME RacesInv PROVE RacesAreClean
  OBVIOUS
<1>1. NothingLost
  BY DEF RacesInv, NothingLost, AllIsThere, InHand, FirstOnes
<1>2. ASSUME NEW r \in Racer, outer[r] \in {"idle", "stopped"}
      PROVE  /\ work[r] \in Ended /\ timer[r] \in Ended
             /\ \A e \in Clock!Live(timers) : e.what[1] # r
  <2>1. work[r] \in Ended /\ timer[r] \in Ended
    BY <1>2 DEF RacesInv, TasksAreSound
  <2> QED BY <2>1 DEF RacesInv, TimersAreSound, Ended
<1> QED BY <1>1, <1>2 DEF RacesAreClean, NothingLeftBehind

\* However tasks, timers and cancellations interleave, a wait with a deadline
\* swallows no message and leaves neither a task nor a live timer behind
\* (network/clock.py race_deadline, sleep_until).
THEOREM RacesEndCleanly == RaceSpec => []RacesAreClean
BY InitRaces, NextRaces, RacesInvIsClean, PTL DEF RaceSpec
=============================================================================
