------------------------------ MODULE LabProofs ------------------------------
(***************************************************************************)
(* What the laboratory says of its members and of their histories.         *)
(*                                                                         *)
(* A live cluster (Cluster.tla), for any number of members, of requests,   *)
(* of objects built for a member and of loops that die.  Requests overlap  *)
(* as they like, but none stops a member that another one is stopping, or  *)
(* the cluster while a member is: two such stops do leave a member that is *)
(* not what it says.                                                       *)
(*                                                                         *)
(* The reads that the checker of histories blames (Linearizability.tla),   *)
(* for histories of any length over any keys and values.                   *)
(***************************************************************************)
EXTENDS Cluster, Linearizability, RaftLogProofs

MemberType ==
    [object : 0..MaxObjects, running : BOOLEAN, raised : BOOLEAN,
     task : [Objects -> {"none", "live", "died"}],
     leads : [Objects -> BOOLEAN], inbox : 0..MaxObjects]

\* A member that no request is stopping: only the object held has a loop, that loop is
\* registered, and there is one if the member runs and its last stop did not raise.
Fine(m) ==
    /\ m \in MemberType
    /\ \A o \in Objects :
          m.task[o] # "none" => m.running /\ ~ m.raised /\ m.object = o /\ m.inbox = o
    /\ m.raised => m.running
    /\ m.running => m.object # 0
    /\ m.running /\ ~ m.raised => m.task[m.object] # "none"
    /\ ~ m.running \/ m.raised => m.inbox = 0
    /\ m.inbox \in {0, m.object}

\* One whose loop was cancelled, and whose stop is not over.
Cut(m, o) ==
    /\ m \in MemberType /\ o \in Objects
    /\ m.running /\ m.object = o /\ m.inbox \in {0, o}
    /\ \A p \in Objects : m.task[p] = "none"

\* One of which nothing is left.
Over(m) == m.inbox = 0 /\ \A o \in Objects : m.task[o] # "live"

Typed ==
    /\ object \in [Node -> 0..MaxObjects] /\ running \in [Node -> BOOLEAN]
    /\ raised \in [Node -> BOOLEAN]
    /\ task \in [Node -> [Objects -> {"none", "live", "died"}]]
    /\ leads \in [Node -> [Objects -> BOOLEAN]] /\ inbox \in [Node -> 0..MaxObjects]
    /\ deaths \in Nat

Stops(r) == request[r].at = "stopping"
Starts(r) == request[r].at = "waiting" /\ request[r].purpose = "start"

\* A request that stops a member has it for itself; one that tears down is the only
\* one that stops any, and has finished with every member that is not on its list.
HasInHand(r, q) ==
    /\ q.node \in Node /\ Cut(Member(q.node), q.object)
    /\ \A s \in Request \ {r} : Stops(s) => request[s].node # q.node
    /\ \/ q.purpose \in {"crash", "restart"} /\ lab = "up"
       \/ /\ q.purpose \in {"start", "stop"} /\ lab = "stopping"
          /\ \A s \in Request \ {r} : ~ Stops(s)
          /\ q.todo \in Seq(Node)
          /\ \A n \in Node \ {q.node} :
                Over(Member(n)) \/ \E i \in DOMAIN q.todo : q.todo[i] = n

\* The invariant.
Inv ==
    /\ Typed /\ DOMAIN request = Request
    /\ \A n \in Node : BeingStopped(n) \/ Fine(Member(n))
    /\ \A r \in Request : Stops(r) => HasInHand(r, request[r])
    /\ \A r \in Request : Starts(r) => lab = "starting" /\ \A s \in Request \ {r} : ~ Starts(s)
    /\ lab = "none" => \A n \in Node : Over(Member(n))

-----------------------------------------------------------------------------
(***************************************************************************)
(* One member.                                                             *)
(***************************************************************************)
LEMMA MemberIsTyped ==
  ASSUME Typed, NEW n \in Node
  PROVE  Member(n) \in MemberType
BY DEF Typed, Member, MemberType

LEMMA Becoming ==
  ASSUME NEW ms \in [Node -> MemberType], MembersBecome(ms), deaths' \in Nat
  PROVE  Typed' /\ \A n \in Node : Member(n)' = ms[n]
<1>1. \A n \in Node :
         /\ ms[n].object \in 0..MaxObjects /\ ms[n].running \in BOOLEAN
         /\ ms[n].raised \in BOOLEAN
         /\ ms[n].task \in [Objects -> {"none", "live", "died"}]
         /\ ms[n].leads \in [Objects -> BOOLEAN] /\ ms[n].inbox \in 0..MaxObjects
         /\ ms[n] = [object |-> ms[n].object, running |-> ms[n].running,
                     raised |-> ms[n].raised, task |-> ms[n].task,
                     leads |-> ms[n].leads, inbox |-> ms[n].inbox]
  BY DEF MemberType
<1>2. Typed'
  BY <1>1 DEF Typed, MembersBecome
<1>3. ASSUME NEW n \in Node PROVE Member(n)' = ms[n]
  <2>1. /\ object'[n] = ms[n].object /\ running'[n] = ms[n].running /\ task'[n] = ms[n].task
        /\ raised'[n] = ms[n].raised
        /\ leads'[n] = ms[n].leads /\ inbox'[n] = ms[n].inbox
    BY DEF MembersBecome
  <2> QED BY <1>1, <2>1 DEF Member
<1> QED BY <1>2, <1>3

LEMMA OneBecomes ==
  ASSUME NEW n \in Node, NEW m \in MemberType, MemberBecomes(n, m), deaths' \in Nat, Typed
  PROVE  Typed' /\ Member(n)' = m /\ \A k \in Node \ {n} : Member(k)' = Member(k)
<1> DEFINE ms == [[k \in Node |-> Member(k)] EXCEPT ![n] = m]
<1>1. ms \in [Node -> MemberType] /\ ms[n] = m /\ \A k \in Node \ {n} : ms[k] = Member(k)
  <2>1. \A k \in Node : Member(k) \in MemberType
    BY MemberIsTyped
  <2> QED BY <2>1
<1>2. MembersBecome(ms)
  BY DEF MemberBecomes
<1> HIDE DEF ms
<1>3. Typed' /\ \A k \in Node : Member(k)' = ms[k]
  BY <1>1, <1>2, Becoming
<1> QED BY <1>1, <1>3

Emptied(m, o) == [m EXCEPT !.task[o] = "none"]

\* What an update of one field leaves alone.
LEMMA WithInbox ==
  ASSUME NEW m \in MemberType, NEW i \in 0..MaxObjects, NEW u, u = [m EXCEPT !.inbox = i]
  PROVE  /\ u \in MemberType /\ u.inbox = i /\ u.raised = m.raised
         /\ u.object = m.object /\ u.running = m.running /\ u.task = m.task
BY DEF MemberType

LEMMA WhenDown ==
  ASSUME NEW m \in MemberType
  PROVE  /\ Down(m) \in MemberType /\ Down(m).running = FALSE /\ Down(m).raised = FALSE
         /\ Down(m).object = m.object /\ Down(m).inbox = m.inbox /\ Down(m).task = m.task
BY DEF MemberType, Down

LEMMA WhenRaised ==
  ASSUME NEW m \in MemberType
  PROVE  /\ Raised(m) \in MemberType
         /\ Raised(m).running = m.running /\ Raised(m).raised = m.running
         /\ Raised(m).object = m.object /\ Raised(m).inbox = m.inbox /\ Raised(m).task = m.task
BY DEF MemberType, Raised

LEMMA WithoutTask ==
  ASSUME NEW m \in MemberType, NEW o \in Objects
  PROVE  /\ Emptied(m, o) \in MemberType
         /\ Emptied(m, o).object = m.object /\ Emptied(m, o).inbox = m.inbox
         /\ Emptied(m, o).running = m.running /\ Emptied(m, o).raised = m.raised
         /\ Emptied(m, o).task[o] = "none"
         /\ \A p \in Objects \ {o} : Emptied(m, o).task[p] = m.task[p]
BY DEF MemberType, Emptied

LEMMA WithoutInbox ==
  ASSUME MaxObjects \in Nat, NEW m \in MemberType, NEW o, m.inbox \in {0, o}
  PROVE  /\ Released(m, o) \in MemberType /\ Released(m, o).inbox = 0
         /\ Released(m, o).object = m.object /\ Released(m, o).running = m.running
         /\ Released(m, o).raised = m.raised /\ Released(m, o).task = m.task
<1>1. CASE m.inbox = o
  <2>1. Released(m, o) = [m EXCEPT !.inbox = 0]
    BY <1>1 DEF Released
  <2>2. 0 \in 0..MaxObjects
    OBVIOUS
  <2> QED BY <2>1, <2>2, WithInbox
<1>2. CASE m.inbox # o
  <2>1. Released(m, o) = m
    BY <1>2 DEF Released, MemberType
  <2> QED BY <1>2, <2>1
<1> QED BY <1>1, <1>2

\* A member that is down can be started, on the object held or on a new one.
LEMMA StartsFine ==
  ASSUME MaxObjects \in Nat, NEW m, Fine(m), ~ m.running, m.object # 0
  PROVE  CanStart(m) /\ Fine(Started(m))
<1>1. /\ m \in MemberType /\ m.object \in Objects /\ m.inbox = 0 /\ ~ m.raised
      /\ \A o \in Objects : m.task[o] = "none"
  BY DEF Fine, MemberType, Objects
<1> DEFINE u == Started(m)
<1>2. /\ u \in MemberType /\ u.object = m.object /\ u.inbox = m.object /\ u.running
      /\ u.raised = m.raised /\ u.task = [m.task EXCEPT ![m.object] = "live"]
  BY <1>1 DEF Started, MemberType, Objects
<1> HIDE DEF u
<1>3. m.task \in [Objects -> {"none", "live", "died"}]
  BY <1>1 DEF MemberType
<1>4. u.task[m.object] = "live" /\ \A o \in Objects : o # m.object => u.task[o] = "none"
  BY <1>1, <1>2, <1>3
<1>5. m.object # 0
  BY <1>1 DEF Objects
<1>6. Fine(u)
  BY <1>1, <1>2, <1>4, <1>5 DEF Fine
<1> QED BY <1>1, <1>6 DEF CanStart, u

LEMMA BuildsFine ==
  ASSUME MaxObjects \in Nat, NEW m, Fine(m), ~ m.running, CanBuild(m)
  PROVE  Fine(Built(m)) /\ ~ Built(m).running /\ Built(m).object # 0
<1>1. /\ m \in MemberType /\ m.inbox = 0 /\ ~ m.raised
      /\ \A o \in Objects : m.task[o] = "none"
  BY DEF Fine, MemberType, Objects
<1> DEFINE u == Built(m)
<1>2. /\ u \in MemberType /\ u.object = m.object + 1 /\ u.inbox = 0 /\ ~ u.running
      /\ ~ u.raised /\ u.task = m.task /\ u.object # 0
  BY <1>1 DEF Built, MemberType, CanBuild
<1> HIDE DEF u
<1>3. Fine(u)
  BY <1>1, <1>2 DEF Fine
<1> QED BY <1>2, <1>3 DEF u

\* What is over with a stop has neither loop nor registration, and is down unless the
\* stop raised.
LEMMA StopEndsFine ==
  ASSUME MaxObjects \in Nat, NEW m, NEW o, Cut(m, o), NEW raises \in BOOLEAN
  PROVE  /\ Fine(StopEnded(m, o, raises)) /\ Over(StopEnded(m, o, raises))
         /\ ~ raises => ~ StopEnded(m, o, raises).running
<1> DEFINE k == Released(m, o)
           u == StopEnded(m, o, raises)
<1>1. k \in MemberType /\ k.inbox = 0 /\ k.task = m.task /\ k.running /\ k.object = o
  BY WithoutInbox DEF Cut
<1>2. u = IF raises THEN Raised(k) ELSE Down(k)
  BY DEF StopEnded
<1>3. o # 0 /\ \A p \in Objects : m.task[p] = "none"
  BY DEF Cut, Objects
<1> HIDE DEF u, k
<1>4. /\ u \in MemberType /\ u.inbox = 0 /\ u.task = m.task /\ u.object = o
      /\ u.raised = u.running /\ (~ raises => ~ u.running)
  <2>1. CASE raises
    BY <1>1, <1>2, <2>1, WhenRaised
  <2>2. CASE ~ raises
    BY <1>1, <1>2, <2>2, WhenDown
  <2> QED BY <2>1, <2>2
<1>5. Fine(u) /\ Over(u)
  BY <1>3, <1>4 DEF Fine, Over
<1> QED BY <1>4, <1>5 DEF u

LEMMA StopsFine ==
  ASSUME MaxObjects \in Nat, NEW m, Fine(m), ~ StopWaits(m)
  PROVE  /\ Fine(StoppedAtOnce(m)) /\ Over(StoppedAtOnce(m))
         /\ ~ StopRaises(m) => ~ StoppedAtOnce(m).running
<1>1. CASE ~ m.running
  <2>1. \A o \in Objects : m.task[o] = "none"
    BY <1>1 DEF Fine
  <2> QED BY <1>1, <2>1 DEF StoppedAtOnce, Fine, Over
<1>2. CASE m.running
  <2> DEFINE o == m.object
             k == [m EXCEPT !.task[m.object] = "none"]
             u == Released(k, o)
             v == StoppedAtOnce(m)
  <2>1. /\ m \in MemberType /\ o \in Objects /\ m.inbox \in {0, o} /\ m.task[o] # "live"
        /\ \A p \in Objects : p # o => m.task[p] = "none"
    BY <1>2 DEF Fine, MemberType, Objects, StopWaits
  <2>2. v = IF StopRaises(m) THEN Raised(u) ELSE Down(u)
    BY <1>2 DEF StoppedAtOnce
  <2> HIDE DEF u, v
  <2>3. k = Emptied(m, o)
    BY DEF Emptied
  <2> HIDE DEF k
  <2>4. /\ k \in MemberType /\ k.object = o /\ k.running /\ k.inbox = m.inbox
        /\ k.task[o] = "none" /\ \A p \in Objects \ {o} : k.task[p] = m.task[p]
    BY <1>2, <2>1, <2>3, WithoutTask
  <2>5. \A p \in Objects : k.task[p] = "none"
    BY <2>1, <2>4
  <2>6. u \in MemberType /\ u.object = o /\ u.running /\ u.inbox = 0 /\ u.task = k.task
    BY <2>1, <2>4, WithoutInbox DEF u
  <2>7. /\ v \in MemberType /\ v.object = o /\ v.inbox = 0 /\ v.task = k.task
        /\ v.raised = v.running /\ (~ StopRaises(m) => ~ v.running)
    <3>1. CASE StopRaises(m)
      BY <2>2, <2>6, <3>1, WhenRaised
    <3>2. CASE ~ StopRaises(m)
      BY <2>2, <2>6, <3>2, WhenDown
    <3> QED BY <3>1, <3>2
  <2>8. o # 0
    BY <2>1 DEF Objects
  <2>9. Fine(v) /\ Over(v)
    BY <2>5, <2>7, <2>8 DEF Fine, Over
  <2> QED BY <2>7, <2>9 DEF v
<1> QED BY <1>1, <1>2

LEMMA CancelsFine ==
  ASSUME MaxObjects \in Nat, NEW m, Fine(m), StopWaits(m)
  PROVE  Cut(Cancelled(m), m.object)
<1> DEFINE u == Cancelled(m)
<1>1. /\ m \in MemberType /\ m.object \in Objects /\ m.inbox \in {0, m.object}
      /\ m.task \in [Objects -> {"none", "live", "died"}]
      /\ \A p \in Objects : p # m.object => m.task[p] = "none"
  BY DEF Fine, MemberType, Objects, StopWaits
<1>2. /\ u \in MemberType /\ u.object = m.object /\ u.running /\ u.inbox = m.inbox
      /\ u.task = [m.task EXCEPT ![m.object] = "none"]
  BY <1>1 DEF Cancelled, StopWaits, MemberType
<1> HIDE DEF u
<1>3. \A p \in Objects : u.task[p] = "none"
  BY <1>1, <1>2
<1> QED BY <1>1, <1>2, <1>3 DEF Cut, u

-----------------------------------------------------------------------------
(***************************************************************************)
(* A request that ends, or that waits for a leader.                        *)
(***************************************************************************)
LEMMA OneContinues ==
  ASSUME DOMAIN request = Request, NEW r \in Request, NEW q,
         request' = [request EXCEPT ![r] = q]
  PROVE  /\ DOMAIN request' = Request /\ request'[r] = q
         /\ \A s \in Request \ {r} :
               request'[s] = request[s] /\ Stops(s)' = Stops(s) /\ Starts(s)' = Starts(s)
BY DEF Stops, Starts

LEMMA HeldIsStopped ==
  ASSUME Inv, NEW n \in Node
  PROVE  /\ BeingStopped(n) <=> \E s \in Request : Stops(s) /\ request[s].node = n
         /\ ~ BeingStopped(n) => Fine(Member(n))
BY DEF Inv, BeingStopped, Stops

\* A request is over with a member, or with nothing but its own waiting.
LEMMA Rests ==
  ASSUME Inv, NEW r \in Request, NEW q, request' = [request EXCEPT ![r] = q],
         q.at = "idle" \/ (q.at = "waiting" /\ q.purpose # "start"),
         lab = "up", lab' = lab, NEW n \in Node, NEW m \in MemberType, Fine(m), deaths' \in Nat,
         MemberBecomes(n, m),
         Stops(r) => request[r].node = n,
         \A s \in Request \ {r} : Stops(s) => request[s].node # n
  PROVE  Inv'
<1>1. Typed /\ DOMAIN request = Request
  BY DEF Inv
<1>2. Typed' /\ Member(n)' = m /\ \A k \in Node \ {n} : Member(k)' = Member(k)
  BY <1>1, OneBecomes
<1>3. /\ DOMAIN request' = Request /\ request'[r] = q
      /\ \A s \in Request \ {r} :
            request'[s] = request[s] /\ Stops(s)' = Stops(s) /\ Starts(s)' = Starts(s)
  BY <1>1, OneContinues
<1>4. ~ Stops(r)' /\ ~ Starts(r)'
  BY <1>3 DEF Stops, Starts
<1>5. ASSUME NEW k \in Node PROVE BeingStopped(k)' \/ Fine(Member(k))'
  <2>1. CASE k = n
    BY <1>2, <2>1
  <2>2. CASE k # n /\ BeingStopped(k)
    <3>1. PICK s \in Request : Stops(s) /\ request[s].node = k
      BY <2>2, HeldIsStopped
    <3>2. s # r
      BY <2>2, <3>1
    <3>3. request'[s].at = "stopping" /\ request'[s].node = k
      BY <1>3, <3>1, <3>2 DEF Stops
    <3> QED BY <3>3 DEF BeingStopped
  <2>3. CASE k # n /\ ~ BeingStopped(k)
    BY <1>2, <2>3, HeldIsStopped
  <2> QED BY <2>1, <2>2, <2>3
<1>6. ASSUME NEW s \in Request, Stops(s)' PROVE HasInHand(s, request[s])'
  <2>0. PICK p : p = request[s]
    OBVIOUS
  <2>1. s # r /\ Stops(s) /\ request'[s] = p
    BY <2>0, <1>3, <1>4, <1>6
  <2>2. HasInHand(s, p) /\ p.node # n
    BY <2>0, <2>1 DEF Inv
  <2>3. p.node \in Node /\ Cut(Member(p.node)', p.object) /\ p.purpose \in {"crash", "restart"}
    BY <1>2, <2>2 DEF HasInHand
  <2>4. \A t \in Request \ {s} : Stops(t)' => request'[t].node # p.node
    BY <1>3, <1>4, <2>2 DEF HasInHand, Stops
  <2> QED BY <2>1, <2>3, <2>4 DEF HasInHand, Stops
<1>7. \A s \in Request : ~ Starts(s)'
  BY <1>3, <1>4 DEF Inv
<1>8. lab' # "none"
  OBVIOUS
<1> QED BY <1>2, <1>3, <1>5, <1>6, <1>7, <1>8 DEF Inv

\* A request that stops no member ends and changes none.
LEMMA JustEnds ==
  ASSUME Inv, NEW r \in Request, ~ Stops(r), NEW how, Answer(r, how),
         Typed', \A n \in Node : Member(n)' = Member(n),
         lab' = lab \/ (lab = "starting" /\ Starts(r) /\ lab' = "up")
  PROVE  Inv'
<1>1. Typed /\ DOMAIN request = Request
  BY DEF Inv
<1>2. Typed' /\ \A n \in Node : Member(n)' = Member(n)
  OBVIOUS
<1>3. Idle.at = "idle" /\ request' = [request EXCEPT ![r] = Idle]
  BY DEF Idle, Answer
<1>4. /\ DOMAIN request' = Request /\ request'[r] = Idle
      /\ \A s \in Request \ {r} :
            request'[s] = request[s] /\ Stops(s)' = Stops(s) /\ Starts(s)' = Starts(s)
  BY <1>1, <1>3, OneContinues
<1>5. ~ Stops(r)' /\ ~ Starts(r)'
  BY <1>3, <1>4 DEF Stops, Starts
<1>6. ASSUME NEW k \in Node PROVE BeingStopped(k)' \/ Fine(Member(k))'
  <2>1. CASE BeingStopped(k)
    <3>1. PICK s \in Request : Stops(s) /\ request[s].node = k
      BY <2>1, HeldIsStopped
    <3>2. request'[s].at = "stopping" /\ request'[s].node = k
      BY <1>4, <3>1 DEF Stops
    <3> QED BY <3>2 DEF BeingStopped
  <2>2. CASE ~ BeingStopped(k)
    BY <1>2, <2>2, HeldIsStopped
  <2> QED BY <2>1, <2>2
<1>7. ASSUME NEW s \in Request, Stops(s)' PROVE HasInHand(s, request[s])'
  <2>0. PICK p : p = request[s]
    OBVIOUS
  <2>1. s # r /\ Stops(s) /\ request'[s] = p
    BY <2>0, <1>4, <1>5, <1>7
  <2>2. HasInHand(s, p)
    BY <2>0, <2>1 DEF Inv
  <2>3. lab' = lab
    BY <2>2 DEF HasInHand
  <2>4. p.node \in Node /\ Cut(Member(p.node)', p.object)
    BY <1>2, <2>2 DEF HasInHand
  <2>5. \A t \in Request \ {s} : Stops(t)' => Stops(t) /\ request'[t] = request[t]
    BY <1>4, <1>5
  <2> QED BY <1>2, <2>1, <2>2, <2>3, <2>4, <2>5 DEF HasInHand
<1>8. ASSUME NEW s \in Request, Starts(s)'
      PROVE  lab' = "starting" /\ \A t \in Request \ {s} : ~ Starts(t)'
  <2>1. s # r /\ Starts(s)
    BY <1>4, <1>5, <1>8
  <2>2. \A t \in Request \ {s} : ~ Starts(t)
    BY <2>1 DEF Inv
  <2>3. lab = "starting" /\ lab' = lab
    BY <2>1, <2>2 DEF Inv
  <2> QED BY <1>4, <1>5, <2>2, <2>3
<1>9. lab' = "none" => \A n \in Node : Over(Member(n))'
  BY <1>2 DEF Inv
<1> QED BY <1>2, <1>4, <1>6, <1>7, <1>8, <1>9 DEF Inv

\* A member that is down, or says it runs, and what becomes of it when it is started.
LEMMA Recovers ==
  ASSUME MaxObjects \in Nat, Inv, NEW r \in Request, NEW n \in Node, NEW m, NEW purpose, Fine(m),
         Recover(r, n, m, purpose), lab = "up", lab' = lab, deaths' \in Nat,
         Stops(r) => request[r].node = n,
         \A s \in Request \ {r} : Stops(s) => request[s].node # n
  PROVE  Inv'
<1>1. PICK u, q : /\ MemberBecomes(n, u) /\ Fine(u)
                  /\ request' = [request EXCEPT ![r] = q]
                  /\ q.at = "idle" \/ (q.at = "waiting" /\ q.purpose # "start")
  <2>1. CASE Refuses(m)
    <3>1. MemberBecomes(n, m) /\ request' = [request EXCEPT ![r] = Idle]
      BY <2>1 DEF Recover, Answer
    <3>2. Idle.at = "idle"
      BY DEF Idle
    <3> QED BY <3>1, <3>2
  <2>2. CASE ~ Refuses(m)
    <3> DEFINE f == Fresh(m)
    <3>1. Fine(f) /\ ~ f.running /\ f.object # 0
      <4>1. ~ m.running
        BY <2>2 DEF Refuses
      <4>2. CASE MustBuild(m)
        <5>1. CanBuild(m) /\ f = Built(m)
          BY <4>2 DEF Recover, CanRecover, Fresh
        <5> QED BY <4>1, <5>1, BuildsFine
      <4>3. CASE ~ MustBuild(m)
        <5>1. f = m /\ m.object # 0
          BY <4>3 DEF Fresh, MustBuild
        <5> QED BY <4>1, <5>1
      <4> QED BY <4>2, <4>3
    <3> HIDE DEF f
    <3>2. CanStart(f) /\ Fine(Started(f))
      BY <3>1, StartsFine
    <3>3. /\ MemberBecomes(n, Started(f))
          /\ \/ request' = [request EXCEPT ![r] = Idle]
             \/ \E held : request' = [request EXCEPT ![r] = WaitForLeader("restart", held)]
      BY <2>2, <3>2 DEF Recover, Answer, Continue, f
    <3>4. \A held : /\ WaitForLeader("restart", held).at = "waiting"
                    /\ WaitForLeader("restart", held).purpose = "restart"
      BY DEF WaitForLeader
    <3> QED BY <3>2, <3>3, <3>4 DEF Idle
  <2> QED BY <2>1, <2>2
<1>2. u \in MemberType
  BY <1>1 DEF Fine
<1> QED BY <1>1, <1>2, Rests

-----------------------------------------------------------------------------
(***************************************************************************)
(* Tearing down.                                                           *)
(***************************************************************************)
\* Every member is on the list.
LEMMA AllAreListed ==
  ASSUME IsFiniteSet(Node)
  PROVE  AllMembers \in Seq(Node) /\ \A n \in Node : \E i \in DOMAIN AllMembers : AllMembers[i] = n
<1> DEFINE k == Cardinality(Node)
<1>1. k \in Nat /\ ExistsBijection(1..k, Node)
  BY FS_CardinalityType
<1>2. Bijection(1..k, Node) # {}
  BY <1>1 DEF ExistsBijection
<1>3. PICK f \in [1..k -> Node] : IsInjective(f)
  BY <1>2 DEF Bijection, Injection
<1>4. AllMembers \in [1..k -> Node] /\ IsInjective(AllMembers)
  BY <1>3 DEF AllMembers, SetToSeq
<1>5. AllMembers \in Injection(1..k, Node)
  BY <1>4 DEF Injection
<1>6. IsFiniteSet(1..k) /\ Cardinality(1..k) = k
  BY <1>1, FS_Interval
<1>7. AllMembers \in Surjection(1..k, Node)
  BY <1>5, <1>6, FS_Injection
<1>8. \A n \in Node : \E i \in 1..k : AllMembers[i] = n
  BY <1>7 DEF Surjection
<1> QED BY <1>1, <1>4, <1>8
\* If any member must be waited for, one is the first.
LEMMA FirstIsFound ==
  ASSUME NEW ms, NEW todo \in Seq(Node), NextToStop(todo, ms) = {}
  PROVE  \A j \in 1..Len(todo) : ~ StopWaits(ms[todo[j]])
<1> DEFINE S == {j \in 1..Len(todo) : StopWaits(ms[todo[j]])}
<1>1. SUFFICES ASSUME S # {} PROVE FALSE
  OBVIOUS
<1>2. S \in SUBSET Nat
  OBVIOUS
<1> HIDE DEF S
<1>3. PICK i \in S : \A j \in S : ~ (<<j, i>> \in OpToRel(<, Nat))
  BY <1>1, <1>2, WFMin, NatLessThanWellFounded
<1>4. \A j \in S : i <= j
  <2> TAKE j \in S
  <2>1. <<j, i>> \in Nat \X Nat /\ <<j, i>>[1] = j /\ <<j, i>>[2] = i
    BY <1>2
  <2>2. ~ (j < i)
    BY <1>3, <2>1 DEF OpToRel
  <2> QED BY <1>2, <2>2
<1>5. i \in 1..Len(todo) /\ StopWaits(ms[todo[i]])
  BY DEF S
<1>6. ASSUME NEW j \in 1..(i - 1) PROVE ~ StopWaits(ms[todo[j]])
  <2>1. j \in 1..Len(todo) /\ ~ (i <= j)
    BY <1>5, <1>6
  <2> QED BY <1>4, <2>1 DEF S
<1>7. i \in NextToStop(todo, ms)
  BY <1>5, <1>6 DEF NextToStop
<1> QED BY <1>7

\* What becomes of the members ms when the first of the list are stopped at once.
GoneThrough(new, todo, last, ms) ==
    /\ new \in [Node -> MemberType] /\ \A n \in Node : Fine(new[n])
    /\ \A n \in Node : Over(ms[n]) \/ (\E j \in 1..last : todo[j] = n) => Over(new[n])
    /\ \A n \in Node : (\A j \in 1..last : todo[j] # n) => new[n] = ms[n]

LEMMA StoppedFine ==
  ASSUME MaxObjects \in Nat, NEW ms, NEW todo \in Seq(Node), NEW last \in 0..Len(todo),
         \A n \in Node : Fine(ms[n]),
         \A j \in 1..last : ~ StopWaits(ms[todo[j]])
  PROVE  GoneThrough(StoppedUpTo(todo, last, ms), todo, last, ms)
<1> DEFINE new == StoppedUpTo(todo, last, ms)
<1>1. ASSUME NEW n \in Node
      PROVE  /\ Fine(new[n])
             /\ Over(ms[n]) \/ (\E j \in 1..last : todo[j] = n) => Over(new[n])
             /\ (\A j \in 1..last : todo[j] # n) => new[n] = ms[n]
  <2>1. CASE \E j \in 1..last : todo[j] = n
    <3>1. new[n] = StoppedAtOnce(ms[n]) /\ ~ StopWaits(ms[n])
      BY <2>1 DEF StoppedUpTo
    <3> QED BY <2>1, <3>1, StopsFine
  <2>2. CASE ~ \E j \in 1..last : todo[j] = n
    <3>1. new[n] = ms[n]
      BY <2>2 DEF StoppedUpTo
    <3> QED BY <2>2, <3>1
  <2> QED BY <2>1, <2>2
<1>2. new = [n \in Node |-> new[n]]
  BY DEF StoppedUpTo
<1> HIDE DEF new
<1>3. \A n \in Node : new[n] \in MemberType
  BY <1>1 DEF Fine
<1>4. new \in [Node -> MemberType]
  BY <1>2, <1>3
<1>5. GoneThrough(new, todo, last, ms)
  BY <1>1, <1>4 DEF GoneThrough
<1> QED BY <1>5 DEF new

\* A teardown goes on until it must wait, or to its end.
LEMMA ShutsDown ==
  ASSUME MaxObjects \in Nat, DOMAIN request = Request, NEW r \in Request,
         \A s \in Request \ {r} : ~ Stops(s) /\ ~ Starts(s),
         NEW ms, NEW todo \in Seq(Node), NEW purpose \in {"start", "stop"}, NEW failed,
         deaths' \in Nat, \A n \in Node : Fine(ms[n]),
         \A n \in Node : Over(ms[n]) \/ \E i \in DOMAIN todo : todo[i] = n,
         Shutdown(r, purpose, todo, failed, ms)
  PROVE  Inv'
<1>1. CASE NextToStop(todo, ms) = {}
  <2> DEFINE new == StoppedUpTo(todo, Len(todo), ms)
  <2>1. \A j \in 1..Len(todo) : ~ StopWaits(ms[todo[j]])
    BY <1>1, FirstIsFound
  <2>2. Len(todo) \in 0..Len(todo)
    OBVIOUS
  <2>3. new \in [Node -> MemberType] /\ \A n \in Node : Fine(new[n]) /\ Over(new[n])
    <3>1. GoneThrough(new, todo, Len(todo), ms)
      BY <2>1, <2>2, StoppedFine
    <3> HIDE DEF new
    <3> QED BY <3>1 DEF GoneThrough
  <2>4. MembersBecome(new) /\ request' = [request EXCEPT ![r] = Idle] /\ lab' = "none"
    BY <1>1 DEF Shutdown, TornDown, Answer
  <2> HIDE DEF new
  <2>5. Typed' /\ \A n \in Node : Member(n)' = new[n]
    BY <2>3, <2>4, Becoming
  <2>6. \A n \in Node : Fine(Member(n))' /\ Over(Member(n))'
    BY <2>3, <2>5
  <2>7. DOMAIN request' = Request /\ \A s \in Request : ~ Stops(s)' /\ ~ Starts(s)'
    <3>1. /\ DOMAIN request' = Request /\ request'[r] = Idle
          /\ \A s \in Request \ {r} :
                request'[s] = request[s] /\ Stops(s)' = Stops(s) /\ Starts(s)' = Starts(s)
      BY <2>4, OneContinues
    <3>2. ~ Stops(r)' /\ ~ Starts(r)'
      BY <3>1 DEF Stops, Starts, Idle
    <3> QED BY <3>1, <3>2
  <2> QED BY <2>5, <2>6, <2>7 DEF Inv
<1>2. CASE NextToStop(todo, ms) # {}
  <2> DEFINE i == CHOOSE k \in NextToStop(todo, ms) : TRUE
             new == StoppedUpTo(todo, i - 1, ms)
             n == todo[i]
             cut == Cancelled(new[n])
             q == [at |-> "stopping", purpose |-> purpose, node |-> n, object |-> ms[n].object,
                   todo |-> SubSeq(todo, i + 1, Len(todo)),
                   failed |-> failed \/ AnyRaises(todo, i - 1, ms)]
  <2>1. i \in NextToStop(todo, ms)
    BY <1>2
  <2>2. i \in 1..Len(todo) /\ n \in Node /\ StopWaits(ms[n])
        /\ \A j \in 1..(i - 1) : ~ StopWaits(ms[todo[j]])
    BY <2>1 DEF NextToStop
  <2>3. /\ MembersBecome([new EXCEPT ![n] = cut])
        /\ request' = [request EXCEPT ![r] = q] /\ lab' = "stopping"
    BY <1>2 DEF Shutdown, Continue
  <2>4. q.at = "stopping" /\ q.node = n /\ q.object = ms[n].object /\ q.purpose = purpose
        /\ q.todo = SubSeq(todo, i + 1, Len(todo))
    OBVIOUS
  <2> HIDE DEF i, q
  <2>5. /\ new \in [Node -> MemberType] /\ \A k \in Node : Fine(new[k])
        /\ \A k \in Node : Over(ms[k]) \/ (\E j \in 1..(i - 1) : todo[j] = k) => Over(new[k])
        /\ \A k \in Node : (\A j \in 1..(i - 1) : todo[j] # k) => new[k] = ms[k]
    <3>1. i - 1 \in 0..Len(todo)
      BY <2>2
    <3>2. GoneThrough(new, todo, i - 1, ms)
      BY <2>2, <3>1, StoppedFine
    <3> HIDE DEF new
    <3> QED BY <3>2 DEF GoneThrough
  <2> HIDE DEF new
  <2>6. new[n] = ms[n]
    BY <2>2, <2>5
  <2>7. Cut(cut, ms[n].object)
    BY <2>2, <2>6, CancelsFine
  <2> DEFINE last == [new EXCEPT ![n] = cut]
  <2>8. cut \in MemberType
    BY <2>7 DEF Cut
  <2> HIDE DEF cut, n
  <2>9. last \in [Node -> MemberType] /\ last[n] = cut /\ \A k \in Node \ {n} : last[k] = new[k]
    BY <2>2, <2>5, <2>8
  <2>10. MembersBecome(last)
    BY <2>3
  <2> HIDE DEF last
  <2>11. Typed' /\ \A k \in Node : Member(k)' = last[k]
    BY <2>9, <2>10, Becoming
  <2>12. Member(n)' = cut /\ \A k \in Node \ {n} : Member(k)' = new[k]
    BY <2>2, <2>9, <2>11
  <2>13. q.todo \in Seq(Node) /\ \A j \in (i + 1)..Len(todo) : \E k \in DOMAIN q.todo : q.todo[k] = todo[j]
    <3>1. /\ q.todo \in Seq(Node) /\ Len(q.todo) = Len(todo) - i
          /\ \A k \in 1..(Len(todo) - i) : q.todo[k] = todo[i + k]
      BY <2>2, <2>4
    <3>2. ASSUME NEW j \in (i + 1)..Len(todo) PROVE \E k \in DOMAIN q.todo : q.todo[k] = todo[j]
      <4>1. j - i \in 1..(Len(todo) - i) /\ i + (j - i) = j
        BY <2>2
      <4>2. q.todo[j - i] = todo[j] /\ j - i \in DOMAIN q.todo
        BY <3>1, <4>1
      <4> QED BY <4>2
    <3> QED BY <3>1, <3>2
  <2>14. ASSUME NEW k \in Node \ {n}
         PROVE  Over(new[k]) \/ \E j \in DOMAIN q.todo : q.todo[j] = k
    <3>1. CASE Over(ms[k]) \/ \E j \in 1..(i - 1) : todo[j] = k
      BY <2>5, <3>1
    <3>2. CASE \E j \in DOMAIN todo : todo[j] = k /\ j \notin 1..(i - 1)
      <4>1. PICK j \in 1..Len(todo) : todo[j] = k /\ j \notin 1..(i - 1)
        BY <3>2
      <4>2. j # i
        BY <4>1 DEF n
      <4>3. j \in (i + 1)..Len(todo)
        BY <2>2, <4>1, <4>2
      <4> QED BY <2>13, <4>1, <4>3
    <3> QED BY <3>1, <3>2
  <2>15. /\ DOMAIN request' = Request /\ request'[r] = q
         /\ \A s \in Request \ {r} : ~ Stops(s)' /\ ~ Starts(s)'
    BY <2>3, OneContinues
  <2>16. q.node \in Node /\ Cut(Member(q.node)', q.object)
    BY <2>2, <2>4, <2>7, <2>12
  <2>17. \A k \in Node \ {q.node} :
            Fine(Member(k)') /\ (Over(Member(k)') \/ \E j \in DOMAIN q.todo : q.todo[j] = k)
    BY <2>4, <2>5, <2>12, <2>14
  <2>18. HasInHand(r, q)'
    BY <2>3, <2>4, <2>13, <2>15, <2>16, <2>17 DEF HasInHand
  <2>19. ASSUME NEW k \in Node PROVE BeingStopped(k)' \/ Fine(Member(k))'
    <3>1. CASE k = q.node
      BY <2>4, <2>15, <3>1 DEF BeingStopped
    <3>2. CASE k # q.node
      BY <2>17, <3>2
    <3> QED BY <3>1, <3>2
  <2>20. \A s \in Request : Stops(s)' => HasInHand(s, request[s])'
    BY <2>15, <2>18
  <2>21. \A s \in Request : ~ Starts(s)'
    BY <2>4, <2>15 DEF Starts
  <2> QED BY <2>3, <2>11, <2>15, <2>19, <2>20, <2>21 DEF Inv
<1> QED BY <1>1, <1>2

-----------------------------------------------------------------------------
(***************************************************************************)
(* Stopping one member.                                                    *)
(***************************************************************************)
\* A member whose stop is over, after a crash or before it is started again.
LEMMA GoesOn ==
  ASSUME MaxObjects \in Nat, Inv, NEW r \in Request, NEW n \in Node, NEW m, NEW purpose, Fine(m),
         AfterStop(r, n, m, purpose), lab = "up", lab' = lab, deaths' \in Nat,
         Stops(r) => request[r].node = n,
         \A s \in Request \ {r} : Stops(s) => request[s].node # n
  PROVE  Inv'
<1>1. CASE purpose = "crash"
  <2>1. MemberBecomes(n, m) /\ request' = [request EXCEPT ![r] = Idle]
    BY <1>1 DEF AfterStop, Answer
  <2>2. m \in MemberType /\ Idle.at = "idle"
    BY DEF Fine, Idle
  <2> QED BY <2>1, <2>2, Rests
<1>2. CASE purpose # "crash"
  <2>1. Recover(r, n, m, "restart")
    BY <1>2 DEF AfterStop
  <2> QED BY <2>1, Recovers
<1> QED BY <1>1, <1>2

\* A member whose loop was cancelled, by a request that waits for it.
LEMMA TakesInHand ==
  ASSUME Inv, NEW r \in Request, ~ Stops(r), NEW n \in Node, NEW u, NEW o, NEW q,
         q.at = "stopping", q.purpose \in {"crash", "restart"}, q.node = n, q.object = o,
         Cut(u, o), MemberBecomes(n, u),
         request' = [request EXCEPT ![r] = q], lab = "up", UNCHANGED <<lab, deaths>>,
         \A s \in Request \ {r} : Stops(s) => request[s].node # n
  PROVE  Inv'
<1>1. Typed /\ DOMAIN request = Request /\ deaths' \in Nat /\ u \in MemberType
  BY DEF Inv, Typed, Cut
<1>2. Typed' /\ Member(n)' = u /\ \A k \in Node \ {n} : Member(k)' = Member(k)
  BY <1>1, OneBecomes
<1>3. /\ DOMAIN request' = Request /\ request'[r] = q
      /\ \A s \in Request \ {r} :
            request'[s] = request[s] /\ Stops(s)' = Stops(s) /\ Starts(s)' = Starts(s)
  BY <1>1, OneContinues
<1>4. Stops(r)' /\ ~ Starts(r)'
  BY <1>3 DEF Stops, Starts
<1>5. ASSUME NEW k \in Node PROVE BeingStopped(k)' \/ Fine(Member(k))'
  <2>1. CASE k = n
    BY <1>3, <2>1 DEF BeingStopped
  <2>2. CASE k # n /\ BeingStopped(k)
    <3>1. PICK s \in Request : Stops(s) /\ request[s].node = k
      BY <2>2, HeldIsStopped
    <3>2. request'[s].at = "stopping" /\ request'[s].node = k
      BY <1>3, <3>1 DEF Stops
    <3> QED BY <3>2 DEF BeingStopped
  <2>3. CASE k # n /\ ~ BeingStopped(k)
    BY <1>2, <2>3, HeldIsStopped
  <2> QED BY <2>1, <2>2, <2>3
<1>6. HasInHand(r, q)'
  BY <1>2, <1>3 DEF HasInHand
<1>7. ASSUME NEW s \in Request \ {r}, Stops(s)' PROVE HasInHand(s, request[s])'
  <2>0. PICK p : p = request[s]
    OBVIOUS
  <2>1. Stops(s) /\ request'[s] = p
    BY <2>0, <1>3, <1>7
  <2>2. HasInHand(s, p) /\ p.node # n
    BY <2>0, <2>1 DEF Inv
  <2>3. p.node \in Node /\ Cut(Member(p.node)', p.object) /\ p.purpose \in {"crash", "restart"}
    BY <1>2, <2>2 DEF HasInHand
  <2>4. \A t \in Request \ {s} : Stops(t)' => request'[t].node # p.node
    <3> TAKE t \in Request \ {s}
    <3>1. CASE t = r
      BY <1>3, <2>2, <3>1
    <3>2. CASE t # r
      BY <1>3, <2>2, <3>2 DEF HasInHand, Stops
    <3> QED BY <3>1, <3>2
  <2> QED BY <2>1, <2>3, <2>4 DEF HasInHand, Stops
<1>8. \A s \in Request : ~ Starts(s)'
  BY <1>3, <1>4 DEF Inv
<1> QED BY <1>2, <1>3, <1>5, <1>6, <1>7, <1>8 DEF Inv

\* NodeManager.stop, alone or before a recovery.
LEMMA StopsNode ==
  ASSUME MaxObjects \in Nat, Inv, NEW r \in Request, ~ Stops(r), NEW n \in Node,
         NEW purpose \in {"crash", "restart"}, StopNode(r, n, purpose),
         lab = "up", UNCHANGED <<lab, deaths>>,
         \A s \in Request \ {r} : Stops(s) => request[s].node # n
  PROVE  Inv'
<1> DEFINE m == Member(n)
<1>1. m.object = object[n] /\ deaths' \in Nat
  BY DEF Member, Inv, Typed
<1>2. Fine(m)
  <2>1. ~ BeingStopped(n)
    BY HeldIsStopped
  <2> QED BY <2>1, HeldIsStopped
<1>3. CASE StopWaits(m)
  <2> DEFINE u == Cancelled(m)
             q == [at |-> "stopping", purpose |-> purpose, node |-> n, object |-> m.object,
                   todo |-> <<>>, failed |-> FALSE]
  <2>1. MemberBecomes(n, u) /\ request' = [request EXCEPT ![r] = q]
    BY <1>1, <1>3 DEF StopNode, Continue
  <2>2. q.at = "stopping" /\ q.purpose = purpose /\ q.node = n /\ q.object = m.object
    OBVIOUS
  <2> HIDE DEF q, m
  <2>3. Cut(u, m.object)
    BY <1>2, <1>3, CancelsFine
  <2> HIDE DEF u
  <2> QED BY <2>1, <2>2, <2>3, TakesInHand
<1>4. CASE ~ StopWaits(m)
  <2> DEFINE u == StoppedAtOnce(m)
  <2>1. Fine(u) /\ u \in MemberType
    BY <1>2, <1>4, StopsFine DEF Fine
  <2>2. CASE StopRaises(m)
    <3>1. MemberBecomes(n, u) /\ request' = [request EXCEPT ![r] = Idle]
      BY <1>4, <2>2 DEF StopNode, Answer
    <3> HIDE DEF u
    <3>2. Idle.at = "idle"
      BY DEF Idle
    <3> QED BY <1>1, <2>1, <3>1, <3>2, Rests
  <2>3. CASE ~ StopRaises(m)
    <3>1. AfterStop(r, n, u, purpose)
      BY <1>4, <2>3 DEF StopNode
    <3> HIDE DEF u
    <3> QED BY <1>1, <2>1, <3>1, GoesOn
  <2> QED BY <2>2, <2>3
<1> QED BY <1>3, <1>4

\* The loop in hand has ended.
LEMMA ReturnsFromStop ==
  ASSUME MaxObjects \in Nat, Inv, NEW r \in Request, StopReturns(r)
  PROVE  Inv'
<1> DEFINE q == request[r]
           m(e) == StopEnded(Member(q.node), q.object, e)
<1>1. Stops(r) /\ HasInHand(r, q) /\ Typed /\ DOMAIN request = Request
  BY DEF StopReturns, Stops, Inv
<1>2. PICK raises \in BOOLEAN :
         /\ deaths' = IF raises THEN deaths + 1 ELSE deaths
         /\ IF q.purpose \in {"start", "stop"}
            THEN Shutdown(r, q.purpose, q.todo, q.failed \/ raises, [Now EXCEPT ![q.node] = m(raises)])
            ELSE /\ IF raises THEN MemberBecomes(q.node, m(raises)) /\ Answer(r, "error")
                    ELSE AfterStop(r, q.node, m(raises), q.purpose)
                 /\ lab' = lab
  BY DEF StopReturns
<1>3. deaths' \in Nat
  BY <1>1, <1>2 DEF Typed
<1>4. /\ q.node \in Node /\ Cut(Member(q.node), q.object)
      /\ \A s \in Request \ {r} : Stops(s) => request[s].node # q.node
  BY <1>1 DEF HasInHand
<1> DEFINE u == m(raises)
<1>5. Fine(u) /\ Over(u) /\ u \in MemberType
  BY <1>4, StopEndsFine DEF Fine
<1>6. CASE q.purpose \in {"crash", "restart"}
  <2>1. lab = "up" /\ lab' = lab
    BY <1>1, <1>2, <1>6 DEF HasInHand
  <2>2. CASE raises
    <3>1. MemberBecomes(q.node, u) /\ request' = [request EXCEPT ![r] = Idle]
      BY <1>2, <1>6, <2>2 DEF Answer
    <3>2. Idle.at = "idle"
      BY DEF Idle
    <3> HIDE DEF m
    <3> QED BY <1>3, <1>4, <1>5, <2>1, <3>1, <3>2, Rests
  <2>3. CASE ~ raises
    <3>1. AfterStop(r, q.node, u, q.purpose)
      BY <1>2, <1>6, <2>3
    <3> HIDE DEF m
    <3> QED BY <1>3, <1>4, <1>5, <2>1, <3>1, GoesOn
  <2> QED BY <2>2, <2>3
<1>7. CASE q.purpose \notin {"crash", "restart"}
  <2> DEFINE ms == [Now EXCEPT ![q.node] = u]
             failed == q.failed \/ raises
  <2>1. /\ q.purpose \in {"start", "stop"} /\ lab = "stopping"
        /\ \A s \in Request \ {r} : ~ Stops(s)
        /\ q.todo \in Seq(Node)
        /\ \A n \in Node \ {q.node} : Over(Member(n)) \/ \E i \in DOMAIN q.todo : q.todo[i] = n
    BY <1>1, <1>7 DEF HasInHand
  <2>2. Shutdown(r, q.purpose, q.todo, failed, ms)
    BY <1>2, <2>1
  <2> HIDE DEF m, failed
  <2>3. ms[q.node] = u /\ \A n \in Node \ {q.node} : ms[n] = Member(n)
    BY <1>4 DEF Now
  <2> HIDE DEF ms
  <2>4. \A n \in Node \ {q.node} : Fine(Member(n))
    <3> SUFFICES ASSUME NEW n \in Node, n # q.node PROVE ~ BeingStopped(n)
      BY HeldIsStopped
    <3> QED BY <2>1, HeldIsStopped
  <2>5. \A n \in Node : Fine(ms[n])
    BY <1>5, <2>3, <2>4
  <2>6. \A n \in Node : Over(ms[n]) \/ \E i \in DOMAIN q.todo : q.todo[i] = n
    BY <1>5, <2>1, <2>3
  <2>7. \A s \in Request \ {r} : ~ Stops(s) /\ ~ Starts(s)
    BY <2>1 DEF Inv
  <2> HIDE DEF q
  <2> QED BY <1>1, <1>3, <2>1, <2>2, <2>5, <2>6, <2>7, ShutsDown
<1> QED BY <1>6, <1>7

-----------------------------------------------------------------------------
(***************************************************************************)
(* The other requests, and what happens by itself.                         *)
(***************************************************************************)
LEMMA StartsCluster ==
  ASSUME MaxObjects \in Nat \ {0}, Inv, NEW r \in Request, StartCluster(r)
  PROVE  Inv'
<1> DEFINE ms == [n \in Node |-> Started(Built(Member(n)))]
           q == WaitForLeader("start", ms)
<1>1. /\ lab = "none" /\ \A n \in Node : object[n] = 0
      /\ MembersBecome(ms) /\ request' = [request EXCEPT ![r] = q]
      /\ lab' = "starting" /\ deaths' = deaths
  BY DEF StartCluster, Free, Continue
<1>2. q.at = "waiting" /\ q.purpose = "start"
  BY DEF WaitForLeader
<1> HIDE DEF q
<1>3. /\ Typed /\ deaths' \in Nat /\ DOMAIN request = Request
      /\ \A s \in Request : ~ Stops(s) /\ ~ Starts(s)
  BY <1>1 DEF Inv, Typed, HasInHand
<1>4. ASSUME NEW n \in Node PROVE Fine(ms[n]) /\ ms[n] \in MemberType
  <2> DEFINE m == Member(n)
             b == Built(m)
  <2>1. ~ BeingStopped(n)
    BY <1>3, HeldIsStopped
  <2>2. m.object = 0 /\ Fine(m)
    BY <1>1, <2>1, HeldIsStopped DEF Member
  <2> HIDE DEF m
  <2>3. ~ m.running /\ CanBuild(m)
    BY <2>2 DEF Fine, CanBuild
  <2>4. Fine(b) /\ ~ b.running /\ b.object # 0
    BY <2>2, <2>3, BuildsFine
  <2> HIDE DEF b
  <2>5. Fine(Started(b))
    BY <2>4, StartsFine
  <2>6. ms[n] = Started(b)
    BY DEF b, m
  <2> QED BY <2>5, <2>6 DEF Fine
<1>5. ms \in [Node -> MemberType]
  BY <1>4
<1> HIDE DEF ms
<1>6. Typed' /\ \A n \in Node : Member(n)' = ms[n]
  BY <1>1, <1>3, <1>5, Becoming
<1>7. \A n \in Node : Fine(Member(n))'
  BY <1>4, <1>6
<1>8. /\ DOMAIN request' = Request /\ request'[r] = q
      /\ \A s \in Request \ {r} : ~ Stops(s)' /\ ~ Starts(s)'
  BY <1>1, <1>3, OneContinues
<1>9. ~ Stops(r)'
  BY <1>2, <1>8 DEF Stops
<1>10. /\ \A s \in Request : ~ Stops(s)'
       /\ \A s \in Request : Starts(s)' => lab' = "starting" /\ \A t \in Request \ {s} : ~ Starts(t)'
  BY <1>1, <1>8, <1>9
<1> QED BY <1>1, <1>6, <1>7, <1>8, <1>10 DEF Inv

\* A teardown that begins when nobody stops a member.
LEMMA TearsDown ==
  ASSUME IsFiniteSet(Node), MaxObjects \in Nat, Inv, NEW r \in Request,
         \A s \in Request : ~ Stops(s), \A s \in Request \ {r} : ~ Starts(s),
         NEW purpose \in {"start", "stop"}, Shutdown(r, purpose, AllMembers, FALSE, Now),
         deaths' = deaths
  PROVE  Inv'
<1>1. DOMAIN request = Request /\ deaths' \in Nat
  BY DEF Inv, Typed
<1>2. \A n \in Node : Fine(Now[n])
  <2> TAKE n \in Node
  <2>1. ~ BeingStopped(n)
    BY HeldIsStopped
  <2>2. Fine(Member(n))
    BY <2>1, HeldIsStopped
  <2> QED BY <2>2 DEF Now
<1>3. AllMembers \in Seq(Node) /\ \A n \in Node : \E i \in DOMAIN AllMembers : AllMembers[i] = n
  BY AllAreListed
<1> QED BY <1>1, <1>2, <1>3, ShutsDown

LEMMA MembersStay ==
  ASSUME Inv, UNCHANGED <<members, deaths>>
  PROVE  Typed' /\ \A n \in Node : Member(n)' = Member(n)
BY DEF Inv, Typed, members, Member

LEMMA Waits ==
  ASSUME IsFiniteSet(Node), MaxObjects \in Nat, Inv, NEW r \in Request, Poll(r) \/ TimesOut(r)
  PROVE  Inv'
<1>1. request[r].at = "waiting" /\ deaths' = deaths /\ ~ Stops(r)
  BY DEF Poll, TimesOut, Stops
<1>2. Starts(r) <=> request[r].purpose = "start"
  BY <1>1 DEF Starts
<1>3. CASE Poll(r)
  <2>1. Answer(r, "ok") /\ UNCHANGED <<members, deaths>>
        /\ (lab' = lab \/ (Starts(r) /\ lab' = "up"))
    BY <1>2, <1>3 DEF Poll
  <2>2. Starts(r) => lab = "starting"
    BY DEF Inv
  <2> QED BY <1>1, <2>1, <2>2, MembersStay, JustEnds
<1>4. CASE TimesOut(r) /\ request[r].purpose = "start"
  <2>1. Shutdown(r, "start", AllMembers, FALSE, Now)
    BY <1>4 DEF TimesOut
  <2>2. lab = "starting" /\ \A s \in Request \ {r} : ~ Starts(s)
    BY <1>2, <1>4 DEF Inv
  <2>3. \A s \in Request : ~ Stops(s)
    BY <2>2 DEF Inv, HasInHand
  <2> QED BY <1>1, <2>1, <2>2, <2>3, TearsDown
<1>5. CASE TimesOut(r) /\ request[r].purpose # "start"
  <2>1. Answer(r, "timeout") /\ UNCHANGED <<members, lab, deaths>>
    BY <1>5 DEF TimesOut
  <2> QED BY <1>1, <2>1, MembersStay, JustEnds
<1> QED BY <1>3, <1>4, <1>5

LEMMA Asks ==
  ASSUME IsFiniteSet(Node), MaxObjects \in Nat, Inv, NEW r \in Request, NEW n \in Node,
         RecoverNode(r, n) \/ (Alone(r, n) /\ (CrashNode(r, n) \/ RestartNode(r, n)))
  PROVE  Inv'
<1>1. request[r].at = "idle" /\ UNCHANGED <<lab, deaths>> /\ lab = "up"
  BY DEF CrashNode, RestartNode, RecoverNode, Free
<1>2. ~ Stops(r) /\ deaths' \in Nat
  BY <1>1 DEF Stops, Inv, Typed
<1>3. Alone(r, n) => \A s \in Request \ {r} : Stops(s) => request[s].node # n
  BY DEF Alone, Stops
<1>4. CASE Alone(r, n) /\ CrashNode(r, n) /\ running[n]
  <2>1. StopNode(r, n, "crash")
    BY <1>4 DEF CrashNode
  <2> QED BY <1>1, <1>2, <1>3, <1>4, <2>1, StopsNode
<1>5. CASE CrashNode(r, n) /\ ~ running[n]
  <2>1. Answer(r, "refused") /\ UNCHANGED members
    BY <1>5 DEF CrashNode
  <2> QED BY <1>1, <1>2, <2>1, MembersStay, JustEnds
<1>6. CASE Alone(r, n) /\ RestartNode(r, n)
  <2>1. StopNode(r, n, "restart")
    BY <1>6 DEF RestartNode
  <2> QED BY <1>1, <1>2, <1>3, <1>6, <2>1, StopsNode
<1>7. CASE RecoverNode(r, n)
  <2> DEFINE m == Member(n)
  <2>1. Recover(r, n, m, "recover")
    BY <1>7 DEF RecoverNode
  <2>2. m \in MemberType
    BY MemberIsTyped DEF Inv
  <2>3. CASE m.running
    <3>1. MemberBecomes(n, m) /\ Answer(r, "refused")
      BY <2>1, <2>3 DEF Recover, Refuses
    <3>2. Typed
      BY DEF Inv
    <3> HIDE DEF m
    <3>3. Typed' /\ Member(n)' = m /\ \A k \in Node \ {n} : Member(k)' = Member(k)
      BY <1>2, <2>2, <3>1, <3>2, OneBecomes
    <3>4. \A k \in Node : Member(k)' = Member(k)
      BY <3>3 DEF m
    <3> QED BY <1>1, <1>2, <3>1, <3>3, <3>4, JustEnds
  <2>4. CASE ~ m.running
    <3>1. \A s \in Request : Stops(s) => request[s].node # n
      BY <2>4 DEF Inv, HasInHand, Cut
    <3>2. Fine(m)
      BY <3>1, HeldIsStopped
    <3> HIDE DEF m
    <3> QED BY <1>1, <1>2, <2>1, <3>1, <3>2, Recovers
  <2> QED BY <2>3, <2>4
<1> QED BY <1>4, <1>5, <1>6, <1>7

\* What happens to members without a request.
LEMMA Stays ==
  ASSUME Inv, Typed', UNCHANGED <<lab, request>>,
         \A k \in Node :
            /\ Fine(Member(k)) => Fine(Member(k)')
            /\ \A o : Cut(Member(k), o) => Cut(Member(k)', o)
            /\ Over(Member(k)) => Over(Member(k)')
  PROVE  Inv'
<1>1. \A n \in Node : BeingStopped(n)' \/ Fine(Member(n))'
  BY DEF Inv, BeingStopped
<1>2. \A r \in Request : Stops(r)' = Stops(r) /\ Starts(r)' = Starts(r)
  BY DEF Stops, Starts
<1>3. ASSUME NEW r \in Request, Stops(r)' PROVE HasInHand(r, request[r])'
  <2>0. PICK q : q = request[r]
    OBVIOUS
  <2>1. HasInHand(r, q) /\ request'[r] = q
    BY <2>0, <1>2, <1>3 DEF Inv
  <2>2. q.node \in Node /\ Cut(Member(q.node)', q.object)
    BY <2>1 DEF HasInHand
  <2> QED BY <1>2, <2>1, <2>2 DEF HasInHand, Stops
<1>4. \A r \in Request : Starts(r)' => lab' = "starting" /\ \A s \in Request \ {r} : ~ Starts(s)'
  BY <1>2 DEF Inv
<1> QED BY <1>1, <1>3, <1>4 DEF Inv

\* Who leads is no part of it.
LEMMA Leads ==
  ASSUME Inv, NEW n \in Node, Elect(n) \/ StepDown(n)
  PROVE  Inv'
<1>1. UNCHANGED <<object, running, raised, task, inbox, lab, request, deaths>>
  BY DEF Elect, StepDown
<1>2. Typed'
  <2>1. leads' = [leads EXCEPT ![n][inbox[n]] = TRUE] \/ leads' = [leads EXCEPT ![n][inbox[n]] = FALSE]
    BY DEF Elect, StepDown
  <2>2. Typed
    BY DEF Inv
  <2>3. leads \in [Node -> [Objects -> BOOLEAN]]
    BY <2>2 DEF Typed
  <2>4. \A f \in [Objects -> BOOLEAN], i, b \in BOOLEAN : [f EXCEPT ![i] = b] \in [Objects -> BOOLEAN]
    OBVIOUS
  <2>5. PICK f \in [Objects -> BOOLEAN] : leads' = [leads EXCEPT ![n] = f]
    BY <2>1, <2>3, <2>4
  <2>6. leads' \in [Node -> [Objects -> BOOLEAN]]
    BY <2>3, <2>5
  <2> QED BY <1>1, <2>2, <2>6 DEF Typed
<1>3. ASSUME NEW k \in Node
      PROVE  /\ Fine(Member(k)) => Fine(Member(k)')
             /\ \A o : Cut(Member(k), o) => Cut(Member(k)', o)
             /\ Over(Member(k)) => Over(Member(k)')
  <2> DEFINE m == Member(k)
             u == Member(k)'
  <2>1. /\ u.object = m.object /\ u.running = m.running /\ u.task = m.task /\ u.inbox = m.inbox
        /\ u.raised = m.raised
    BY <1>1 DEF Member
  <2>2. u \in MemberType
    BY <1>2 DEF Typed, Member, MemberType
  <2> HIDE DEF m, u
  <2>3. /\ Fine(m) => Fine(u)
        /\ \A o : Cut(m, o) => Cut(u, o)
        /\ Over(m) => Over(u)
    BY <2>1, <2>2 DEF Fine, Cut, Over
  <2> QED BY <2>3 DEF m, u
<1> QED BY <1>1, <1>2, <1>3, Stays

LEMMA Dies ==
  ASSUME Inv, NEW n \in Node, LoopDies(n)
  PROVE  Inv'
<1>1. PICK o \in Objects : task[n][o] = "live" /\ task' = [task EXCEPT ![n][o] = "died"]
  BY DEF LoopDies
<1>2. deaths' = deaths + 1 /\ UNCHANGED <<object, running, raised, leads, inbox, lab, request>>
  BY DEF LoopDies
<1>3. Typed
  BY DEF Inv
<1>4. Typed'
  BY <1>1, <1>2, <1>3 DEF Typed
<1>5. ASSUME NEW k \in Node
      PROVE  /\ Fine(Member(k)) => Fine(Member(k)')
             /\ \A p : Cut(Member(k), p) => Cut(Member(k)', p)
             /\ Over(Member(k)) => Over(Member(k)')
  <2> DEFINE m == Member(k)
             u == Member(k)'
  <2>1. /\ u.object = m.object /\ u.running = m.running /\ u.inbox = m.inbox
        /\ u.raised = m.raised /\ m.task = task[k] /\ u.task = task'[k]
    BY <1>2 DEF Member
  <2>2. u \in MemberType
    BY <1>4 DEF Typed, Member, MemberType
  <2>3. \A p \in Objects : u.task[p] = m.task[p] \/ (m.task[p] = "live" /\ u.task[p] = "died")
    BY <1>1, <1>3, <2>1 DEF Typed
  <2> HIDE DEF m, u
  <2>4. Fine(m) => Fine(u)
    BY <2>1, <2>2, <2>3 DEF Fine, MemberType, Objects
  <2>5. (\A p : Cut(m, p) => Cut(u, p)) /\ (Over(m) => Over(u))
    BY <2>1, <2>2, <2>3 DEF Cut, Over
  <2> QED BY <2>4, <2>5 DEF m, u
<1> QED BY <1>2, <1>4, <1>5, Stays

-----------------------------------------------------------------------------
(***************************************************************************)
(* What holds at all times.                                                *)
(***************************************************************************)
LEMMA InitInv ==
  ASSUME MaxObjects \in Nat, Init
  PROVE  Inv
<1>1. Typed
  BY DEF Init, Typed
<1>2. ASSUME NEW n \in Node PROVE Fine(Member(n)) /\ Over(Member(n))
  <2>1. Member(n) \in MemberType
    BY <1>1, MemberIsTyped
  <2>2. /\ Member(n).object = 0 /\ ~ Member(n).running /\ Member(n).inbox = 0
        /\ ~ Member(n).raised
        /\ \A o \in Objects : Member(n).task[o] = "none"
    BY DEF Init, Member
  <2> QED BY <2>1, <2>2 DEF Fine, Over
<1>3. DOMAIN request = Request /\ \A r \in Request : ~ Stops(r) /\ ~ Starts(r)
  BY DEF Init, Idle, Stops, Starts
<1> QED BY <1>1, <1>2, <1>3 DEF Inv

LEMMA Steps ==
  ASSUME IsFiniteSet(Node), MaxObjects \in Nat \ {0}, Inv, [ApartNext]_vars
  PROVE  Inv'
<1>1. CASE UNCHANGED vars
  <2>1. Typed' /\ \A k \in Node : Member(k)' = Member(k)
    BY <1>1, MembersStay DEF vars
  <2> QED BY <1>1, <2>1, Stays DEF vars
<1>2. ASSUME NEW n \in Node, Elect(n) \/ StepDown(n) \/ LoopDies(n) PROVE Inv'
  BY <1>2, Leads, Dies
<1>3. ASSUME NEW r \in Request, \A n \in Node : Alone(r, n), StopCluster(r) PROVE Inv'
  <2>1. /\ request[r].at = "idle" /\ lab = "up" /\ deaths' = deaths
        /\ Shutdown(r, "stop", AllMembers, FALSE, Now)
    BY <1>3 DEF StopCluster, Free
  <2>2. ASSUME NEW s \in Request, Stops(s) PROVE FALSE
    <3>1. s # r /\ request[s].at = "stopping"
      BY <2>1, <2>2 DEF Stops
    <3>2. request[s].node \in Node
      BY <2>2 DEF Inv, HasInHand
    <3> QED BY <1>3, <3>1, <3>2 DEF Alone
  <2>3. \A s \in Request : ~ Starts(s)
    BY <2>1 DEF Inv
  <2> QED BY <2>1, <2>2, <2>3, TearsDown
<1>4. ASSUME NEW r \in Request, StartCluster(r) \/ StopReturns(r) \/ Poll(r) \/ TimesOut(r)
      PROVE  Inv'
  BY <1>4, StartsCluster, ReturnsFromStop, Waits
<1>5. ASSUME NEW r \in Request, NEW n \in Node,
             RecoverNode(r, n) \/ (Alone(r, n) /\ (CrashNode(r, n) \/ RestartNode(r, n)))
      PROVE  Inv'
  BY <1>5, Asks
<1> QED BY <1>1, <1>2, <1>3, <1>4, <1>5 DEF ApartNext

\* Whatever loops died, whoever was elected and whichever stops raised, and however the
\* requests overlap that stop no member another one is stopping: a member that no
\* request is stopping and that is said to run has one loop, live or died,
\* registered under its id, unless its last stop raised; then, and when it is
\* said to be down, it has neither.
THEOREM MembersAreWhatTheySay ==
  ASSUME IsFiniteSet(Node), MaxObjects \in Nat \ {0}
  PROVE  ApartSpec => []MemberIsWhatItSays
<1>1. Init => Inv
  BY InitInv
<1>2. Inv /\ [ApartNext]_vars => Inv'
  BY Steps
<1>3. ASSUME Inv PROVE MemberIsWhatItSays
  <2> SUFFICES ASSUME NEW n \in Node, ~ BeingStopped(n)
               PROVE  /\ running[n] /\ ~ raised[n] =>
                            inbox[n] = object[n] /\ task[n][object[n]] \in {"live", "died"}
                      /\ ~ running[n] \/ raised[n] => inbox[n] = 0
                      /\ \A o \in Objects :
                            task[n][o] = "live" => running[n] /\ ~ raised[n] /\ object[n] = o
    BY DEF MemberIsWhatItSays
  <2>1. Typed /\ Fine(Member(n))
    BY <1>3, HeldIsStopped DEF Inv
  <2>2. /\ \A o \in Objects :
              task[n][o] # "none" => running[n] /\ ~ raised[n] /\ object[n] = o /\ inbox[n] = o
        /\ running[n] => object[n] # 0
        /\ running[n] /\ ~ raised[n] => task[n][object[n]] # "none"
        /\ ~ running[n] \/ raised[n] => inbox[n] = 0
    BY <2>1 DEF Fine, Member
  <2>3. object[n] \in 0..MaxObjects /\ task[n] \in [Objects -> {"none", "live", "died"}]
    BY <2>1 DEF Typed
  <2> QED BY <2>2, <2>3 DEF Objects
<1> QED BY <1>1, <1>2, <1>3, PTL DEF ApartSpec

\* Tearing down a cluster that no member of which is being stopped ends every loop and
\* frees every id, also when stopping a member raises, and when the teardown is
\* that of a start that failed.
THEOREM NothingStaysBehind ==
  ASSUME IsFiniteSet(Node), MaxObjects \in Nat \ {0}
  PROVE  ApartSpec => []NothingLeftBehind
<1>1. Init => Inv
  BY InitInv
<1>2. Inv /\ [ApartNext]_vars => Inv'
  BY Steps
<1>3. Inv => NothingLeftBehind
  <2>1. \A n \in Node : Member(n).inbox = inbox[n] /\ Member(n).task = task[n]
    BY DEF Member
  <2> QED BY <2>1 DEF Inv, NothingLeftBehind, Over
<1> QED BY <1>1, <1>2, <1>3, PTL DEF ApartSpec

-----------------------------------------------------------------------------
(***************************************************************************)
(* Histories, and the orders that explain them.                            *)
(***************************************************************************)
Issued ==
    [kind : {"put", "get", "delete", "cas"}, key : Keys, value : Value \cup {None},
     expected : Value \cup {None}, invoked_at : Nat, completed : {FALSE}]
Ended ==
    [kind : {"put", "get", "delete", "cas"}, key : Keys, value : Value \cup {None},
     expected : Value \cup {None}, invoked_at : Nat, completed : {TRUE},
     completed_at : Nat, result : Value \cup {None} \cup BOOLEAN, ok : BOOLEAN]

\* Nothing ends before it begins, or later than now.
Timely(op, at) ==
    /\ op.invoked_at <= at
    /\ op.completed => op.invoked_at <= op.completed_at /\ op.completed_at <= at

\* What is written is a value; a cas that says it was done was.
Truthful(op) ==
    /\ op.kind \in {"put", "cas"} => op.value \in Value
    /\ op.completed /\ op.kind = "cas" => op.ok = op.result

HistoryInv ==
    /\ clock \in Nat
    /\ operations \in Seq(Issued \cup Ended)
    /\ \A id \in Ids : Timely(operations[id], clock) /\ Truthful(operations[id])

LEMMA InitHistory == HistoryInit => HistoryInv
<1> SUFFICES ASSUME HistoryInit PROVE HistoryInv
  OBVIOUS
<1>1. operations = <<>> /\ clock = 0
  BY DEF HistoryInit
<1>2. operations \in Seq(Issued \cup Ended) /\ Len(operations) = 0 /\ Ids = {}
  BY <1>1 DEF Ids
<1> QED BY <1>1, <1>2 DEF HistoryInv

\* The clock only moves on.
LEMMA InstantsAreLater ==
  ASSUME clock \in Nat, NEW t \in Instants
  PROVE  t \in Nat /\ clock <= t
BY DEF Instants

LEMMA LaterIsTimely ==
  ASSUME NEW op \in Issued \cup Ended, NEW a \in Nat, NEW b \in Nat, a <= b, Timely(op, a)
  PROVE  Timely(op, b)
<1>1. op.invoked_at \in Nat /\ op.completed \in BOOLEAN
  BY DEF Issued, Ended
<1>2. CASE op.completed
  <2>1. op \in Ended
    BY <1>2 DEF Issued
  <2>2. op.completed_at \in Nat
    BY <2>1 DEF Ended
  <2> QED BY <1>1, <1>2, <2>2 DEF Timely
<1>3. CASE ~ op.completed
  BY <1>1, <1>3 DEF Timely
<1> QED BY <1>2, <1>3

LEMMA InvokeKeeps ==
  ASSUME HistoryInv, NEW kind \in {"put", "get", "delete", "cas"}, NEW key \in Keys,
         NEW value \in Value \cup {None}, NEW expected \in Value \cup {None},
         kind \in {"put", "cas"} => value \in Value,
         Invoke(kind, key, value, expected)
  PROVE  HistoryInv'
<1> DEFINE op == [kind |-> kind, key |-> key, value |-> value, expected |-> expected,
                  invoked_at |-> clock', completed |-> FALSE]
<1>1. clock \in Nat /\ operations \in Seq(Issued \cup Ended)
  BY DEF HistoryInv
<1>2. clock' \in Nat /\ clock <= clock'
  BY <1>1, InstantsAreLater DEF Invoke
<1>3. operations' = Append(operations, op)
  BY DEF Invoke
<1>4. op \in Issued /\ Timely(op, clock') /\ Truthful(op)
  BY <1>2 DEF Issued, Timely, Truthful
<1> HIDE DEF op
<1>5. operations' \in Seq(Issued \cup Ended) /\ Len(operations') = Len(operations) + 1
  BY <1>1, <1>3, <1>4
<1>6. ASSUME NEW id \in Ids' PROVE Timely(operations'[id], clock') /\ Truthful(operations'[id])
  <2>1. CASE id = Len(operations) + 1
    BY <1>1, <1>3, <1>4, <2>1
  <2>2. CASE id # Len(operations) + 1
    <3>1. id \in Ids /\ operations'[id] = operations[id]
      BY <1>1, <1>3, <1>5, <1>6, <2>2 DEF Ids
    <3>2. operations[id] \in Issued \cup Ended
      BY <1>1, <3>1 DEF Ids
    <3> QED BY <1>1, <1>2, <3>1, <3>2, LaterIsTimely DEF HistoryInv
  <2> QED BY <2>1, <2>2
<1> QED BY <1>2, <1>5, <1>6 DEF HistoryInv

LEMMA CompleteKeeps ==
  ASSUME HistoryInv, NEW id \in Ids, NEW result \in Value \cup {None} \cup BOOLEAN,
         NEW ok \in BOOLEAN, operations[id].kind = "cas" => ok = result,
         Complete(id, result, ok)
  PROVE  HistoryInv'
<1> DEFINE old == operations[id]
           op == [kind |-> old.kind, key |-> old.key, value |-> old.value,
                  expected |-> old.expected, invoked_at |-> old.invoked_at,
                  completed |-> TRUE, completed_at |-> clock', result |-> result, ok |-> ok]
<1>1. clock \in Nat /\ operations \in Seq(Issued \cup Ended)
  BY DEF HistoryInv
<1>2. clock' \in Nat /\ clock <= clock'
  BY <1>1, InstantsAreLater DEF Complete
<1>3. operations' = [operations EXCEPT ![id] = op]
  BY DEF Complete
<1>4. old \in Issued \cup Ended /\ Timely(old, clock) /\ Truthful(old)
  BY <1>1 DEF HistoryInv, Ids
<1>5. op \in Ended
  BY <1>2, <1>4 DEF Issued, Ended
<1>6. Timely(op, clock') /\ Truthful(op)
  <2>1. old.invoked_at \in Nat /\ old.invoked_at <= clock
    BY <1>4 DEF Timely, Issued, Ended
  <2>2. old.kind \in {"put", "cas"} => old.value \in Value
    BY <1>4 DEF Truthful
  <2> HIDE DEF old
  <2>3. Timely(op, clock')
    BY <1>1, <1>2, <2>1 DEF Timely
  <2>4. op.kind = old.kind /\ op.value = old.value /\ op.ok = ok /\ op.result = result
    OBVIOUS
  <2>5. old.kind = "cas" => ok = result
    BY DEF old
  <2> HIDE DEF op
  <2>6. Truthful(op)
    BY <2>2, <2>4, <2>5 DEF Truthful
  <2> QED BY <2>3, <2>6
<1> HIDE DEF op, old
<1>7. operations' \in Seq(Issued \cup Ended) /\ Ids' = Ids
  BY <1>1, <1>3, <1>5 DEF Ids
<1>8. ASSUME NEW i \in Ids PROVE Timely(operations'[i], clock') /\ Truthful(operations'[i])
  <2>1. CASE i = id
    BY <1>1, <1>3, <1>6, <2>1 DEF Ids
  <2>2. CASE i # id
    <3>1. operations'[i] = operations[i] /\ operations[i] \in Issued \cup Ended
      BY <1>1, <1>3, <2>2 DEF Ids
    <3> QED BY <1>1, <1>2, <3>1, LaterIsTimely DEF HistoryInv
  <2> QED BY <2>1, <2>2
<1> QED BY <1>2, <1>7, <1>8 DEF HistoryInv

LEMMA NextHistory == HistoryInv /\ [HistoryNext]_historyVars => HistoryInv'
<1> SUFFICES ASSUME HistoryInv, [HistoryNext]_historyVars PROVE HistoryInv'
  OBVIOUS
<1>1. CASE UNCHANGED historyVars
  BY <1>1 DEF historyVars, HistoryInv, Ids
<1>2. ASSUME NEW key \in Keys, InvokeAny(key) PROVE HistoryInv'
  BY <1>2, InvokeKeeps DEF InvokeAny
<1>3. ASSUME NEW id \in Ids, CompleteAny(id) PROVE HistoryInv'
  <2>1. operations[id] \in Issued \cup Ended /\ Truthful(operations[id])
    BY <1>3 DEF HistoryInv, Ids
  <2>2. operations[id].value \in Value \cup {None}
    BY <2>1 DEF Issued, Ended
  <2> QED BY <1>3, <2>2, CompleteKeeps DEF CompleteAny
<1> QED BY <1>1, <1>2, <1>3 DEF HistoryNext

\* The states of a key as the operations at the first k places of an order are done.
After(order, n, state) ==
    IF n \in DOMAIN order THEN Apply(operations[order[n]], state) ELSE state

RunTo(f, order, k) ==
    f = [n \in 0..k |-> IF n = 0 THEN ABSENT ELSE After(order, n, f[n - 1])]

LEMMA RunsExist ==
  ASSUME NEW order, NEW k \in Nat
  PROVE  \E f : RunTo(f, order, k)
<1> DEFINE S == {n \in Nat : \E f : RunTo(f, order, n)}
<1>1. 0 \in S
  <2> DEFINE f == [n \in 0..0 |-> ABSENT]
  <2>1. \A n \in 0..0 : n = 0
    OBVIOUS
  <2>2. f = [n \in 0..0 |-> IF n = 0 THEN ABSENT ELSE After(order, n, f[n - 1])]
    BY <2>1
  <2> HIDE DEF f
  <2> QED BY <2>2 DEF RunTo
<1>2. ASSUME NEW n \in S PROVE n + 1 \in S
  <2>1. PICK f : RunTo(f, order, n)
    OBVIOUS
  <2>2. n \in Nat
    BY <1>2
  <2> DEFINE g == [i \in 0..(n + 1) |->
                     IF i <= n THEN f[i] ELSE After(order, n + 1, f[n])]
  <2>3. \A i \in 0..(n + 1) :
          g[i] = IF i = 0 THEN ABSENT ELSE After(order, i, g[i - 1])
    <3> TAKE i \in 0..(n + 1)
    <3>1. CASE i = 0
      <4>1. i \in 0..n /\ i <= n
        BY <2>2, <3>1
      <4> QED BY <2>1, <3>1, <4>1 DEF RunTo
    <3>2. CASE i # 0 /\ i <= n
      <4>1. i \in 0..n /\ i - 1 \in 0..(n + 1) /\ i - 1 <= n
        BY <2>2, <3>2
      <4>2. g[i] = f[i] /\ g[i - 1] = f[i - 1]
        BY <3>2, <4>1
      <4>3. f[i] = After(order, i, f[i - 1])
        BY <2>1, <3>2, <4>1 DEF RunTo
      <4> QED BY <3>2, <4>2, <4>3
    <3>3. CASE i = n + 1
      <4>1. n \in 0..(n + 1) /\ n <= n /\ ~ (n + 1 <= n) /\ i - 1 = n /\ i # 0
        BY <2>2, <3>3
      <4>2. g[n] = f[n]
        BY <4>1
      <4>3. g[i] = After(order, n + 1, f[n])
        BY <3>3, <4>1
      <4> QED BY <3>3, <4>1, <4>2, <4>3
    <3> QED BY <2>2, <3>1, <3>2, <3>3
  <2>4. g = [i \in 0..(n + 1) |-> g[i]]
    OBVIOUS
  <2> HIDE DEF g
  <2>5. g = [i \in 0..(n + 1) |->
               IF i = 0 THEN ABSENT ELSE After(order, i, g[i - 1])]
    BY <2>3, <2>4
  <2>6. RunTo(g, order, n + 1)
    BY <2>5 DEF RunTo
  <2> QED BY <2>2, <2>6
<1> HIDE DEF S
<1>3. S = Nat
  <2>1. S \in SUBSET Nat
    BY DEF S
  <2> QED BY <1>1, <1>2, <2>1, CountingUp
<1> QED BY <1>3 DEF S

\* An order that is a run has the states, and every response fits its state.
LEMMA RunOfOrder ==
  ASSUME NEW order, Len(operations) \in Nat, IsRun(order)
  PROVE  \E f : /\ RunTo(f, order, Len(operations))
                /\ \A n \in DOMAIN order :
                      Completed(operations[order[n]]) => Legal(operations[order[n]], f[n - 1])
<1> DEFINE f == CHOOSE g : RunTo(g, order, Len(operations))
<1>1. RunTo(f, order, Len(operations))
  BY RunsExist
<1>2. \A n \in DOMAIN order :
         Completed(operations[order[n]]) => Legal(operations[order[n]], f[n - 1])
  BY DEF IsRun, RunTo, After
<1> QED BY <1>1, <1>2

\* An operation that changes what a key holds, where nothing is deleted.
Writes(op, state) ==
    \/ op.kind = "put"
    \/ op.kind = "cas" /\ Current(state) = op.expected

\* What a key holds after the first n places of a run: what the last operation that
\* wrote wrote, and nothing if none did.
WritesAt(f, order, n) == n \in DOMAIN order /\ Writes(operations[order[n]], f[n - 1])

Explains(f, order, n) ==
    \/ f[n] = ABSENT /\ \A m \in 1..n : ~ WritesAt(f, order, m)
    \/ \E j \in 1..n :
          /\ WritesAt(f, order, j)
          /\ operations[order[j]].value = f[n] /\ f[n] # ABSENT
          /\ \A m \in (j + 1)..n : ~ WritesAt(f, order, m)

LEMMA LastWriteHolds ==
  ASSUME HistoryInv, NEW k \in Nat, NEW S \in SUBSET Ids, NEW order \in [S -> S], NEW f,
         RunTo(f, order, k), \A id \in S : operations[id].kind # "delete"
  PROVE  \A n \in 0..k : Explains(f, order, n)
<1> DEFINE T == {n \in Nat : n <= k => Explains(f, order, n)}
<1>1. 0 \in T
  <2>1. f[0] = ABSENT
    BY DEF RunTo
  <2> QED BY <2>1 DEF Explains
<1>2. ASSUME NEW n \in T PROVE n + 1 \in T
  <2>1. n \in Nat /\ n + 1 \in Nat
    BY <1>2
  <2>2. SUFFICES ASSUME n + 1 <= k PROVE Explains(f, order, n + 1)
    BY <2>1
  <2>3. n <= k /\ n + 1 \in 1..k /\ n + 1 \in 0..k /\ (n + 1) - 1 = n /\ n + 1 # 0
    BY <2>1, <2>2
  <2>4. Explains(f, order, n)
    BY <1>2, <2>3
  <2> DEFINE op == operations[order[n + 1]]
  <2>5. f[n + 1] = After(order, n + 1, f[n])
    BY <2>3 DEF RunTo
  <2>6. WritesAt(f, order, n + 1) <=> n + 1 \in S /\ Writes(op, f[n])
    BY <2>3 DEF WritesAt
  <2>7. ASSUME n + 1 \in S
        PROVE  op.kind \in {"put", "get", "cas"} /\ Truthful(op)
    <3>1. order[n + 1] \in S /\ order[n + 1] \in Ids
      BY <2>7
    <3>2. op \in Issued \cup Ended /\ op.kind # "delete" /\ Truthful(op)
      BY <3>1 DEF HistoryInv, Ids
    <3> QED BY <3>2 DEF Issued, Ended
  <2>8. CASE WritesAt(f, order, n + 1)
    <3>1. f[n + 1] = op.value /\ op.value \in Value
      BY <2>5, <2>6, <2>7, <2>8 DEF Writes, Apply, Truthful, After
    <3>2. f[n + 1] # ABSENT
      BY <3>1, AbsentAssumption
    <3>3. n + 1 \in 1..(n + 1) /\ (n + 1 + 1)..(n + 1) = {}
      BY <2>1
    <3> QED BY <2>8, <3>1, <3>2, <3>3 DEF Explains
  <2>9. CASE ~ WritesAt(f, order, n + 1)
    <3>1. f[n + 1] = f[n]
      BY <2>5, <2>6, <2>7, <2>9 DEF Writes, Apply, After
    <3>2. \A m \in 1..(n + 1) : m \in 1..n \/ m = n + 1
      BY <2>1
    <3>3. CASE f[n] = ABSENT /\ \A m \in 1..n : ~ WritesAt(f, order, m)
      BY <2>9, <3>1, <3>2, <3>3 DEF Explains
    <3>4. CASE \E j \in 1..n :
                  /\ WritesAt(f, order, j)
                  /\ operations[order[j]].value = f[n] /\ f[n] # ABSENT
                  /\ \A m \in (j + 1)..n : ~ WritesAt(f, order, m)
      <4>1. PICK j \in 1..n :
                  /\ WritesAt(f, order, j)
                  /\ operations[order[j]].value = f[n] /\ f[n] # ABSENT
                  /\ \A m \in (j + 1)..n : ~ WritesAt(f, order, m)
        BY <3>4
      <4>2. j \in 1..(n + 1) /\ \A m \in (j + 1)..(n + 1) : m \in (j + 1)..n \/ m = n + 1
        BY <2>1
      <4> QED BY <2>9, <3>1, <4>1, <4>2 DEF Explains
    <3> QED BY <2>4, <3>3, <3>4 DEF Explains
  <2> QED BY <2>8, <2>9
<1> HIDE DEF T
<1>3. T = Nat
  <2>1. T \in SUBSET Nat
    BY DEF T
  <2> QED BY <1>1, <1>2, <2>1, CountingUp
<1> QED BY <1>3 DEF T

\* A non-empty set of naturals has a least element.
LEMMA LeastExists ==
  ASSUME NEW S \in SUBSET Nat, S # {}
  PROVE  \E y \in S : \A x \in S : y <= x
<1>1. PICK y \in S : \A x \in S : ~ (<<x, y>> \in OpToRel(<, Nat))
  BY WFMin, NatLessThanWellFounded
<1>2. \A x \in S : y <= x
  <2> TAKE x \in S
  <2>1. <<x, y>> \in Nat \X Nat /\ <<x, y>>[1] = x /\ <<x, y>>[2] = y
    OBVIOUS
  <2>2. ~ (x < y)
    BY <1>1, <2>1 DEF OpToRel
  <2> QED BY <2>2
<1> QED BY <1>2

\* What has ended did so between its beginning and now.
LEMMA EndedIsTimely ==
  ASSUME HistoryInv, NEW id \in Ids, operations[id].completed
  PROVE  /\ id \in Nat /\ clock \in Nat
         /\ operations[id].invoked_at \in Nat /\ operations[id].completed_at \in Nat
         /\ operations[id].invoked_at <= operations[id].completed_at
         /\ operations[id].completed_at <= clock
<1>1. operations \in Seq(Issued \cup Ended) /\ id \in 1..Len(operations)
  BY DEF HistoryInv, Ids
<1>2. id \in Nat /\ operations[id] \in Issued \cup Ended
  BY <1>1
<1>3. operations[id] \in Ended
  BY <1>2 DEF Issued
<1>4. Timely(operations[id], clock) /\ clock \in Nat
  BY DEF HistoryInv
<1> QED BY <1>2, <1>3, <1>4 DEF Ended, Timely

\* Of the writes that ended before a read began, one is the latest.
LEMMA LatestIsOne ==
  ASSUME HistoryInv, NEW P \in SUBSET Ids, P # {}, \A id \in P : operations[id].completed
  PROVE  Latest(P) \in P
<1>1. \A id \in P : /\ id \in Nat /\ operations[id].completed_at \in Nat
                    /\ clock - operations[id].completed_at \in Nat
  <2> TAKE id \in P
  <2>1. operations[id].completed
    OBVIOUS
  <2> QED BY <2>1, EndedIsTimely
<1> DEFINE S == {clock - operations[id].completed_at : id \in P}
<1>2. S \in SUBSET Nat /\ S # {}
  BY <1>1
<1>3. PICK least \in S : \A x \in S : least <= x
  BY <1>2, LeastExists
<1> DEFINE L == {id \in P : clock - operations[id].completed_at = least}
<1>4. L \in SUBSET Nat /\ L # {}
  BY <1>1, <1>3
<1>5. PICK first \in L : \A id \in L : first <= id
  BY <1>4, LeastExists
<1>6. \A other \in P :
         \/ operations[other].completed_at < operations[first].completed_at
         \/ operations[other].completed_at = operations[first].completed_at /\ first <= other
  <2> TAKE other \in P
  <2>1. clock \in Nat /\ first \in P
    BY <1>5 DEF HistoryInv
  <2>2. clock - operations[first].completed_at <= clock - operations[other].completed_at
    BY <1>3, <1>5
  <2>3. CASE operations[other].completed_at = operations[first].completed_at
    BY <1>5, <2>3
  <2>4. CASE operations[other].completed_at # operations[first].completed_at
    BY <1>1, <2>1, <2>2, <2>4
  <2> QED BY <2>3, <2>4
<1>7. first \in P
  BY <1>5
<1> HIDE DEF S, L
<1> QED BY <1>6, <1>7 DEF Latest

\* Nothing ends before it begins.
LEMMA NotBeforeItself ==
  ASSUME HistoryInv, NEW id \in Ids
  PROVE  ~ Precedes(operations[id], operations[id])
BY EndedIsTimely DEF Precedes, Completed

\* An order that explains a history, of the operations S with the states f, and the
\* place i that it has for a read: the read finds what the places before that one left.
Placed(ids, read, S, order, f, i) ==
    /\ S \subseteq ids /\ order \in [S -> S] /\ KeepsRealTime(order)
    /\ \A n \in S : Completed(operations[order[n]]) => Legal(operations[order[n]], f[n - 1])
    /\ \A id \in ids : Completed(operations[id]) => \E n \in S : order[n] = id
    /\ i \in S /\ order[i] = read /\ Explains(f, order, i - 1)

LEMMA ReadHasItsPlace ==
  ASSUME HistoryInv, NEW key, LinearizableAt(key), NEW read \in Reads(ForKey(key)),
         \A id \in ForKey(key) : operations[id].kind # "delete"
  PROVE  \E S, order, f, i : Placed(ForKey(key), read, S, order, f, i)
<1> DEFINE done == {id \in ForKey(key) : Completed(operations[id])}
<1>1. PICK lost \in SUBSET (ForKey(key) \ done) :
         \E order \in Permutations(ForKey(key) \ lost) :
            /\ KeepsRealTime(order) /\ IsRun(order)
            /\ order \in Surjection(ForKey(key) \ lost, ForKey(key) \ lost)
  BY DEF LinearizableAt
<1> DEFINE S == ForKey(key) \ lost
           k == Len(operations)
<1>2. PICK order \in Surjection(S, S) : KeepsRealTime(order) /\ IsRun(order)
  BY <1>1
<1>3. order \in [S -> S] /\ \A id \in S : \E n \in S : order[n] = id
  BY <1>2 DEF Surjection
<1>4. S \subseteq ForKey(key) /\ S \in SUBSET Ids /\ Ids = 1..k /\ k \in Nat
  BY DEF HistoryInv, Ids, ForKey
<1>5. \A id \in ForKey(key) : Completed(operations[id]) => id \in S
  BY <1>1
<1> HIDE DEF S, k
<1>6. PICK f : /\ RunTo(f, order, k)
               /\ \A n \in DOMAIN order :
                     Completed(operations[order[n]]) => Legal(operations[order[n]], f[n - 1])
  BY <1>2, <1>4, RunOfOrder DEF k
<1>7. read \in ForKey(key) /\ Completed(operations[read])
  BY DEF Reads
<1>8. PICK i \in S : order[i] = read
  BY <1>3, <1>5, <1>7
<1>9. \A n \in 0..k : Explains(f, order, n)
  BY <1>3, <1>4, <1>6, LastWriteHolds
<1>10. i - 1 \in 0..k
  BY <1>4, <1>8
<1>11. \A id \in ForKey(key) : Completed(operations[id]) => \E n \in S : order[n] = id
  BY <1>3, <1>5
<1> QED BY <1>2, <1>3, <1>4, <1>6, <1>8, <1>9, <1>10, <1>11 DEF Placed

\* Either rule firing is a proof that no order explains the history.
LEMMA BlameIsProof ==
  ASSUME HistoryInv, NEW key, NEW read \in Blamed(ForKey(key)),
         \A id \in ForKey(key) : operations[id].kind # "delete", LinearizableAt(key)
  PROVE  FALSE
<1> DEFINE ids == ForKey(key)
           r == operations[read]
<1>1. /\ read \in Reads(ids) /\ read \in ids /\ r.kind = "get" /\ Completed(r)
      /\ PhantomRead(read, ids) \/ StaleRead(read, ids)
  BY DEF Blamed, Reads
<1>2. PICK S, order, f, i : Placed(ids, read, S, order, f, i)
  BY <1>1, ReadHasItsPlace
<1>3. /\ ids \subseteq Ids /\ S \subseteq Ids /\ S = DOMAIN order /\ order \in [S -> S]
      /\ Ids \subseteq Nat \ {0} /\ i \in S
  BY <1>2 DEF ForKey, Placed, Ids, HistoryInv
<1>4. r.ok = (f[i - 1] # ABSENT) /\ r.result = Current(f[i - 1])
  <2>1. Legal(r, f[i - 1])
    BY <1>1, <1>2 DEF Placed
  <2> QED BY <1>1, <2>1 DEF Legal
<1> HIDE DEF ids, r
\* Where something is found, the last write wrote it, and the read is not before it.
<1>5. ASSUME r.ok
      PROVE  \E j \in 1..(i - 1) :
                /\ j \in S /\ order[j] \in PossibleSources(read, ids)
                /\ \A m \in (j + 1)..(i - 1) : ~ WritesAt(f, order, m)
  <2>1. f[i - 1] # ABSENT /\ r.result = f[i - 1]
    BY <1>4, <1>5 DEF Current
  <2>2. PICK j \in 1..(i - 1) :
          /\ WritesAt(f, order, j)
          /\ operations[order[j]].value = f[i - 1]
          /\ \A m \in (j + 1)..(i - 1) : ~ WritesAt(f, order, m)
    BY <1>2, <2>1 DEF Placed, Explains
  <2>3. j \in S /\ j < i /\ i \in DOMAIN order /\ j \in DOMAIN order
    BY <1>3, <2>2 DEF WritesAt
  <2>4. ~ Precedes(r, operations[order[j]])
    BY <1>2, <2>3 DEF Placed, KeepsRealTime, r
  <2> DEFINE op == operations[order[j]]
  <2>5. op.kind \in {"put", "cas"} /\ (op.kind = "cas" => Current(f[j - 1]) = op.expected)
    BY <2>2 DEF Writes, WritesAt
  <2>6. Completed(op) /\ op.kind = "cas" => op.result
    <3> SUFFICES ASSUME Completed(op), op.kind = "cas" PROVE op.result
      OBVIOUS
    <3>1. Legal(op, f[j - 1])
      BY <1>2, <2>3 DEF Placed
    <3> QED BY <2>5, <3>1 DEF Legal
  <2>7. WritesValue(op, r.result) /\ IsWrite(op)
    BY <2>1, <2>2, <2>5, <2>6 DEF WritesValue, IsWrite
  <2>8. order[j] \in ids
    BY <1>2, <2>3 DEF Placed
  <2> QED BY <2>2, <2>3, <2>4, <2>7, <2>8 DEF PossibleSources, r
<1>6. ~ PhantomRead(read, ids)
  BY <1>5 DEF PhantomRead, r
<1>7. StaleRead(read, ids)
  BY <1>1, <1>6
<1> DEFINE P == Preceding(read, ids)
           latest == Latest(P)
<1>8. latest \in P
  <2>1. P # {}
    BY <1>7 DEF StaleRead
  <2>2. P \in SUBSET Ids /\ \A id \in P : operations[id].completed
    BY <1>3 DEF Preceding, Precedes, Completed
  <2> QED BY <2>1, <2>2, LatestIsOne
<1> DEFINE last == operations[latest]
<1>9. /\ latest \in ids /\ latest \in Ids /\ IsWrite(last) /\ Precedes(last, r) /\ last.ok
      /\ Completed(last)
  BY <1>3, <1>8 DEF Preceding, Precedes, r
\* The latest of the writes that ended before the read began took effect before it.
<1>10. PICK l \in S : order[l] = latest
  BY <1>2, <1>9 DEF Placed
<1>11. l \in 1..(i - 1)
  <2>1. l # i
    <3>1. last.kind # "get"
      BY <1>9 DEF IsWrite
    <3> QED BY <1>1, <1>2, <1>10, <3>1 DEF Placed, r
  <2>2. ~ (i < l)
    BY <1>2, <1>3, <1>9, <1>10 DEF Placed, KeepsRealTime, r
  <2> QED BY <1>3, <1>10, <2>1, <2>2
<1>12. WritesAt(f, order, l)
  <2>0. SUFFICES Writes(last, f[l - 1])
    BY <1>3, <1>10 DEF WritesAt
  <2>1. last.kind \in {"put", "cas"}
    BY <1>9 DEF IsWrite, ids
  <2>2. CASE last.kind = "put"
    BY <2>2 DEF Writes
  <2>3. CASE last.kind = "cas"
    <3>1. last.result
      BY <1>9, <2>3 DEF HistoryInv, Truthful, Completed
    <3>2. Legal(last, f[l - 1])
      BY <1>2, <1>9, <1>10 DEF Placed
    <3>3. last.result = (Current(f[l - 1]) = last.expected)
      BY <2>3, <3>2 DEF Legal
    <3> QED BY <2>3, <3>1, <3>3 DEF Writes
  <2> QED BY <2>1, <2>2, <2>3
<1>13. CASE ~ r.ok
  <2>1. f[i - 1] = ABSENT
    BY <1>4, <1>13
  <2> QED BY <1>2, <1>10, <1>11, <1>12, <2>1 DEF Placed, Explains
<1>14. CASE r.ok
  <2>1. PICK j \in 1..(i - 1) :
                /\ j \in S /\ order[j] \in PossibleSources(read, ids)
                /\ \A m \in (j + 1)..(i - 1) : ~ WritesAt(f, order, m)
    BY <1>5, <1>14
  <2>2. Precedes(operations[order[j]], last)
    BY <1>7, <1>14, <2>1 DEF StaleRead, r
  <2>3. l <= j
    <3>1. l \notin (j + 1)..(i - 1)
      BY <1>10, <1>12, <2>1
    <3> QED BY <1>3, <1>10, <1>11, <2>1, <3>1
  <2>4. CASE l = j
    BY <1>9, <1>10, <2>2, <2>4, NotBeforeItself
  <2>5. CASE l < j
    <3>1. l \in DOMAIN order /\ j \in DOMAIN order
      BY <1>3, <1>10, <2>1
    <3> QED BY <1>2, <1>10, <2>2, <2>5, <3>1 DEF Placed, KeepsRealTime
  <2> QED BY <1>3, <1>10, <2>1, <2>3, <2>4, <2>5
<1> QED BY <1>13, <1>14

LEMMA InvBlamesRightly == HistoryInv => BlamedRightly
BY BlameIsProof DEF BlamedRightly

\* Where nothing was deleted, a read that _localize blames is by itself a proof that
\* no linearization exists, as its docstring says, whatever else the history holds
\* (consistency/linearizability.py:277).
THEOREM BlameIsSound == HistorySpec => []BlamedRightly
BY InitHistory, NextHistory, InvBlamesRightly, PTL DEF HistorySpec
==============================================================================
