-------------------------- MODULE Observation_proofs --------------------------
(***************************************************************************)
(* Proofs about Observation, for every set of sessions and rooms and every *)
(* number of panicking callbacks: the gauges and the order of the logs.    *)
(***************************************************************************)
EXTENDS Observation, SequenceTheorems, TLAPS

-----------------------------------------------------------------------------
(* The queue of one session, whose two threads are c and d.                  *)

InPublish == {"publish", "parked", "sweep", "call"}
Active == {"drain"} \cup InPublish
Connects(s) == <<"connect", s>>
Disconnects(s) == <<"disconnect", s>>

\* Where the connected entry c is: queued from the attach on, until its own
\* thread drains the queue, which nobody else does before.
ConnectPart(c, d, s) ==
    /\ pc[c] \in {"start", "taken", "done"} \cup Active
    /\ pc[c] = "start" => pc[d] = "start"
    /\ c \in ready <=> pc[c] \notin {"start", "taken"}
    /\ fifo[s] \in {<<c>>, <<c, d>>} <=> pc[c] = "taken" \/ (pc[c] = "drain" /\ c \notin told)
    /\ c \in told => pc[c] \in Active \cup {"done"}
    /\ pc[c] = "done" => c \in told
    /\ pc[c] \in InPublish =>
          \/ reporting[c] = c /\ c \notin told
          \/ reporting[c] = d /\ c \in told /\ d \notin told /\ pc[d] = "wait"

\* Where the disconnected entry d is: queued behind c, drained by c's thread
\* or, once that is done, by its own.
DisconnectPart(c, d, s) ==
    /\ pc[d] \in {"start", "taken", "wait", "done", "dropped"} \cup Active
    /\ d \in ready <=> pc[d] \notin {"start", "taken", "dropped"}
    /\ pc[d] \in Active => pc[c] = "done"
    /\ fifo[s] \in {<<d>>, <<c, d>>} <=>
          /\ d \notin told
          /\ \/ pc[d] = "drain"
             \/ pc[d] = "wait" /\ ~(pc[c] \in InPublish /\ reporting[c] = d)
    /\ d \in told => c \in told /\ pc[d] \in {"wait", "drain", "done"}
    /\ pc[d] = "done" => d \in told
    /\ pc[d] \in InPublish => reporting[d] = d /\ d \notin told

LogPart(c, d, s) ==
    /\ c \notin told => log[s] = <<>>
    /\ c \in told /\ d \notin told => log[s] = <<"connected">> \/ (log[s] = <<>> /\ panics > 0)
    /\ d \in told => \/ log[s] = <<"connected", "disconnected">>
                     \/ log[s] \in {<<>>, <<"connected">>, <<"disconnected">>} /\ panics > 0

SessionFits(s) ==
    LET c == Connects(s)
        d == Disconnects(s)
    IN  /\ fifo[s] \in {<<>>, <<c>>, <<d>>, <<c, d>>}
        /\ s \in drained <=> pc[c] \in Active \/ pc[d] \in Active
        /\ ConnectPart(c, d, s) /\ DisconnectPart(c, d, s) /\ LogPart(c, d, s)

RoomThreadFits(t) ==
    /\ pc[t] \in {"start", "taken", "done", "dropped"} \cup InPublish
    /\ reporting[t] = t /\ (pc[t] = "done" => t \in over)

\* Nothing is lost without a panic, and an attach or a creation, which no
\* goroutine reports after something else, is never dropped.
PanicsPart ==
    /\ caught \cup hurt \cup spoiled # {} => panics > 0
    /\ \A t \in Threads : pc[t] = "dropped" => panics > 0
    /\ \A t \in Threads : Adds(t) => before[t] = t

SessionsInv ==
    /\ \A s \in Sessions : SessionFits(s)
    /\ \A t \in Threads : ~Lifecycle(t) => RoomThreadFits(t)
    /\ PanicsPart

-----------------------------------------------------------------------------
(* The queue of the store.                                                   *)

Queued(u) == \E i \in 1..Len(queue) : queue[i] = u
InHand(u) == \E t \in Threads : pc[t] = "call" /\ hand[t] = u

\* Whoever is inside publish has its transition behind it, in the queue, or
\* in the hand of the drainer.
Tracked ==
    /\ \A t \in Threads : pc[t] \in InPublish => pc[reporting[t]] # "start"
    /\ \A t \in Threads : pc[t] \in {"parked", "sweep", "call"} =>
          reporting[t] \in over \/ Queued(reporting[t]) \/ InHand(reporting[t])
    /\ \A u \in Threads : u \in over \/ Queued(u) \/ InHand(u) => pc[u] # "start"
    /\ told \cup spoiled \subseteq over

\* The Observer has been shown what is published, but for the one callback
\* that is running or has panicked; what is over has been shown, overtaken,
\* or spoiled by such a callback on it or on a later transition.
Spoiled(k, seq) == \E v \in spoiled : KindOf(v) = k /\ seq <= transition[v].sequence
Shown ==
    /\ \A k \in Kinds :
          /\ shown[k].sequence <= published[k]
          /\ \/ shown[k].sequence = published[k]
             \/ \E t \in Threads : pc[t] = "call" /\ KindOf(hand[t]) = k
             \/ Spoiled(k, published[k])
          /\ shown[k] = Nothing \/ \E u \in Threads : KindOf(u) = k /\ pc[u] # "start" /\ shown[k] = transition[u]
    /\ \A t \in Threads : pc[t] = "call" => published[KindOf(hand[t])] = transition[hand[t]].sequence
    /\ \A u \in over : \/ transition[u].sequence <= shown[KindOf(u)].sequence
                        \/ Spoiled(KindOf(u), transition[u].sequence)

\* Sequence numbers order the transitions, and the last one of a kind carries
\* the value of its counter.
Ordered ==
    /\ \A t \in Threads :
          /\ pc[t] = "start" => transition[t] = Nothing
          /\ pc[t] # "start" => transition[t].sequence \in 1..sequence
    /\ \A t, u \in Threads : pc[t] # "start" /\ transition[t].sequence = transition[u].sequence => t = u
    /\ \A k \in Kinds :
          \/ counter[k] = 0 /\ \A t \in Threads : KindOf(t) = k => pc[t] = "start"
          \/ \E u \in Threads :
                /\ KindOf(u) = k /\ pc[u] # "start" /\ transition[u].value = counter[k]
                /\ \A t \in Threads : KindOf(t) = k => transition[t].sequence <= transition[u].sequence

Events == {"connected", "disconnected"}
Recorded ==
    /\ log \in [Sessions -> Seq(Events)]
    /\ shown \in [Kinds -> [sequence : Nat, value : Nat]]

ObservationInv ==
    TypeOK /\ Recorded /\ SessionsInv /\ Tracked /\ Shown /\ Ordered

-----------------------------------------------------------------------------
(* Threads and short queues.                                                 *)

LEMMA SessionThreads ==
    ASSUME NEW s \in Sessions
    PROVE  /\ Connects(s) \in Threads /\ Disconnects(s) \in Threads
           /\ Connects(s)[1] = "connect" /\ Disconnects(s)[1] = "disconnect"
           /\ Connects(s)[2] = s /\ Disconnects(s)[2] = s
           /\ Connects(s) # Disconnects(s)
           /\ Lifecycle(Connects(s)) /\ Lifecycle(Disconnects(s))
           /\ KindOf(Connects(s)) = "connectedClients" /\ KindOf(Disconnects(s)) = "connectedClients"
  BY DEF Connects, Disconnects, Threads, Lifecycle, KindOf

LEMMA ThreadCases ==
    ASSUME NEW t \in Threads
    PROVE  /\ Lifecycle(t) => t[2] \in Sessions /\ t \in {Connects(t[2]), Disconnects(t[2])}
           /\ t[1] = "connect" => t = Connects(t[2])
           /\ t[1] = "disconnect" => t = Disconnects(t[2])
           /\ ~Lifecycle(t) => t[1] \notin {"connect", "disconnect"}
           /\ KindOf(t) \in Kinds
  BY DEF Connects, Disconnects, Threads, Lifecycle, KindOf, Kinds

LEMMA ShortQueues ==
    ASSUME NEW x, NEW y, x # y
    PROVE  /\ Head(<<x>>) = x /\ Tail(<<x>>) = << >>
           /\ Head(<<x, y>>) = x /\ Tail(<<x, y>>) = <<y>>
           /\ Append(<< >>, x) = <<x>> /\ Append(<< >>, y) = <<y>>
           /\ Append(<<x>>, y) = <<x, y>>
           /\ << >> # <<x>> /\ << >> # <<y>> /\ <<x>> # <<y>>
           /\ << >> # <<x, y>> /\ <<x>> # <<x, y>> /\ <<y>> # <<x, y>>
  <1>1. Head(<<x>>) = x /\ Head(<<x, y>>) = x
    OBVIOUS
  <1>2. Tail(<<x>>) = << >>
    OBVIOUS
  <1>3. Tail(<<x, y>>) = <<y>>
    OBVIOUS
  <1>4. Append(<< >>, x) = <<x>> /\ Append(<< >>, y) = <<y>>
    OBVIOUS
  <1>5. Append(<<x>>, y) = <<x, y>>
    <2> DEFINE S == {x, y}
    <2>1. <<x>> \in Seq(S) /\ <<x, y>> \in Seq(S) /\ y \in S
      OBVIOUS
    <2>2. Len(<<x>>) = 1 /\ Len(<<x, y>>) = 2 /\ <<x>>[1] = x /\ <<x, y>>[1] = x /\ <<x, y>>[2] = y
      OBVIOUS
    <2>3. Append(<<x>>, y) \in Seq(S) /\ Len(Append(<<x>>, y)) = 2
          /\ Append(<<x>>, y)[1] = x /\ Append(<<x>>, y)[2] = y
      BY <2>1, <2>2, AppendProperties
    <2> DEFINE u == Append(<<x>>, y)
               v == <<x, y>>
    <2>4. u \in Seq(S) /\ v \in Seq(S) /\ Len(u) = Len(v) /\ \A i \in 1..Len(u) : u[i] = v[i]
      BY <2>1, <2>2, <2>3
    <2> HIDE DEF u, v, S
    <2>5. u = v
      BY <2>4, SeqEqual
    <2>6. QED
      BY <2>5 DEF u, v
  <1>6. << >> # <<x>> /\ << >> # <<y>> /\ << >> # <<x, y>>
    OBVIOUS
  <1>7. <<x>> # <<y>>
    OBVIOUS
  <1>8. <<x>> # <<x, y>> /\ <<y>> # <<x, y>>
    OBVIOUS
  <1>9. QED
    BY <1>1, <1>2, <1>3, <1>4, <1>5, <1>6, <1>7, <1>8

LEMMA SessionQueues ==
    ASSUME NEW s \in Sessions
    PROVE  LET c == Connects(s)
               d == Disconnects(s)
           IN  /\ Append(<< >>, d) = <<d>> /\ Append(<<c>>, d) = <<c, d>> /\ Append(<< >>, c) = <<c>>
               /\ Head(<<c>>) = c /\ Head(<<d>>) = d /\ Head(<<c, d>>) = c
               /\ Tail(<<c>>) = << >> /\ Tail(<<d>>) = << >> /\ Tail(<<c, d>>) = <<d>>
               /\ << >> # <<c>> /\ << >> # <<d>> /\ <<c>> # <<d>>
               /\ << >> # <<c, d>> /\ <<c>> # <<c, d>> /\ <<d>> # <<c, d>>
  <1> DEFINE c == Connects(s)
             d == Disconnects(s)
  <1>1. c # d /\ d # c
    BY SessionThreads
  <1> HIDE DEF c, d
  <1>2. Tail(<<d>>) = << >> /\ Head(<<d>>) = d
    BY <1>1, ShortQueues
  <1>3. QED
    BY <1>1, <1>2, ShortQueues DEF c, d

-----------------------------------------------------------------------------
(* The sessions' queues.                                                     *)

\* The same parts in the next state
QueuePartNext(c, d, s) ==
    /\ fifo'[s] \in {<<>>, <<c>>, <<d>>, <<c, d>>}
    /\ s \in drained' <=> pc'[c] \in Active \/ pc'[d] \in Active
ConnectPartNext(c, d, s) ==
    /\ pc'[c] \in {"start", "taken", "done"} \cup Active
    /\ pc'[c] = "start" => pc'[d] = "start"
    /\ c \in ready' <=> pc'[c] \notin {"start", "taken"}
    /\ fifo'[s] \in {<<c>>, <<c, d>>} <=> pc'[c] = "taken" \/ (pc'[c] = "drain" /\ c \notin told')
    /\ c \in told' => pc'[c] \in Active \cup {"done"}
    /\ pc'[c] = "done" => c \in told'
    /\ pc'[c] \in InPublish =>
          \/ reporting'[c] = c /\ c \notin told'
          \/ reporting'[c] = d /\ c \in told' /\ d \notin told' /\ pc'[d] = "wait"
DisconnectPartNext(c, d, s) ==
    /\ pc'[d] \in {"start", "taken", "wait", "done", "dropped"} \cup Active
    /\ d \in ready' <=> pc'[d] \notin {"start", "taken", "dropped"}
    /\ pc'[d] \in Active => pc'[c] = "done"
    /\ fifo'[s] \in {<<d>>, <<c, d>>} <=>
          /\ d \notin told'
          /\ \/ pc'[d] = "drain"
             \/ pc'[d] = "wait" /\ ~(pc'[c] \in InPublish /\ reporting'[c] = d)
    /\ d \in told' => c \in told' /\ pc'[d] \in {"wait", "drain", "done"}
    /\ pc'[d] = "done" => d \in told'
    /\ pc'[d] \in InPublish => reporting'[d] = d /\ d \notin told'
LogPartNext(c, d, s) ==
    /\ c \notin told' => log'[s] = <<>>
    /\ c \in told' /\ d \notin told' => log'[s] = <<"connected">> \/ (log'[s] = <<>> /\ panics' > 0)
    /\ d \in told' => \/ log'[s] = <<"connected", "disconnected">>
                      \/ log'[s] \in {<<>>, <<"connected">>, <<"disconnected">>} /\ panics' > 0

LEMMA SessionPartsNext ==
    ASSUME NEW s, NEW c, NEW d, c = Connects(s), d = Disconnects(s), QueuePartNext(c, d, s),
           ConnectPartNext(c, d, s), DisconnectPartNext(c, d, s), LogPartNext(c, d, s)
    PROVE  SessionFits(s)'
  BY DEF SessionFits, ConnectPart, DisconnectPart, LogPart,
         QueuePartNext, ConnectPartNext, DisconnectPartNext, LogPartNext

\* Another session, or a step inside publish, changes nothing here.
LEMMA SessionKept ==
    ASSUME NEW s \in Sessions, SessionFits(s),
           fifo'[s] = fifo[s], log'[s] = log[s],
           s \in drained' <=> s \in drained,
           \A x \in {Connects(s), Disconnects(s)} :
              /\ x \in ready' <=> x \in ready
              /\ x \in told' <=> x \in told
              /\ reporting'[x] = reporting[x]
              /\ pc'[x] = pc[x] \/ (pc[x] \in InPublish /\ pc'[x] \in InPublish),
           panics > 0 => panics' > 0
    PROVE  SessionFits(s)'
  <1> DEFINE c == Connects(s)
             d == Disconnects(s)
  <1>1. c # d
    BY SessionThreads
  <1>2. /\ fifo[s] \in {<<>>, <<c>>, <<d>>, <<c, d>>}
        /\ s \in drained <=> pc[c] \in Active \/ pc[d] \in Active
        /\ ConnectPart(c, d, s) /\ DisconnectPart(c, d, s) /\ LogPart(c, d, s)
    BY DEF SessionFits
  <1>3. \A x \in {c, d} : 
              /\ x \in ready' <=> x \in ready
              /\ x \in told' <=> x \in told
              /\ reporting'[x] = reporting[x]
              /\ pc'[x] = pc[x] \/ (pc[x] \in InPublish /\ pc'[x] \in InPublish)
    OBVIOUS
  <1> HIDE DEF c, d
  <1>4. QueuePartNext(c, d, s)
    BY <1>2, <1>3 DEF QueuePartNext, Active
  <1>5. ConnectPartNext(c, d, s)
    BY <1>2, <1>3 DEF ConnectPart, ConnectPartNext, Active, InPublish
  <1>6. DisconnectPartNext(c, d, s)
    BY <1>2, <1>3 DEF DisconnectPart, DisconnectPartNext, Active, InPublish
  <1>7. LogPartNext(c, d, s)
    BY <1>2, <1>3 DEF LogPart, LogPartNext
  <1>8. QED
    BY <1>4, <1>5, <1>6, <1>7, SessionPartsNext DEF c, d

-----------------------------------------------------------------------------
(* Types, and the one drainer of the store's queue.                          *)

Drains(t) == pc[t] \in {"sweep", "call"}

LEMMA DrainerKept ==
    ASSUME TypeOK, NEW t \in Threads, UNCHANGED draining,
           \A u \in Threads \ {t} : pc'[u] = pc[u], Drains(t)' <=> Drains(t)
    PROVE  /\ draining' <=> \E u \in Threads : pc'[u] \in {"sweep", "call"}
           /\ \A u, v \in Threads :
                 pc'[u] \in {"sweep", "call"} /\ pc'[v] \in {"sweep", "call"} => u = v
  BY DEF TypeOK, Drains

LEMMA PublishedTypes ==
    ASSUME TypeOK, NEW t \in Threads, NEW b, Published(t, b)
    PROVE  /\ pc' \in [Threads -> Places] /\ told' \subseteq Threads
           /\ \A u \in Threads \ {t} : pc'[u] = pc[u]
           /\ Lifecycle(t) => pc'[t] = "drain" /\ told' = told \cup {reporting[t]}
           /\ ~Lifecycle(t) => pc'[t] = "done" /\ told' = told
           /\ hurt' \subseteq hurt \cup {t} /\ panics' \in 0..MaxPanics /\ panics' >= panics
           /\ hurt' = hurt \/ b \/ panics' > 0
           /\ UNCHANGED <<before, spoiled>>
  <1>1. pc \in [Threads -> Places] /\ told \subseteq Threads /\ reporting[t] \in Threads
    BY DEF TypeOK
  <1>0. /\ told' = IF Lifecycle(t) THEN told \cup {reporting[t]} ELSE told
        /\ pc' = [pc EXCEPT ![t] = IF Lifecycle(t) THEN "drain" ELSE "done"]
    BY DEF Published
  <1>2. pc' \in [Threads -> Places] /\ told' \subseteq Threads
    BY <1>0, <1>1 DEF Places
  <1>3. /\ \A u \in Threads \ {t} : pc'[u] = pc[u]
        /\ Lifecycle(t) => pc'[t] = "drain" /\ told' = told \cup {reporting[t]}
        /\ ~Lifecycle(t) => pc'[t] = "done" /\ told' = told
    BY <1>0, <1>1
  <1>4. panics \in 0..MaxPanics
    BY DEF TypeOK
  <1>5. /\ hurt' \subseteq hurt \cup {t} /\ panics' \in 0..MaxPanics /\ panics' >= panics
        /\ hurt' = hurt \/ b \/ panics' > 0
    <2>1. CASE b /\ hurt' = hurt \cup {t} /\ UNCHANGED <<log, panics>>
      BY <1>4, <2>1, ObservationAssumption
    <2>2. CASE ~b /\ UNCHANGED <<hurt, panics>>
      BY <1>4, <2>2, ObservationAssumption
    <2>3. CASE panics < MaxPanics /\ panics' = panics + 1 /\ hurt' = hurt \cup {t}
      BY <1>4, <2>3, ObservationAssumption
    <2>4. QED
      BY <2>1, <2>2, <2>3 DEF Published
  <1>6. UNCHANGED <<before, spoiled>>
    BY DEF Published
  <1>7. QED
    BY <1>2, <1>3, <1>5, <1>6

LEMMA QueuingThreads ==
    ASSUME SessionsInv, NEW t \in Threads, pc[t] \in {"drain", "wait"} \/ Lifecycle(t)
    PROVE  Lifecycle(t) /\ t[2] \in Sessions
  BY ThreadCases DEF SessionsInv, RoomThreadFits, InPublish

LEMMA FifoTypes ==
    ASSUME TypeOK, NEW s \in Sessions, NEW t \in Threads
    PROVE  /\ Append(fifo[s], t) \in Seq(Threads)
           /\ fifo[s] # <<>> => Head(fifo[s]) \in Threads /\ Tail(fifo[s]) \in Seq(Threads)
  <1>1. fifo[s] \in Seq(Threads)
    BY DEF TypeOK
  <1>2. QED
    BY <1>1, AppendProperties, HeadTailProperties

\* A goroutine takes on disconnections and removals only.
LEMMA JoinTypes ==
    ASSUME TypeOK, NEW t \in Threads, Join(t)
    PROVE  /\ before' \in [Threads -> Threads]
           /\ \A x \in Threads : Adds(x) => before'[x] = before[x]
  <1>1. before \in [Threads -> Threads]
    BY DEF TypeOK
  <1>2. \/ before' = before
        \/ \E p, q \in Threads : ~Adds(p) /\ before' = [before EXCEPT ![p] = q]
    <2>1. CASE before' = before
      BY <2>1
    <2>2. CASE t[1] \in {"disconnect", "remove"} /\ \E p \in Threads : before' = [before EXCEPT ![t] = p]
      BY <2>2 DEF Adds
    <2>3. CASE \E p \in Threads : p[1] = "disconnect" /\ before' = [before EXCEPT ![p] = t]
      BY <2>3 DEF Adds
    <2>4. QED
      BY <2>1, <2>2, <2>3 DEF Join
  <1>3. CASE before' = before
    BY <1>1, <1>3
  <1>4. CASE \E p, q \in Threads : ~Adds(p) /\ before' = [before EXCEPT ![p] = q]
    <2>1. PICK p \in Threads, q \in Threads : ~Adds(p) /\ before' = [before EXCEPT ![p] = q]
      BY <1>4
    <2>2. before' \in [Threads -> Threads]
      BY <1>1, <2>1
    <2>3. \A x \in Threads \ {p} : before'[x] = before[x]
      BY <1>1, <2>1
    <2>4. QED
      BY <2>1, <2>2, <2>3
  <1>5. QED
    BY <1>2, <1>3, <1>4

LEMMA CommitTypes == ASSUME TypeOK, NEW t \in Threads, Commit(t) PROVE TypeOK'
  <1>1. /\ KindOf(t) \in Kinds /\ sequence \in Nat /\ counter \in [Kinds -> Nat]
        /\ transition \in [Threads -> [sequence : Nat, value : Nat]]
    BY ThreadCases DEF TypeOK
  <1> DEFINE k == KindOf(t)
             value == IF Adds(t) THEN counter[k] + 1
                      ELSE IF counter[k] = 0 THEN 0 ELSE counter[k] - 1
  <1>2. value \in Nat /\ k \in Kinds
    BY <1>1
  <1>3. /\ sequence' = sequence + 1 /\ counter' = [counter EXCEPT ![k] = value]
        /\ transition' = [transition EXCEPT ![t] = [sequence |-> sequence + 1, value |-> value]]
    BY DEF Commit, TakeTransition
  <1> HIDE DEF k, value
  <1>4. /\ sequence' \in Nat /\ counter' \in [Kinds -> Nat]
        /\ transition' \in [Threads -> [sequence : Nat, value : Nat]]
    BY <1>1, <1>2, <1>3
  <1>5. fifo' \in [Sessions -> Seq(Threads)]
    <2>1. CASE t[1] = "connect"
      <3>1. t[2] \in Sessions /\ Append(fifo[t[2]], t) \in Seq(Threads)
        BY <2>1, ThreadCases, FifoTypes DEF Lifecycle
      <3>2. QED
        BY <2>1, <3>1 DEF Commit, TypeOK
    <2>2. CASE t[1] # "connect"
      BY <2>2 DEF Commit, TypeOK
    <2>3. QED
      BY <2>1, <2>2
  <1>6. /\ pc' \in [Threads -> Places] /\ UNCHANGED draining
        /\ \A u \in Threads \ {t} : pc'[u] = pc[u]
        /\ Drains(t)' <=> Drains(t)
    BY DEF Commit, TypeOK, Places, Drains, queueVars
  <1>7. UNCHANGED <<published, queue, draining, over, ready, drained, told, reporting, hand,
                    caught, hurt, panics, spoiled>>
    BY DEF Commit, queueVars, failVars
  <1>8. before' \in [Threads -> Threads]
    BY JoinTypes DEF Commit
  <1>9. QED
    BY <1>4, <1>5, <1>6, <1>7, <1>8, DrainerKept DEF TypeOK

\* The two ways a drainer of a session's queue goes on
DrainTakes(t) ==
    /\ pc[t] = "drain" /\ fifo[t[2]] # <<>> /\ Head(fifo[t[2]]) \in ready
    /\ fifo' = [fifo EXCEPT ![t[2]] = Tail(fifo[t[2]])]
    /\ reporting' = [reporting EXCEPT ![t] = Head(fifo[t[2]])]
    /\ pc' = [pc EXCEPT ![t] = "publish"]
    /\ drained' = drained
DrainStops(t) ==
    /\ pc[t] = "drain" /\ (fifo[t[2]] = <<>> \/ Head(fifo[t[2]]) \notin ready)
    /\ drained' = drained \ {t[2]}
    /\ pc' = [pc EXCEPT ![t] = "done"]
    /\ fifo' = fifo /\ reporting' = reporting

LEMMA DrainCases ==
    ASSUME NEW t, DrainNext(t)
    PROVE  /\ DrainTakes(t) \/ DrainStops(t)
           /\ UNCHANGED <<storeVars, queueVars, ready, told, before, hand, shown, log, failVars>>
  BY DEF DrainNext, DrainTakes, DrainStops

LEMMA TurnTypes ==
    ASSUME TypeOK, NEW t \in Threads, Proceed(t) \/ Drop(t)
    PROVE  TypeOK'
  <1>1. /\ pc' \in [Threads -> Places]
        /\ \A u \in Threads \ {t} : pc'[u] = pc[u]
        /\ Drains(t)' <=> Drains(t)
    <2>1. pc[t] = "taken" /\ (pc' = [pc EXCEPT ![t] = "publish"] \/ pc' = [pc EXCEPT ![t] = "dropped"])
      BY DEF Proceed, Drop
    <2>2. pc \in [Threads -> Places] /\ "publish" \in Places /\ "dropped" \in Places
      BY DEF TypeOK, Places
    <2>3. pc' \in [Threads -> Places] /\ pc'[t] \in {"publish", "dropped"}
      BY <2>1, <2>2
    <2>4. \A u \in Threads \ {t} : pc'[u] = pc[u]
      BY <2>1, <2>2
    <2>5. QED
      BY <2>1, <2>3, <2>4 DEF Drains
  <1>2. UNCHANGED <<sequence, counter, transition, published, queue, draining, over, fifo, ready,
                    drained, told, before, reporting, hand, caught, hurt, panics, spoiled>>
    BY DEF Proceed, Drop, storeVars, queueVars, sessionVars, failVars
  <1>3. QED
    BY <1>1, <1>2, DrainerKept DEF TypeOK

LEMMA QueueTypes ==
    ASSUME TypeOK, SessionsInv, NEW t \in Threads, Announce(t) \/ DrainNext(t) \/ ToldReturns(t)
    PROVE  TypeOK'
  <1>1. t[2] \in Sessions
    BY QueuingThreads DEF Announce, DrainNext, ToldReturns
  <1>2. /\ UNCHANGED <<sequence, counter, transition, published, queue, draining, over, told,
                       before, hand, caught, hurt, panics, spoiled>>
    BY DEF Announce, DrainNext, ToldReturns, storeVars, queueVars, sessionVars, failVars
  <1>3. /\ pc' \in [Threads -> Places]
        /\ \A u \in Threads \ {t} : pc'[u] = pc[u]
        /\ Drains(t)' <=> Drains(t)
    <2>1. CASE Announce(t)
      BY <2>1 DEF Announce, TypeOK, Places, Drains
    <2>2. CASE DrainTakes(t)
      BY <2>2 DEF DrainTakes, TypeOK, Places, Drains
    <2>3. CASE DrainStops(t)
      BY <2>3 DEF DrainStops, TypeOK, Places, Drains
    <2>4. CASE ToldReturns(t)
      BY <2>4 DEF ToldReturns, TypeOK, Places, Drains
    <2>5. QED
      BY <2>1, <2>2, <2>3, <2>4, DrainCases
  <1>4. fifo' \in [Sessions -> Seq(Threads)] /\ reporting' \in [Threads -> Threads]
    <2>1. CASE Announce(t)
      BY <1>1, <2>1, FifoTypes DEF Announce, TypeOK
    <2>2. CASE DrainTakes(t)
      <3>1. Head(fifo[t[2]]) \in Threads /\ Tail(fifo[t[2]]) \in Seq(Threads)
        BY <1>1, <2>2, FifoTypes DEF DrainTakes
      <3>2. QED
        BY <1>1, <2>2, <3>1 DEF DrainTakes, TypeOK
    <2>3. CASE DrainStops(t)
      BY <2>3 DEF DrainStops, TypeOK
    <2>4. CASE ToldReturns(t)
      BY <2>4 DEF ToldReturns, TypeOK, sessionVars
    <2>5. QED
      BY <2>1, <2>2, <2>3, <2>4, DrainCases
  <1>5. ready' \subseteq Threads /\ drained' \subseteq Sessions
    BY <1>1 DEF Announce, DrainNext, ToldReturns, TypeOK, sessionVars
  <1>6. QED
    BY <1>2, <1>3, <1>4, <1>5, DrainerKept DEF TypeOK

LEMMA StoreQueueTypes ==
    ASSUME TypeOK, NEW t \in Threads
    PROVE  /\ Append(queue, reporting[t]) \in Seq(Threads)
           /\ queue # <<>> => Head(queue) \in Threads /\ Tail(queue) \in Seq(Threads)
  <1>1. queue \in Seq(Threads) /\ reporting[t] \in Threads
    BY DEF TypeOK
  <1>2. QED
    BY <1>1, AppendProperties, HeadTailProperties

LEMMA PublishTypes ==
    ASSUME TypeOK, NEW t \in Threads,
           Enqueue(t) \/ Sweep(t) \/ CallbackEnds(t) \/ StopSweeping(t) \/ ParkedReturns(t)
    PROVE  TypeOK'
  <1>1. UNCHANGED <<sequence, counter, transition, fifo, ready, drained, reporting>>
    BY DEF Enqueue, Sweep, CallbackEnds, StopSweeping, ParkedReturns, storeVars, sessionVars
  <1>2. CASE Enqueue(t)
    <2>1. queue' \in Seq(Threads) /\ pc' \in [Threads -> Places]
      BY <1>2, StoreQueueTypes DEF Enqueue, TypeOK, Places
    <2>2. draining' = TRUE /\ \A u \in Threads \ {t} : pc'[u] = pc[u]
      BY <1>2 DEF Enqueue, TypeOK
    <2>3. IF draining THEN pc'[t] = "parked" ELSE pc'[t] = "sweep"
      BY <1>2 DEF Enqueue, TypeOK
    <2>4. pc[t] = "publish"
      BY <1>2 DEF Enqueue
    <2>5. /\ draining' <=> \E u \in Threads : pc'[u] \in {"sweep", "call"}
          /\ \A u, v \in Threads : pc'[u] \in {"sweep", "call"} /\ pc'[v] \in {"sweep", "call"} => u = v
      BY <2>2, <2>3, <2>4 DEF TypeOK
    <2>6. UNCHANGED <<published, over, told, before, hand, caught, hurt, panics, spoiled>>
      BY <1>2 DEF Enqueue, sessionVars, failVars
    <2>7. QED
      BY <1>1, <2>1, <2>2, <2>5, <2>6 DEF TypeOK
  <1>3. CASE Sweep(t)
    <2>1. Head(queue) \in Threads /\ queue' \in Seq(Threads)
      BY <1>3, StoreQueueTypes DEF Sweep
    <2>2. KindOf(Head(queue)) \in Kinds /\ transition[Head(queue)].sequence \in Nat
      BY <2>1, ThreadCases DEF TypeOK
    <2>3. hand' \in [Threads -> Threads] /\ published' \in [Kinds -> Nat] /\ over' \subseteq Threads
      BY <1>3, <2>1, <2>2 DEF Sweep, TypeOK
    <2>4. /\ pc' \in [Threads -> Places] /\ UNCHANGED draining
          /\ \A u \in Threads \ {t} : pc'[u] = pc[u]
          /\ Drains(t)' <=> Drains(t)
      BY <1>3 DEF Sweep, TypeOK, Places, Drains
    <2>5. UNCHANGED <<told, before, caught, hurt, panics, spoiled>>
      BY <1>3 DEF Sweep, sessionVars, failVars
    <2>6. QED
      BY <1>1, <2>1, <2>3, <2>4, <2>5, DrainerKept DEF TypeOK
  <1>4. CASE CallbackEnds(t)
    <2>1. /\ pc' \in [Threads -> Places] /\ UNCHANGED draining
          /\ \A u \in Threads \ {t} : pc'[u] = pc[u]
          /\ Drains(t)' <=> Drains(t)
      BY <1>4 DEF CallbackEnds, TypeOK, Places, Drains
    <2>2. /\ over' \subseteq Threads /\ caught' \subseteq Threads /\ spoiled' \subseteq Threads
          /\ panics' \in 0..MaxPanics
      BY <1>4, ObservationAssumption DEF CallbackEnds, TypeOK
    <2>3. UNCHANGED <<published, queue, told, before, hand, hurt>>
      BY <1>4 DEF CallbackEnds, sessionVars
    <2>4. QED
      BY <1>1, <2>1, <2>2, <2>3, DrainerKept DEF TypeOK
  <1>5. CASE StopSweeping(t)
    <2>1. Published(t, t \in caught) /\ draining' = FALSE /\ caught' = caught \ {t} /\ pc[t] = "sweep"
      BY <1>5 DEF StopSweeping
    <2>2. /\ pc' \in [Threads -> Places] /\ told' \subseteq Threads
          /\ \A u \in Threads \ {t} : pc'[u] = pc[u]
          /\ pc'[t] \in {"drain", "done"}
          /\ hurt' \subseteq hurt \cup {t} /\ panics' \in 0..MaxPanics
          /\ UNCHANGED <<before, spoiled>>
      BY <2>1, PublishedTypes
    <2>3. \A u \in Threads : pc'[u] \notin {"sweep", "call"}
      BY <2>1, <2>2 DEF TypeOK
    <2>4. UNCHANGED <<published, queue, over, hand>>
      BY <1>5 DEF StopSweeping
    <2>5. QED
      BY <1>1, <2>1, <2>2, <2>3, <2>4 DEF TypeOK
  <1>6. CASE ParkedReturns(t)
    <2>1. Published(t, FALSE) /\ pc[t] = "parked" /\ UNCHANGED <<queueVars, hand, caught>>
      BY <1>6 DEF ParkedReturns
    <2>2. /\ pc' \in [Threads -> Places] /\ told' \subseteq Threads
          /\ \A u \in Threads \ {t} : pc'[u] = pc[u]
          /\ pc'[t] \in {"drain", "done"}
          /\ hurt' \subseteq hurt \cup {t} /\ panics' \in 0..MaxPanics
          /\ UNCHANGED <<before, spoiled>>
      BY <2>1, PublishedTypes
    <2>3. UNCHANGED draining /\ (Drains(t)' <=> Drains(t))
      BY <2>1, <2>2 DEF Drains, queueVars
    <2>4. QED
      BY <1>1, <2>1, <2>2, <2>3, DrainerKept DEF TypeOK, queueVars
  <1>7. QED
    BY <1>2, <1>3, <1>4, <1>5, <1>6

-----------------------------------------------------------------------------
(* The sessions' queues, step by step.                                       *)

\* What SessionFits reads, for the two threads c and d of session s.
LEMMA SessionParts ==
    ASSUME NEW s \in Sessions, SessionFits(s), NEW c, NEW d, c = Connects(s), d = Disconnects(s)
    PROVE  /\ c # d
           /\ fifo[s] \in {<<>>, <<c>>, <<d>>, <<c, d>>}
           /\ s \in drained <=> pc[c] \in Active \/ pc[d] \in Active
           /\ ConnectPart(c, d, s) /\ DisconnectPart(c, d, s) /\ LogPart(c, d, s)
  BY SessionThreads DEF SessionFits

LEMMA AnnounceFits ==
    ASSUME TypeOK, SessionsInv, NEW t \in Threads, Announce(t) PROVE SessionFits(t[2])'
  <1> DEFINE s == t[2]
             c == Connects(s)
             d == Disconnects(s)
  <1>1. s \in Sessions /\ SessionFits(s) /\ t \in {c, d} /\ c \in Threads /\ d \in Threads
    BY QueuingThreads, ThreadCases, SessionThreads DEF Announce, SessionsInv
  <1>2. c[1] = "connect" /\ d[1] = "disconnect"
    BY <1>1, SessionThreads
  <1>3. /\ c # d
        /\ fifo[s] \in {<<>>, <<c>>, <<d>>, <<c, d>>}
        /\ s \in drained <=> pc[c] \in Active \/ pc[d] \in Active
        /\ ConnectPart(c, d, s) /\ DisconnectPart(c, d, s) /\ LogPart(c, d, s)
    BY <1>1, SessionParts
  <1>4. UNCHANGED <<told, reporting, log, panics>> /\ pc[t] = "taken"
    BY DEF Announce, failVars
  <1> DEFINE entries == IF t[1] = "disconnect" THEN Append(fifo[s], t) ELSE fifo[s]
             drains == Startable(s, entries, ready \cup {t})
  <1>5. /\ fifo'[s] = entries /\ ready' = ready \cup {t}
        /\ drained' = IF drains THEN drained \cup {s} ELSE drained
        /\ pc'[t] = IF drains THEN "drain" ELSE "wait"
        /\ \A u \in Threads \ {t} : pc'[u] = pc[u]
    BY <1>1 DEF Announce, TypeOK
  <1>6. drains <=> s \notin drained /\ entries # <<>> /\ Head(entries) \in ready'
    BY <1>5 DEF Startable
  <1>q. /\ Append(<< >>, d) = <<d>> /\ Append(<<c>>, d) = <<c, d>>
        /\ Head(<<d>>) = d /\ Head(<<c, d>>) = c /\ << >> # <<d>> /\ << >> # <<c, d>>
    BY <1>1, SessionQueues
  <1>7. CASE t = c
    <2>1. entries = fifo[s] /\ fifo[s] \in {<<c>>, <<c, d>>}
      BY <1>2, <1>3, <1>4, <1>7 DEF ConnectPart
    <2>2. s \notin drained /\ drains
      <3>1. s \notin drained
        BY <1>3, <1>4, <1>7 DEF Active, InPublish, DisconnectPart
      <3>2. entries # <<>> /\ Head(entries) = c
        BY <1>3, <2>1, ShortQueues
      <3>3. QED
        BY <1>5, <1>6, <1>7, <3>1, <3>2
    <2> HIDE DEF entries, drains, c, d, s
    <2>3. pc'[c] = "drain" /\ pc'[d] = pc[d] /\ s \in drained' /\ fifo'[s] = fifo[s]
      BY <1>1, <1>3, <1>5, <1>7, <2>1, <2>2
    <2>4. pc[c] = "taken" /\ c \in ready' /\ (d \in ready' <=> d \in ready)
      BY <1>3, <1>4, <1>5, <1>7
    <2>5. c \notin told /\ d \notin told /\ pc[d] \in {"start", "taken", "wait", "dropped"}
      BY <1>3, <2>4 DEF ConnectPart, DisconnectPart, Active, InPublish
    <2>6. QueuePartNext(c, d, s)
      BY <1>3, <2>3 DEF QueuePartNext, Active
    <2>7. ConnectPartNext(c, d, s)
      BY <1>3, <1>4, <2>1, <2>3, <2>4, <2>5 DEF ConnectPartNext, Active, InPublish
    <2>8. DisconnectPartNext(c, d, s)
      BY <1>3, <1>4, <2>3, <2>4, <2>5 DEF DisconnectPart, DisconnectPartNext, Active, InPublish
    <2>9. LogPartNext(c, d, s)
      BY <1>3, <1>4, <2>5 DEF LogPart, LogPartNext
    <2>10. SessionFits(s)'
      BY <2>6, <2>7, <2>8, <2>9, SessionPartsNext DEF c, d
    <2>11. QED
      BY <2>10 DEF s
  <1>8. CASE t = d
    <2>1. entries = Append(fifo[s], d) /\ fifo[s] \in {<<>>, <<c>>}
      BY <1>2, <1>3, <1>4, <1>8 DEF DisconnectPart
    <2>2. /\ pc[d] = "taken" /\ pc[c] # "start" /\ d \notin told /\ d \in ready'
          /\ (c \in ready' <=> c \in ready) /\ pc'[c] = pc[c]
          /\ ~(pc[c] \in InPublish /\ reporting[c] = d)
      BY <1>1, <1>3, <1>4, <1>5, <1>8 DEF ConnectPart, DisconnectPart, Active, InPublish
    <2>3. CASE fifo[s] = <<>>
      <3>1. entries = <<d>>
        <4> HIDE DEF entries, c, d, s
        <4>1. QED
          BY <1>q, <2>1, <2>3
      <3>2. Head(entries) = d /\ entries # <<>>
        <4> HIDE DEF entries, c, d, s
        <4>1. QED
          BY <1>q, <3>1
      <3>3. drains <=> s \notin drained
        BY <1>6, <2>2, <3>2
      <3>4. pc[c] # "taken" /\ (s \notin drained => pc[c] = "done") /\ (s \in drained => pc[c] \in Active)
        BY <1>3, <2>2, <2>3, ShortQueues DEF ConnectPart, Active, InPublish
      <3>5. /\ pc'[d] = IF s \in drained THEN "wait" ELSE "drain"
            /\ s \in drained' /\ fifo'[s] = <<d>>
        BY <1>1, <1>5, <1>8, <3>1, <3>3
      <3> HIDE DEF entries, drains, c, d, s
      <3>6. QueuePartNext(c, d, s)
        BY <2>2, <3>4, <3>5 DEF QueuePartNext, Active
      <3>7. ConnectPartNext(c, d, s)
        BY <1>3, <1>4, <2>2, <2>3, <3>4, <3>5, ShortQueues DEF ConnectPart, ConnectPartNext, Active, InPublish
      <3>8. DisconnectPartNext(c, d, s)
        BY <1>3, <1>4, <2>2, <3>4, <3>5 DEF DisconnectPartNext, Active, InPublish
      <3>9. LogPartNext(c, d, s)
        BY <1>3, <1>4, <2>2 DEF LogPart, LogPartNext
      <3>10. SessionFits(s)'
        BY <3>6, <3>7, <3>8, <3>9, SessionPartsNext DEF c, d
      <3>11. QED
        BY <3>10 DEF s
    <2>4. CASE fifo[s] = <<c>>
      <3>1. entries = <<c, d>>
        <4> HIDE DEF entries, c, d, s
        <4>1. QED
          BY <1>q, <2>1, <2>4
      <3>2. Head(entries) = c
        <4> HIDE DEF entries, c, d, s
        <4>1. QED
          BY <1>q, <3>1
      <3>3. pc[c] = "taken" \/ (pc[c] = "drain" /\ c \notin told)
        BY <1>3, <2>4 DEF ConnectPart
      <3>4. ~drains
        BY <1>3, <1>6, <2>2, <3>2, <3>3 DEF ConnectPart, Active
      <3>5. pc'[d] = "wait" /\ (s \in drained' <=> s \in drained) /\ fifo'[s] = <<c, d>>
        BY <1>1, <1>5, <1>8, <3>1, <3>4
      <3> HIDE DEF entries, drains, c, d, s
      <3>6. QueuePartNext(c, d, s)
        BY <1>3, <2>2, <3>5 DEF QueuePartNext, Active, InPublish
      <3>7. ConnectPartNext(c, d, s)
        BY <1>3, <1>4, <2>2, <3>3, <3>5 DEF ConnectPart, ConnectPartNext, Active, InPublish
      <3>8. DisconnectPartNext(c, d, s)
        BY <1>3, <1>4, <2>2, <3>3, <3>5 DEF DisconnectPartNext, Active, InPublish
      <3>9. LogPartNext(c, d, s)
        BY <1>3, <1>4, <2>2 DEF LogPart, LogPartNext
      <3>10. SessionFits(s)'
        BY <3>6, <3>7, <3>8, <3>9, SessionPartsNext DEF c, d
      <3>11. QED
        BY <3>10 DEF s
    <2>5. QED
      BY <2>1, <2>3, <2>4
  <1>9. QED
    BY <1>1, <1>7, <1>8

LEMMA CommitFits ==
    ASSUME TypeOK, SessionsInv, NEW t \in Threads, Lifecycle(t), Commit(t) PROVE SessionFits(t[2])'
  <1> DEFINE s == t[2]
             c == Connects(s)
             d == Disconnects(s)
  <1>1. s \in Sessions /\ SessionFits(s) /\ t \in {c, d} /\ c \in Threads /\ d \in Threads
    BY ThreadCases, SessionThreads DEF SessionsInv
  <1>2. c[1] = "connect" /\ d[1] = "disconnect" /\ Connects(d[2]) = c
    BY <1>1, SessionThreads
  <1>3. /\ c # d
        /\ fifo[s] \in {<<>>, <<c>>, <<d>>, <<c, d>>}
        /\ s \in drained <=> pc[c] \in Active \/ pc[d] \in Active
        /\ ConnectPart(c, d, s) /\ DisconnectPart(c, d, s) /\ LogPart(c, d, s)
    BY <1>1, SessionParts
  <1>4. /\ UNCHANGED <<ready, drained, told, reporting, log, panics>> /\ pc[t] = "start"
        /\ pc'[t] = "taken" /\ \A u \in Threads \ {t} : pc'[u] = pc[u]
    BY DEF Commit, TypeOK, failVars
  <1>5. CASE t = c
    <2>1. fifo[s] = <<>> /\ c \notin told /\ d \notin told /\ pc[d] = "start"
      BY <1>3, <1>4, <1>5 DEF ConnectPart, DisconnectPart, Active, InPublish
    <2>2. fifo'[s] = <<c>>
      <3>1. fifo'[s] = Append(fifo[s], t)
        BY <1>1, <1>2, <1>5 DEF Commit, TypeOK
      <3>2. QED
        BY <1>3, <1>5, <2>1, <3>1, ShortQueues
    <2>3. pc'[c] = "taken" /\ pc'[d] = pc[d] /\ pc[c] = "start"
      BY <1>1, <1>3, <1>4, <1>5
    <2> HIDE DEF c, d, s
    <2>4. QueuePartNext(c, d, s)
      BY <1>3, <1>4, <2>1, <2>2, <2>3 DEF QueuePartNext, Active, InPublish
    <2>5. ConnectPartNext(c, d, s)
      BY <1>3, <1>4, <2>1, <2>2, <2>3 DEF ConnectPart, ConnectPartNext, Active, InPublish
    <2>6. DisconnectPartNext(c, d, s)
      BY <1>3, <1>4, <2>1, <2>2, <2>3, ShortQueues DEF DisconnectPart, DisconnectPartNext, Active, InPublish
    <2>7. LogPartNext(c, d, s)
      BY <1>3, <1>4, <2>1 DEF LogPart, LogPartNext
    <2>8. SessionFits(s)'
      BY <2>4, <2>5, <2>6, <2>7, SessionPartsNext DEF c, d
    <2>9. QED
      BY <2>8 DEF s
  <1>6. CASE t = d
    <2>1. pc[c] # "start" /\ fifo' = fifo
      BY <1>2, <1>6 DEF Commit, Connects
    <2>2. pc'[d] = "taken" /\ pc'[c] = pc[c] /\ pc[d] = "start"
      BY <1>1, <1>3, <1>4, <1>6
    <2> HIDE DEF c, d, s
    <2>3. QueuePartNext(c, d, s)
      BY <1>3, <1>4, <2>1, <2>2 DEF QueuePartNext, Active, InPublish
    <2>4. ConnectPartNext(c, d, s)
      BY <1>3, <1>4, <2>1, <2>2 DEF ConnectPart, ConnectPartNext, Active, InPublish
    <2>5. DisconnectPartNext(c, d, s)
      BY <1>3, <1>4, <2>1, <2>2 DEF DisconnectPart, DisconnectPartNext, Active, InPublish
    <2>6. LogPartNext(c, d, s)
      BY <1>3, <1>4 DEF LogPart, LogPartNext
    <2>7. SessionFits(s)'
      BY <2>3, <2>4, <2>5, <2>6, SessionPartsNext DEF c, d
    <2>8. QED
      BY <2>7 DEF s
  <1>7. QED
    BY <1>1, <1>5, <1>6

LEMMA DrainFits ==
    ASSUME TypeOK, SessionsInv, NEW t \in Threads, DrainNext(t) PROVE SessionFits(t[2])'
  <1> DEFINE s == t[2]
             c == Connects(s)
             d == Disconnects(s)
  <1>1. s \in Sessions /\ SessionFits(s) /\ t \in {c, d} /\ c \in Threads /\ d \in Threads
    BY QueuingThreads, ThreadCases, SessionThreads DEF DrainNext, SessionsInv
  <1>2. /\ c # d
        /\ fifo[s] \in {<<>>, <<c>>, <<d>>, <<c, d>>}
        /\ s \in drained <=> pc[c] \in Active \/ pc[d] \in Active
        /\ ConnectPart(c, d, s) /\ DisconnectPart(c, d, s) /\ LogPart(c, d, s)
    BY <1>1, SessionParts
  <1>3. /\ Head(<<c>>) = c /\ Head(<<d>>) = d /\ Head(<<c, d>>) = c
        /\ Tail(<<c>>) = << >> /\ Tail(<<d>>) = << >> /\ Tail(<<c, d>>) = <<d>>
        /\ << >> # <<c>> /\ << >> # <<d>> /\ <<c>> # <<d>>
        /\ << >> # <<c, d>> /\ <<c>> # <<c, d>> /\ <<d>> # <<c, d>>
    BY <1>1, SessionQueues
  <1>4. UNCHANGED <<ready, told, log, panics>> /\ pc[t] = "drain"
    BY DrainCases DEF DrainNext, failVars
  <1>5. \A u \in Threads \ {t} : pc'[u] = pc[u] /\ reporting'[u] = reporting[u]
    <2>1. CASE DrainTakes(t)
      BY <2>1 DEF DrainTakes, TypeOK
    <2>2. CASE DrainStops(t)
      BY <2>2 DEF DrainStops, TypeOK
    <2>3. QED
      BY <2>1, <2>2, DrainCases
  <1>6. DrainTakes(t) =>
           /\ fifo[s] # <<>> /\ fifo'[s] = Tail(fifo[s]) /\ reporting'[t] = Head(fifo[s])
           /\ pc'[t] = "publish" /\ drained' = drained
    BY <1>1 DEF DrainTakes, TypeOK
  <1>7. DrainStops(t) =>
           /\ fifo[s] = <<>> \/ Head(fifo[s]) \notin ready
           /\ fifo'[s] = fifo[s] /\ reporting' = reporting
           /\ pc'[t] = "done" /\ s \notin drained'
    BY <1>1 DEF DrainStops, TypeOK
  <1>8. DrainTakes(t) \/ DrainStops(t)
    BY DrainCases
  <1> HIDE DEF c, d, s
  <1>9. CASE t = c
    <2>1. /\ pc[c] = "drain" /\ pc'[d] = pc[d] /\ reporting'[d] = reporting[d] /\ s \in drained
          /\ c \in ready /\ pc[d] \in {"start", "taken", "wait", "done", "dropped"}
      BY <1>1, <1>2, <1>4, <1>5, <1>9 DEF ConnectPart, DisconnectPart, Active, InPublish
    <2>2. CASE DrainTakes(t) /\ c \notin told
      <3>1. fifo[s] \in {<<c>>, <<c, d>>} /\ d \notin told
        BY <1>2, <2>1, <2>2 DEF ConnectPart, DisconnectPart
      <3>2. reporting'[c] = c /\ pc'[c] = "publish" /\ drained' = drained
        BY <1>3, <1>6, <1>9, <2>2, <3>1
      <3>3. /\ fifo'[s] \in {<<>>, <<d>>}
            /\ fifo'[s] = <<d>> <=> fifo[s] = <<c, d>>
        BY <1>3, <1>6, <2>2, <3>1
      <3>4. fifo[s] = <<c, d>> <=> pc[d] = "wait"
        BY <1>2, <1>3, <2>1, <3>1 DEF DisconnectPart, InPublish
      <3>5. QueuePartNext(c, d, s)
        BY <2>1, <3>2, <3>3 DEF QueuePartNext, Active, InPublish
      <3>6. ConnectPartNext(c, d, s)
        BY <1>3, <1>4, <2>1, <2>2, <3>2, <3>3 DEF ConnectPartNext, Active, InPublish
      <3>7. DisconnectPartNext(c, d, s)
        BY <1>2, <1>3, <1>4, <2>1, <3>1, <3>2, <3>3, <3>4 DEF DisconnectPart, DisconnectPartNext, Active, InPublish
      <3>8. LogPartNext(c, d, s)
        BY <1>2, <1>4 DEF LogPart, LogPartNext
      <3>9. QED
        BY <3>5, <3>6, <3>7, <3>8, SessionPartsNext DEF c, d, s
    <2>3. CASE DrainTakes(t) /\ c \in told
      <3>1. fifo[s] = <<d>>
        BY <1>2, <1>6, <2>1, <2>3 DEF ConnectPart
      <3>2. d \notin told /\ pc[d] = "wait" /\ d \in ready
        BY <1>2, <2>1, <3>1 DEF DisconnectPart
      <3>3. reporting'[c] = d /\ pc'[c] = "publish" /\ drained' = drained /\ fifo'[s] = <<>>
        BY <1>3, <1>6, <1>9, <2>3, <3>1
      <3>4. QueuePartNext(c, d, s)
        BY <2>1, <3>3 DEF QueuePartNext, Active, InPublish
      <3>5. ConnectPartNext(c, d, s)
        BY <1>3, <1>4, <2>1, <2>3, <3>2, <3>3 DEF ConnectPartNext, Active, InPublish
      <3>6. DisconnectPartNext(c, d, s)
        BY <1>3, <1>4, <2>1, <3>2, <3>3 DEF DisconnectPartNext, Active, InPublish
      <3>7. LogPartNext(c, d, s)
        BY <1>2, <1>4 DEF LogPart, LogPartNext
      <3>8. QED
        BY <3>4, <3>5, <3>6, <3>7, SessionPartsNext DEF c, d, s
    <2>4. CASE DrainStops(t)
      <3>1. c \in told
        BY <1>2, <1>3, <1>7, <2>1, <2>4 DEF ConnectPart
      <3>2. fifo[s] = <<>>
        <4>1. fifo[s] \in {<<>>, <<d>>}
          BY <1>2, <2>1, <3>1 DEF ConnectPart
        <4>2. fifo[s] = <<d>> => d \in ready
          BY <1>2, <2>1 DEF DisconnectPart
        <4>3. QED
          BY <1>3, <1>7, <2>4, <4>1, <4>2
      <3>3. pc'[c] = "done" /\ reporting' = reporting /\ s \notin drained' /\ fifo'[s] = <<>>
        BY <1>7, <1>9, <2>4, <3>2
      <3>4. d \in told \/ pc[d] \in {"start", "taken", "dropped"}
        BY <1>2, <2>1, <3>2, <1>3 DEF DisconnectPart, InPublish
      <3>5. QueuePartNext(c, d, s)
        BY <2>1, <3>3 DEF QueuePartNext, Active, InPublish
      <3>6. ConnectPartNext(c, d, s)
        BY <1>3, <1>4, <2>1, <3>1, <3>3 DEF ConnectPartNext, Active, InPublish
      <3>7. DisconnectPartNext(c, d, s)
        BY <1>2, <1>3, <1>4, <2>1, <3>3, <3>4 DEF DisconnectPart, DisconnectPartNext, Active, InPublish
      <3>8. LogPartNext(c, d, s)
        BY <1>2, <1>4 DEF LogPart, LogPartNext
      <3>9. QED
        BY <3>5, <3>6, <3>7, <3>8, SessionPartsNext DEF c, d, s
    <2>5. QED
      BY <1>8, <2>2, <2>3, <2>4
  <1>10. CASE t = d
    <2>1. /\ pc[d] = "drain" /\ pc'[c] = pc[c] /\ reporting'[c] = reporting[c]
          /\ pc[c] = "done" /\ c \in told /\ c \in ready /\ d \in ready
      BY <1>1, <1>2, <1>4, <1>5, <1>10 DEF ConnectPart, DisconnectPart, Active
    <2>2. fifo[s] \in {<<>>, <<d>>} /\ (fifo[s] = <<d>> <=> d \notin told)
      BY <1>2, <1>3, <2>1 DEF ConnectPart, DisconnectPart
    <2>3. CASE DrainTakes(t)
      <3>1. fifo[s] = <<d>> /\ d \notin told
        BY <1>6, <2>2, <2>3
      <3>2. reporting'[d] = d /\ pc'[d] = "publish" /\ drained' = drained /\ fifo'[s] = <<>>
        BY <1>3, <1>6, <1>10, <2>3, <3>1
      <3>3. QueuePartNext(c, d, s)
        BY <1>2, <2>1, <3>2 DEF QueuePartNext, Active, InPublish
      <3>4. ConnectPartNext(c, d, s)
        BY <1>3, <1>4, <2>1, <3>2 DEF ConnectPartNext, Active, InPublish
      <3>5. DisconnectPartNext(c, d, s)
        BY <1>3, <1>4, <2>1, <3>1, <3>2 DEF DisconnectPartNext, Active, InPublish
      <3>6. LogPartNext(c, d, s)
        BY <1>2, <1>4 DEF LogPart, LogPartNext
      <3>7. QED
        BY <3>3, <3>4, <3>5, <3>6, SessionPartsNext DEF c, d, s
    <2>4. CASE DrainStops(t)
      <3>1. fifo[s] = <<>> /\ d \in told
        BY <1>3, <1>7, <2>1, <2>2, <2>4
      <3>2. pc'[d] = "done" /\ reporting' = reporting /\ s \notin drained' /\ fifo'[s] = <<>>
        BY <1>7, <1>10, <2>4, <3>1
      <3>3. QueuePartNext(c, d, s)
        BY <2>1, <3>2 DEF QueuePartNext, Active, InPublish
      <3>4. ConnectPartNext(c, d, s)
        BY <1>3, <1>4, <2>1, <3>2 DEF ConnectPartNext, Active, InPublish
      <3>5. DisconnectPartNext(c, d, s)
        BY <1>3, <1>4, <2>1, <3>1, <3>2 DEF DisconnectPartNext, Active, InPublish
      <3>6. LogPartNext(c, d, s)
        BY <1>2, <1>4 DEF LogPart, LogPartNext
      <3>7. QED
        BY <3>3, <3>4, <3>5, <3>6, SessionPartsNext DEF c, d, s
    <2>5. QED
      BY <1>8, <2>3, <2>4
  <1>11. QED
    BY <1>1, <1>9, <1>10

LEMMA ToldReturnsFits ==
    ASSUME TypeOK, SessionsInv, NEW t \in Threads, ToldReturns(t) PROVE SessionFits(t[2])'
  <1> DEFINE s == t[2]
             c == Connects(s)
             d == Disconnects(s)
  <1>1. s \in Sessions /\ SessionFits(s) /\ t \in {c, d} /\ c \in Threads /\ d \in Threads
    BY QueuingThreads, ThreadCases, SessionThreads DEF ToldReturns, SessionsInv
  <1>2. /\ c # d
        /\ fifo[s] \in {<<>>, <<c>>, <<d>>, <<c, d>>}
        /\ s \in drained <=> pc[c] \in Active \/ pc[d] \in Active
        /\ ConnectPart(c, d, s) /\ DisconnectPart(c, d, s) /\ LogPart(c, d, s)
    BY <1>1, SessionParts
  <1>3. UNCHANGED <<fifo, ready, drained, told, reporting, log, panics>> /\ pc[t] = "wait" /\ t \in told
    BY DEF ToldReturns, sessionVars, failVars
  <1>4. pc'[t] = "done" /\ \A u \in Threads \ {t} : pc'[u] = pc[u]
    BY DEF ToldReturns, TypeOK
  <1> HIDE DEF c, d, s
  <1>5. t = d
    BY <1>1, <1>2, <1>3 DEF ConnectPart, Active, InPublish
  <1>6. pc[d] = "wait" /\ pc'[d] = "done" /\ pc'[c] = pc[c] /\ d \in told /\ c \in told
    BY <1>1, <1>2, <1>3, <1>4, <1>5 DEF DisconnectPart
  <1>7. QueuePartNext(c, d, s)
    BY <1>2, <1>3, <1>6 DEF QueuePartNext, Active, InPublish
  <1>8. ConnectPartNext(c, d, s)
    BY <1>2, <1>3, <1>6 DEF ConnectPart, ConnectPartNext, Active, InPublish
  <1>9. DisconnectPartNext(c, d, s)
    BY <1>2, <1>3, <1>6 DEF DisconnectPart, DisconnectPartNext, Active, InPublish
  <1>10. LogPartNext(c, d, s)
    BY <1>2, <1>3 DEF LogPart, LogPartNext
  <1>11. QED
    BY <1>7, <1>8, <1>9, <1>10, SessionPartsNext DEF c, d, s

\* A disconnect that a panic of its goroutine dropped: no entry is queued.
LEMMA DropFits ==
    ASSUME TypeOK, SessionsInv, NEW t \in Threads, Lifecycle(t), Drop(t) PROVE SessionFits(t[2])'
  <1> DEFINE s == t[2]
             c == Connects(s)
             d == Disconnects(s)
  <1>1. s \in Sessions /\ SessionFits(s) /\ t \in {c, d} /\ c \in Threads /\ d \in Threads
    BY ThreadCases, SessionThreads DEF SessionsInv
  <1>2. /\ c # d
        /\ fifo[s] \in {<<>>, <<c>>, <<d>>, <<c, d>>}
        /\ s \in drained <=> pc[c] \in Active \/ pc[d] \in Active
        /\ ConnectPart(c, d, s) /\ DisconnectPart(c, d, s) /\ LogPart(c, d, s)
    BY <1>1, SessionParts
  <1>3. UNCHANGED <<fifo, ready, drained, told, reporting, log, panics>> /\ pc[t] = "taken"
    BY DEF Drop, sessionVars, failVars
  <1>4. pc'[t] = "dropped" /\ \A u \in Threads \ {t} : pc'[u] = pc[u]
    BY DEF Drop, TypeOK
  <1>5. t # c
    <2>1. c[1] = "connect"
      BY <1>1, SessionThreads
    <2>2. pc[before[t]] # "taken"
      BY DEF Drop
    <2>3. QED
      BY <1>1, <1>3, <2>1, <2>2 DEF SessionsInv, PanicsPart, Adds
  <1> HIDE DEF c, d, s
  <1>6. pc[d] = "taken" /\ pc'[d] = "dropped" /\ pc'[c] = pc[c]
    BY <1>1, <1>2, <1>3, <1>4, <1>5
  <1>7. QueuePartNext(c, d, s)
    BY <1>2, <1>3, <1>6 DEF QueuePartNext, Active, InPublish
  <1>8. ConnectPartNext(c, d, s)
    BY <1>2, <1>3, <1>6 DEF ConnectPart, ConnectPartNext, Active, InPublish
  <1>9. DisconnectPartNext(c, d, s)
    BY <1>2, <1>3, <1>6 DEF DisconnectPart, DisconnectPartNext, Active, InPublish
  <1>10. LogPartNext(c, d, s)
    BY <1>2, <1>3 DEF LogPart, LogPartNext
  <1>11. QED
    BY <1>7, <1>8, <1>9, <1>10, SessionPartsNext DEF c, d, s

\* The log of a session, once a publication for it has returned
LEMMA LogTypes ==
    /\ Append(<< >>, "connected") = <<"connected">>
    /\ Append(<< >>, "disconnected") = <<"disconnected">>
    /\ Append(<<"connected">>, "disconnected") = <<"connected", "disconnected">>
  BY ShortQueues

LEMMA PublishedFits ==
    ASSUME TypeOK, Recorded, SessionsInv, NEW t \in Threads, Lifecycle(t), NEW b \in BOOLEAN,
           Published(t, b), b => panics > 0, pc[t] \in InPublish,
           UNCHANGED <<fifo, ready, drained, reporting>>
    PROVE  SessionFits(t[2])'
  <1> DEFINE s == t[2]
             c == Connects(s)
             d == Disconnects(s)
             u == reporting[t]
  <1>1. s \in Sessions /\ SessionFits(s) /\ t \in {c, d} /\ c \in Threads /\ d \in Threads
    BY ThreadCases, SessionThreads DEF SessionsInv
  <1>2. /\ c # d
        /\ fifo[s] \in {<<>>, <<c>>, <<d>>, <<c, d>>}
        /\ s \in drained <=> pc[c] \in Active \/ pc[d] \in Active
        /\ ConnectPart(c, d, s) /\ DisconnectPart(c, d, s) /\ LogPart(c, d, s)
    BY <1>1, SessionParts
  <1>3. /\ pc'[t] = "drain" /\ told' = told \cup {u}
        /\ \A v \in Threads \ {t} : pc'[v] = pc[v]
    BY PublishedTypes
  <1>4. c[1] = "connect" /\ d[1] = "disconnect"
    BY <1>1, SessionThreads
  <1> DEFINE event == IF u[1] = "connect" THEN "connected" ELSE "disconnected"
  <1>5. panics > 0 => panics' > 0
    BY PublishedTypes DEF TypeOK
  <1>6. (log'[s] = log[s] /\ panics' > 0) \/ log'[s] = Append(log[s], event)
    <2>1. log' = log \/ log' = [log EXCEPT ![s] = Append(@, event)]
      BY DEF Published
    <2>2. log' = log => panics' > 0 \/ log' = [log EXCEPT ![s] = Append(@, event)]
      <3>1. \/ b
            \/ log' = [log EXCEPT ![s] = Append(@, event)]
            \/ panics' = panics + 1
        BY DEF Published
      <3>2. panics' = panics + 1 => panics' > 0
        BY DEF TypeOK
      <3>3. QED
        BY <1>5, <3>1, <3>2
    <2>3. QED
      BY <1>1, <2>1, <2>2 DEF Recorded
  <1>7. (u = c => event = "connected") /\ (u = d => event = "disconnected")
    BY <1>4
  <1> HIDE DEF event
  <1>8. CASE t = c
    <2>1. pc[c] \in InPublish /\ pc'[c] = "drain" /\ pc'[d] = pc[d] /\ pc[d] \notin Active
      BY <1>1, <1>2, <1>3, <1>8 DEF DisconnectPart, InPublish
    <2>2. /\ c \in ready /\ s \in drained /\ fifo[s] \in {<<>>, <<d>>}
          /\ \/ u = c /\ c \notin told
             \/ u = d /\ c \in told /\ d \notin told /\ pc[d] = "wait"
          /\ u = reporting[c]
      BY <1>2, <1>8, <2>1 DEF ConnectPart, Active, InPublish
    <2> HIDE DEF c, d, s, u
    <2>3. CASE u = c
      <3>1. c \notin told /\ d \notin told /\ log[s] = <<>>
        BY <1>2, <2>2, <2>3 DEF DisconnectPart, LogPart
      <3>2. log'[s] = <<"connected">> \/ (log'[s] = <<>> /\ panics' > 0)
        BY <1>6, <1>7, <2>3, <3>1, LogTypes
      <3>3. QueuePartNext(c, d, s)
        BY <1>2, <2>1, <2>2 DEF QueuePartNext, Active
      <3>4. ConnectPartNext(c, d, s)
        BY <1>2, <1>3, <2>1, <2>2, <2>3 DEF ConnectPart, ConnectPartNext, Active, InPublish
      <3>5. DisconnectPartNext(c, d, s)
        BY <1>2, <1>3, <2>1, <2>2, <2>3, <3>1 DEF DisconnectPart, DisconnectPartNext, Active, InPublish
      <3>6. LogPartNext(c, d, s)
        BY <1>2, <1>3, <2>3, <3>1, <3>2 DEF LogPartNext
      <3>7. QED
        BY <3>3, <3>4, <3>5, <3>6, SessionPartsNext DEF c, d, s
    <2>4. CASE u = d
      <3>1. c \in told /\ d \notin told /\ pc[d] = "wait" /\ d \in ready
        BY <1>2, <2>2, <2>4 DEF DisconnectPart
      <3>2. log[s] = <<"connected">> \/ (log[s] = <<>> /\ panics > 0)
        BY <1>2, <3>1 DEF LogPart
      <3>3. \/ log'[s] = <<"connected", "disconnected">>
            \/ log'[s] \in {<<>>, <<"connected">>, <<"disconnected">>} /\ panics' > 0
        BY <1>5, <1>6, <1>7, <2>4, <3>2, LogTypes
      <3>4. QueuePartNext(c, d, s)
        BY <1>2, <2>1, <2>2 DEF QueuePartNext, Active
      <3>5. fifo[s] = <<>>
        BY <1>2, <2>1, <2>2, <2>4, <1>8 DEF DisconnectPart, u
      <3>6. ConnectPartNext(c, d, s)
        BY <1>2, <1>3, <2>1, <2>2, <2>4, <3>1 DEF ConnectPart, ConnectPartNext, Active, InPublish
      <3>7. DisconnectPartNext(c, d, s)
        BY <1>2, <1>3, <2>1, <2>4, <3>1, <3>5 DEF DisconnectPart, DisconnectPartNext, Active, InPublish
      <3>8. LogPartNext(c, d, s)
        BY <1>3, <2>4, <3>1, <3>3 DEF LogPartNext
      <3>9. QED
        BY <3>4, <3>6, <3>7, <3>8, SessionPartsNext DEF c, d, s
    <2>5. QED
      BY <2>2, <2>3, <2>4
  <1>9. CASE t = d
    <2>1. /\ pc[d] \in InPublish /\ pc'[d] = "drain" /\ pc'[c] = "done" /\ pc[c] = "done"
          /\ u = d /\ d \notin told /\ c \in told /\ d \in ready /\ c \in ready /\ s \in drained
      BY <1>1, <1>2, <1>3, <1>9 DEF ConnectPart, DisconnectPart, Active, InPublish
    <2> HIDE DEF c, d, s, u
    <2>2. fifo[s] = <<>>
      BY <1>2, <2>1 DEF ConnectPart, DisconnectPart, InPublish
    <2>3. log[s] = <<"connected">> \/ (log[s] = <<>> /\ panics > 0)
      BY <1>2, <2>1 DEF LogPart
    <2>4. \/ log'[s] = <<"connected", "disconnected">>
          \/ log'[s] \in {<<>>, <<"connected">>, <<"disconnected">>} /\ panics' > 0
      BY <1>5, <1>6, <1>7, <2>1, <2>3, LogTypes
    <2>5. QueuePartNext(c, d, s)
      BY <1>2, <2>1 DEF QueuePartNext, Active
    <2>6. ConnectPartNext(c, d, s)
      BY <1>2, <1>3, <2>1 DEF ConnectPart, ConnectPartNext, Active, InPublish
    <2>7. DisconnectPartNext(c, d, s)
      BY <1>2, <1>3, <2>1, <2>2 DEF DisconnectPart, DisconnectPartNext, Active, InPublish
    <2>8. LogPartNext(c, d, s)
      BY <1>3, <2>1, <2>4 DEF LogPartNext
    <2>9. QED
      BY <2>5, <2>6, <2>7, <2>8, SessionPartsNext DEF c, d, s
  <1>10. QED
    BY <1>1, <1>8, <1>9

-----------------------------------------------------------------------------
(* SessionsInv is kept by every step.                                        *)

\* What a step inside publish leaves alone
LEMMA InsidePublish ==
    ASSUME TypeOK, NEW t \in Threads, Enqueue(t) \/ Sweep(t) \/ CallbackEnds(t)
    PROVE  /\ UNCHANGED <<fifo, ready, drained, told, reporting, log>>
           /\ pc[t] \in InPublish /\ pc'[t] \in InPublish
           /\ \A u \in Threads \ {t} : pc'[u] = pc[u]
           /\ panics > 0 => panics' > 0
           /\ UNCHANGED <<before, hurt>>
           /\ \/ UNCHANGED <<caught, spoiled>>
              \/ panics' > 0
  <1>1. CASE Enqueue(t)
    BY <1>1 DEF Enqueue, TypeOK, InPublish, sessionVars, failVars
  <1>2. CASE Sweep(t)
    BY <1>2 DEF Sweep, TypeOK, InPublish, sessionVars, failVars
  <1>3. CASE CallbackEnds(t)
    BY <1>3, ObservationAssumption DEF CallbackEnds, TypeOK, InPublish, sessionVars
  <1>4. QED
    BY <1>1, <1>2, <1>3

\* The two ways out of publish
LEMMA Leaves ==
    ASSUME TypeOK, SessionsInv, NEW t \in Threads, StopSweeping(t) \/ ParkedReturns(t)
    PROVE  \E b \in BOOLEAN :
              /\ Published(t, b) /\ (b => panics > 0) /\ pc[t] \in {"sweep", "parked"}
              /\ UNCHANGED <<fifo, ready, drained, reporting, over, queue, hand, shown,
                             published, sequence, counter, transition>>
              /\ caught' \subseteq caught
  <1>1. CASE StopSweeping(t)
    <2>1. (t \in caught) \in BOOLEAN /\ (t \in caught => panics > 0)
      BY DEF SessionsInv, PanicsPart
    <2>2. QED
      BY <1>1, <2>1 DEF StopSweeping, storeVars
  <1>2. CASE ParkedReturns(t)
    BY <1>2 DEF ParkedReturns, storeVars, queueVars
  <1>3. QED
    BY <1>1, <1>2

LEMMA OwnSession ==
    ASSUME TypeOK, Recorded, SessionsInv, NEW t \in Threads, Lifecycle(t), Commit(t) \/ Continue(t)
    PROVE  SessionFits(t[2])'
  <1>1. CASE Commit(t)
    BY <1>1, CommitFits
  <1>2. CASE Announce(t) \/ DrainNext(t) \/ ToldReturns(t)
    BY <1>2, AnnounceFits, DrainFits, ToldReturnsFits
  <1>3. CASE Enqueue(t) \/ Sweep(t) \/ CallbackEnds(t)
    <2>1. t[2] \in Sessions /\ SessionFits(t[2])
      BY ThreadCases DEF SessionsInv
    <2>2. Connects(t[2]) \in Threads /\ Disconnects(t[2]) \in Threads
      BY <2>1, SessionThreads
    <2>3. QED
      BY <1>3, <2>1, <2>2, InsidePublish, SessionKept
  <1>4. CASE StopSweeping(t) \/ ParkedReturns(t)
    BY <1>4, Leaves, PublishedFits DEF InPublish
  <1>5. CASE Proceed(t) \/ Drop(t)
    BY <1>5, DropFits DEF Proceed
  <1>6. QED
    BY <1>1, <1>2, <1>3, <1>4, <1>5 DEF Continue

LEMMA SessionApart ==
    ASSUME SessionsInv, NEW t \in Threads, NEW s \in Sessions, ~(Lifecycle(t) /\ s = t[2]),
           \A x \in Threads \ {t} : /\ pc'[x] = pc[x] /\ reporting'[x] = reporting[x]
                                    /\ x \in ready' <=> x \in ready,
           \A x \in {Connects(s), Disconnects(s)} : x \in told' <=> x \in told,
           fifo'[s] = fifo[s], log'[s] = log[s], s \in drained' <=> s \in drained,
           panics > 0 => panics' > 0
    PROVE  SessionFits(s)'
  <1>1. SessionFits(s)
    BY DEF SessionsInv
  <1>2. Connects(s) \in Threads \ {t} /\ Disconnects(s) \in Threads \ {t}
    BY SessionThreads
  <1>3. QED
    BY <1>1, <1>2, SessionKept

LEMMA OtherSessions ==
    ASSUME TypeOK, Recorded, SessionsInv, NEW t \in Threads, Commit(t) \/ Continue(t),
           NEW s \in Sessions, ~(Lifecycle(t) /\ s = t[2])
    PROVE  SessionFits(s)'
  <1>1. CASE Commit(t)
    <2>1. fifo'[s] = fifo[s]
      BY <1>1 DEF Commit, TypeOK, Lifecycle
    <2>2. QED
      BY <1>1, <2>1, SessionApart DEF Commit, TypeOK, failVars
  <1>2. CASE Announce(t)
    <2>1. s # t[2]
      BY <1>2, QueuingThreads DEF Announce
    <2>2. fifo'[s] = fifo[s] /\ (s \in drained' <=> s \in drained)
      BY <1>2, <2>1 DEF Announce, TypeOK
    <2>3. /\ \A x \in {Connects(s), Disconnects(s)} : x \in told' <=> x \in told
          /\ log'[s] = log[s] /\ (panics > 0 => panics' > 0)
      BY <1>2 DEF Announce, failVars
    <2>4. \A x \in Threads \ {t} : /\ pc'[x] = pc[x] /\ reporting'[x] = reporting[x]
                                   /\ x \in ready' <=> x \in ready
      BY <1>2 DEF Announce, TypeOK
    <2>5. SessionFits(s) /\ Connects(s) \in Threads \ {t} /\ Disconnects(s) \in Threads \ {t}
      BY <2>1, SessionThreads DEF SessionsInv
    <2>6. \A x \in {Connects(s), Disconnects(s)} :
             /\ pc'[x] = pc[x] /\ reporting'[x] = reporting[x]
             /\ x \in ready' <=> x \in ready
      BY <2>4, <2>5
    <2>7. QED
      BY <2>2, <2>3, <2>5, <2>6, SessionKept
  <1>3. CASE DrainNext(t)
    <2>1. s # t[2] /\ UNCHANGED <<ready, told, log, panics>>
      BY <1>3, QueuingThreads, DrainCases DEF DrainNext, failVars
    <2>2. CASE DrainTakes(t)
      BY <2>1, <2>2, SessionApart DEF DrainTakes, TypeOK
    <2>3. CASE DrainStops(t)
      BY <2>1, <2>3, SessionApart DEF DrainStops, TypeOK
    <2>4. QED
      BY <1>3, <2>2, <2>3, DrainCases
  <1>4. CASE ToldReturns(t)
    BY <1>4, SessionApart DEF ToldReturns, TypeOK, sessionVars, failVars
  <1>5. CASE Enqueue(t) \/ Sweep(t) \/ CallbackEnds(t)
    BY <1>5, InsidePublish, SessionApart
  <1>6. CASE StopSweeping(t) \/ ParkedReturns(t)
    <2>1. PICK b \in BOOLEAN :
              /\ Published(t, b) /\ (b => panics > 0) /\ pc[t] \in {"sweep", "parked"}
              /\ UNCHANGED <<fifo, ready, drained, reporting>>
      BY <1>6, Leaves
    <2>2. (\A x \in Threads \ {t} : pc'[x] = pc[x]) /\ (panics > 0 => panics' > 0)
      BY <2>1, PublishedTypes DEF TypeOK
    <2>3. log'[s] = log[s]
      BY <2>1 DEF Published, Recorded
    <2>4. \A x \in {Connects(s), Disconnects(s)} : x \in told' <=> x \in told
      <3>1. CASE Lifecycle(t)
        <4>1. t[2] \in Sessions /\ t \in {Connects(t[2]), Disconnects(t[2])} /\ SessionFits(t[2])
          BY <3>1, ThreadCases DEF SessionsInv
        <4>2. /\ ConnectPart(Connects(t[2]), Disconnects(t[2]), t[2])
              /\ DisconnectPart(Connects(t[2]), Disconnects(t[2]), t[2])
          BY <4>1, SessionParts
        <4>3. reporting[t] \in {Connects(t[2]), Disconnects(t[2])}
          BY <2>1, <4>1, <4>2 DEF ConnectPart, DisconnectPart, InPublish
        <4>4. reporting[t][2] = t[2]
          BY <4>1, <4>3, SessionThreads
        <4>5. reporting[t] \notin {Connects(s), Disconnects(s)}
          BY <3>1, <4>4, SessionThreads
        <4>6. QED
          BY <2>1, <3>1, <4>5, PublishedTypes
      <3>2. CASE ~Lifecycle(t)
        BY <2>1, <3>2, PublishedTypes
      <3>3. QED
        BY <3>1, <3>2
    <2>5. QED
      BY <2>1, <2>2, <2>3, <2>4, SessionApart
  <1>7. CASE Proceed(t) \/ Drop(t)
    <2>1. /\ UNCHANGED <<fifo, ready, drained, told, reporting, log, panics>>
          /\ pc' = [pc EXCEPT ![t] = "publish"] \/ pc' = [pc EXCEPT ![t] = "dropped"]
      BY <1>7 DEF Proceed, Drop, sessionVars, failVars
    <2>2. \A x \in Threads \ {t} : pc'[x] = pc[x]
      BY <2>1 DEF TypeOK
    <2>3. QED
      BY <2>1, <2>2, SessionApart
  <1>8. QED
    BY <1>1, <1>2, <1>3, <1>4, <1>5, <1>6, <1>7 DEF Continue

\* What is over stays over, and a publication that returns is over.
LEMMA OverGrows ==
    ASSUME TypeOK, NEW t \in Threads, Commit(t) \/ Continue(t)
    PROVE  over \subseteq over'
  BY DEF Commit, Continue, Proceed, Drop, Announce, DrainNext, ToldReturns, Enqueue, Sweep,
         CallbackEnds, StopSweeping, ParkedReturns, queueVars

LEMMA ReturnsOver ==
    ASSUME TypeOK, Tracked, NEW t \in Threads, StopSweeping(t) \/ ParkedReturns(t)
    PROVE  reporting[t] \in over
  <1>1. CASE StopSweeping(t)
    <2>1. pc[t] = "sweep" /\ queue = <<>>
      BY <1>1 DEF StopSweeping
    <2>2. ~Queued(reporting[t])
      BY <2>1 DEF Queued
    <2>3. ~InHand(reporting[t])
      BY <2>1 DEF InHand, TypeOK
    <2>4. QED
      BY <2>1, <2>2, <2>3 DEF Tracked
  <1>2. CASE ParkedReturns(t)
    BY <1>2 DEF ParkedReturns
  <1>3. QED
    BY <1>1, <1>2

LEMMA RoomThreadsKept ==
    ASSUME TypeOK, SessionsInv, Tracked, NEW t \in Threads, Commit(t) \/ Continue(t),
           NEW x \in Threads, ~Lifecycle(x)
    PROVE  /\ pc'[x] \in {"start", "taken", "done", "dropped"} \cup InPublish /\ reporting'[x] = x
           /\ pc'[x] = "done" => x \in over'
  <1>1. RoomThreadFits(x) /\ over \subseteq over'
    BY OverGrows DEF SessionsInv
  <1>2. CASE Commit(t)
    BY <1>1, <1>2 DEF Commit, TypeOK, RoomThreadFits, InPublish, queueVars
  <1>3. CASE Announce(t) \/ DrainNext(t) \/ ToldReturns(t)
    <2>1. x # t
      BY <1>3, QueuingThreads DEF Announce, DrainNext, ToldReturns
    <2>2. pc'[x] = pc[x] /\ reporting'[x] = reporting[x]
      <3>1. CASE Announce(t)
        BY <2>1, <3>1 DEF Announce, TypeOK
      <3>2. CASE DrainTakes(t)
        BY <2>1, <3>2 DEF DrainTakes, TypeOK
      <3>3. CASE DrainStops(t)
        BY <2>1, <3>3 DEF DrainStops, TypeOK
      <3>4. CASE ToldReturns(t)
        BY <2>1, <3>4 DEF ToldReturns, TypeOK
      <3>5. QED
        BY <1>3, <3>1, <3>2, <3>3, <3>4, DrainCases
    <2>3. QED
      BY <1>1, <2>2 DEF RoomThreadFits
  <1>4. CASE Enqueue(t) \/ Sweep(t) \/ CallbackEnds(t)
    <2>1. UNCHANGED reporting /\ (pc'[x] = pc[x] \/ pc'[x] \in InPublish)
      BY <1>4, InsidePublish
    <2>2. QED
      BY <1>1, <2>1 DEF RoomThreadFits, InPublish
  <1>5. CASE StopSweeping(t) \/ ParkedReturns(t)
    <2>1. PICK b \in BOOLEAN : Published(t, b) /\ UNCHANGED <<reporting, over>>
      BY <1>5, Leaves
    <2>2. pc'[x] = pc[x] \/ (x = t /\ pc'[x] = "done")
      BY <2>1, PublishedTypes
    <2>3. x = t => x \in over
      BY <1>1, <1>5, ReturnsOver DEF RoomThreadFits
    <2>4. QED
      BY <1>1, <2>1, <2>2, <2>3 DEF RoomThreadFits
  <1>6. CASE Proceed(t) \/ Drop(t)
    <2>1. UNCHANGED <<reporting, over>> /\ (pc'[x] = pc[x] \/ pc'[x] \in {"publish", "dropped"})
      BY <1>6 DEF Proceed, Drop, TypeOK, queueVars
    <2>2. QED
      BY <1>1, <2>1 DEF RoomThreadFits, InPublish
  <1>7. QED
    BY <1>2, <1>3, <1>4, <1>5, <1>6 DEF Continue

\* A panic is counted before anything is lost to it.
LEMMA PanicsKept ==
    ASSUME TypeOK, SessionsInv, NEW t \in Threads, Commit(t) \/ Continue(t)
    PROVE  PanicsPart'
  <1>1. PanicsPart
    BY DEF SessionsInv
  <1>2. CASE Commit(t)
    <2>1. UNCHANGED failVars /\ \A x \in Threads : pc'[x] = pc[x] \/ pc'[x] = "taken"
      BY <1>2 DEF Commit, TypeOK
    <2>2. \A x \in Threads : Adds(x) => before'[x] = before[x]
      BY <1>2, JoinTypes DEF Commit
    <2>3. QED
      BY <1>1, <2>1, <2>2 DEF PanicsPart, failVars
  <1>3. CASE Drop(t)
    <2>1. before[t] \in Threads /\ (pc[before[t]] = "dropped" \/ before[t] \in hurt)
      BY <1>3 DEF Drop, TypeOK
    <2>2. panics > 0 /\ UNCHANGED <<before, failVars>>
      BY <1>1, <1>3, <2>1 DEF Drop, PanicsPart
    <2>3. QED
      BY <1>1, <2>2 DEF PanicsPart, failVars
  <1>4. CASE Proceed(t) \/ Announce(t) \/ DrainNext(t) \/ ToldReturns(t)
    <2>1. UNCHANGED <<before, failVars>>
      BY <1>4, DrainCases DEF Proceed, Announce, ToldReturns
    <2>2. \A x \in Threads : pc'[x] = pc[x] \/ pc'[x] \in {"publish", "drain", "wait", "done"}
      BY <1>4 DEF Proceed, Announce, DrainNext, ToldReturns, TypeOK
    <2>3. QED
      BY <1>1, <2>1, <2>2 DEF PanicsPart, failVars
  <1>5. CASE Enqueue(t) \/ Sweep(t) \/ CallbackEnds(t)
    <2>1. /\ panics > 0 => panics' > 0
          /\ UNCHANGED <<before, hurt>> /\ (UNCHANGED <<caught, spoiled>> \/ panics' > 0)
          /\ \A x \in Threads : pc'[x] = pc[x] \/ pc'[x] \in InPublish
      BY <1>5, InsidePublish
    <2>2. QED
      BY <1>1, <2>1 DEF PanicsPart, InPublish
  <1>6. CASE StopSweeping(t) \/ ParkedReturns(t)
    <2>1. PICK b \in BOOLEAN : Published(t, b) /\ (b => panics > 0) /\ caught' \subseteq caught
      BY <1>6, Leaves
    <2>2. /\ panics > 0 => panics' > 0
          /\ hurt' = hurt \/ panics' > 0
          /\ UNCHANGED <<before, spoiled>>
          /\ \A x \in Threads : pc'[x] = pc[x] \/ pc'[x] \in {"drain", "done"}
      BY <2>1, PublishedTypes DEF TypeOK
    <2>3. QED
      BY <1>1, <2>1, <2>2 DEF PanicsPart
  <1>7. QED
    BY <1>2, <1>3, <1>4, <1>5, <1>6 DEF Continue

LEMMA SessionsNext ==
    ASSUME TypeOK, Recorded, SessionsInv, Tracked, NEW t \in Threads, Commit(t) \/ Continue(t)
    PROVE  SessionsInv'
  <1>1. \A s \in Sessions : SessionFits(s)'
    BY OwnSession, OtherSessions
  <1>2. \A x \in Threads : ~Lifecycle(x) => RoomThreadFits(x)'
    BY RoomThreadsKept DEF RoomThreadFits
  <1>3. PanicsPart'
    BY PanicsKept
  <1>4. QED
    BY <1>1, <1>2, <1>3 DEF SessionsInv

-----------------------------------------------------------------------------
(* Where a transition on the store's queue is, step by step.                 *)

Known(u) == u \in over \/ Queued(u) \/ InHand(u)

\* The steps outside the store's queue, and what they leave alone
Outside(t) == Proceed(t) \/ Drop(t) \/ Announce(t) \/ DrainNext(t) \/ ToldReturns(t)

LEMMA OutsideQueue ==
    ASSUME TypeOK, NEW t \in Threads, Commit(t) \/ Outside(t)
    PROVE  /\ UNCHANGED <<published, queue, draining, over, told, hand, shown, log, caught, spoiled>>
           /\ pc[t] \in {"start", "taken", "drain", "wait"}
           /\ pc'[t] \in {"taken", "publish", "drain", "wait", "done", "dropped"}
           /\ \A u \in Threads \ {t} : pc'[u] = pc[u] /\ reporting'[u] = reporting[u]
           /\ pc'[t] = "publish" => Proceed(t) \/ DrainTakes(t)
  <1> USE DEF Outside, failVars
  <1>1. CASE Commit(t)
    BY <1>1 DEF Commit, TypeOK, queueVars
  <1>2. CASE Announce(t)
    BY <1>2 DEF Announce, TypeOK, queueVars
  <1>3. CASE DrainNext(t)
    <2>1. CASE DrainTakes(t)
      BY <1>3, <2>1, DrainCases DEF DrainTakes, TypeOK, queueVars
    <2>2. CASE DrainStops(t)
      BY <1>3, <2>2, DrainCases DEF DrainStops, TypeOK, queueVars
    <2>3. QED
      BY <1>3, <2>1, <2>2, DrainCases
  <1>4. CASE ToldReturns(t)
    BY <1>4 DEF ToldReturns, TypeOK, queueVars, sessionVars
  <1>5. CASE Proceed(t) \/ Drop(t)
    BY <1>5 DEF Proceed, Drop, TypeOK, queueVars, sessionVars
  <1>6. QED
    BY <1>1, <1>2, <1>3, <1>4, <1>5

LEMMA StartOnce ==
    ASSUME TypeOK, SessionsInv, NEW t \in Threads, Commit(t) \/ Continue(t), NEW u \in Threads
    PROVE  /\ pc[u] # "start" => pc'[u] # "start"
           /\ ~Commit(t) => (pc[u] = "start" <=> pc'[u] = "start")
  <1>1. CASE Commit(t) \/ Outside(t)
    <2>1. ~Commit(t) => pc[t] # "start"
      BY <1>1 DEF Outside, Proceed, Drop, Announce, DrainNext, ToldReturns
    <2>2. QED
      BY <1>1, <2>1, OutsideQueue
  <1>2. CASE Enqueue(t) \/ Sweep(t) \/ CallbackEnds(t)
    BY <1>2, InsidePublish DEF InPublish
  <1>3. CASE StopSweeping(t) \/ ParkedReturns(t)
    BY <1>3, Leaves, PublishedTypes
  <1>4. QED
    BY <1>1, <1>2, <1>3 DEF Continue, Outside

LEMMA AppendQueued ==
    ASSUME TypeOK, NEW v \in Threads, queue' = Append(queue, v), NEW u
    PROVE  Queued(u)' <=> Queued(u) \/ u = v
  <1>1. queue \in Seq(Threads)
    BY DEF TypeOK
  <1>2. /\ Len(queue') = Len(queue) + 1 /\ Len(queue) \in Nat
        /\ queue'[Len(queue) + 1] = v
        /\ \A i \in 1..Len(queue) : queue'[i] = queue[i]
    BY <1>1, AppendProperties, LenProperties
  <1>3. QED
    BY <1>2 DEF Queued

LEMMA TailQueued ==
    ASSUME TypeOK, queue # <<>>, queue' = Tail(queue), NEW u
    PROVE  Queued(u) <=> Queued(u)' \/ u = Head(queue)
  <1>1. queue \in Seq(Threads)
    BY DEF TypeOK
  <1>2. /\ Len(queue') = Len(queue) - 1 /\ Len(queue) \in Nat /\ Len(queue) # 0
        /\ Head(queue) = queue[1]
        /\ \A i \in 1..Len(queue') : queue'[i] = queue[i + 1]
    BY <1>1, HeadTailProperties, LenProperties, EmptySeq
  <1>3. ASSUME Queued(u)' PROVE Queued(u)
    <2>1. PICK i \in 1..Len(queue') : queue'[i] = u
      BY <1>3 DEF Queued
    <2>2. i + 1 \in 1..Len(queue) /\ queue[i + 1] = u
      BY <1>2, <2>1
    <2>3. QED
      BY <2>2 DEF Queued
  <1>4. ASSUME Queued(u) PROVE Queued(u)' \/ u = Head(queue)
    <2>1. PICK i \in 1..Len(queue) : queue[i] = u
      BY <1>4 DEF Queued
    <2>2. CASE i = 1
      BY <1>2, <2>1, <2>2
    <2>3. CASE i # 1
      <3>1. i - 1 \in 1..Len(queue') /\ queue'[i - 1] = queue[(i - 1) + 1] /\ (i - 1) + 1 = i
        BY <1>2, <2>1, <2>3
      <3>2. QED
        BY <2>1, <3>1 DEF Queued
    <2>4. QED
      BY <2>2, <2>3
  <1>5. Queued(Head(queue))
    BY <1>2 DEF Queued
  <1>6. QED
    BY <1>3, <1>4, <1>5

\* Known is never lost, and gained by Enqueue alone.
LEMMA KnownNext ==
    ASSUME TypeOK, SessionsInv, NEW t \in Threads, Commit(t) \/ Continue(t), NEW u \in Threads
    PROVE  /\ Known(u) => Known(u)'
           /\ Known(u)' => Known(u) \/ (Enqueue(t) /\ u = reporting[t])
           /\ Enqueue(t) /\ u = reporting[t] => Known(u)'
  <1>1. CASE Commit(t) \/ Outside(t)
    <2>1. /\ UNCHANGED <<queue, over, hand>> /\ \A x \in Threads : pc'[x] = "call" <=> pc[x] = "call"
          /\ pc[t] # "publish"
      BY <1>1, OutsideQueue
    <2>2. QED
      BY <2>1 DEF Known, Queued, InHand, Enqueue
  <1>2. CASE Enqueue(t)
    <2>1. /\ UNCHANGED <<over, hand>> /\ \A x \in Threads : pc'[x] = "call" <=> pc[x] = "call"
          /\ queue' = Append(queue, reporting[t]) /\ reporting[t] \in Threads
      BY <1>2 DEF Enqueue, TypeOK
    <2>2. Queued(u)' <=> Queued(u) \/ u = reporting[t]
      BY <2>1, AppendQueued
    <2>3. InHand(u)' <=> InHand(u)
      BY <2>1 DEF InHand
    <2>4. QED
      BY <1>2, <2>1, <2>2, <2>3 DEF Known
  <1>3. CASE Sweep(t)
    <2>1. /\ pc[t] = "sweep" /\ queue # <<>> /\ queue' = Tail(queue)
          /\ hand' = [hand EXCEPT ![t] = Head(queue)] /\ ~Enqueue(t)
      BY <1>3 DEF Sweep, Enqueue
    <2>2. Queued(u) <=> Queued(u)' \/ u = Head(queue)
      BY <2>1, TailQueued
    <2>3. \/ over' = over \cup {Head(queue)} /\ pc' = pc
          \/ over' = over /\ pc' = [pc EXCEPT ![t] = "call"]
      BY <1>3 DEF Sweep
    <2>4. CASE over' = over \cup {Head(queue)} /\ pc' = pc
      <3>1. InHand(u)' <=> InHand(u)
        BY <2>1, <2>4 DEF InHand, TypeOK
      <3>2. QED
        BY <2>1, <2>2, <2>4, <3>1 DEF Known
    <2>5. CASE over' = over /\ pc' = [pc EXCEPT ![t] = "call"]
      <3>1. InHand(u)' <=> InHand(u) \/ u = Head(queue)
        BY <2>1, <2>5 DEF InHand, TypeOK
      <3>2. QED
        BY <2>1, <2>2, <2>5, <3>1 DEF Known
    <2>6. QED
      BY <2>3, <2>4, <2>5
  <1>4. CASE CallbackEnds(t)
    <2>1. /\ pc[t] = "call" /\ UNCHANGED <<queue, hand>> /\ over' = over \cup {hand[t]}
          /\ pc' = [pc EXCEPT ![t] = "sweep"]
      BY <1>4 DEF CallbackEnds
    <2>2. /\ InHand(u) => InHand(u)' \/ u = hand[t]
          /\ InHand(u)' => InHand(u)
          /\ InHand(hand[t])
      BY <2>1 DEF InHand, TypeOK
    <2>3. QED
      BY <2>1, <2>2 DEF Known, Queued, Enqueue
  <1>5. CASE StopSweeping(t) \/ ParkedReturns(t)
    <2>1. PICK b \in BOOLEAN : Published(t, b) /\ UNCHANGED <<queue, over, hand>> /\ pc[t] \in {"sweep", "parked"}
      BY <1>5, Leaves
    <2>2. \A x \in Threads : pc'[x] = "call" <=> pc[x] = "call"
      BY <2>1, PublishedTypes
    <2>3. QED
      BY <2>1, <2>2 DEF Known, Queued, InHand, Enqueue
  <1>6. QED
    BY <1>1, <1>2, <1>3, <1>4, <1>5 DEF Continue, Outside

\* The thread whose entry a drainer takes has committed.
LEMMA TakesCommitted ==
    ASSUME TypeOK, SessionsInv, NEW t \in Threads, DrainTakes(t)
    PROVE  reporting'[t] \in Threads /\ pc[reporting'[t]] # "start"
  <1> DEFINE s == t[2]
             c == Connects(s)
             d == Disconnects(s)
  <1>1. s \in Sessions /\ SessionFits(s) /\ c \in Threads /\ d \in Threads
    BY QueuingThreads, SessionThreads DEF DrainTakes, SessionsInv
  <1>2. /\ fifo[s] \in {<<>>, <<c>>, <<d>>, <<c, d>>}
        /\ ConnectPart(c, d, s) /\ DisconnectPart(c, d, s)
    BY <1>1, SessionParts
  <1>3. Head(<<c>>) = c /\ Head(<<d>>) = d /\ Head(<<c, d>>) = c
    BY <1>1, SessionQueues
  <1>4. reporting'[t] = Head(fifo[s]) /\ fifo[s] # <<>> /\ Head(fifo[s]) \in ready
    BY DEF DrainTakes, TypeOK
  <1> HIDE DEF c, d, s
  <1>5. Head(fifo[s]) \in {c, d}
    BY <1>2, <1>3, <1>4
  <1>6. QED
    BY <1>1, <1>2, <1>4, <1>5 DEF ConnectPart, DisconnectPart

LEMMA TrackedNext ==
    ASSUME TypeOK, SessionsInv, Tracked, NEW t \in Threads, Commit(t) \/ Continue(t)
    PROVE  Tracked'
  <1>1. ASSUME NEW x \in Threads, pc'[x] \in InPublish PROVE pc'[reporting'[x]] # "start"
    <2>1. pc[x] \in InPublish /\ reporting'[x] = reporting[x] => pc'[reporting'[x]] # "start"
      <3>1. reporting[x] \in Threads
        BY DEF TypeOK
      <3>2. QED
        BY <3>1, StartOnce DEF Tracked
    <2>2. CASE Commit(t) \/ Outside(t)
      <3>1. CASE x # t
        BY <1>1, <2>1, <2>2, <3>1, OutsideQueue
      <3>2. CASE x = t
        <4>1. pc'[t] = "publish" /\ (Proceed(t) \/ DrainTakes(t))
          BY <1>1, <2>2, <3>2, OutsideQueue DEF InPublish
        <4>2. CASE Proceed(t)
          <5>1. ~Lifecycle(t) /\ reporting' = reporting
            BY <4>2 DEF Proceed
          <5>2. reporting[t] = t
            BY <5>1 DEF SessionsInv, RoomThreadFits
          <5>3. QED
            BY <3>2, <4>1, <5>1, <5>2
        <4>3. CASE DrainTakes(t)
          BY <3>2, <4>3, TakesCommitted, StartOnce
        <4>4. QED
          BY <4>1, <4>2, <4>3
      <3>3. QED
        BY <3>1, <3>2
    <2>3. CASE Enqueue(t) \/ Sweep(t) \/ CallbackEnds(t)
      BY <1>1, <2>1, <2>3, InsidePublish
    <2>4. CASE StopSweeping(t) \/ ParkedReturns(t)
      BY <1>1, <2>1, <2>4, Leaves, PublishedTypes DEF InPublish
    <2>5. QED
      BY <2>2, <2>3, <2>4 DEF Continue, Outside
  <1>2. ASSUME NEW x \in Threads, pc'[x] \in {"parked", "sweep", "call"}
        PROVE  \E u \in Threads : u = reporting'[x] /\ Known(u)'
    <2>1. reporting[x] \in Threads
      BY DEF TypeOK
    <2>2. reporting'[x] = reporting[x] /\ (pc[x] \in {"parked", "sweep", "call"} \/ (x = t /\ Enqueue(t)))
      <3>1. CASE Commit(t) \/ Outside(t)
        BY <1>2, <3>1, OutsideQueue
      <3>2. CASE Enqueue(t)
        BY <1>2, <3>2, InsidePublish
      <3>3. CASE Sweep(t) \/ CallbackEnds(t)
        <4>1. pc[t] \in {"sweep", "call"}
          BY <3>3 DEF Sweep, CallbackEnds
        <4>2. QED
          BY <1>2, <3>3, <4>1, InsidePublish
      <3>4. CASE StopSweeping(t) \/ ParkedReturns(t)
        BY <1>2, <3>4, Leaves, PublishedTypes
      <3>5. QED
        BY <3>1, <3>2, <3>3, <3>4 DEF Continue, Outside
    <2>3. Known(reporting[x]) \/ (Enqueue(t) /\ x = t)
      BY <2>2 DEF Tracked, Known
    <2>4. PICK u \in Threads : u = reporting[x]
      BY <2>1
    <2>5. Known(u)'
      BY <2>3, <2>4, KnownNext
    <2>6. QED
      BY <2>2, <2>4, <2>5
  <1>3. ASSUME NEW u \in Threads, Known(u)' PROVE pc'[u] # "start"
    <2>1. Known(u) => pc[u] # "start"
      BY DEF Tracked, Known
    <2>2. Enqueue(t) /\ u = reporting[t] => pc[u] # "start"
      BY DEF Tracked, Enqueue, InPublish
    <2>3. QED
      BY <1>3, <2>1, <2>2, KnownNext, StartOnce
  <1>4. told' \cup spoiled' \subseteq over'
    <2>1. CASE StopSweeping(t) \/ ParkedReturns(t)
      BY <2>1, Leaves, PublishedTypes, ReturnsOver, OverGrows DEF Tracked
    <2>2. CASE CallbackEnds(t)
      <3>1. told' = told
        BY <2>2, InsidePublish
      <3>2. QED
        BY <2>2, <3>1, OverGrows DEF Tracked, CallbackEnds
    <2>3. CASE Enqueue(t) \/ Sweep(t)
      <3>1. told' = told /\ spoiled' = spoiled
        BY <2>3 DEF Enqueue, Sweep, sessionVars, failVars
      <3>2. QED
        BY <3>1, OverGrows DEF Tracked
    <2>4. CASE Commit(t) \/ Outside(t)
      BY <2>4, OutsideQueue DEF Tracked
    <2>5. QED
      BY <2>1, <2>2, <2>3, <2>4 DEF Continue, Outside
  <1>5. QED
    BY <1>1, <1>2, <1>3, <1>4 DEF Tracked, Known, Queued, InHand

-----------------------------------------------------------------------------
(* What the Observer has been shown.                                         *)

LEMMA RecordedNext ==
    ASSUME TypeOK, Recorded, SessionsInv, NEW t \in Threads, Commit(t) \/ Continue(t)
    PROVE  Recorded'
  <1>1. CASE Commit(t) \/ Outside(t)
    BY <1>1, OutsideQueue DEF Recorded
  <1>2. CASE Enqueue(t) \/ Sweep(t)
    <2>1. UNCHANGED <<log, shown>>
      BY <1>2 DEF Enqueue, Sweep
    <2>2. QED
      BY <2>1 DEF Recorded
  <1>3. CASE CallbackEnds(t)
    <2>1. hand[t] \in Threads /\ transition[hand[t]] \in [sequence : Nat, value : Nat]
      BY DEF TypeOK
    <2>2. QED
      BY <1>3, <2>1 DEF CallbackEnds, Recorded
  <1>4. CASE StopSweeping(t) \/ ParkedReturns(t)
    <2>1. PICK b \in BOOLEAN : Published(t, b) /\ UNCHANGED shown
      BY <1>4, Leaves
    <2>2. log' \in [Sessions -> Seq(Events)]
      <3>1. CASE Lifecycle(t)
        <4> DEFINE event == IF reporting[t][1] = "connect" THEN "connected" ELSE "disconnected"
        <4>1. /\ log' = log \/ log' = [log EXCEPT ![t[2]] = Append(log[t[2]], event)]
              /\ t[2] \in Sessions
          BY <2>1, <3>1, ThreadCases DEF Published
        <4>2. event \in Events /\ log[t[2]] \in Seq(Events)
          BY <4>1 DEF Events, Recorded
        <4> HIDE DEF event
        <4>3. Append(log[t[2]], event) \in Seq(Events)
          BY <4>2, AppendProperties
        <4>4. QED
          BY <4>1, <4>3 DEF Recorded
      <3>2. CASE ~Lifecycle(t)
        BY <2>1, <3>2 DEF Published, Recorded
      <3>3. QED
        BY <3>1, <3>2
    <2>3. QED
      BY <2>1, <2>2 DEF Recorded
  <1>5. QED
    BY <1>1, <1>2, <1>3, <1>4 DEF Continue, Outside

\* Only Commit takes a transition, for a thread that has none.
LEMMA TransitionsKept ==
    ASSUME TypeOK, NEW t \in Threads, Commit(t) \/ Continue(t)
    PROVE  /\ \A u \in Threads : pc[u] # "start" => transition'[u] = transition[u]
           /\ ~Commit(t) => UNCHANGED <<sequence, counter, transition>>
  <1>1. CASE Commit(t)
    BY <1>1 DEF Commit, TakeTransition, TypeOK
  <1>2. CASE Continue(t)
    <2>1. UNCHANGED <<sequence, counter, transition>>
      BY <1>2 DEF Continue, Proceed, Drop, Announce, DrainNext, ToldReturns, Enqueue, Sweep,
                  CallbackEnds, StopSweeping, ParkedReturns, storeVars
    <2>2. QED
      BY <2>1
  <1>3. QED
    BY <1>1, <1>2

\* The parts of Shown, one kind or one thread at a time
ShownKind(k) ==
    /\ shown[k].sequence <= published[k]
    /\ \/ shown[k].sequence = published[k]
       \/ \E t \in Threads : pc[t] = "call" /\ KindOf(hand[t]) = k
       \/ Spoiled(k, published[k])
    /\ shown[k] = Nothing \/ \E u \in Threads : KindOf(u) = k /\ pc[u] # "start" /\ shown[k] = transition[u]
ShownCall(t) == pc[t] = "call" => published[KindOf(hand[t])] = transition[hand[t]].sequence
ShownOver(u) ==
    u \in over => \/ transition[u].sequence <= shown[KindOf(u)].sequence
                 \/ Spoiled(KindOf(u), transition[u].sequence)

LEMMA ShownParts ==
    ASSUME TypeOK
    PROVE  Shown <=> /\ \A k \in Kinds : ShownKind(k)
                     /\ \A t \in Threads : ShownCall(t) /\ ShownOver(t)
  BY DEF Shown, ShownKind, ShownCall, ShownOver, TypeOK

\* What is spoiled stays spoiled: transitions and their threads are kept.
LEMMA SpoiledKept ==
    ASSUME TypeOK, SessionsInv, Tracked, NEW t \in Threads, Commit(t) \/ Continue(t),
           spoiled \subseteq spoiled', NEW k, NEW seq, Spoiled(k, seq)
    PROVE  Spoiled(k, seq)'
  <1>1. PICK v \in spoiled : KindOf(v) = k /\ seq <= transition[v].sequence
    BY DEF Spoiled
  <1>2. v \in Threads /\ pc[v] # "start"
    BY DEF TypeOK, Tracked
  <1>3. transition'[v] = transition[v]
    BY <1>2, TransitionsKept
  <1>4. QED
    BY <1>1, <1>3 DEF Spoiled

LEMMA ShownStays ==
    ASSUME TypeOK, SessionsInv, Tracked, Shown, NEW t \in Threads, Commit(t) \/ Continue(t),
           UNCHANGED <<published, over, hand, shown, spoiled>>,
           \A u \in Threads : pc'[u] = "call" <=> pc[u] = "call"
    PROVE  /\ \A k \in Kinds : ShownKind(k)'
           /\ \A u \in Threads : ShownCall(u)' /\ ShownOver(u)'
  <1>1. \A u \in Threads : pc[u] # "start" => transition'[u] = transition[u] /\ pc'[u] # "start"
    BY TransitionsKept, StartOnce
  <1>2. \A u \in Threads : u \in over \/ InHand(u) => pc[u] # "start"
    BY DEF Tracked
  <1>3. ASSUME NEW k \in Kinds PROVE ShownKind(k)'
    <2>1. ShownKind(k)
      BY ShownParts
    <2>2. Spoiled(k, published[k]) => Spoiled(k, published[k])'
      BY SpoiledKept
    <2>3. \/ shown'[k].sequence = published'[k]
          \/ \E x \in Threads : pc'[x] = "call" /\ KindOf(hand'[x]) = k
          \/ Spoiled(k, published[k])'
      BY <2>1, <2>2 DEF ShownKind
    <2>4. shown'[k] = Nothing \/
            \E u \in Threads : KindOf(u) = k /\ pc'[u] # "start" /\ shown'[k] = transition'[u]
      BY <1>1, <2>1 DEF ShownKind
    <2>5. shown'[k].sequence <= published'[k]
      BY <2>1 DEF ShownKind
    <2>6. QED
      BY <2>3, <2>4, <2>5 DEF ShownKind
  <1>4. ASSUME NEW u \in Threads PROVE ShownCall(u)'
    <2>1. ShownCall(u) /\ hand[u] \in Threads
      BY ShownParts DEF TypeOK
    <2>2. pc[u] = "call" => pc[hand[u]] # "start"
      BY <1>2, <2>1 DEF InHand
    <2>3. QED
      BY <1>1, <2>1, <2>2 DEF ShownCall
  <1>5. ASSUME NEW u \in Threads PROVE ShownOver(u)'
    <2>1. ShownOver(u)
      BY ShownParts
    <2>2. CASE u \in over
      <3>1. transition'[u] = transition[u]
        BY <1>1, <1>2, <2>2
      <3>2. Spoiled(KindOf(u), transition[u].sequence) => Spoiled(KindOf(u), transition[u].sequence)'
        BY <3>1, SpoiledKept
      <3>3. QED
        BY <2>1, <2>2, <3>1, <3>2 DEF ShownOver
    <2>3. CASE u \notin over
      BY <2>3 DEF ShownOver
    <2>4. QED
      BY <2>2, <2>3
  <1>6. QED
    BY <1>3, <1>4, <1>5

LEMMA Numbers ==
    ASSUME TypeOK, Recorded
    PROVE  /\ \A k \in Kinds : shown[k].sequence \in Nat /\ published[k] \in Nat
           /\ \A u \in Threads : /\ transition[u].sequence \in Nat /\ transition[u].value \in Nat
                                 /\ KindOf(u) \in Kinds
  BY ThreadCases DEF TypeOK, Recorded

LEMMA SweepShown ==
    ASSUME TypeOK, Recorded, SessionsInv, Tracked, Shown, NEW t \in Threads, Sweep(t)
    PROVE  /\ \A k \in Kinds : ShownKind(k)'
           /\ \A u \in Threads : ShownCall(u)' /\ ShownOver(u)'
  <1> DEFINE u == Head(queue)
             m == KindOf(u)
             seq == transition[u].sequence
  <1>1. u \in Threads /\ m \in Kinds /\ seq \in Nat
    BY StoreQueueTypes, Numbers DEF Sweep
  <1>2. /\ pc[t] = "sweep" /\ UNCHANGED <<transition, shown, spoiled>>
        /\ hand' = [hand EXCEPT ![t] = u]
    BY DEF Sweep, storeVars, failVars
  <1>3. \A x \in Threads : pc[x] # "call"
    BY <1>2 DEF TypeOK
  <1>4. \A k \in Kinds : /\ ShownKind(k)
                         /\ shown[k].sequence = published[k] \/ Spoiled(k, published[k])
    BY <1>3, ShownParts DEF ShownKind
  <1>5. \A x \in Threads : ShownOver(x)
    BY ShownParts
  <1>6. \/ seq <= published[m] /\ over' = over \cup {u} /\ published' = published /\ pc' = pc
        \/ /\ ~(seq <= published[m]) /\ over' = over /\ published' = [published EXCEPT ![m] = seq]
           /\ pc' = [pc EXCEPT ![t] = "call"]
    BY DEF Sweep, Stale
  <1> HIDE DEF u, seq
  <1>8. CASE seq <= published[m] /\ over' = over \cup {u} /\ published' = published /\ pc' = pc
    <2>1. ASSUME NEW k \in Kinds PROVE ShownKind(k)'
      <3>1. ShownKind(k) /\ (shown[k].sequence = published[k] \/ Spoiled(k, published[k]))
        BY <1>4
      <3>2. QED
        BY <1>2, <1>8, <3>1 DEF ShownKind, Spoiled
    <2>2. ASSUME NEW x \in Threads PROVE ShownCall(x)'
      BY <1>3, <1>8 DEF ShownCall
    <2>3. seq <= shown[m].sequence \/ Spoiled(m, seq)
      <3>1. CASE shown[m].sequence = published[m]
        BY <1>8, <3>1
      <3>2. CASE Spoiled(m, published[m])
        <4>1. PICK v \in spoiled : KindOf(v) = m /\ published[m] <= transition[v].sequence
          BY <3>2 DEF Spoiled
        <4>2. v \in Threads
          BY DEF TypeOK
        <4>3. seq <= transition[v].sequence
          BY <1>1, <1>8, <4>1, <4>2, Numbers
        <4>4. QED
          BY <4>1, <4>3 DEF Spoiled
      <3>3. QED
        BY <1>1, <1>4, <3>1, <3>2
    <2>4. ASSUME NEW x \in Threads PROVE ShownOver(x)'
      <3>1. x \in over' => \/ transition[x].sequence <= shown[KindOf(x)].sequence
                           \/ Spoiled(KindOf(x), transition[x].sequence)
        <4>1. CASE x = u
          BY <2>3, <4>1 DEF seq
        <4>2. CASE x # u
          BY <1>5, <1>8, <4>2 DEF ShownOver
        <4>3. QED
          BY <4>1, <4>2
      <3>2. QED
        BY <1>2, <3>1 DEF ShownOver, Spoiled
    <2>5. QED
      BY <2>1, <2>2, <2>4
  <1>9. CASE /\ ~(seq <= published[m]) /\ over' = over /\ published' = [published EXCEPT ![m] = seq]
             /\ pc' = [pc EXCEPT ![t] = "call"]
    <2>1. pc'[t] = "call" /\ hand'[t] = u /\ published'[m] = seq
      BY <1>1, <1>2, <1>9 DEF TypeOK
    <2>2. ASSUME NEW k \in Kinds PROVE ShownKind(k)'
      <3>1. ShownKind(k) /\ (shown[k].sequence = published[k] \/ Spoiled(k, published[k]))
        BY <1>4
      <3>2. \A x \in Threads : pc[x] # "start" => pc'[x] # "start"
        BY <1>9 DEF TypeOK
      <3>3. shown'[k] = Nothing \/
              \E x \in Threads : KindOf(x) = k /\ pc'[x] # "start" /\ shown'[k] = transition'[x]
        BY <1>2, <3>1, <3>2 DEF ShownKind
      <3>4. CASE k = m
        <4>1. shown[m].sequence <= published[m]
          BY <3>1, <3>4 DEF ShownKind
        <4>2. shown'[k].sequence <= published'[k]
          BY <1>1, <1>2, <1>9, <2>1, <3>4, <4>1, Numbers
        <4>3. \E x \in Threads : pc'[x] = "call" /\ KindOf(hand'[x]) = k
          BY <2>1, <3>4
        <4>4. QED
          BY <3>3, <4>2, <4>3 DEF ShownKind
      <3>5. CASE k # m
        <4>1. published'[k] = published[k]
          BY <1>9, <3>5 DEF TypeOK
        <4>2. shown'[k].sequence = published'[k] \/ Spoiled(k, published[k])'
          BY <1>2, <3>1, <4>1 DEF Spoiled
        <4>3. shown'[k].sequence <= published'[k]
          BY <1>2, <3>1, <4>1 DEF ShownKind
        <4>4. QED
          BY <3>3, <4>2, <4>3 DEF ShownKind
      <3>6. QED
        BY <3>4, <3>5
    <2>3. ASSUME NEW x \in Threads PROVE ShownCall(x)'
      <3>1. x # t => pc'[x] # "call"
        BY <1>3, <1>9 DEF TypeOK
      <3>2. QED
        BY <1>2, <2>1, <3>1 DEF ShownCall, seq
    <2>4. ASSUME NEW x \in Threads PROVE ShownOver(x)'
      BY <1>2, <1>5, <1>9 DEF ShownOver, Spoiled
    <2>5. QED
      BY <2>2, <2>3, <2>4
  <1>10. QED
    BY <1>6, <1>8, <1>9

LEMMA CallbackShown ==
    ASSUME TypeOK, Recorded, SessionsInv, Tracked, Shown, NEW t \in Threads, CallbackEnds(t)
    PROVE  /\ \A k \in Kinds : ShownKind(k)'
           /\ \A u \in Threads : ShownCall(u)' /\ ShownOver(u)'
  <1>0. PICK u \in Threads : u = hand[t]
    BY DEF TypeOK
  <1> DEFINE m == KindOf(u)
  <1>1. u \in Threads /\ m \in Kinds
    BY Numbers
  <1>2. /\ pc[t] = "call" /\ UNCHANGED <<transition, published>>
        /\ over' = over \cup {u} /\ pc' = [pc EXCEPT ![t] = "sweep"]
        /\ spoiled \subseteq spoiled'
        /\ \/ shown' = [shown EXCEPT ![m] = transition[u]]
           \/ shown' = shown /\ u \in spoiled'
    BY <1>0 DEF CallbackEnds, storeVars
  <1>3. \A x \in Threads : pc[x] = "call" => x = t
    BY <1>2 DEF TypeOK
  <1>4. \A x \in Threads : pc'[x] # "call" /\ (pc[x] # "start" => pc'[x] # "start")
    BY <1>2, <1>3 DEF TypeOK
  <1>5. /\ \A k \in Kinds : ShownKind(k)
        /\ \A x \in Threads : ShownOver(x)
        /\ published[m] = transition[u].sequence
    BY <1>0, <1>2, ShownParts DEF ShownCall
  <1>6. pc[u] # "start"
    BY <1>0, <1>1, <1>2 DEF Tracked, InHand
  <1>7. /\ shown'[m] = transition[u] \/ (shown'[m] = shown[m] /\ u \in spoiled')
        /\ \A k \in Kinds : k # m => shown'[k] = shown[k]
    BY <1>1, <1>2 DEF Recorded
  <1>8. shown'[m].sequence \in Nat /\ shown[m].sequence <= shown'[m].sequence
    BY <1>1, <1>5, <1>7, Numbers DEF ShownKind
  <1>9. ASSUME NEW k, NEW seq, Spoiled(k, seq) PROVE \E v \in spoiled' : KindOf(v) = k /\ seq <= transition'[v].sequence
    BY <1>2, <1>9 DEF Spoiled
  <1>10. u \in spoiled' => Spoiled(m, transition[u].sequence)'
    BY <1>1, <1>2, Numbers DEF Spoiled
  <1>11. ASSUME NEW k \in Kinds PROVE ShownKind(k)'
    <2>1. ShownKind(k)
      BY <1>5
    <2>2. CASE k = m
      <3>1. shown'[m].sequence <= published'[m] /\ (shown'[m].sequence = published'[m] \/ u \in spoiled')
        BY <1>1, <1>2, <1>5, <1>7, <2>1, <2>2, Numbers DEF ShownKind
      <3>2. u \in spoiled' => Spoiled(m, published[m])'
        BY <1>2, <1>5, <1>10 DEF Spoiled
      <3>3. shown'[m] = Nothing \/
              \E x \in Threads : KindOf(x) = m /\ pc'[x] # "start" /\ shown'[m] = transition'[x]
        <4>1. CASE shown'[m] = transition[u]
          BY <1>1, <1>2, <1>4, <1>6, <4>1
        <4>2. CASE shown'[m] = shown[m]
          BY <1>2, <1>4, <2>1, <2>2, <4>2 DEF ShownKind
        <4>3. QED
          BY <1>7, <4>1, <4>2
      <3>4. QED
        BY <2>2, <3>1, <3>2, <3>3 DEF ShownKind
    <2>3. CASE k # m
      <3>1. shown[k].sequence = published[k] \/ Spoiled(k, published[k])
        BY <1>0, <1>3, <2>1, <2>3 DEF ShownKind
      <3>2. shown'[k].sequence = published'[k] \/ Spoiled(k, published[k])'
        BY <1>2, <1>7, <1>9, <2>3, <3>1 DEF Spoiled
      <3>3. shown'[k].sequence <= published'[k]
        BY <1>2, <1>7, <2>1, <2>3 DEF ShownKind
      <3>4. shown'[k] = Nothing \/
              \E x \in Threads : KindOf(x) = k /\ pc'[x] # "start" /\ shown'[k] = transition'[x]
        BY <1>2, <1>4, <1>7, <2>1, <2>3 DEF ShownKind
      <3>5. QED
        BY <3>2, <3>3, <3>4 DEF ShownKind
    <2>4. QED
      BY <2>2, <2>3
  <1>12. ASSUME NEW x \in Threads PROVE ShownCall(x)'
    BY <1>4 DEF ShownCall
  <1>13. ASSUME NEW x \in Threads PROVE ShownOver(x)'
    <2>1. CASE x = u
      <3>1. transition'[u].sequence <= shown'[m].sequence \/ Spoiled(m, transition[u].sequence)'
        BY <1>1, <1>2, <1>7, <1>10, Numbers
      <3>2. QED
        BY <2>1, <3>1 DEF ShownOver
    <2>2. CASE x # u /\ x \in over
      <3>1. shown[KindOf(x)].sequence <= shown'[KindOf(x)].sequence
            /\ shown'[KindOf(x)].sequence \in Nat
        BY <1>7, <1>8, Numbers
      <3>2. CASE transition[x].sequence <= shown[KindOf(x)].sequence
        BY <1>2, <3>1, <3>2, Numbers DEF ShownOver
      <3>3. CASE Spoiled(KindOf(x), transition[x].sequence)
        BY <1>2, <1>9, <3>3 DEF ShownOver, Spoiled
      <3>4. QED
        BY <1>5, <2>2, <3>2, <3>3 DEF ShownOver
    <2>3. CASE x # u /\ x \notin over
      BY <1>2, <2>3 DEF ShownOver
    <2>4. QED
      BY <2>1, <2>2, <2>3
  <1>14. QED
    BY <1>11, <1>12, <1>13

LEMMA ShownNext ==
    ASSUME TypeOK, Recorded, SessionsInv, Tracked, Shown, TypeOK', NEW t \in Threads,
           Commit(t) \/ Continue(t)
    PROVE  Shown'
  <1>1. /\ \A k \in Kinds : ShownKind(k)'
        /\ \A u \in Threads : ShownCall(u)' /\ ShownOver(u)'
    <2>1. CASE Commit(t) \/ Outside(t)
      <3>1. \A u \in Threads : pc'[u] = "call" <=> pc[u] = "call"
        BY <2>1, OutsideQueue
      <3>2. UNCHANGED <<published, over, hand, shown, spoiled>>
        BY <2>1, OutsideQueue
      <3>3. QED
        BY <3>1, <3>2, ShownStays
    <2>2. CASE Enqueue(t)
      <3>1. /\ \A u \in Threads : pc'[u] = "call" <=> pc[u] = "call"
            /\ UNCHANGED <<published, over, hand, shown, spoiled>>
        BY <2>2 DEF Enqueue, TypeOK, failVars
      <3>2. QED
        BY <3>1, ShownStays
    <2>3. CASE Sweep(t)
      BY <2>3, SweepShown
    <2>4. CASE CallbackEnds(t)
      BY <2>4, CallbackShown
    <2>5. CASE StopSweeping(t) \/ ParkedReturns(t)
      <3>1. PICK b \in BOOLEAN : Published(t, b) /\ UNCHANGED <<over, hand, shown, published>>
                                 /\ pc[t] \in {"sweep", "parked"}
        BY <2>5, Leaves
      <3>2. (\A u \in Threads : pc'[u] = "call" <=> pc[u] = "call") /\ spoiled' = spoiled
        BY <3>1, PublishedTypes
      <3>3. Continue(t)
        BY <2>5 DEF Continue
      <3>4. QED
        BY <3>1, <3>2, <3>3, ShownStays
    <2>6. QED
      BY <2>1, <2>2, <2>3, <2>4, <2>5 DEF Continue, Outside
  <1>2. QED
    BY <1>1 DEF Shown, ShownKind, ShownCall, ShownOver, TypeOK

-----------------------------------------------------------------------------
(* Sequence numbers order the transitions.                                   *)

Latest(u, k) ==
    /\ KindOf(u) = k /\ pc[u] # "start" /\ transition[u].value = counter[k]
    /\ \A x \in Threads : KindOf(x) = k => transition[x].sequence <= transition[u].sequence

LEMMA OrderedCommit ==
    ASSUME TypeOK, Ordered, NEW t \in Threads, Commit(t)
    PROVE  Ordered'
  <1> DEFINE m == KindOf(t)
  <1>1. /\ sequence \in Nat /\ counter \in [Kinds -> Nat] /\ m \in Kinds
        /\ \A x \in Threads : transition[x].sequence \in Nat
    BY ThreadCases DEF TypeOK
  <1>2. pc[t] = "start" /\ pc'[t] # "start" /\ \A x \in Threads \ {t} : pc'[x] = pc[x]
    BY DEF Commit, TypeOK
  <1> DEFINE value == IF Adds(t) THEN counter[m] + 1
                      ELSE IF counter[m] = 0 THEN 0 ELSE counter[m] - 1
  <1>3. /\ sequence' = sequence + 1 /\ counter' = [counter EXCEPT ![m] = value]
        /\ transition' = [transition EXCEPT ![t] = [sequence |-> sequence + 1, value |-> value]]
    BY DEF Commit, TakeTransition
  <1> HIDE DEF value
  <1>4. /\ transition'[t].sequence = sequence + 1 /\ transition'[t].value = value
        /\ counter'[m] = value
        /\ \A x \in Threads \ {t} : transition'[x] = transition[x]
        /\ \A k \in Kinds \ {m} : counter'[k] = counter[k]
    BY <1>1, <1>3 DEF TypeOK
  <1>5. \A x \in Threads : transition[x].sequence <= sequence
    BY <1>1 DEF Ordered, Nothing
  <1> HIDE DEF m
  <1>6. \A x \in Threads :
          /\ pc'[x] = "start" => transition'[x] = Nothing
          /\ pc'[x] # "start" => transition'[x].sequence \in 1..sequence'
    BY <1>1, <1>2, <1>3, <1>4 DEF Ordered
  <1>7. ASSUME NEW x \in Threads, NEW u \in Threads, pc'[x] # "start",
               transition'[x].sequence = transition'[u].sequence
        PROVE  x = u
    <2>1. CASE x = t /\ u # t
      BY <1>1, <1>4, <1>5, <1>7, <2>1
    <2>2. CASE x # t /\ u = t
      BY <1>1, <1>4, <1>5, <1>7, <2>2
    <2>3. CASE x # t /\ u # t
      BY <1>2, <1>4, <1>7, <2>3 DEF Ordered
    <2>4. QED
      BY <2>1, <2>2, <2>3
  <1>8. ASSUME NEW k \in Kinds
        PROVE  \/ counter'[k] = 0 /\ \A x \in Threads : KindOf(x) = k => pc'[x] = "start"
               \/ \E u \in Threads : Latest(u, k)'
    <2>1. CASE k = m
      <3>1. \A x \in Threads : transition'[x].sequence <= transition'[t].sequence
        BY <1>1, <1>4, <1>5
      <3>2. Latest(t, k)'
        BY <1>2, <1>4, <2>1, <3>1 DEF Latest, m
      <3>3. QED
        BY <3>2
    <2>2. CASE k # m
      <3>1. CASE counter[k] = 0 /\ \A x \in Threads : KindOf(x) = k => pc[x] = "start"
        BY <1>2, <1>4, <2>2, <3>1 DEF m
      <3>2. CASE \E u \in Threads : Latest(u, k)
        <4>1. PICK u \in Threads : Latest(u, k)
          BY <3>2
        <4>2. \A x \in Threads : KindOf(x) = k => x # t
          BY <2>2 DEF m
        <4>3. Latest(u, k)'
          BY <1>2, <1>4, <2>2, <4>1, <4>2 DEF Latest
        <4>4. QED
          BY <4>3
      <3>3. QED
        BY <3>1, <3>2 DEF Ordered, Latest
    <2>3. QED
      BY <2>1, <2>2
  <1>9. QED
    BY <1>6, <1>7, <1>8 DEF Ordered, Latest

LEMMA OrderedNext ==
    ASSUME TypeOK, SessionsInv, Ordered, NEW t \in Threads, Commit(t) \/ Continue(t)
    PROVE  Ordered'
  <1>1. CASE ~Commit(t)
    <2>1. /\ UNCHANGED <<sequence, counter, transition>>
          /\ \A x \in Threads : pc[x] = "start" <=> pc'[x] = "start"
      BY <1>1, TransitionsKept, StartOnce
    <2>2. QED
      BY <2>1 DEF Ordered
  <1>2. QED
    BY <1>1, OrderedCommit

-----------------------------------------------------------------------------
(* The invariant.                                                            *)

LEMMA ObservationInit == Init => ObservationInv
  <1> SUFFICES ASSUME Init PROVE ObservationInv
    OBVIOUS
  <1>1. TypeOK
    <2>1. << >> \in Seq(Threads) /\ [s \in Sessions |-> << >>] \in [Sessions -> Seq(Threads)]
      OBVIOUS
    <2>2. queue \in Seq(Threads) /\ fifo \in [Sessions -> Seq(Threads)]
      BY <2>1 DEF Init
    <2>3. /\ sequence \in Nat /\ counter \in [Kinds -> Nat] /\ published \in [Kinds -> Nat]
          /\ transition \in [Threads -> [sequence : Nat, value : Nat]]
          /\ pc \in [Threads -> Places] /\ before \in [Threads -> Threads]
          /\ reporting \in [Threads -> Threads] /\ hand \in [Threads -> Threads]
      BY DEF Init, Places, Nothing
    <2>4. draining = FALSE /\ \A t \in Threads : pc[t] = "start"
      BY DEF Init
    <2>5. /\ ready \subseteq Threads /\ drained \subseteq Sessions /\ over \subseteq Threads
          /\ told \subseteq Threads /\ caught \subseteq Threads /\ hurt \subseteq Threads
          /\ spoiled \subseteq Threads /\ panics \in 0..MaxPanics
      BY ObservationAssumption DEF Init
    <2>6. QED
      BY <2>2, <2>3, <2>4, <2>5 DEF TypeOK
  <1>2. Recorded
    BY DEF Init, Recorded, Nothing
  <1>3. SessionsInv
    <2>1. ASSUME NEW s \in Sessions PROVE SessionFits(s)
      <3> DEFINE c == Connects(s)
                 d == Disconnects(s)
      <3>1. /\ c \in Threads /\ d \in Threads
            /\ << >> # <<c>> /\ << >> # <<d>> /\ << >> # <<c, d>>
        BY SessionThreads, SessionQueues
      <3>2. /\ pc[c] = "start" /\ pc[d] = "start" /\ fifo[s] = <<>> /\ log[s] = <<>>
            /\ ready = {} /\ drained = {} /\ told = {}
        BY <3>1 DEF Init
      <3> HIDE DEF c, d
      <3>3. ConnectPart(c, d, s) /\ DisconnectPart(c, d, s) /\ LogPart(c, d, s)
        BY <3>1, <3>2 DEF ConnectPart, DisconnectPart, LogPart, Active, InPublish
      <3>4. fifo[s] \in {<<>>, <<c>>, <<d>>, <<c, d>>} /\ (s \in drained <=> pc[c] \in Active \/ pc[d] \in Active)
        BY <3>2 DEF Active, InPublish
      <3>5. QED
        BY <3>3, <3>4 DEF SessionFits, c, d
    <2>2. QED
      BY <2>1 DEF Init, SessionsInv, RoomThreadFits, PanicsPart
  <1>4. Tracked
    <2>1. Len(<< >>) = 0
      OBVIOUS
    <2>2. QED
      BY <2>1 DEF Init, Tracked, InPublish, Queued, InHand
  <1>5. Shown
    BY DEF Init, Shown, Nothing
  <1>6. Ordered
    BY DEF Init, Ordered, Nothing
  <1>7. QED
    BY <1>1, <1>2, <1>3, <1>4, <1>5, <1>6 DEF ObservationInv

LEMMA ObservationStep == ObservationInv /\ [Next]_vars => ObservationInv'
  <1> SUFFICES ASSUME ObservationInv, [Next]_vars PROVE ObservationInv'
    OBVIOUS
  <1> USE DEF ObservationInv
  <1>1. ASSUME NEW t \in Threads, Commit(t) \/ Continue(t) PROVE ObservationInv'
    <2>1. TypeOK'
      BY <1>1, CommitTypes, TurnTypes, QueueTypes, PublishTypes DEF Continue
    <2>2. Recorded' /\ SessionsInv' /\ Tracked' /\ Ordered'
      BY <1>1, RecordedNext, SessionsNext, TrackedNext, OrderedNext
    <2>3. Shown'
      BY <1>1, <2>1, ShownNext
    <2>4. QED
      BY <2>1, <2>2, <2>3
  <1>2. CASE UNCHANGED vars
    <2> USE <1>2 DEF vars
    <2>1. TypeOK' /\ Recorded' /\ Shown' /\ Ordered'
      BY DEF TypeOK, Recorded, Shown, Spoiled, Ordered
    <2>2. Tracked'
      BY DEF Tracked, Queued, InHand
    <2>3. SessionsInv'
      BY DEF SessionsInv, SessionFits, ConnectPart, DisconnectPart, LogPart, RoomThreadFits, PanicsPart
    <2>4. QED
      BY <2>1, <2>2, <2>3
  <1>3. QED
    BY <1>1, <1>2 DEF Next

(* The queues, the gauges and the logs fit where every thread is: types, one *)
(* drainer per queue, every transition in exactly the places a publication   *)
(* can be, and sequence numbers in the order of the commits (observer.go,    *)
(* websocket.go 255-330).                                                    *)
THEOREM ObservationInvariant == Spec => []ObservationInv
  <1>1. QED
    BY ObservationInit, ObservationStep, PTL DEF Spec

LEMMA GaugesCovered == ObservationInv => GaugesCoverReturned
  <1> SUFFICES ASSUME ObservationInv PROVE GaugesCoverReturned
    OBVIOUS
  <1> USE DEF ObservationInv
  <1>1. ASSUME NEW u \in Threads, pc[u] = "done" \/ u \in told PROVE u \in over
    <2>1. CASE u \in told
      BY <2>1 DEF Tracked
    <2>2. CASE pc[u] = "done" /\ Lifecycle(u)
      <3>1. u[2] \in Sessions /\ u \in {Connects(u[2]), Disconnects(u[2])} /\ SessionFits(u[2])
        BY <2>2, ThreadCases DEF SessionsInv
      <3>2. u \in told
        BY <2>2, <3>1, SessionParts DEF ConnectPart, DisconnectPart
      <3>3. QED
        BY <3>2 DEF Tracked
    <2>3. CASE pc[u] = "done" /\ ~Lifecycle(u)
      BY <2>3 DEF SessionsInv, RoomThreadFits
    <2>4. QED
      BY <1>1, <2>1, <2>2, <2>3
  <1>2. ASSUME NEW u \in Threads, pc[u] = "done" \/ u \in told
        PROVE  \/ transition[u].sequence <= shown[KindOf(u)].sequence
               \/ \E v \in spoiled :
                     KindOf(v) = KindOf(u) /\ transition[u].sequence <= transition[v].sequence
    BY <1>1, <1>2 DEF Shown, Spoiled
  <1>3. ASSUME \A t \in Threads : pc[t] \in {"start", "done", "dropped"}, NEW k \in Kinds
        PROVE  \/ shown[k].value = counter[k]
               \/ /\ panics > 0
                  /\ \E t \in Threads : KindOf(t) = k /\ Newest(t) /\ (t \in spoiled \/ pc[t] = "dropped")
    <2>1. shown[k] = Nothing \/ \E v \in Threads : KindOf(v) = k /\ pc[v] # "start" /\ shown[k] = transition[v]
      BY DEF Shown
    <2>2. CASE counter[k] = 0 /\ \A t \in Threads : KindOf(t) = k => pc[t] = "start"
      BY <2>1, <2>2 DEF Nothing
    <2>3. CASE \E u \in Threads : Latest(u, k)
      <3>1. PICK u \in Threads : Latest(u, k)
        BY <2>3
      <3>2. Newest(u) /\ KindOf(u) = k
        BY <3>1 DEF Latest, Newest
      <3>3. CASE pc[u] = "dropped"
        <4>1. panics > 0
          BY <3>3 DEF SessionsInv, PanicsPart
        <4>2. QED
          BY <3>2, <3>3, <4>1
      <3>4. CASE pc[u] # "dropped" /\ transition[u].sequence <= shown[k].sequence
        <4>1. transition[u].sequence \in Nat \ {0}
          BY <3>1, Numbers DEF Latest, Ordered
        <4>2. PICK v \in Threads : KindOf(v) = k /\ pc[v] # "start" /\ shown[k] = transition[v]
          BY <2>1, <3>4, <4>1 DEF Nothing
        <4>3. transition[v].sequence = transition[u].sequence
          BY <3>1, <3>4, <4>1, <4>2, Numbers DEF Latest
        <4>4. u = v
          BY <4>2, <4>3 DEF Ordered
        <4>5. QED
          BY <3>1, <4>2, <4>4 DEF Latest
      <3>5. CASE \E v \in spoiled : KindOf(v) = k /\ transition[u].sequence <= transition[v].sequence
        <4>1. PICK v \in spoiled : KindOf(v) = k /\ transition[u].sequence <= transition[v].sequence
          BY <3>5
        <4>2. v \in Threads
          BY DEF TypeOK
        <4>3. transition[v].sequence = transition[u].sequence
          BY <3>1, <4>1, <4>2, Numbers DEF Latest
        <4>4. u = v
          BY <3>1, <4>2, <4>3 DEF Ordered, Latest
        <4>5. panics > 0
          BY <4>1 DEF SessionsInv, PanicsPart
        <4>6. QED
          BY <3>2, <4>1, <4>4, <4>5
      <3>6. pc[u] \in {"done", "dropped"}
        BY <1>3, <3>1 DEF Latest
      <3>7. QED
        BY <1>2, <3>2, <3>3, <3>4, <3>5, <3>6
    <2>4. QED
      BY <2>2, <2>3 DEF Ordered, Latest
  <1>4. QED
    BY <1>2, <1>3 DEF GaugesCoverReturned

(* A gauge is never behind a report that has returned, unless a callback     *)
(* panicked on that change or a later one; and at rest it holds the last     *)
(* committed value, unless a panic spoiled or dropped the very last change   *)
(* (observer.go 93-153, store.go 441-467).                                   *)
THEOREM GaugesCoverReturnedAlways == Spec => []GaugesCoverReturned
  <1>1. QED
    BY ObservationInvariant, GaugesCovered, PTL

LEMMA LogsInOrder == ObservationInv => LifecycleInOrder
  <1> SUFFICES ASSUME ObservationInv, NEW s \in Sessions
               PROVE  /\ log[s] \in {<<>>, <<"connected">>, <<"connected", "disconnected">>, <<"disconnected">>}
                      /\ panics = 0 =>
                           log[s] = IF <<"disconnect", s>> \in told THEN <<"connected", "disconnected">>
                                    ELSE IF <<"connect", s>> \in told THEN <<"connected">> ELSE <<>>
    BY DEF LifecycleInOrder
  <1>1. LogPart(Connects(s), Disconnects(s), s) /\ DisconnectPart(Connects(s), Disconnects(s), s)
    BY SessionParts DEF ObservationInv, SessionsInv
  <1> DEFINE c == <<"connect", s>>
             d == <<"disconnect", s>>
  <1>2. LogPart(c, d, s) /\ DisconnectPart(c, d, s)
    BY <1>1 DEF Connects, Disconnects
  <1> HIDE DEF c, d
  <1>3. d \in told => c \in told
    BY <1>2 DEF DisconnectPart
  <1>4. log[s] \in {<<>>, <<"connected">>, <<"connected", "disconnected">>, <<"disconnected">>}
    BY <1>2, <1>3 DEF LogPart
  <1>5. panics = 0 =>
           log[s] = IF d \in told THEN <<"connected", "disconnected">>
                    ELSE IF c \in told THEN <<"connected">> ELSE <<>>
    BY <1>2, <1>3 DEF LogPart
  <1>6. QED
    BY <1>4, <1>5 DEF c, d

(* A session's disconnection is logged after its connection, and without     *)
(* panics every event that was reported is logged (websocket.go 288-290).    *)
THEOREM LifecycleInOrderAlways == Spec => []LifecycleInOrder
  <1>1. QED
    BY ObservationInvariant, LogsInOrder, PTL
=============================================================================
