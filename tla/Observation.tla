---------------------------- MODULE Observation -----------------------------
(***************************************************************************)
(* How lifecycle events reach the logs and the Observer's gauges: the      *)
(* publication queue of each clientSession (websocket.go), whose connected *)
(* entry is queued under the room's lock but published later, and the      *)
(* store-wide queue of observationState (observer.go) behind it.           *)
(*                                                                         *)
(* A thread is the part of a goroutine that reports one change: attaching  *)
(* a session, disconnecting it, or creating or removing a room.  A         *)
(* goroutine that took several changes reports them one after another, and *)
(* a panic drops those that are left.  Whoever finds no drainer becomes    *)
(* the drainer; everybody else waits for its publication.                  *)
(***************************************************************************)
EXTENDS Naturals, Sequences

CONSTANTS Sessions, Rooms,
          MaxPanics   \* bound: callbacks of Observer and Logger that panic

ASSUME ObservationAssumption == MaxPanics \in Nat

Kinds == {"activeRooms", "connectedClients"}
Threads == ({"connect", "disconnect"} \X Sessions) \cup ({"create", "remove"} \X Rooms)
Lifecycle(t) == t[1] \in {"connect", "disconnect"}
KindOf(t) == IF Lifecycle(t) THEN "connectedClients" ELSE "activeRooms"

VARIABLES
    sequence,   \* observationState.sequence
    counter,    \* activeRooms and connectedClients
    transition, \* the transition each thread took, 0 if none: sequence and value
    published,  \* publishedSequence
    queue,      \* pending: the threads whose transitions wait, in order
    draining,   \* observationState.draining
    fifo,       \* clientSession.publications: the threads that queued them
    ready,      \* threads whose lifecycle publication is ready
    drained,    \* sessions with publicationDraining
    pc,         \* where each thread is
    before,     \* the thread its goroutine runs first, itself if there is none
    reporting,  \* the thread whose transition a thread hands to publish
    hand,       \* the thread whose publication a drainer of the queue holds
    over,       \* threads whose publication on the queue is done
    told,       \* threads whose lifecycle publication is done
    shown,      \* per kind: the transition of the last finished callback
    log,        \* per session: the events logged
    caught,     \* drainers of the store's queue that caught a panic
    hurt,       \* threads that end in a panic, their own or another's
    panics,     \* number of panics so far
    spoiled     \* threads whose transition met a panicking callback

storeVars == <<sequence, counter, transition>>
queueVars == <<published, queue, draining, over>>
sessionVars == <<fifo, ready, drained, told>>
failVars == <<caught, hurt, panics, spoiled>>
vars == <<sequence, counter, transition, published, queue, draining, fifo, ready, drained, pc,
          before, reporting, hand, over, told, shown, log, caught, hurt, panics, spoiled>>

Nothing == [sequence |-> 0, value |-> 0]
Places == {"start", "taken", "wait", "drain", "publish", "parked", "sweep", "call", "done",
           "dropped"}

Init ==
    /\ sequence = 0 /\ counter = [k \in Kinds |-> 0]
    /\ transition = [t \in Threads |-> Nothing]
    /\ published = [k \in Kinds |-> 0] /\ queue = <<>> /\ draining = FALSE
    /\ fifo = [s \in Sessions |-> <<>>] /\ ready = {} /\ drained = {}
    /\ pc = [t \in Threads |-> "start"] /\ before = [t \in Threads |-> t]
    /\ reporting = [t \in Threads |-> t] /\ hand = [t \in Threads |-> t]
    /\ over = {} /\ told = {}
    /\ shown = [k \in Kinds |-> Nothing] /\ log = [s \in Sessions |-> <<>>]
    /\ caught = {} /\ hurt = {} /\ panics = 0 /\ spoiled = {}

-----------------------------------------------------------------------------
(* The core's side: transitions are taken under the Store's or room's lock. *)

Adds(t) == t[1] \in {"connect", "create"}

\* activeRoomsDelta, connectedClientsDelta; a counter never drops below zero.
TakeTransition(t) ==
    LET k == KindOf(t)
        value == IF Adds(t) THEN counter[k] + 1
                 ELSE IF counter[k] = 0 THEN 0 ELSE counter[k] - 1
    IN  /\ sequence' = sequence + 1
        /\ counter' = [counter EXCEPT ![k] = value]
        /\ transition' = [transition EXCEPT ![t] = [sequence |-> sequence + 1, value |-> value]]

\* The goroutine of t: one of its own, or one that has more to report.  It
\* reports in the order in which it took the changes, but for releaseClient:
\* it reports that it removed a room before the disconnections it took first.
Join(t) ==
    \/ before' = before
    \/ /\ t[1] \in {"disconnect", "remove"}
       /\ \E p \in Threads \ {t} :
             /\ p[1] \in {"disconnect", "remove"} /\ pc[p] \in {"taken", "done"} /\ p \notin hurt
             /\ \A u \in Threads \ {p} : before[u] # p
             /\ before' = [before EXCEPT ![t] = p]
    \/ /\ t[1] = "remove"
       /\ \E p \in Threads :
             /\ p[1] = "disconnect" /\ pc[p] = "taken" /\ before[p] = p
             /\ before' = [before EXCEPT ![p] = t]

\* attachClientSession queues the connected entry, which is not ready, in the
\* same critical section; a disconnect or removal needs the attach or creation.
Commit(t) ==
    /\ pc[t] = "start"
    /\ t[1] = "disconnect" => pc[<<"connect", t[2]>>] # "start"
    /\ t[1] = "remove" => pc[<<"create", t[2]>>] # "start"
    /\ TakeTransition(t)
    /\ fifo' = IF t[1] = "connect" THEN [fifo EXCEPT ![t[2]] = Append(@, t)] ELSE fifo
    /\ pc' = [pc EXCEPT ![t] = "taken"]
    /\ Join(t)
    /\ UNCHANGED <<queueVars, ready, drained, told, reporting, hand, shown, log, failVars>>

\* Its goroutine has come to the report of t.
Turn(t) == before[t] = t \/ (pc[before[t]] = "done" /\ before[t] \notin hurt)

\* A room's change goes straight to the store's queue.
Proceed(t) ==
    /\ pc[t] = "taken" /\ ~Lifecycle(t) /\ Turn(t)
    /\ pc' = [pc EXCEPT ![t] = "publish"]
    /\ UNCHANGED <<storeVars, queueVars, sessionVars, before, reporting, hand, shown, log, failVars>>

\* A panic has unwound the goroutine before it came to t.
Drop(t) ==
    /\ pc[t] = "taken"
    /\ pc[before[t]] = "dropped" \/ (pc[before[t]] = "done" /\ before[t] \in hurt)
    /\ pc' = [pc EXCEPT ![t] = "dropped"]
    /\ UNCHANGED <<storeVars, queueVars, sessionVars, before, reporting, hand, shown, log, failVars>>

-----------------------------------------------------------------------------
(* The publication queue of one session.                                    *)

\* startPublicationDrainLocked
Startable(s, entries, isReady) ==
    s \notin drained /\ entries # <<>> /\ Head(entries) \in isReady

\* Mutant of Announce: the disconnection is put in front.
AnnounceInFront(t) ==
    /\ pc[t] = "taken" /\ Lifecycle(t) /\ Turn(t)
    /\ LET s == t[2]
           entries == IF t[1] = "disconnect" THEN <<t>> \o fifo[s] ELSE fifo[s]
           drains == Startable(s, entries, ready \cup {t})
       IN  /\ fifo' = [fifo EXCEPT ![s] = entries]
           /\ ready' = ready \cup {t}
           /\ drained' = IF drains THEN drained \cup {s} ELSE drained
           /\ pc' = [pc EXCEPT ![t] = IF drains THEN "drain" ELSE "wait"]
    /\ UNCHANGED <<storeVars, queueVars, told, before, reporting, hand, shown, log, failVars>>

\* readyLifecyclePublication, and enqueueLifecyclePublication of a ready entry
Announce(t) ==
    /\ pc[t] = "taken" /\ Lifecycle(t) /\ Turn(t)
    /\ LET s == t[2]
           entries == IF t[1] = "disconnect" THEN Append(fifo[s], t) ELSE fifo[s]
           drains == Startable(s, entries, ready \cup {t})
       IN  /\ fifo' = [fifo EXCEPT ![s] = entries]
           /\ ready' = ready \cup {t}
           /\ drained' = IF drains THEN drained \cup {s} ELSE drained
           /\ pc' = [pc EXCEPT ![t] = IF drains THEN "drain" ELSE "wait"]
    /\ UNCHANGED <<storeVars, queueVars, told, before, reporting, hand, shown, log, failVars>>

\* drainLifecyclePublications: take the next ready entry, or stop.
DrainNext(t) ==
    /\ pc[t] = "drain"
    /\ LET s == t[2]
       IN  IF fifo[s] # <<>> /\ Head(fifo[s]) \in ready
           THEN /\ fifo' = [fifo EXCEPT ![s] = Tail(@)]
                /\ reporting' = [reporting EXCEPT ![t] = Head(fifo[s])]
                /\ pc' = [pc EXCEPT ![t] = "publish"]
                /\ UNCHANGED drained
           ELSE /\ drained' = drained \ {s}
                /\ pc' = [pc EXCEPT ![t] = "done"]
                /\ UNCHANGED <<fifo, reporting>>
    /\ UNCHANGED <<storeVars, queueVars, ready, told, before, hand, shown, log, failVars>>

\* A thread whose entry another one published returns.
ToldReturns(t) ==
    /\ pc[t] = "wait" /\ t \in told
    /\ pc' = [pc EXCEPT ![t] = "done"]
    /\ UNCHANGED <<storeVars, queueVars, sessionVars, before, reporting, hand, shown, log, failVars>>

-----------------------------------------------------------------------------
(* publish of observationState.                                             *)

\* Mutant of Enqueue: everybody sweeps the queue.
EnqueueAndSweep(t) ==
    /\ pc[t] = "publish"
    /\ queue' = Append(queue, reporting[t])
    /\ draining' = TRUE
    /\ pc' = [pc EXCEPT ![t] = "sweep"]
    /\ UNCHANGED <<storeVars, published, over, sessionVars, before, reporting, hand, shown, log, failVars>>

Enqueue(t) ==
    /\ pc[t] = "publish"
    /\ queue' = Append(queue, reporting[t])
    /\ draining' = TRUE
    /\ pc' = [pc EXCEPT ![t] = IF draining THEN "parked" ELSE "sweep"]
    /\ UNCHANGED <<storeVars, published, over, sessionVars, before, reporting, hand, shown, log, failVars>>

Stale(k, seq) == seq <= published[k]

\* The drainer takes the next publication, and drops a stale one.
Sweep(t) ==
    /\ pc[t] = "sweep" /\ queue # <<>>
    /\ LET u == Head(queue)
           k == KindOf(u)
           seq == transition[u].sequence
       IN  /\ queue' = Tail(queue)
           /\ hand' = [hand EXCEPT ![t] = u]
           /\ IF Stale(k, seq)
              THEN over' = over \cup {u} /\ UNCHANGED <<published, pc>>
              ELSE /\ published' = [published EXCEPT ![k] = seq]
                   /\ pc' = [pc EXCEPT ![t] = "call"]
                   /\ UNCHANGED over
    /\ UNCHANGED <<storeVars, draining, sessionVars, before, reporting, shown, log, failVars>>

\* The Observer's callback ends.  The drainer catches a panic, before or after
\* which the gauge was set, and goes on: nothing calls the Observer again.
CallbackEnds(t) ==
    /\ pc[t] = "call"
    /\ LET u == hand[t]
           set == [shown EXCEPT ![KindOf(u)] = transition[u]]
       IN  /\ over' = over \cup {u}
           /\ \/ shown' = set /\ UNCHANGED <<caught, panics, spoiled>>
              \/ /\ panics < MaxPanics /\ panics' = panics + 1
                 /\ shown' \in {shown, set}
                 /\ caught' = caught \cup {t} /\ spoiled' = spoiled \cup {u}
    /\ pc' = [pc EXCEPT ![t] = "sweep"]
    /\ UNCHANGED <<storeVars, published, queue, draining, sessionVars, before, reporting, hand, log, hurt>>

\* The caller of publish logs its event, unless publish panicked; the Logger
\* may panic too, with or without the line.  A session's drainer goes on to
\* the next entry and panics at the end; a room's thread returns or panics.
Published(t, panicked) ==
    LET u == reporting[t]
        event == IF u[1] = "connect" THEN "connected" ELSE "disconnected"
        logged == IF Lifecycle(t) THEN [log EXCEPT ![t[2]] = Append(@, event)] ELSE log
    IN  /\ \/ panicked /\ hurt' = hurt \cup {t} /\ UNCHANGED <<log, panics>>
           \/ ~panicked /\ log' = logged /\ UNCHANGED <<hurt, panics>>
           \/ /\ ~panicked /\ panics < MaxPanics /\ panics' = panics + 1
              /\ log' \in {log, logged} /\ hurt' = hurt \cup {t}
        /\ told' = IF Lifecycle(t) THEN told \cup {u} ELSE told
        /\ pc' = [pc EXCEPT ![t] = IF Lifecycle(t) THEN "drain" ELSE "done"]
    /\ UNCHANGED <<before, spoiled>>

\* Mutant of StopSweeping: the drainer leaves and does not say so.
StopSweepingSilently(t) ==
    /\ pc[t] = "sweep" /\ queue = <<>>
    /\ draining' = draining
    /\ caught' = caught \ {t}
    /\ Published(t, t \in caught)
    /\ UNCHANGED <<storeVars, published, queue, over, fifo, ready, drained, reporting, hand, shown>>

\* The queue is empty: the drainer lets go and re-raises what it caught.
StopSweeping(t) ==
    /\ pc[t] = "sweep" /\ queue = <<>>
    /\ draining' = FALSE
    /\ caught' = caught \ {t}
    /\ Published(t, t \in caught)
    /\ UNCHANGED <<storeVars, published, queue, over, fifo, ready, drained, reporting, hand, shown>>

\* A publication that the drainer finished returns to its caller.
ParkedReturns(t) ==
    /\ pc[t] = "parked" /\ reporting[t] \in over
    /\ Published(t, FALSE)
    /\ UNCHANGED <<storeVars, queueVars, fifo, ready, drained, reporting, hand, shown, caught>>

-----------------------------------------------------------------------------
Continue(t) ==
    \/ Proceed(t) \/ Drop(t) \/ Announce(t) \/ DrainNext(t) \/ ToldReturns(t)
    \/ Enqueue(t) \/ Sweep(t) \/ CallbackEnds(t) \/ StopSweeping(t) \/ ParkedReturns(t)

Next == \E t \in Threads : Commit(t) \/ Continue(t)

Spec == Init /\ [][Next]_vars

\* A goroutine inside a publication keeps running and callbacks are bounded.
FairSpec == Spec /\ \A t \in Threads : WF_vars(Continue(t))

-----------------------------------------------------------------------------
(* The two queues have their types, and each has at most one drainer.       *)
TypeOK ==
    /\ sequence \in Nat /\ counter \in [Kinds -> Nat] /\ published \in [Kinds -> Nat]
    /\ transition \in [Threads -> [sequence : Nat, value : Nat]]
    /\ queue \in Seq(Threads) /\ draining \in BOOLEAN
    /\ fifo \in [Sessions -> Seq(Threads)] /\ ready \subseteq Threads /\ drained \subseteq Sessions
    /\ pc \in [Threads -> Places]
    /\ before \in [Threads -> Threads]
    /\ reporting \in [Threads -> Threads] /\ hand \in [Threads -> Threads]
    /\ over \subseteq Threads /\ told \subseteq Threads /\ caught \subseteq Threads
    /\ hurt \subseteq Threads /\ spoiled \subseteq Threads
    /\ panics \in 0..MaxPanics
    /\ draining <=> \E t \in Threads : pc[t] \in {"sweep", "call"}
    /\ \A t, u \in Threads : pc[t] \in {"sweep", "call"} /\ pc[u] \in {"sweep", "call"} => t = u

\* Nobody took a later change of its kind.
Newest(t) ==
    /\ pc[t] # "start"
    /\ \A u \in Threads : KindOf(u) = KindOf(t) => transition[u].sequence <= transition[t].sequence

(* A gauge is never behind a report that has returned, unless a callback    *)
(* panicked on that change or a later one; and once every goroutine is done *)
(* it holds the last committed value (observer.go 93-99), unless a panic    *)
(* spoiled or dropped the very last change: what panics did to earlier ones *)
(* is made good by the later.                                               *)
GaugesCoverReturned ==
    /\ TypeOK
    /\ \A t \in Threads : pc[t] = "done" \/ t \in told =>
            \/ transition[t].sequence <= shown[KindOf(t)].sequence
            \/ \E u \in spoiled :
                  KindOf(u) = KindOf(t) /\ transition[t].sequence <= transition[u].sequence
    /\ (\A t \in Threads : pc[t] \in {"start", "done", "dropped"}) =>
            \A k \in Kinds :
                \/ shown[k].value = counter[k]
                \/ /\ panics > 0
                   /\ \E t \in Threads :
                         KindOf(t) = k /\ Newest(t) /\ (t \in spoiled \/ pc[t] = "dropped")

(* A session's disconnection is logged after its connection, even when it   *)
(* disconnects before the attaching goroutine has published (websocket.go   *)
(* 288-290); only panics drop lines.                                        *)
LifecycleInOrder ==
    \A s \in Sessions :
        /\ log[s] \in {<<>>, <<"connected">>, <<"connected", "disconnected">>, <<"disconnected">>}
        /\ panics = 0 =>
              log[s] = IF <<"disconnect", s>> \in told THEN <<"connected", "disconnected">>
                       ELSE IF <<"connect", s>> \in told THEN <<"connected">> ELSE <<>>

(* Whoever publishes returns or unwinds: the waiters of the two queues never *)
(* wait for each other, although a session's drainer waits on the store's    *)
(* queue, and a goroutine that panics strands nobody.                        *)
PublishReturns == \A t \in Threads : (pc[t] # "start") ~> (pc[t] \in {"done", "dropped"})
=============================================================================
