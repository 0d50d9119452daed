---------------------------- MODULE ClientOutbox -----------------------------
(***************************************************************************)
(* The outgoing side of one clientSession (internal/rooms/websocket.go):   *)
(* the control FIFO, the latest-only snapshot slot, the snapshot deferred  *)
(* behind reliable skill approvals, the terminal handoff of GameEnd, the   *)
(* writer goroutine, and everybody who closes the session.                 *)
(*                                                                         *)
(* A producer's critical section under enqueueMu is one step, and so is    *)
(* each receive of the writer; a network write takes from one step to the  *)
(* next, and anything may happen in between.                               *)
(***************************************************************************)
EXTENDS Naturals, FiniteSets, Sequences

CONSTANTS ControlCapacity,  \* cap(control), 8 in newClientSession
          MaxTick,          \* bound: ticks of the match
          MaxPlain          \* bound: lifecycle events and malformed frames

ASSUME OutboxAssumption == ControlCapacity \in Nat \ {0} /\ MaxTick \in Nat /\ MaxPlain \in Nat

VARIABLES
    tick,             \* the last tick the room handed to this session
    control,          \* control channel: an approval's tick, 0 for another payload
    snapshots,        \* the capacity-1 snapshot slot: a tick, 0 if empty
    deferredLatest,   \* a tick, 0 if none
    reliablePending,
    terminal,
    terminalHandoff,  \* the tick of the terminal snapshot, 0 if empty
    done,             \* the done channel is closed
    closing,          \* goroutines inside closeWithCause before done is closed
    writer,           \* where writeLoop is
    ending,           \* tick of the handoff that writeTerminal works on, 0 if none
    hand,             \* the command the writer is writing
    plain,            \* number of other payloads so far
    received,         \* the last snapshot tick the client received
    owed,             \* approval ticks the client has not received
    over              \* the client received GameEnd

queueVars  == <<control, snapshots, deferredLatest, reliablePending, terminal, terminalHandoff>>
writerVars == <<writer, ending, hand>>
clientVars == <<received, owed, over>>
vars == <<tick, control, snapshots, deferredLatest, reliablePending, terminal, terminalHandoff,
          done, closing, writer, ending, hand, plain, received, owed, over>>

Tick == 0..MaxTick
Nothing == [kind |-> "none", tick |-> 0]
\* A command taken from the control channel.
Command(c) == [kind |-> IF c = 0 THEN "payload" ELSE "approval", tick |-> c]

Init ==
    /\ tick = 0 /\ control = <<>> /\ snapshots = 0 /\ deferredLatest = 0
    /\ reliablePending = 0 /\ terminal = FALSE /\ terminalHandoff = 0
    /\ done = FALSE /\ closing = {}
    /\ writer = "poll" /\ ending = 0 /\ hand = Nothing
    /\ plain = 0 /\ received = 0 /\ owed = {} /\ over = FALSE

Open == ~terminal /\ ~done
HasRoom == Len(control) < ControlCapacity

-----------------------------------------------------------------------------
(* The room's tick worker.  It is one goroutine: it does not reach the next *)
(* tick while it is still closing this session for a full control queue.    *)

NextTick ==
    /\ tick < MaxTick /\ "room" \notin closing
    /\ tick' = tick + 1

\* enqueueSnapshot
EnqueueSnapshot ==
    /\ Open
    /\ NextTick
    /\ IF reliablePending > 0
       THEN deferredLatest' = tick' /\ UNCHANGED snapshots
       ELSE snapshots' = tick' /\ UNCHANGED deferredLatest
    /\ UNCHANGED <<control, reliablePending, terminal, terminalHandoff, done, closing,
                   writerVars, plain, clientVars>>

\* Mutants of enqueueSkillApprovalSnapshot: a pending snapshot is left in the
\* slot, and a rejected approval is counted.
ApprovalKeepsSnapshot ==
    /\ Open
    /\ NextTick
    /\ deferredLatest' = 0
    /\ IF HasRoom
       THEN /\ control' = Append(control, tick')
            /\ reliablePending' = reliablePending + 1
            /\ UNCHANGED closing
       ELSE closing' = closing \cup {"room"} /\ UNCHANGED <<control, reliablePending>>
    /\ owed' = owed \cup {tick'}
    /\ UNCHANGED <<snapshots, terminal, terminalHandoff, done, writerVars, plain, received, over>>
ApprovalAlwaysCounted ==
    /\ Open
    /\ NextTick
    /\ snapshots' = 0 /\ deferredLatest' = 0
    /\ reliablePending' = reliablePending + 1
    /\ IF HasRoom
       THEN control' = Append(control, tick') /\ UNCHANGED closing
       ELSE closing' = closing \cup {"room"} /\ UNCHANGED control
    /\ owed' = owed \cup {tick'}
    /\ UNCHANGED <<terminal, terminalHandoff, done, writerVars, plain, received, over>>
\* enqueueSkillApprovalSnapshot
EnqueueSkillApproval ==
    /\ Open
    /\ NextTick
    /\ snapshots' = 0 /\ deferredLatest' = 0
    /\ IF HasRoom
       THEN /\ control' = Append(control, tick')
            /\ reliablePending' = reliablePending + 1
            /\ UNCHANGED closing
       ELSE closing' = closing \cup {"room"} /\ UNCHANGED <<control, reliablePending>>
    /\ owed' = owed \cup {tick'}
    /\ UNCHANGED <<terminal, terminalHandoff, done, writerVars, plain, received, over>>

\* enqueueTerminal: the player's result is final in this tick.
EnqueueTerminal ==
    /\ Open
    /\ NextTick
    /\ terminal' = TRUE
    /\ snapshots' = 0 /\ deferredLatest' = 0
    /\ terminalHandoff' = tick'
    /\ UNCHANGED <<control, reliablePending, done, closing, writerVars, plain, clientVars>>

-----------------------------------------------------------------------------
(* Other payloads on the control queue. *)

\* Mutant: tryEnqueueControl forgets that the session is terminal.
AcceptsUntilDone == ~done
Accepts == ~terminal /\ ~done

\* tryEnqueueControl: queue a payload, or have who close the session when full.
OfferControl(who) ==
    IF HasRoom
    THEN control' = Append(control, 0) /\ UNCHANGED closing
    ELSE closing' = closing \cup {who} /\ UNCHANGED control

\* Ready and countdown events, before the first tick.
SendLifecycleEvent ==
    /\ Accepts
    /\ tick = 0 /\ plain < MaxPlain
    /\ plain' = plain + 1
    /\ OfferControl("lifecycle")
    /\ UNCHANGED <<tick, snapshots, deferredLatest, reliablePending, terminal, terminalHandoff,
                   done, writerVars, clientVars>>

\* The read loop got a malformed frame or a negative tick: it answers with an
\* error payload; if that is not accepted, the loop ends and closes the session.
MalformedFrame ==
    /\ ~done /\ "reader" \notin closing
    /\ plain < MaxPlain
    /\ plain' = plain + 1
    /\ IF Accepts
       THEN OfferControl("reader")
       ELSE closing' = closing \cup {"reader"} /\ UNCHANGED control
    /\ UNCHANGED <<tick, snapshots, deferredLatest, reliablePending, terminal, terminalHandoff,
                   done, writerVars, clientVars>>

-----------------------------------------------------------------------------
(* Closing. *)

\* The peer leaves, the heartbeat fails, or the room is removed.
StartClosing ==
    /\ ~done /\ "other" \notin closing
    /\ closing' = closing \cup {"other"}
    /\ UNCHANGED <<tick, queueVars, done, writerVars, plain, clientVars>>

\* closeOnce of closeWithCause closes done; every other closer waits for it.
CloseDone ==
    /\ closing # {}
    /\ done' = TRUE
    /\ closing' = {}
    /\ UNCHANGED <<tick, queueVars, writerVars, plain, clientVars>>

-----------------------------------------------------------------------------
(* The writer. *)

\* writeCommand starts with a look at done.
Begin(command) ==
    /\ hand' = command
    /\ writer' = IF done THEN "stopped" ELSE "write"

TakeControl ==
    /\ control # <<>>
    /\ control' = Tail(control)
    /\ Begin(Command(Head(control)))
    /\ UNCHANGED <<snapshots, terminalHandoff, ending>>

TakeTerminal ==
    /\ terminalHandoff # 0
    /\ ending' = terminalHandoff
    /\ terminalHandoff' = 0
    /\ writer' = "drain"
    /\ UNCHANGED <<control, snapshots, hand>>

TakeSnapshot ==
    /\ snapshots # 0
    /\ snapshots' = 0
    /\ Begin([kind |-> "snapshot", tick |-> snapshots])
    /\ UNCHANGED <<control, terminalHandoff, ending>>

StopWriter ==
    /\ done
    /\ writer' = "stopped"
    /\ UNCHANGED <<control, snapshots, terminalHandoff, ending, hand>>

\* The two prioritised non-blocking receives of writeLoop: control first.
WriterPoll ==
    /\ writer = "poll"
    /\ IF done THEN StopWriter
       ELSE IF control # <<>> THEN TakeControl
       ELSE IF terminalHandoff # 0 THEN TakeTerminal
       ELSE writer' = "wait" /\ UNCHANGED <<control, snapshots, terminalHandoff, ending, hand>>
    /\ UNCHANGED <<tick, deferredLatest, reliablePending, terminal, done, closing, plain, clientVars>>

\* The blocking select: any ready channel, in no order.
WriterWait ==
    /\ writer = "wait"
    /\ TakeControl \/ TakeTerminal \/ TakeSnapshot \/ StopWriter
    /\ UNCHANGED <<tick, deferredLatest, reliablePending, terminal, done, closing, plain, clientVars>>

\* writeTerminal: the control queue first, then the snapshot, GameEnd, close.
WriterDrain ==
    /\ writer = "drain"
    /\ \/ TakeControl
       \/ /\ control = <<>>
          /\ Begin([kind |-> "terminal", tick |-> ending])
          /\ UNCHANGED <<control, snapshots, terminalHandoff, ending>>
    /\ UNCHANGED <<tick, deferredLatest, reliablePending, terminal, done, closing, plain, clientVars>>

Resume == IF ending # 0 THEN "drain" ELSE "poll"

\* Mutant: writeTerminal returns without the close command.
NoCloseAfterGameEnd == closing
CloseAfterGameEnd == IF done THEN closing ELSE closing \cup {"writer"}

\* conn.Write returned no error.
WriteSucceeds ==
    /\ writer = "write"
    /\ CASE hand.kind = "payload"  -> writer' = Resume /\ UNCHANGED <<hand, closing, clientVars>>
         [] hand.kind = "snapshot" -> /\ writer' = Resume
                                      /\ received' = hand.tick
                                      /\ UNCHANGED <<hand, closing, owed, over>>
         [] hand.kind = "approval" -> /\ writer' = "complete"
                                      /\ received' = hand.tick
                                      /\ owed' = owed \ {hand.tick}
                                      /\ UNCHANGED <<hand, closing, over>>
         [] hand.kind = "terminal" -> /\ Begin([kind |-> "gameEnd", tick |-> 0])
                                      /\ received' = hand.tick
                                      /\ UNCHANGED <<closing, owed, over>>
         [] hand.kind = "gameEnd"  -> /\ writer' = "stopped"
                                      /\ over' = TRUE
                                      /\ closing' = CloseAfterGameEnd
                                      /\ UNCHANGED <<hand, received, owed>>
    /\ UNCHANGED <<tick, queueVars, done, ending, plain>>

\* A write error, or the write timeout.
WriteFails ==
    /\ writer = "write"
    /\ writer' = "stopped"
    /\ closing' = IF done THEN closing ELSE closing \cup {"writer"}
    /\ UNCHANGED <<tick, queueVars, done, ending, hand, plain, clientVars>>

\* Mutant: a snapshot deferred behind an approval is forgotten.
ReleaseNothing == 0
ReleaseDeferred == IF Open THEN deferredLatest ELSE 0

\* completeReliableSnapshot
CompleteReliable ==
    /\ writer = "complete"
    /\ writer' = Resume
    /\ reliablePending' = reliablePending - 1
    /\ IF reliablePending' = 0 /\ deferredLatest # 0
       THEN /\ deferredLatest' = 0
            /\ snapshots' = IF ReleaseDeferred # 0 THEN ReleaseDeferred ELSE snapshots
       ELSE UNCHANGED <<deferredLatest, snapshots>>
    /\ UNCHANGED <<tick, control, terminal, terminalHandoff, done, closing, ending, hand,
                   plain, clientVars>>

-----------------------------------------------------------------------------

Next ==
    \/ EnqueueSnapshot \/ EnqueueSkillApproval \/ EnqueueTerminal
    \/ SendLifecycleEvent \/ MalformedFrame
    \/ StartClosing \/ CloseDone
    \/ WriterPoll \/ WriterWait \/ WriterDrain
    \/ WriteSucceeds \/ WriteFails \/ CompleteReliable

Spec == Init /\ [][Next]_vars

\* The writer runs, a write returns within webSocketWriteTimeout, and who closes
\* a session gets through closeOnce.
FairSpec ==
    /\ Spec
    /\ WF_vars(WriterPoll) /\ WF_vars(WriterWait) /\ WF_vars(WriterDrain)
    /\ WF_vars(WriteSucceeds \/ WriteFails) /\ WF_vars(CompleteReliable)
    /\ WF_vars(CloseDone)

-----------------------------------------------------------------------------
(* Correctness. *)

TypeOK ==
    /\ tick \in Tick /\ control \in Seq(Tick) /\ Len(control) <= ControlCapacity
    /\ snapshots \in Tick /\ deferredLatest \in Tick /\ terminalHandoff \in Tick
    /\ reliablePending \in 0..ControlCapacity + 1
    /\ terminal \in BOOLEAN /\ done \in BOOLEAN
    /\ closing \in SUBSET {"room", "lifecycle", "reader", "writer", "other"}
    /\ writer \in {"poll", "wait", "drain", "write", "complete", "stopped"}
    /\ ending \in Tick
    /\ hand \in [kind : {"none", "payload", "approval", "snapshot", "terminal", "gameEnd"},
                 tick : Tick]
    /\ plain \in 0..MaxPlain
    /\ received \in Tick /\ owed \in SUBSET Tick /\ over \in BOOLEAN

\* Where the approvals stand in a control queue.
Approvals(queue) == {i \in DOMAIN queue : queue[i] # 0}

\* While the session is open, reliablePending counts the approvals in the queue
\* and in the writer's hands, through terminal drains and full queues alike.
PendingIsExact ==
    ~done /\ writer # "stopped" =>
        reliablePending =
            Cardinality(Approvals(control))
            + (IF writer \in {"write", "complete"} /\ hand.kind = "approval" THEN 1 ELSE 0)

\* A snapshot is parked in one place: in the slot when no approval is pending,
\* behind the pending approvals otherwise, so the newest can neither overtake an
\* approval nor wait for one that is not there.
ParkedOnce ==
    ~done /\ writer # "stopped" =>
        /\ snapshots # 0 => reliablePending = 0 /\ deferredLatest = 0
        /\ deferredLatest # 0 => reliablePending > 0

\* The room's side of the queues and the writer's agree on what is pending,
\* whoever closes and whatever is full: counter, slots and queue tell one story.
QueuesAgree == TypeOK /\ PendingIsExact /\ ParkedOnce

\* GameEnd leaves nothing behind that the session had accepted before.
ControlBeforeGameEnd == [][over' /\ ~over => control = <<>> /\ snapshots = 0]_vars

\* The client's view is the one SnapshotFeed promises: ticks in order, approvals
\* never skipped, GameEnd last and after the final snapshot.
Feed == INSTANCE SnapshotFeed WITH offered <- tick
ImplementsFeed == Feed!Spec

\* The newest snapshot of a live session reaches the client, also when it was
\* deferred behind approvals and the room falls silent.
LatestArrives == \A t \in 1..MaxTick : (tick = t) ~> (tick > t \/ received = t \/ done)

\* A session that was handed its GameEnd is closed, so the cleanup that waits
\* for it ends.
TerminalCloses == terminal ~> done

\* What ai-docs/architecture.md says of malformed frames: an error is sent and
\* the connection is kept (as long as the control queue has room for the error).
MalformedFrameKeepsConnection ==
    [][plain' # plain /\ HasRoom => closing' = closing]_vars
=============================================================================
