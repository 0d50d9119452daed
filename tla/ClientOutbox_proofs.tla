------------------------- MODULE ClientOutbox_proofs --------------------------
(***************************************************************************)
(* Proofs about ClientOutbox, for every capacity of the control queue and  *)
(* every length of the match: the queues agree, GameEnd leaves nothing     *)
(* behind, and the outbox implements SnapshotFeed.                         *)
(***************************************************************************)
EXTENDS ClientOutbox, FiniteSetTheorems, SequenceTheorems, TLAPS

-----------------------------------------------------------------------------
(* Control queues: the approvals in one, their ticks, and their order, are   *)
(* all that the proofs below say of a queue.                                 *)

Count(queue)  == Cardinality(Approvals(queue))
Queued(queue) == {queue[i] : i \in Approvals(queue)}
Sorted(queue) == \A i, j \in Approvals(queue) : i < j => queue[i] < queue[j]

LEMMA EmptyQueue == Count(<<>>) = 0 /\ Queued(<<>>) = {} /\ Sorted(<<>>)
  <1>1. Approvals(<<>>) = {}
    BY DEF Approvals
  <1>2. QED
    BY <1>1, FS_EmptySet DEF Count, Queued, Sorted

LEMMA ApprovalsFinite ==
    ASSUME NEW queue \in Seq(Nat)
    PROVE  /\ IsFiniteSet(Approvals(queue)) /\ Count(queue) \in Nat
           /\ Count(queue) <= Len(queue)
           /\ Queued(queue) \subseteq Nat \ {0}
           /\ Count(queue) = 0 <=> Queued(queue) = {}
  <1>1. Approvals(queue) \subseteq 1..Len(queue) /\ Len(queue) \in Nat
    BY DEF Approvals
  <1>2. IsFiniteSet(1..Len(queue)) /\ Cardinality(1..Len(queue)) = Len(queue)
    <2>1. IsFiniteSet(1..Len(queue)) /\ Cardinality(1..Len(queue)) =
             IF 1 > Len(queue) THEN 0 ELSE Len(queue) - 1 + 1
      BY <1>1, FS_Interval
    <2>2. QED
      BY <1>1, <2>1
  <1>3. IsFiniteSet(Approvals(queue)) /\ Cardinality(Approvals(queue)) <= Len(queue)
    BY <1>1, <1>2, FS_Subset
  <1>4. Cardinality(Approvals(queue)) \in Nat
    BY <1>3, FS_CardinalityType
  <1>5. Cardinality(Approvals(queue)) = 0 <=> Approvals(queue) = {}
    BY <1>3, FS_EmptySet
  <1>6. QED
    BY <1>1, <1>3, <1>4, <1>5 DEF Count, Queued, Approvals

\* Queueing at the end.
LEMMA QueueAppend ==
    ASSUME NEW queue \in Seq(Nat), NEW c \in Nat
    PROVE  /\ Append(queue, c) \in Seq(Nat) /\ Len(Append(queue, c)) = Len(queue) + 1
           /\ Count(Append(queue, c)) = Count(queue) + (IF c = 0 THEN 0 ELSE 1)
           /\ Queued(Append(queue, c)) = Queued(queue) \cup ({c} \ {0})
           /\ Sorted(queue) /\ (\A t \in Queued(queue) : t < c) => Sorted(Append(queue, c))
           /\ Sorted(queue) /\ c = 0 => Sorted(Append(queue, c))
  <1> DEFINE longer == Append(queue, c)
  <1>1. /\ longer \in Seq(Nat) /\ Len(longer) = Len(queue) + 1 /\ Len(queue) \in Nat
        /\ DOMAIN queue = 1..Len(queue) /\ DOMAIN longer = 1..(Len(queue) + 1)
        /\ longer[Len(queue) + 1] = c
        /\ \A i \in 1..Len(queue) : longer[i] = queue[i]
    OBVIOUS
  <1> HIDE DEF longer
  <1>2. CASE c = 0
    <2>1. Approvals(longer) = Approvals(queue)
      BY <1>1, <1>2 DEF Approvals
    <2>2. \A i \in Approvals(queue) : longer[i] = queue[i]
      BY <1>1 DEF Approvals
    <2>3. Queued(longer) = Queued(queue) /\ (Sorted(queue) => Sorted(longer))
      BY <2>1, <2>2 DEF Queued, Sorted
    <2>4. QED
      BY <1>1, <1>2, <2>1, <2>3, ApprovalsFinite DEF Count, longer
  <1>3. CASE c # 0
    <2>1. Approvals(longer) = Approvals(queue) \cup {Len(queue) + 1}
          /\ Len(queue) + 1 \notin Approvals(queue)
      BY <1>1, <1>3 DEF Approvals
    <2>2. \A i \in Approvals(queue) : longer[i] = queue[i] /\ i < Len(queue) + 1 /\ i \in Nat
      BY <1>1 DEF Approvals
    <2>3. Queued(longer) = Queued(queue) \cup {c}
      <3>1. Queued(longer) = {longer[i] : i \in Approvals(queue)} \cup {longer[Len(queue) + 1]}
        BY <2>1 DEF Queued
      <3>2. {longer[i] : i \in Approvals(queue)} = Queued(queue)
        BY <2>2 DEF Queued
      <3>3. QED
        BY <1>1, <3>1, <3>2
    <2>4. Count(longer) = Count(queue) + 1
      BY <2>1, ApprovalsFinite, FS_AddElement DEF Count
    <2>5. ASSUME Sorted(queue), \A t \in Queued(queue) : t < c
          PROVE  Sorted(longer)
      <3> SUFFICES ASSUME NEW i \in Approvals(longer), NEW j \in Approvals(longer), i < j
                   PROVE  longer[i] < longer[j]
        BY DEF Sorted
      <3>1. i \in Approvals(queue)
        BY <1>1, <2>1, <2>2
      <3>2. CASE j \in Approvals(queue)
        BY <2>2, <2>5, <3>1, <3>2 DEF Sorted
      <3>3. CASE j = Len(queue) + 1
        BY <1>1, <2>2, <2>5, <3>1, <3>3 DEF Queued
      <3>4. QED
        BY <2>1, <3>2, <3>3
    <2>6. QED
      BY <1>1, <1>3, <2>3, <2>4, <2>5 DEF longer
  <1>4. QED
    BY <1>2, <1>3

\* Taking from the head.
LEMMA QueueTail ==
    ASSUME NEW queue \in Seq(Nat), queue # <<>>
    PROVE  /\ Head(queue) \in Nat /\ Tail(queue) \in Seq(Nat)
           /\ Len(Tail(queue)) = Len(queue) - 1
           /\ Count(queue) = Count(Tail(queue)) + (IF Head(queue) = 0 THEN 0 ELSE 1)
           /\ Queued(queue) = Queued(Tail(queue)) \cup ({Head(queue)} \ {0})
           /\ Sorted(queue) => /\ Sorted(Tail(queue))
                               /\ Head(queue) # 0 =>
                                     \A t \in Queued(Tail(queue)) : Head(queue) < t
  <1> DEFINE rest == Tail(queue)
             n    == Len(queue)
  <1>1. /\ rest \in Seq(Nat) /\ n \in Nat \ {0} /\ Len(rest) = n - 1
        /\ Head(queue) = queue[1] /\ queue[1] \in Nat
        /\ \A i \in 1..(n - 1) : rest[i] = queue[i + 1]
    OBVIOUS
  <1> DEFINE later == {i \in Approvals(queue) : i # 1}
  <1> HIDE DEF rest
  <1>2. /\ \A i \in Approvals(rest) : i \in Nat /\ i >= 1 /\ i + 1 \in later /\ rest[i] = queue[i + 1]
        /\ \A j \in later : j \in Nat /\ j - 1 \in Approvals(rest) /\ rest[j - 1] = queue[j]
    <2>1. /\ \A i : i \in Approvals(rest) <=> i \in 1..(n - 1) /\ rest[i] # 0
          /\ \A j : j \in later <=> j \in 1..n /\ queue[j] # 0 /\ j # 1
      BY <1>1 DEF Approvals
    <2> HIDE DEF later, n
    <2>2. ASSUME NEW i \in Approvals(rest)
          PROVE  i \in Nat /\ i >= 1 /\ i + 1 \in later /\ rest[i] = queue[i + 1]
      <3>1. i \in 1..(n - 1) /\ rest[i] = queue[i + 1] /\ queue[i + 1] # 0
        BY <1>1, <2>1
      <3>2. i + 1 \in 1..n /\ i + 1 # 1
        BY <1>1, <3>1
      <3>3. QED
        BY <2>1, <3>1, <3>2
    <2>3. ASSUME NEW j \in later
          PROVE  j \in Nat /\ j - 1 \in Approvals(rest) /\ rest[j - 1] = queue[j]
      <3>1. j \in 1..n /\ queue[j] # 0 /\ j # 1
        BY <2>1
      <3>2. j - 1 \in 1..(n - 1) /\ (j - 1) + 1 = j
        BY <1>1, <3>1
      <3>3. rest[j - 1] = queue[j]
        BY <1>1, <3>2
      <3>4. QED
        BY <2>1, <3>1, <3>2, <3>3
    <2>4. QED
      BY <2>2, <2>3
  <1>3. IsFiniteSet(later) /\ IsFiniteSet(Approvals(rest)) /\ IsFiniteSet(Approvals(queue))
    BY <1>1, ApprovalsFinite, FS_Subset
  <1>4. Cardinality(later) = Cardinality(Approvals(rest))
    <2> DEFINE f == [i \in Approvals(rest) |-> i + 1]
    <2>1. f \in [Approvals(rest) -> later]
      BY <1>2
    <2>2. \A a, b \in Approvals(rest) : a # b => f[a] # f[b]
      BY <1>2
    <2>3. \A j \in later : \E i \in Approvals(rest) : f[i] = j
      <3> SUFFICES ASSUME NEW j \in later PROVE f[j - 1] = j /\ j - 1 \in Approvals(rest)
        OBVIOUS
      <3>1. QED
        BY <1>2
    <2>4. f \in Bijection(Approvals(rest), later)
      <3> HIDE DEF f, later
      <3>1. QED
        BY <2>1, <2>2, <2>3 DEF Bijection, Injection, Surjection, IsInjective
    <2>5. QED
      BY <1>3, <2>4, FS_Bijection DEF ExistsBijection
  <1>5. /\ Head(queue) = 0 => Approvals(queue) = later
        /\ Head(queue) # 0 => Approvals(queue) = later \cup {1} /\ 1 \notin later
    BY <1>1 DEF Approvals
  <1>6. Count(queue) = Count(rest) + (IF Head(queue) = 0 THEN 0 ELSE 1)
    <2>1. Cardinality(Approvals(rest)) \in Nat
      BY <1>3, FS_CardinalityType
    <2>2. Head(queue) # 0 => Cardinality(Approvals(queue)) = Cardinality(later) + 1
      BY <1>3, <1>5, FS_AddElement
    <2> HIDE DEF later
    <2>3. QED
      BY <1>4, <1>5, <2>1, <2>2 DEF Count
  <1>7. {queue[j] : j \in later} = Queued(rest)
    BY <1>2 DEF Queued
  <1>8. Queued(queue) = Queued(rest) \cup ({Head(queue)} \ {0})
    <2>1. CASE Head(queue) = 0
      BY <1>5, <1>7, <2>1 DEF Queued
    <2>2. CASE Head(queue) # 0
      <3>1. Queued(queue) = {queue[j] : j \in later} \cup {queue[1]}
        <4> HIDE DEF later
        <4>1. QED
          BY <1>5, <2>2 DEF Queued
      <3>2. QED
        BY <1>1, <1>7, <2>2, <3>1
    <2>3. QED
      BY <2>1, <2>2
  <1>9. ASSUME Sorted(queue)
        PROVE  Sorted(rest) /\ (Head(queue) # 0 => \A t \in Queued(rest) : Head(queue) < t)
    <2>1. Sorted(rest)
      BY <1>2, <1>9 DEF Sorted
    <2>2. Head(queue) # 0 => \A j \in later : queue[1] < queue[j]
      <3>1. \A j \in later : j \in Nat /\ j >= 1 /\ j # 1
        BY <1>1 DEF Approvals
      <3>2. QED
        BY <1>5, <1>9, <3>1 DEF Sorted
    <2>3. QED
      BY <1>1, <1>7, <2>1, <2>2
  <1>10. QED
    BY <1>1, <1>6, <1>8, <1>9 DEF rest
-----------------------------------------------------------------------------
(* The inductive invariant. *)

Running == writer # "stopped"
Writing(kinds) == writer = "write" /\ hand.kind \in kinds
\* The writer is about to deliver hand.tick.
Delivering == Writing({"approval", "snapshot", "terminal"})
\* The approval in the writer's hands, before and after its write.
Handling == writer \in {"write", "complete"} /\ hand.kind = "approval"
\* The approvals that the queue and the writer still hold for the client.
Held == Queued(control) \cup (IF Writing({"approval"}) THEN {hand.tick} ELSE {})

\* The writer's place fits the command in its hand and the handoff it works on.
WriterFits ==
    /\ writer = "complete" => hand.kind = "approval"
    /\ writer = "drain" => ending # 0
    /\ writer = "write" => hand.kind # "none"
    /\ writer \in {"poll", "wait"} => ending = 0
    /\ Writing({"snapshot"}) => ending = 0
    /\ Writing({"terminal", "gameEnd"}) => ending # 0 /\ control = <<>>
    /\ Writing({"terminal"}) => hand.tick = ending
    /\ Delivering => hand.tick # 0
    /\ over => writer = "stopped"

\* The handoff of GameEnd is in its slot or with the writer, and nothing is
\* parked beside it.
HandoffOnce ==
    /\ terminal => snapshots = 0 /\ deferredLatest = 0
    /\ ~terminal => terminalHandoff = 0 /\ ending = 0
    /\ Running /\ terminal => /\ tick # 0
                              /\ \/ terminalHandoff = tick /\ ending = 0
                                 \/ terminalHandoff = 0 /\ ending = tick

\* While the writer runs the counter is exact, also once done is closed; a
\* writer that stops leaves at most one approval counted that nobody holds.
CounterExact ==
    /\ Running => reliablePending = Count(control) + (IF Handling THEN 1 ELSE 0)
    /\ reliablePending <= Count(control) + 1

ParkedInOnePlace ==
    Running => /\ snapshots # 0 => reliablePending = 0 /\ deferredLatest = 0
               /\ deferredLatest # 0 => reliablePending > 0

\* The client is owed what is held for it, but for the one approval that found
\* the queue full: the room closes the session for it and hands it nothing more.
Rejected ==
    /\ owed = Held \cup {tick} /\ tick # 0
    /\ "room" \in closing \/ done
    /\ ~terminal /\ snapshots = 0 /\ deferredLatest = 0
OwedIsHeld == Running => owed = Held \/ Rejected

\* What the client has, what the writer delivers and what is queued lie before l.
Before(l) ==
    /\ received < l
    /\ \A t \in Queued(control) : t < l
    /\ Delivering => hand.tick < l

\* The client's last tick, the writer's, the queue and what is parked are in
\* tick order.
InOrder ==
    Running =>
        /\ Before(tick + 1)
        /\ Sorted(control)
        /\ \A t \in Queued(control) : received < t
        /\ Delivering => received < hand.tick /\ \A t \in Queued(control) : hand.tick < t
        /\ snapshots # 0 => snapshots <= tick /\ Before(snapshots)
        /\ deferredLatest # 0 => deferredLatest <= tick /\ Before(deferredLatest)
        /\ owed # Held => Before(tick)
        /\ terminal /\ ~Writing({"terminal", "gameEnd"}) => Before(tick)
        /\ Writing({"gameEnd"}) => received = tick

OutboxInv ==
    /\ TypeOK
    /\ WriterFits
    /\ HandoffOnce
    /\ CounterExact
    /\ ParkedInOnePlace
    /\ OwedIsHeld
    /\ InOrder

LEMMA OutboxInit == Init => OutboxInv
  <1> SUFFICES ASSUME Init PROVE OutboxInv
    OBVIOUS
  <1>1. TypeOK
    <2>1. control \in Seq(Tick) /\ Len(control) = 0
      BY DEF Init
    <2>2. /\ 0 \in Tick /\ 0 \in 0..MaxPlain /\ 0 \in 0..ControlCapacity + 1
          /\ ControlCapacity \in Nat /\ 0 <= ControlCapacity
      BY OutboxAssumption DEF Tick
    <2>3. hand \in [kind : {"none", "payload", "approval", "snapshot", "terminal", "gameEnd"},
                    tick : Tick]
      BY <2>2 DEF Init, Nothing
    <2>4. QED
      BY <2>1, <2>2, <2>3 DEF Init, TypeOK
  <1>2. Count(control) = 0 /\ Queued(control) = {} /\ Sorted(control)
    BY EmptyQueue DEF Init
  <1>3. WriterFits /\ HandoffOnce
    BY DEF Init, WriterFits, HandoffOnce, Writing, Delivering, Nothing
  <1>4. CounterExact /\ ParkedInOnePlace
    BY <1>2 DEF Init, CounterExact, ParkedInOnePlace, Handling, Nothing
  <1>5. OwedIsHeld /\ InOrder
    BY <1>2 DEF Init, OwedIsHeld, InOrder, Held, Before, Delivering, Writing, Nothing
  <1>6. QED
    BY <1>1, <1>3, <1>4, <1>5 DEF OutboxInv

\* What the type invariant says of the queue.
LEMMA QueueTyped ==
    ASSUME TypeOK
    PROVE  /\ control \in Seq(Nat) /\ Count(control) \in Nat
           /\ Count(control) <= ControlCapacity
           /\ Queued(control) \subseteq Nat \ {0}
           /\ tick \in Nat /\ received \in Nat /\ snapshots \in Nat /\ deferredLatest \in Nat
           /\ ending \in Nat /\ terminalHandoff \in Nat /\ hand.tick \in Nat
           /\ reliablePending \in Nat
  <1>1. Tick \subseteq Nat /\ ControlCapacity \in Nat
    BY OutboxAssumption DEF Tick
  <1>2. control \in Seq(Nat) /\ Len(control) \in Nat /\ Len(control) <= ControlCapacity
    <2>1. control \in Seq(Tick) /\ Len(control) <= ControlCapacity
      BY DEF TypeOK
    <2>2. control \in Seq(Nat)
      BY <1>1, <2>1, SeqMonotonic
    <2>3. QED
      BY <2>1, <2>2
  <1>3. Count(control) \in Nat /\ Count(control) <= Len(control)
        /\ Queued(control) \subseteq Nat \ {0}
    BY <1>2, ApprovalsFinite
  <1>4. Count(control) <= ControlCapacity
    BY <1>1, <1>2, <1>3
  <1>5. reliablePending \in Nat
    BY <1>1 DEF TypeOK
  <1>6. QED
    BY <1>1, <1>2, <1>3, <1>4, <1>5 DEF TypeOK

-----------------------------------------------------------------------------
(* The room's side. *)

\* While the session is open and the room is not closing it, nothing accepted
\* is missing.
LEMMA NothingRejected ==
    ASSUME OwedIsHeld, Running, ~done, "room" \notin closing
    PROVE  owed = Held
  BY DEF OwedIsHeld, Rejected

\* The tick is parked in the slot, or behind the approvals.
LEMMA EnqueueSnapshotKeeps ==
    ASSUME OutboxInv, EnqueueSnapshot
    PROVE  OutboxInv'
  <1> USE DEF queueVars, writerVars, clientVars
  <1>1. /\ ~terminal /\ ~done /\ "room" \notin closing /\ tick < MaxTick /\ tick' = tick + 1
        /\ UNCHANGED <<control, reliablePending, terminal, terminalHandoff, done, closing,
                       writer, ending, hand, plain, received, owed, over>>
        /\ \/ reliablePending > 0 /\ deferredLatest' = tick + 1 /\ UNCHANGED snapshots
           \/ ~(reliablePending > 0) /\ snapshots' = tick + 1 /\ UNCHANGED deferredLatest
    BY DEF EnqueueSnapshot, Open, NextTick
  <1>q. /\ Queued(control) \subseteq Nat \ {0}
        /\ tick \in Nat /\ received \in Nat /\ snapshots \in Nat /\ deferredLatest \in Nat
        /\ hand.tick \in Nat /\ reliablePending \in Nat
    BY QueueTyped DEF OutboxInv
  <1>2. TypeOK'
    BY <1>1, <1>q, OutboxAssumption DEF OutboxInv, TypeOK, Tick
  <1>3. WriterFits' /\ HandoffOnce' /\ CounterExact'
    BY <1>1 DEF OutboxInv, WriterFits, HandoffOnce, CounterExact, Writing, Delivering,
       Handling, Running
  <1>4. ParkedInOnePlace'
    BY <1>1, <1>q DEF OutboxInv, ParkedInOnePlace, Running
  <1>5. Held' = Held /\ Running' = Running
    BY <1>1 DEF Held, Writing, Running
  <1>6. Running => owed = Held
    BY <1>1, NothingRejected DEF OutboxInv
  <1>7. ASSUME Running
        PROVE  /\ Before(tick + 1)' /\ Before(tick + 1)
               /\ Before(snapshots)' \/ snapshots' = 0
               /\ Before(deferredLatest)' \/ deferredLatest' = 0
    <2>1. /\ Before(tick + 1)
          /\ snapshots # 0 => snapshots <= tick /\ Before(snapshots)
          /\ deferredLatest # 0 => deferredLatest <= tick /\ Before(deferredLatest)
      BY <1>7 DEF OutboxInv, InOrder
    <2>2. QED
      BY <1>1, <1>q, <2>1 DEF Before, Writing, Delivering
  <1>8. InOrder'
    <2> SUFFICES ASSUME Running' PROVE InOrder'
      BY DEF InOrder
    <2>1. Running
      BY <1>5
    <2>2. /\ Sorted(control)' /\ Queued(control)' = Queued(control)
          /\ Delivering' = Delivering /\ ~terminal'
          /\ \A t \in Queued(control) : received < t
          /\ Delivering => received < hand.tick /\ \A t \in Queued(control) : hand.tick < t
          /\ ~Writing({"gameEnd"})'
      BY <1>1, <2>1 DEF OutboxInv, InOrder, Delivering, Writing, WriterFits, HandoffOnce
    <2>3. owed' = Held'
      BY <1>1, <1>5, <1>6, <2>1
    <2>4. snapshots' # 0 => snapshots' <= tick'
      BY <1>1, <1>q, <2>1 DEF OutboxInv, InOrder
    <2>5. deferredLatest' # 0 => deferredLatest' <= tick'
      BY <1>1, <1>q, <2>1 DEF OutboxInv, InOrder
    <2>6. Before(tick + 1)'
      BY <1>7, <2>1
    <2>7. QED
      BY <1>1, <1>7, <2>1, <2>2, <2>3, <2>4, <2>5, <2>6 DEF InOrder
  <1>9. QED
    BY <1>1, <1>2, <1>3, <1>4, <1>5, <1>6, <1>8 DEF OutboxInv, OwedIsHeld

\* An approval clears what is parked; it is queued, or the room closes the
\* session and hands it nothing more.
LEMMA EnqueueApprovalKeeps ==
    ASSUME OutboxInv, EnqueueSkillApproval
    PROVE  OutboxInv'
  <1> USE DEF queueVars, writerVars, clientVars
  <1>1. /\ ~terminal /\ ~done /\ "room" \notin closing /\ tick < MaxTick /\ tick' = tick + 1
        /\ snapshots' = 0 /\ deferredLatest' = 0 /\ owed' = owed \cup {tick + 1}
        /\ UNCHANGED <<terminal, terminalHandoff, done, writer, ending, hand, plain, received, over>>
        /\ \/ /\ Len(control) < ControlCapacity /\ control' = Append(control, tick + 1)
              /\ reliablePending' = reliablePending + 1 /\ UNCHANGED closing
           \/ closing' = closing \cup {"room"} /\ UNCHANGED <<control, reliablePending>>
    BY DEF EnqueueSkillApproval, Open, HasRoom, NextTick
  <1>q. /\ control \in Seq(Nat) /\ Queued(control) \subseteq Nat \ {0} /\ Count(control) \in Nat
        /\ tick \in Nat /\ received \in Nat /\ hand.tick \in Nat /\ reliablePending \in Nat
        /\ Count(control) <= Len(control) /\ Len(control) \in Nat
    BY QueueTyped, ApprovalsFinite DEF OutboxInv
  <1>2. ~Writing({"terminal", "gameEnd"})
    BY <1>1 DEF OutboxInv, WriterFits, HandoffOnce
  <1>3. Running => owed = Held
    BY <1>1, NothingRejected DEF OutboxInv
  <1>4. CASE control' = Append(control, tick + 1) /\ reliablePending' = reliablePending + 1
             /\ Len(control) < ControlCapacity /\ UNCHANGED closing
    <2>1. /\ control' \in Seq(Nat) /\ Len(control') = Len(control) + 1
          /\ Count(control') = Count(control) + 1
          /\ Queued(control') = Queued(control) \cup {tick + 1}
          /\ Sorted(control) /\ (\A t \in Queued(control) : t < tick + 1) => Sorted(control')
      BY <1>q, <1>4, QueueAppend
    <2>2. TypeOK'
      <3>1. control' \in Seq(Tick)
        <4>1. tick + 1 \in Tick /\ control \in Seq(Tick)
          BY <1>1, <1>q, OutboxAssumption DEF OutboxInv, TypeOK, Tick
        <4>2. QED
          BY <1>4, <4>1, AppendProperties
      <3>2. reliablePending' \in 0..ControlCapacity + 1
        BY <1>4, <1>q, OutboxAssumption DEF OutboxInv, CounterExact
      <3>3. QED
        BY <1>1, <1>4, <1>q, <2>1, <3>1, <3>2, OutboxAssumption DEF OutboxInv, TypeOK, Tick
    <2>3. WriterFits' /\ HandoffOnce'
      BY <1>1, <1>2 DEF OutboxInv, WriterFits, HandoffOnce, Writing, Delivering, Running
    <2>4. CounterExact' /\ ParkedInOnePlace'
      BY <1>1, <1>4, <1>q, <2>1 DEF OutboxInv, CounterExact, ParkedInOnePlace, Handling, Running
    <2>5. Held' = Held \cup {tick + 1} /\ Running' = Running
      BY <1>1, <2>1 DEF Held, Writing, Running
    <2>6. OwedIsHeld'
      BY <1>1, <1>3, <2>5 DEF OwedIsHeld
    <2>7. InOrder'
      BY <1>1, <1>2, <1>3, <1>q, <2>1, <2>5
         DEF OutboxInv, InOrder, Before, Writing, Delivering, Running
    <2>8. QED
      BY <2>2, <2>3, <2>4, <2>6, <2>7 DEF OutboxInv
  <1>5. CASE closing' = closing \cup {"room"} /\ UNCHANGED <<control, reliablePending>>
    <2>1. TypeOK'
      BY <1>1, <1>5, <1>q, OutboxAssumption DEF OutboxInv, TypeOK, Tick
    <2>2. WriterFits' /\ HandoffOnce' /\ CounterExact' /\ ParkedInOnePlace'
      BY <1>1, <1>5, <1>2 DEF OutboxInv, WriterFits, HandoffOnce, CounterExact, ParkedInOnePlace,
         Writing, Delivering, Handling, Running
    <2>3. Held' = Held /\ Running' = Running
      BY <1>1, <1>5 DEF Held, Writing, Running
    <2>4. OwedIsHeld'
      BY <1>1, <1>3, <1>5, <1>q, <2>3 DEF OwedIsHeld, Rejected
    <2>5. InOrder'
      BY <1>1, <1>2, <1>3, <1>5, <1>q, <2>3
         DEF OutboxInv, InOrder, Before, Writing, Delivering, Running
    <2>6. QED
      BY <2>1, <2>2, <2>4, <2>5 DEF OutboxInv
  <1>6. QED
    BY <1>1, <1>4, <1>5

\* The handoff clears what is parked, and no tick comes after it.
LEMMA EnqueueTerminalKeeps ==
    ASSUME OutboxInv, EnqueueTerminal
    PROVE  OutboxInv'
  <1> USE DEF queueVars, writerVars, clientVars
  <1>1. /\ ~terminal /\ ~done /\ "room" \notin closing /\ tick < MaxTick /\ tick' = tick + 1
        /\ snapshots' = 0 /\ deferredLatest' = 0 /\ terminal' = TRUE /\ terminalHandoff' = tick + 1
        /\ UNCHANGED <<control, reliablePending, done, closing, writer, ending, hand, plain,
                       received, owed, over>>
    BY DEF EnqueueTerminal, Open, NextTick
  <1>q. /\ Queued(control) \subseteq Nat \ {0}
        /\ tick \in Nat /\ received \in Nat /\ hand.tick \in Nat
    BY QueueTyped DEF OutboxInv
  <1>2. ending = 0 /\ ~Writing({"terminal", "gameEnd"})
    BY <1>1 DEF OutboxInv, WriterFits, HandoffOnce
  <1>3. Running => owed = Held
    BY <1>1, NothingRejected DEF OutboxInv
  <1>4. TypeOK'
    BY <1>1, <1>q, OutboxAssumption DEF OutboxInv, TypeOK, Tick
  <1>5. WriterFits' /\ HandoffOnce' /\ CounterExact' /\ ParkedInOnePlace'
    BY <1>1, <1>2, <1>q DEF OutboxInv, WriterFits, HandoffOnce, CounterExact, ParkedInOnePlace,
       Writing, Delivering, Handling, Running
  <1>6. Held' = Held /\ Running' = Running
    BY <1>1 DEF Held, Writing, Running
  <1>7. InOrder'
    BY <1>1, <1>2, <1>3, <1>q, <1>6 DEF OutboxInv, InOrder, Before, Writing, Delivering, Running
  <1>8. QED
    BY <1>1, <1>3, <1>4, <1>5, <1>6, <1>7 DEF OutboxInv, OwedIsHeld

\* Another payload is queued, or somebody starts to close the session.
LEMMA PayloadKeeps ==
    ASSUME OutboxInv, NEW who \in {"lifecycle", "reader", "other"},
           \/ OfferControl(who) /\ ~terminal
           \/ closing' = closing \cup {who} /\ UNCHANGED control,
           plain' \in 0..MaxPlain,
           UNCHANGED <<tick, snapshots, deferredLatest, reliablePending, terminal,
                       terminalHandoff, done, writer, ending, hand, received, owed, over>>
    PROVE  OutboxInv'
  <1>1. \/ /\ ~terminal /\ Len(control) < ControlCapacity /\ control' = Append(control, 0)
           /\ UNCHANGED closing
        \/ closing' = closing \cup {who} /\ UNCHANGED control
    BY DEF OfferControl, HasRoom
  <1>q. control \in Seq(Nat) /\ Len(control) \in Nat
    BY QueueTyped DEF OutboxInv
  <1>2. /\ Count(control') = Count(control) /\ Queued(control') = Queued(control)
        /\ Sorted(control) => Sorted(control')
    <2>1. CASE control' = Append(control, 0)
      <3>1. /\ Count(Append(control, 0)) = Count(control) + 0
            /\ Queued(Append(control, 0)) = Queued(control) \cup ({0} \ {0})
            /\ Sorted(control) => Sorted(Append(control, 0))
        BY <1>q, QueueAppend
      <3>2. Count(control) \in Nat
        BY <1>q, ApprovalsFinite
      <3>3. Count(Append(control, 0)) = Count(control)
        BY <3>1, <3>2
      <3>4. Queued(Append(control, 0)) = Queued(control)
        BY <3>1
      <3>5. QED
        BY <2>1, <3>1, <3>3, <3>4, Zenon
    <2>2. CASE UNCHANGED control
      BY <2>2
    <2>3. QED
      BY <1>1, <2>1, <2>2
  <1>3. TypeOK'
    <2>1. 0 \in Tick
      BY OutboxAssumption DEF Tick
    <2>2. control \in Seq(Tick) /\ Len(control) <= ControlCapacity
      BY DEF OutboxInv, TypeOK
    <2>3. control' \in Seq(Tick) /\ Len(control') <= ControlCapacity
      BY <1>1, <1>q, <2>1, <2>2, AppendProperties, OutboxAssumption
    <2>4. QED
      BY <1>1, <2>3 DEF OutboxInv, TypeOK
  <1>4. WriterFits'
    <2>1. ~terminal => ~Writing({"terminal", "gameEnd"})
      BY DEF OutboxInv, WriterFits, HandoffOnce
    <2>2. QED
      BY <1>1, <2>1 DEF OutboxInv, WriterFits, Writing, Delivering
  <1>5. HandoffOnce' /\ CounterExact' /\ ParkedInOnePlace'
    BY <1>2 DEF OutboxInv, HandoffOnce, CounterExact, ParkedInOnePlace, Handling, Running
  <1>6. Held' = Held /\ (Rejected => Rejected')
    BY <1>1, <1>2 DEF Held, Rejected, Writing
  <1>7. OwedIsHeld' /\ InOrder'
    BY <1>2, <1>6 DEF OutboxInv, OwedIsHeld, InOrder, Before, Writing, Delivering, Running
  <1>8. QED
    BY <1>3, <1>4, <1>5, <1>7 DEF OutboxInv

LEMMA CloseDoneKeeps ==
    ASSUME OutboxInv, CloseDone
    PROVE  OutboxInv'
  <1> USE DEF queueVars, writerVars, clientVars
  <1>1. /\ done' = TRUE /\ closing' = {}
        /\ UNCHANGED <<tick, control, snapshots, deferredLatest, reliablePending, terminal,
                       terminalHandoff, writer, ending, hand, plain, received, owed, over>>
    BY DEF CloseDone
  <1>2. TypeOK'
    BY <1>1 DEF OutboxInv, TypeOK
  <1>3. WriterFits' /\ HandoffOnce' /\ CounterExact' /\ ParkedInOnePlace'
    BY <1>1 DEF OutboxInv, WriterFits, HandoffOnce, CounterExact, ParkedInOnePlace,
       Writing, Delivering, Handling, Running
  <1>4. Held' = Held /\ (Rejected => Rejected')
    BY <1>1 DEF Held, Rejected, Writing
  <1>5. OwedIsHeld' /\ InOrder'
    BY <1>1, <1>4 DEF OutboxInv, OwedIsHeld, InOrder, Before, Writing, Delivering, Running
  <1>6. QED
    BY <1>2, <1>3, <1>5 DEF OutboxInv
-----------------------------------------------------------------------------
(* The writer. *)

\* Once the writer has stopped, little is left to keep.
LEMMA StoppedKeeps ==
    ASSUME TypeOK', writer' = "stopped",
           terminal' => snapshots' = 0 /\ deferredLatest' = 0,
           ~terminal' => terminalHandoff' = 0 /\ ending' = 0,
           reliablePending' <= Count(control') + 1
    PROVE  OutboxInv'
  BY DEF OutboxInv, WriterFits, HandoffOnce, CounterExact, ParkedInOnePlace, OwedIsHeld, InOrder,
     Writing, Delivering, Running

\* The next command of the control queue.
LEMMA TakeControlKeeps ==
    ASSUME OutboxInv, writer \in {"poll", "wait", "drain"}, TakeControl,
           UNCHANGED <<tick, deferredLatest, reliablePending, terminal, done, closing, plain,
                       received, owed, over>>
    PROVE  OutboxInv'
  <1> DEFINE c == Head(control)
  <1>1. /\ control # <<>> /\ control' = Tail(control)
        /\ UNCHANGED <<snapshots, terminalHandoff, ending>>
        /\ hand' = [kind |-> IF c = 0 THEN "payload" ELSE "approval", tick |-> c]
        /\ writer' = IF done THEN "stopped" ELSE "write"
    BY DEF TakeControl, Begin, Command
  <1>q. /\ control \in Seq(Nat) /\ Count(control) \in Nat
        /\ Queued(control) \subseteq Nat \ {0} /\ Len(control) \in Nat
        /\ tick \in Nat /\ received \in Nat /\ snapshots \in Nat /\ deferredLatest \in Nat
        /\ reliablePending \in Nat
    BY QueueTyped DEF OutboxInv
  <1>2. /\ c \in Nat /\ control' \in Seq(Nat) /\ Len(control') = Len(control) - 1
        /\ Count(control) = Count(control') + (IF c = 0 THEN 0 ELSE 1)
        /\ Queued(control) = Queued(control') \cup ({c} \ {0})
        /\ Sorted(control) => /\ Sorted(control')
                              /\ c # 0 => \A t \in Queued(control') : c < t
    BY <1>1, <1>q, QueueTail
  <1> HIDE DEF c
  <1>c. Count(control') \in Nat
    BY <1>2, ApprovalsFinite
  <1>3. TypeOK'
    <2>1. control \in Seq(Tick)
      BY DEF OutboxInv, TypeOK
    <2>2. control' \in Seq(Tick) /\ c \in Tick
      BY <1>1, <2>1, HeadTailProperties DEF c
    <2>3. hand' \in [kind : {"none", "payload", "approval", "snapshot", "terminal", "gameEnd"},
                     tick : Tick]
      BY <1>1, <2>2
    <2>4. Len(control') <= ControlCapacity
      BY <1>q, <1>2, OutboxAssumption DEF OutboxInv, TypeOK
    <2>5. QED
      BY <1>1, <2>2, <2>3, <2>4 DEF OutboxInv, TypeOK
  <1>4. Running /\ ~Handling /\ ~Delivering /\ ~Writing({"approval"})
        /\ ~Writing({"terminal", "gameEnd"}) /\ ~Writing({"gameEnd"}) /\ Held = Queued(control)
    BY DEF Running, Handling, Delivering, Writing, Held
  <1>5. reliablePending = Count(control)
    BY <1>q, <1>4 DEF OutboxInv, CounterExact
  <1>6. CASE done
    BY <1>1, <1>q, <1>c, <1>2, <1>3, <1>5, <1>6, StoppedKeeps DEF OutboxInv, HandoffOnce
  <1>7. CASE ~done
    <2>0. writer' = "write" /\ hand'.tick = c
          /\ hand'.kind = IF c = 0 THEN "payload" ELSE "approval"
      BY <1>1, <1>7
    <2>1. WriterFits' /\ HandoffOnce'
      BY <1>1, <1>4, <1>7, <2>0 DEF OutboxInv, WriterFits, HandoffOnce, Writing, Delivering, Running
    <2>2. CounterExact' /\ ParkedInOnePlace'
      BY <1>1, <1>q, <1>c, <1>2, <1>4, <1>5, <2>0
         DEF OutboxInv, CounterExact, ParkedInOnePlace, Handling, Running
    <2>3. Held' = Held
      BY <1>2, <1>4, <2>0 DEF Held, Writing
    <2>4. OwedIsHeld'
      BY <1>1, <1>4, <2>3 DEF OutboxInv, OwedIsHeld, Rejected
    <2>5. /\ Sorted(control) /\ \A t \in Queued(control) : received < t
          /\ Before(tick + 1)
          /\ snapshots # 0 => snapshots <= tick /\ Before(snapshots)
          /\ deferredLatest # 0 => deferredLatest <= tick /\ Before(deferredLatest)
          /\ owed # Held => Before(tick)
          /\ terminal => Before(tick)
      BY <1>4 DEF OutboxInv, InOrder
    <2>6. Delivering' => c # 0 /\ c \in Queued(control)
      BY <1>2, <2>0 DEF Delivering, Writing
    <2>7. /\ Before(tick + 1)'
          /\ snapshots' # 0 => snapshots' <= tick' /\ Before(snapshots)'
          /\ deferredLatest' # 0 => deferredLatest' <= tick' /\ Before(deferredLatest)'
          /\ owed' # Held' => Before(tick)'
          /\ terminal' => Before(tick)'
      BY <1>1, <1>q, <1>2, <2>0, <2>3, <2>5, <2>6 DEF Before
    <2>8. /\ Sorted(control)' /\ \A t \in Queued(control)' : received' < t
          /\ Delivering' => received' < hand'.tick /\ \A t \in Queued(control)' : hand'.tick < t
          /\ ~Writing({"gameEnd"})'
      BY <1>1, <1>2, <2>0, <2>5, <2>6 DEF Writing
    <2>9. InOrder'
      BY <2>7, <2>8 DEF InOrder
    <2>10. QED
      BY <1>3, <2>1, <2>2, <2>4, <2>9 DEF OutboxInv
  <1>8. QED
    BY <1>6, <1>7

\* The handoff, taken by the poll or by the select.
LEMMA TakeTerminalKeeps ==
    ASSUME OutboxInv, writer \in {"poll", "wait"}, TakeTerminal,
           UNCHANGED <<tick, deferredLatest, reliablePending, terminal, done, closing, plain,
                       received, owed, over>>
    PROVE  OutboxInv'
  <1>1. /\ terminalHandoff # 0 /\ ending' = terminalHandoff /\ terminalHandoff' = 0
        /\ writer' = "drain" /\ UNCHANGED <<control, snapshots, hand>>
    BY DEF TakeTerminal
  <1>2. terminal /\ tick # 0 /\ terminalHandoff = tick /\ tick \in Tick /\ 0 \in Tick
    BY <1>1, OutboxAssumption DEF OutboxInv, HandoffOnce, Running, TypeOK, Tick
  <1>3. TypeOK'
    BY <1>1, <1>2 DEF OutboxInv, TypeOK
  <1>4. WriterFits' /\ HandoffOnce' /\ CounterExact' /\ ParkedInOnePlace'
    BY <1>1, <1>2 DEF OutboxInv, WriterFits, HandoffOnce, CounterExact, ParkedInOnePlace,
       Writing, Delivering, Handling, Running
  <1>5. Running /\ Held' = Held
    BY <1>1 DEF Held, Writing, Running
  <1>6. OwedIsHeld' /\ InOrder'
    BY <1>1, <1>5 DEF OutboxInv, OwedIsHeld, Rejected, InOrder, Before, Writing, Delivering, Running
  <1>7. QED
    BY <1>3, <1>4, <1>6 DEF OutboxInv

\* The parked snapshot: no approval is queued or in anybody's hands.
LEMMA TakeSnapshotKeeps ==
    ASSUME OutboxInv, writer = "wait", TakeSnapshot,
           UNCHANGED <<tick, deferredLatest, reliablePending, terminal, done, closing, plain,
                       received, owed, over>>
    PROVE  OutboxInv'
  <1>1. /\ snapshots # 0 /\ snapshots' = 0 /\ UNCHANGED <<control, terminalHandoff, ending>>
        /\ hand' = [kind |-> "snapshot", tick |-> snapshots]
        /\ writer' = IF done THEN "stopped" ELSE "write"
    BY DEF TakeSnapshot, Begin
  <1>q. /\ control \in Seq(Nat) /\ Count(control) \in Nat /\ Queued(control) \subseteq Nat \ {0}
        /\ tick \in Nat /\ received \in Nat /\ snapshots \in Nat /\ reliablePending \in Nat
    BY QueueTyped DEF OutboxInv
  <1>2. Running /\ ~Handling /\ ~terminal /\ ending = 0 /\ Held = Queued(control)
        /\ reliablePending = 0 /\ deferredLatest = 0
    BY <1>1 DEF OutboxInv, WriterFits, HandoffOnce, ParkedInOnePlace, Running, Handling, Held, Writing
  <1>3. Count(control) = 0 /\ Queued(control) = {}
    BY <1>2, <1>q, ApprovalsFinite DEF OutboxInv, CounterExact
  <1>4. owed = {} /\ Held = {}
    BY <1>1, <1>2, <1>3 DEF OutboxInv, OwedIsHeld, Rejected
  <1>5. TypeOK'
    <2>1. 0 \in Tick /\ snapshots \in Tick
      BY OutboxAssumption DEF OutboxInv, TypeOK, Tick
    <2>2. hand' \in [kind : {"none", "payload", "approval", "snapshot", "terminal", "gameEnd"},
                     tick : Tick]
      BY <1>1, <2>1
    <2>3. QED
      BY <1>1, <2>1, <2>2 DEF OutboxInv, TypeOK
  <1>6. CASE done
    BY <1>1, <1>2, <1>3, <1>5, <1>6, StoppedKeeps DEF OutboxInv, HandoffOnce
  <1>7. CASE ~done
    <2>1. writer' = "write" /\ hand'.kind = "snapshot" /\ hand'.tick = snapshots
      BY <1>1, <1>7
    <2>2. WriterFits' /\ HandoffOnce' /\ CounterExact' /\ ParkedInOnePlace'
      BY <1>1, <1>2, <1>3, <2>1 DEF OutboxInv, WriterFits, HandoffOnce, CounterExact,
         ParkedInOnePlace, Writing, Delivering, Handling, Running
    <2>3. OwedIsHeld' /\ Held' = {} /\ owed' = {}
      BY <1>1, <1>2, <1>3, <1>4, <2>1 DEF OwedIsHeld, Held, Writing
    <2>4. received < snapshots /\ snapshots <= tick
      BY <1>1, <1>2 DEF OutboxInv, InOrder, Before
    <2>5. Sorted(control)' /\ Queued(control)' = {} /\ ~terminal' /\ ~Writing({"gameEnd"})'
      BY <1>1, <1>2, <1>3, <2>1 DEF OutboxInv, InOrder, Writing
    <2>6. Before(tick + 1)'
      BY <1>q, <2>1, <2>4, <2>5 DEF Before
    <2>7. InOrder'
      BY <1>1, <1>2, <2>1, <2>3, <2>4, <2>5, <2>6 DEF InOrder
    <2>8. QED
      BY <1>5, <2>2, <2>3, <2>7 DEF OutboxInv
  <1>8. QED
    BY <1>6, <1>7

\* The writer sees that done is closed, or a write fails.
LEMMA StopKeeps ==
    ASSUME OutboxInv, writer' = "stopped",
           closing' \in {closing, closing \cup {"writer"}},
           UNCHANGED <<tick, control, snapshots, deferredLatest, reliablePending, terminal,
                       terminalHandoff, done, ending, hand, plain, received, owed, over>>
    PROVE  OutboxInv'
  <1>1. TypeOK'
    BY DEF OutboxInv, TypeOK
  <1>2. QED
    BY <1>1, StoppedKeeps DEF OutboxInv, HandoffOnce, CounterExact

\* The poll finds nothing and the writer goes into the select.
LEMMA WaitKeeps ==
    ASSUME OutboxInv, writer = "poll", writer' = "wait",
           UNCHANGED <<tick, control, snapshots, deferredLatest, reliablePending, terminal,
                       terminalHandoff, done, closing, ending, hand, plain, received, owed, over>>
    PROVE  OutboxInv'
  <1>1. TypeOK'
    BY DEF OutboxInv, TypeOK
  <1>2. WriterFits' /\ HandoffOnce' /\ CounterExact' /\ ParkedInOnePlace'
    BY DEF OutboxInv, WriterFits, HandoffOnce, CounterExact, ParkedInOnePlace, Writing, Delivering,
       Handling, Running
  <1>3. Running /\ Held' = Held
    BY DEF Held, Writing, Running
  <1>4. OwedIsHeld' /\ InOrder'
    BY <1>3 DEF OutboxInv, OwedIsHeld, Rejected, InOrder, Before, Writing, Delivering, Running
  <1>5. QED
    BY <1>1, <1>2, <1>4 DEF OutboxInv

LEMMA WriterLoopKeeps ==
    ASSUME OutboxInv, WriterPoll \/ WriterWait
    PROVE  OutboxInv'
  <1> USE DEF queueVars, writerVars, clientVars
  <1>1. writer \in {"poll", "wait"}
        /\ UNCHANGED <<tick, deferredLatest, reliablePending, terminal, done, closing, plain,
                       received, owed, over>>
    BY DEF WriterPoll, WriterWait
  <1>2. \/ TakeControl
        \/ TakeTerminal
        \/ writer = "wait" /\ TakeSnapshot
        \/ StopWriter
        \/ /\ writer = "poll" /\ writer' = "wait"
           /\ UNCHANGED <<control, snapshots, terminalHandoff, ending, hand>>
    BY DEF WriterPoll, WriterWait
  <1>3. QED
    BY <1>1, <1>2, TakeControlKeeps, TakeTerminalKeeps, TakeSnapshotKeeps, StopKeeps, WaitKeeps
       DEF StopWriter

\* The drain is done: the terminal snapshot is next, and nothing is left before it.
LEMMA WriterDrainKeeps ==
    ASSUME OutboxInv, WriterDrain
    PROVE  OutboxInv'
  <1> USE DEF queueVars, writerVars, clientVars
  <1>1. /\ writer = "drain"
        /\ UNCHANGED <<tick, deferredLatest, reliablePending, terminal, done, closing, plain,
                       received, owed, over>>
        /\ \/ TakeControl
           \/ /\ control = <<>> /\ UNCHANGED <<control, snapshots, terminalHandoff, ending>>
              /\ hand' = [kind |-> "terminal", tick |-> ending]
              /\ writer' = IF done THEN "stopped" ELSE "write"
    BY DEF WriterDrain, Begin
  <1>2. CASE TakeControl
    BY <1>1, <1>2, TakeControlKeeps
  <1>3. CASE ~TakeControl
    <2>1. /\ control = <<>> /\ UNCHANGED <<control, snapshots, terminalHandoff, ending>>
          /\ hand' = [kind |-> "terminal", tick |-> ending]
          /\ writer' = IF done THEN "stopped" ELSE "write"
      BY <1>1, <1>3
    <2>2. Count(control) = 0 /\ Queued(control) = {} /\ Sorted(control)
      BY <2>1, EmptyQueue
    <2>q. tick \in Nat /\ received \in Nat /\ reliablePending \in Nat
      BY QueueTyped DEF OutboxInv
    <2>3. /\ Running /\ ~Handling /\ terminal /\ ending = tick /\ tick # 0 /\ terminalHandoff = 0
          /\ snapshots = 0 /\ deferredLatest = 0
          /\ ~Writing({"terminal", "gameEnd"}) /\ ~Writing({"approval"})
      BY <1>1 DEF OutboxInv, WriterFits, HandoffOnce, Running, Handling, Writing
    <2>4. Held = {} /\ owed = {} /\ reliablePending = 0
      BY <2>2, <2>3 DEF OutboxInv, OwedIsHeld, Rejected, Held, CounterExact
    <2>5. TypeOK'
      <3>1. hand' \in [kind : {"none", "payload", "approval", "snapshot", "terminal", "gameEnd"},
                       tick : Tick]
        BY <2>1 DEF OutboxInv, TypeOK
      <3>2. QED
        BY <1>1, <2>1, <3>1 DEF OutboxInv, TypeOK
    <2>6. CASE done
      BY <1>1, <2>1, <2>2, <2>3, <2>4, <2>5, <2>6, StoppedKeeps
    <2>7. CASE ~done
      <3>1. writer' = "write" /\ hand'.kind = "terminal" /\ hand'.tick = tick
        BY <2>1, <2>3, <2>7
      <3>2. WriterFits' /\ HandoffOnce' /\ CounterExact' /\ ParkedInOnePlace'
        BY <1>1, <2>1, <2>2, <2>3, <2>4, <3>1 DEF OutboxInv, WriterFits, HandoffOnce, CounterExact,
           ParkedInOnePlace, Writing, Delivering, Handling, Running
      <3>3. OwedIsHeld' /\ owed' = Held'
        BY <1>1, <2>1, <2>2, <2>4, <3>1 DEF OwedIsHeld, Held, Writing
      <3>4. received < tick
        BY <2>3 DEF OutboxInv, InOrder, Before
      <3>5. Queued(control)' = {} /\ Sorted(control)' /\ Writing({"terminal", "gameEnd"})'
            /\ ~Writing({"gameEnd"})'
        BY <2>1, <2>2, <3>1 DEF Writing
      <3>6. Before(tick + 1)'
        BY <1>1, <2>q, <3>1, <3>4, <3>5 DEF Before
      <3>7. InOrder'
        BY <1>1, <2>1, <2>3, <3>1, <3>3, <3>4, <3>5, <3>6 DEF InOrder
      <3>8. QED
        BY <2>5, <3>2, <3>3, <3>7 DEF OutboxInv
    <2>8. QED
      BY <2>6, <2>7
  <1>4. QED
    BY <1>2, <1>3

\* A write succeeds: the client has hand.tick, and everything else comes later.
LEMMA WriteSucceedsKeeps ==
    ASSUME OutboxInv, WriteSucceeds
    PROVE  OutboxInv'
  <1> USE DEF queueVars, writerVars, clientVars
  <1>1. /\ writer = "write"
        /\ UNCHANGED <<tick, control, snapshots, deferredLatest, reliablePending, terminal,
                       terminalHandoff, done, ending, plain>>
    BY DEF WriteSucceeds
  <1>q. /\ control \in Seq(Nat) /\ Count(control) \in Nat /\ Queued(control) \subseteq Nat \ {0}
        /\ tick \in Nat /\ received \in Nat /\ reliablePending \in Nat /\ hand.tick \in Nat
        /\ snapshots \in Nat /\ deferredLatest \in Nat
    BY QueueTyped DEF OutboxInv
  <1>h. /\ Running
        /\ hand.kind \in {"payload", "approval", "snapshot", "terminal", "gameEnd"}
        /\ hand.tick \in Tick /\ 0 \in Tick
    BY <1>1, OutboxAssumption DEF OutboxInv, TypeOK, WriterFits, Running, Tick
  <1>r. Resume \in {"poll", "drain"} /\ (Resume = "drain" <=> ending # 0)
    BY DEF Resume
  <1>2. CASE hand.kind = "payload"
    <2>1. writer' = Resume /\ UNCHANGED <<hand, closing, received, owed, over>>
      BY <1>2 DEF WriteSucceeds
    <2>2. TypeOK'
      BY <1>1, <1>r, <2>1 DEF OutboxInv, TypeOK
    <2>3. WriterFits' /\ HandoffOnce' /\ CounterExact' /\ ParkedInOnePlace'
      BY <1>1, <1>2, <1>h, <1>r, <2>1 DEF OutboxInv, WriterFits, HandoffOnce, CounterExact,
         ParkedInOnePlace, Writing, Delivering, Handling, Running
    <2>4. Held' = Held
      BY <1>1, <1>2, <1>r, <2>1 DEF Held, Writing
    <2>5. OwedIsHeld' /\ InOrder'
      BY <1>1, <1>2, <1>h, <1>r, <2>1, <2>4 DEF OutboxInv, OwedIsHeld, Rejected, InOrder, Before,
         Writing, Delivering, Running
    <2>6. QED
      BY <2>2, <2>3, <2>5 DEF OutboxInv
  <1>3. CASE hand.kind = "snapshot"
    <2>1. writer' = Resume /\ received' = hand.tick /\ UNCHANGED <<hand, closing, owed, over>>
      BY <1>3 DEF WriteSucceeds
    <2>2. TypeOK'
      BY <1>1, <1>h, <1>r, <2>1 DEF OutboxInv, TypeOK
    <2>3. WriterFits' /\ HandoffOnce' /\ CounterExact' /\ ParkedInOnePlace'
      BY <1>1, <1>3, <1>h, <1>r, <2>1 DEF OutboxInv, WriterFits, HandoffOnce, CounterExact,
         ParkedInOnePlace, Writing, Delivering, Handling, Running
    <2>4. Held' = Held /\ Running'
      BY <1>1, <1>3, <1>r, <2>1 DEF Held, Writing, Running
    <2>5. OwedIsHeld'
      BY <1>1, <1>h, <2>1, <2>4 DEF OutboxInv, OwedIsHeld, Rejected
    <2>6. Delivering /\ ~Delivering' /\ ~Writing({"terminal", "gameEnd"}) /\ ~Writing({"gameEnd"})'
      BY <1>1, <1>3, <1>r, <2>1 DEF Writing, Delivering
    <2>7. InOrder'
      BY <1>1, <1>h, <2>1, <2>4, <2>6 DEF OutboxInv, InOrder, Before
    <2>8. QED
      BY <2>2, <2>3, <2>5, <2>7 DEF OutboxInv
  <1>4. CASE hand.kind = "approval"
    <2>1. /\ writer' = "complete" /\ received' = hand.tick /\ owed' = owed \ {hand.tick}
          /\ UNCHANGED <<hand, closing, over>>
      BY <1>4 DEF WriteSucceeds
    <2>2. TypeOK'
      BY <1>1, <1>h, <2>1 DEF OutboxInv, TypeOK
    <2>3. WriterFits' /\ HandoffOnce' /\ CounterExact' /\ ParkedInOnePlace'
      BY <1>1, <1>4, <1>h, <2>1 DEF OutboxInv, WriterFits, HandoffOnce, CounterExact,
         ParkedInOnePlace, Writing, Delivering, Handling, Running
    <2>4. Delivering /\ ~Delivering' /\ ~Writing({"terminal", "gameEnd"}) /\ ~Writing({"gameEnd"})'
          /\ Running'
      BY <1>1, <1>4, <2>1 DEF Writing, Delivering, Running
    <2>5. /\ received < hand.tick /\ \A t \in Queued(control) : hand.tick < t
          /\ owed # Held => hand.tick < tick
      BY <1>h, <2>4 DEF OutboxInv, InOrder, Before
    <2>6. Held = Queued(control) \cup {hand.tick} /\ Held' = Queued(control)
          /\ hand.tick \notin Queued(control)
      BY <1>1, <1>4, <1>q, <2>1, <2>5 DEF Held, Writing
    <2>7. OwedIsHeld' /\ (owed' # Held' => owed # Held)
      <3>1. CASE owed = Held
        BY <2>1, <2>6, <3>1 DEF OwedIsHeld
      <3>2. CASE owed # Held
        <4>1. Rejected /\ hand.tick # tick
          BY <1>h, <1>q, <2>5, <3>2 DEF OutboxInv, OwedIsHeld
        <4>2. Rejected'
          BY <1>1, <2>1, <2>6, <4>1 DEF Rejected
        <4>3. QED
          BY <3>2, <4>2 DEF OwedIsHeld
      <3>3. QED
        BY <3>1, <3>2
    <2>8. InOrder'
      BY <1>1, <1>h, <2>1, <2>4, <2>7 DEF OutboxInv, InOrder, Before
    <2>9. QED
      BY <2>2, <2>3, <2>7, <2>8 DEF OutboxInv
  <1>5. CASE hand.kind = "terminal"
    <2>1. /\ received' = hand.tick /\ UNCHANGED <<closing, owed, over>>
          /\ hand' = [kind |-> "gameEnd", tick |-> 0]
          /\ writer' = IF done THEN "stopped" ELSE "write"
      BY <1>5 DEF WriteSucceeds, Begin
    <2>2. /\ control = <<>> /\ terminal /\ ending = tick /\ hand.tick = tick /\ tick # 0
          /\ terminalHandoff = 0 /\ snapshots = 0 /\ deferredLatest = 0
      BY <1>1, <1>5 DEF OutboxInv, WriterFits, HandoffOnce, Running, Writing
    <2>3. Count(control) = 0 /\ Queued(control) = {} /\ Sorted(control)
      BY <2>2, EmptyQueue
    <2>4. reliablePending = 0 /\ Held = {} /\ owed = {}
      BY <1>1, <1>5, <1>h, <2>2, <2>3
         DEF OutboxInv, CounterExact, Handling, OwedIsHeld, Rejected, Held, Writing
    <2>5. TypeOK'
      <3>1. hand' \in [kind : {"none", "payload", "approval", "snapshot", "terminal", "gameEnd"},
                       tick : Tick]
        BY <1>h, <2>1
      <3>2. QED
        BY <1>1, <1>h, <2>1, <3>1 DEF OutboxInv, TypeOK
    <2>6. CASE done
      BY <1>1, <2>1, <2>2, <2>3, <2>4, <2>5, <2>6, StoppedKeeps
    <2>7. CASE ~done
      <3>1. writer' = "write" /\ hand'.kind = "gameEnd"
        BY <2>1, <2>7
      <3>2. WriterFits' /\ HandoffOnce' /\ CounterExact' /\ ParkedInOnePlace'
        BY <1>1, <1>h, <2>1, <2>2, <2>3, <2>4, <3>1 DEF OutboxInv, WriterFits, HandoffOnce,
           CounterExact, ParkedInOnePlace, Writing, Delivering, Handling, Running
      <3>3. OwedIsHeld' /\ owed' = Held'
        BY <1>1, <2>1, <2>3, <2>4, <3>1 DEF OwedIsHeld, Held, Writing
      <3>4. ~Delivering' /\ Writing({"terminal", "gameEnd"})'
            /\ Queued(control)' = {} /\ Sorted(control)' /\ received' = tick'
        BY <1>1, <2>1, <2>2, <2>3, <3>1 DEF Writing, Delivering
      <3>5. Before(tick + 1)'
        BY <1>1, <1>q, <3>4 DEF Before
      <3>6. InOrder'
        BY <1>1, <2>2, <3>3, <3>4, <3>5 DEF InOrder
      <3>7. QED
        BY <2>5, <3>2, <3>3, <3>6 DEF OutboxInv
    <2>8. QED
      BY <2>6, <2>7
  <1>6. CASE hand.kind = "gameEnd"
    <2>1. /\ writer' = "stopped" /\ over' = TRUE /\ closing' \in {closing, closing \cup {"writer"}}
          /\ UNCHANGED <<hand, received, owed>>
      BY <1>6 DEF WriteSucceeds, CloseAfterGameEnd
    <2>2. TypeOK'
      BY <1>1, <2>1 DEF OutboxInv, TypeOK
    <2>3. QED
      BY <1>1, <2>1, <2>2, StoppedKeeps DEF OutboxInv, HandoffOnce, CounterExact
  <1>7. QED
    BY <1>h, <1>2, <1>3, <1>4, <1>5, <1>6

\* An approval is done with; the last one releases the deferred snapshot.
LEMMA CompleteReliableKeeps ==
    ASSUME OutboxInv, CompleteReliable
    PROVE  OutboxInv'
  <1> USE DEF queueVars, writerVars, clientVars
  <1>1. /\ writer = "complete" /\ writer' = Resume /\ reliablePending' = reliablePending - 1
        /\ UNCHANGED <<tick, control, terminal, terminalHandoff, done, closing, ending, hand, plain,
                       received, owed, over>>
        /\ \/ /\ reliablePending' = 0 /\ deferredLatest # 0 /\ deferredLatest' = 0
              /\ snapshots' = IF ReleaseDeferred # 0 THEN ReleaseDeferred ELSE snapshots
           \/ ~(reliablePending' = 0 /\ deferredLatest # 0) /\ UNCHANGED <<deferredLatest, snapshots>>
    BY DEF CompleteReliable
  <1>q. /\ Count(control) \in Nat /\ Queued(control) \subseteq Nat \ {0}
        /\ tick \in Nat /\ received \in Nat /\ reliablePending \in Nat /\ hand.tick \in Nat
        /\ snapshots \in Nat /\ deferredLatest \in Nat
    BY QueueTyped DEF OutboxInv
  <1>r. Resume \in {"poll", "drain"} /\ (Resume = "drain" <=> ending # 0)
    BY DEF Resume
  <1>2. /\ Running /\ Running' /\ Handling /\ ~Handling' /\ ~Delivering /\ ~Delivering'
        /\ ~Writing({"approval"}) /\ ~Writing({"approval"})'
        /\ ~Writing({"terminal", "gameEnd"}) /\ ~Writing({"gameEnd"})'
        /\ ~Writing({"terminal", "gameEnd"})'
    BY <1>1, <1>r DEF OutboxInv, WriterFits, Running, Handling, Delivering, Writing
  <1>3. reliablePending = Count(control) + 1 /\ reliablePending' = Count(control)
    BY <1>1, <1>2, <1>q DEF OutboxInv, CounterExact
  \* The deferred snapshot moves, or is dropped with the session.
  <1>4. \/ UNCHANGED <<deferredLatest, snapshots>> /\ (deferredLatest # 0 => reliablePending' # 0)
        \/ /\ reliablePending' = 0 /\ deferredLatest # 0 /\ ~terminal /\ snapshots = 0
           /\ deferredLatest' = 0 /\ snapshots' \in {0, deferredLatest}
    BY <1>1, <1>2, <1>q
       DEF OutboxInv, HandoffOnce, ParkedInOnePlace, ReleaseDeferred
  <1>5. TypeOK'
    <2>1. 0 \in Tick /\ reliablePending' \in 0..ControlCapacity + 1
      BY <1>1, <1>3, <1>q, OutboxAssumption DEF OutboxInv, TypeOK, Tick
    <2>2. QED
      BY <1>1, <1>4, <1>r, <2>1 DEF OutboxInv, TypeOK
  <1>6. WriterFits' /\ HandoffOnce'
    BY <1>1, <1>2, <1>4, <1>r DEF OutboxInv, WriterFits, HandoffOnce, Writing, Delivering, Running
  <1>7. CounterExact' /\ ParkedInOnePlace'
    BY <1>1, <1>2, <1>3, <1>4, <1>q DEF OutboxInv, CounterExact, ParkedInOnePlace
  <1>8. Held' = Held
    BY <1>1, <1>2 DEF Held
  <1>9. OwedIsHeld'
    BY <1>1, <1>2, <1>4, <1>8 DEF OutboxInv, OwedIsHeld, Rejected
  <1>10. InOrder'
    BY <1>1, <1>2, <1>4, <1>8 DEF OutboxInv, InOrder, Before
  <1>11. QED
    BY <1>5, <1>6, <1>7, <1>9, <1>10 DEF OutboxInv

LEMMA OutboxStep == OutboxInv /\ [Next]_vars => OutboxInv'
  <1> SUFFICES ASSUME OutboxInv, [Next]_vars
               PROVE  OutboxInv'
    OBVIOUS
  <1> USE DEF queueVars, writerVars, clientVars
  <1>1. CASE SendLifecycleEvent
    <2>1. plain \in Nat /\ plain' = plain + 1 /\ plain' <= MaxPlain
      BY <1>1, OutboxAssumption DEF SendLifecycleEvent, OutboxInv, TypeOK
    <2>2. plain' \in 0..MaxPlain
      BY <2>1, OutboxAssumption
    <2>3. QED
      BY <1>1, <2>2, PayloadKeeps DEF SendLifecycleEvent, Accepts
  <1>2. CASE MalformedFrame
    <2>1. plain \in Nat /\ plain' = plain + 1 /\ plain' <= MaxPlain
      BY <1>2, OutboxAssumption DEF MalformedFrame, OutboxInv, TypeOK
    <2>2. plain' \in 0..MaxPlain
      BY <2>1, OutboxAssumption
    <2>3. QED
      BY <1>2, <2>2, PayloadKeeps DEF MalformedFrame, Accepts
  <1>3. CASE StartClosing
    BY <1>3, PayloadKeeps DEF StartClosing, OutboxInv, TypeOK
  <1>4. CASE WriteFails
    BY <1>4, StopKeeps DEF WriteFails
  <1>5. CASE UNCHANGED vars
    <2>1. TypeOK' /\ WriterFits' /\ HandoffOnce' /\ CounterExact' /\ ParkedInOnePlace'
      BY <1>5 DEF vars, OutboxInv, TypeOK, WriterFits, HandoffOnce, CounterExact,
         ParkedInOnePlace, Writing, Delivering, Handling, Running
    <2>2. Held' = Held
      BY <1>5 DEF vars, Held, Writing
    <2>3. OwedIsHeld' /\ InOrder'
      BY <1>5, <2>2 DEF vars, OutboxInv, OwedIsHeld, Rejected, InOrder, Before, Writing,
         Delivering, Running
    <2>4. QED
      BY <2>1, <2>3 DEF OutboxInv
  <1>6. QED
    BY <1>1, <1>2, <1>3, <1>4, <1>5, EnqueueSnapshotKeeps, EnqueueApprovalKeeps,
       EnqueueTerminalKeeps, CloseDoneKeeps, WriterLoopKeeps, WriterDrainKeeps,
       WriteSucceedsKeeps, CompleteReliableKeeps
       DEF Next

LEMMA OutboxInvariant == Spec => []OutboxInv
  BY OutboxInit, OutboxStep, PTL DEF Spec

-----------------------------------------------------------------------------
(* The properties. *)

\* The room's counter and slots and the writer's queue tell one story in every
\* reachable state: the counter is exact while the session is open, and the
\* newest snapshot is parked in exactly one place.
THEOREM QueuesAgreeAlways == Spec => []QueuesAgree
  <1>1. OutboxInv => QueuesAgree
    BY DEF OutboxInv, QueuesAgree, CounterExact, ParkedInOnePlace, PendingIsExact, ParkedOnce,
       Running, Handling, Count
  <1>2. QED
    BY <1>1, OutboxInvariant, PTL

\* When the client receives GameEnd, nothing that the session had accepted is
\* still queued or parked.
THEOREM ControlBeforeGameEndAlways == Spec => ControlBeforeGameEnd
  <1>1. OutboxInv /\ [Next]_vars => [over' /\ ~over => control = <<>> /\ snapshots = 0]_vars
    <2> SUFFICES ASSUME OutboxInv, Next, over', ~over
                 PROVE  control = <<>> /\ snapshots = 0
      BY DEF vars
    <2> USE DEF queueVars, writerVars, clientVars
    <2>1. WriteSucceeds
      BY DEF Next, EnqueueSnapshot, EnqueueSkillApproval, EnqueueTerminal, SendLifecycleEvent,
         MalformedFrame, StartClosing, CloseDone, WriterPoll, WriterWait, WriterDrain, WriteFails,
         CompleteReliable
    <2>2. Writing({"terminal", "gameEnd"})
      BY <2>1 DEF WriteSucceeds, Writing, OutboxInv, WriterFits, TypeOK
    <2>3. QED
      BY <2>2 DEF OutboxInv, WriterFits, HandoffOnce
  <1>2. QED
    BY <1>1, OutboxInvariant, PTL DEF Spec, ControlBeforeGameEnd

\* The outbox implements the feed: each handover of a tick is an Offer, each
\* successful write of a snapshot a Receive, and the write of GameEnd the Finish.
THEOREM OutboxImplementsFeed == Spec => ImplementsFeed
  <1>1. Init => Feed!Init
    BY DEF Init, Feed!Init
  <1>2. ASSUME OutboxInv, [Next]_vars
        PROVE  [Feed!Next]_Feed!vars
    <2> USE DEF queueVars, writerVars, clientVars
    <2>q. /\ Queued(control) \subseteq Nat \ {0}
          /\ tick \in Nat /\ received \in Nat /\ hand.tick \in Nat
      BY <1>2, QueueTyped DEF OutboxInv
    <2>1. ASSUME EnqueueSnapshot \/ EnqueueTerminal
          PROVE  Feed!Offer(FALSE)
      BY <2>1 DEF EnqueueSnapshot, EnqueueTerminal, NextTick, Feed!Offer
    <2>2. ASSUME EnqueueSkillApproval
          PROVE  Feed!Offer(TRUE)
      BY <2>2 DEF EnqueueSkillApproval, NextTick, Feed!Offer
    <2>3. ASSUME WriteSucceeds, Delivering
          PROVE  Feed!Receive(hand.tick) /\ hand.tick \in 1..MaxTick
      <3>1. Running /\ ~over /\ hand.tick # 0
        BY <1>2, <2>3 DEF OutboxInv, WriterFits, Running, Delivering, Writing
      <3>2. /\ received < hand.tick /\ hand.tick <= tick
            /\ \A t \in Queued(control) : hand.tick < t
            /\ owed # Held => hand.tick < tick
        BY <1>2, <2>3, <2>q, <3>1 DEF OutboxInv, InOrder, Before
      <3>3. \A a \in owed : hand.tick <= a /\ (a = hand.tick => Writing({"approval"}))
        BY <1>2, <2>q, <3>1, <3>2 DEF OutboxInv, OwedIsHeld, Rejected, Held
      <3>4. hand.tick \in 1..MaxTick
        BY <1>2, <2>q, <3>1, OutboxAssumption DEF OutboxInv, TypeOK, Tick
      <3>5. /\ received' = hand.tick /\ owed' = owed \ {hand.tick} /\ UNCHANGED <<tick, over>>
        BY <2>3, <3>3 DEF WriteSucceeds, Delivering, Writing
      <3>6. QED
        BY <3>1, <3>2, <3>3, <3>4, <3>5 DEF Feed!Receive
    <2>4. ASSUME WriteSucceeds, ~Delivering
          PROVE  Feed!Finish \/ UNCHANGED Feed!vars
      <3>1. writer = "write" /\ hand.kind \in {"payload", "gameEnd"}
        BY <1>2, <2>4 DEF WriteSucceeds, OutboxInv, TypeOK, WriterFits, Delivering, Writing
      <3>2. CASE hand.kind = "payload"
        BY <2>4, <3>2 DEF WriteSucceeds, Feed!vars
      <3>3. CASE hand.kind = "gameEnd"
        <4>1. Running /\ ~over /\ control = <<>> /\ terminal /\ received = tick
          BY <1>2, <3>1, <3>3 DEF OutboxInv, WriterFits, HandoffOnce, InOrder, Running, Writing
        <4>2. owed = {}
          BY <1>2, <3>1, <3>3, <4>1, EmptyQueue
             DEF OutboxInv, OwedIsHeld, Rejected, Held, Writing
        <4>3. over' = TRUE /\ UNCHANGED <<tick, received, owed>>
          BY <2>4, <3>3 DEF WriteSucceeds
        <4>4. QED
          BY <4>1, <4>2, <4>3 DEF Feed!Finish
      <3>4. QED
        BY <3>1, <3>2, <3>3
    <2>5. ASSUME \/ SendLifecycleEvent \/ MalformedFrame \/ StartClosing \/ CloseDone
                 \/ WriterPoll \/ WriterWait \/ WriterDrain \/ WriteFails \/ CompleteReliable
                 \/ UNCHANGED vars
          PROVE  UNCHANGED Feed!vars
      BY <2>5 DEF SendLifecycleEvent, MalformedFrame, StartClosing, CloseDone, WriterPoll,
         WriterWait, WriterDrain, WriteFails, CompleteReliable, vars, Feed!vars
    <2>6. QED
      BY <1>2, <2>1, <2>2, <2>3, <2>4, <2>5 DEF Next, Feed!Next
  <1>3. QED
    BY <1>1, <1>2, OutboxInvariant, PTL DEF Spec, ImplementsFeed, Feed!Spec
=============================================================================
