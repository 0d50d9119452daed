------------------------- MODULE Matchmaking_proofs --------------------------
(***************************************************************************)
(* Proofs about Matchmaking, for every number of calls, every set of modes *)
(* and every limit: the ids in use are those of the seats and of the calls *)
(* in progress, and nobody sits twice; joins do not leave two players      *)
(* waiting in two rooms, and a refusal for the room cap is honest.         *)
(***************************************************************************)
EXTENDS Matchmaking, FiniteSetTheorems, SequenceTheorems, TLAPS

-----------------------------------------------------------------------------
(* The inductive invariant.                                                  *)

\* What a call has got hold of at each of its sections.
Fits(c, cl) ==
    /\ cl.at = "idle" => cl = Idle
    /\ cl.at \in {"scan", "issue", "try"} => c \in Joins /\ cl.tries = 0
    /\ cl.at \in {"full", "evict", "retry"} => c \in Joins \cup Creators
    /\ cl.at = "seat" => c \in Adders
    /\ cl.at \in {"issue", "try", "seat"} => cl.target \in Room
    /\ cl.at \in {"try", "seat"} => cl.issued
    /\ cl.at = "issue" => ~cl.issued
    /\ cl.issued => cl.at # "answered" /\ c \notin Creators
    /\ cl.result = "joined" => cl.at = "answered"
CallsFit == \A c \in Callers : Fits(c, call[c])

\* The rooms are opened in order, each by a call that was answered.
UsedInOrder ==
    \E k \in 0..Slots :
        /\ {r \in Room : room[r].stage # "none"} = 1..k
        /\ k <= Cardinality({c \in Joins \cup Creators : call[c].at = "answered"})

UnusedIsEmpty == \A r \in Room : room[r].stage = "none" => room[r] = Unused

Sits(c) == \E r \in Room : SitsIn(c, r)

IdsInUse ==
    /\ \A c \in Callers : c \in playerIDs <=> Sits(c) \/ call[c].issued
    /\ \A r \in Room, i \in Nat :
          <<r, i>> \in playerIDs <=> i \in DOMAIN room[r].seats /\ room[r].seats[i] = Bot

\* A caller that sits in a room was told so, and sits nowhere else.
SeatIsTold == \A c \in Callers : Sits(c) => call[c].result = "joined"
OneSeatEach ==
    \A c \in Callers, r, s \in Room :
        \A i \in DOMAIN room[r].seats, j \in DOMAIN room[s].seats :
            room[r].seats[i] = c /\ room[s].seats[j] = c => r = s /\ i = j

SeatInv ==
    /\ TypeOK /\ CallsFit /\ UsedInOrder /\ UnusedIsEmpty
    /\ IdsInUse /\ SeatIsTold /\ OneSeatEach

-----------------------------------------------------------------------------
(* Types, and what sections make of a room.                                  *)

RoomRecord == [stage : {"none", "live", "marked", "unregistered", "gone"},
               mode : Modes, opener : {"match", "debug"},
               seats : Seq(Joins \cup Adders \cup {Bot}),
               phase : {"waiting", "matched"},
               fill : {"none", "armed", "failed"}]
CallRecord == [at : {"idle", "scan", "issue", "try", "full", "evict", "retry",
                     "seat", "release", "answered"},
               mode : Modes, left : SUBSET Room, target : Room \cup {0},
               issued : BOOLEAN, tries : {0, 1}, excused : SUBSET Room,
               result : {"none", "joined", "cap", "error", "refused"}]

LEMMA Types ==
    TypeOK <=> /\ mu \in Joins \cup {None} /\ playerIDs \subseteq Ids
               /\ room \in [Room -> RoomRecord] /\ call \in [Callers -> CallRecord]
  BY DEF TypeOK, RoomRecord, CallRecord

LEMMA TypesNext ==
    ASSUME mu' \in Joins \cup {None}, playerIDs' \subseteq Ids,
           room' \in [Room -> RoomRecord], call' \in [Callers -> CallRecord]
    PROVE  TypeOK'
  BY DEF TypeOK, RoomRecord, CallRecord

LEMMA Records == Unused \in RoomRecord /\ Idle \in CallRecord
                 /\ \A result \in {"none", "joined", "cap", "error", "refused"} : Answer(result) \in CallRecord
  BY ModesAssumption, EmptySeq DEF Unused, Idle, Answer, RoomRecord, CallRecord

LEMMA BotsAreASequence ==
    ASSUME NEW n \in Int
    PROVE  /\ Bots(n) \in Seq({Bot})
           /\ Len(Bots(n)) = IF n > 0 THEN n ELSE 0
           /\ \A i \in 1..Len(Bots(n)) : Bots(n)[i] = Bot
  <1> DEFINE m == IF n > 0 THEN n ELSE 0
  <1>1. m \in Nat /\ 1..n = 1..m
    OBVIOUS
  <1>2. Bots(n) = [i \in 1..m |-> Bot]
    BY <1>1 DEF Bots
  <1>3. Bots(n) \in Seq({Bot}) /\ Len(Bots(n)) = m
    BY <1>1, <1>2, IsASeq
  <1>4. QED
    BY <1>1, <1>2, <1>3

\* What a section under a waiting room's lock may do to the rest of it.
SameRoom(rm, after) ==
    /\ after.stage = rm.stage /\ after.mode = rm.mode /\ after.opener = rm.opener
    /\ after.phase = "waiting" => rm.phase = "waiting"

LEMMA WithSeatsProperties ==
    ASSUME NEW rm \in RoomRecord, NEW seats \in Seq(Joins \cup Adders \cup {Bot})
    PROVE  /\ WithSeats(rm, seats) \in RoomRecord /\ WithSeats(rm, seats).seats = rm.seats \o seats
           /\ SameRoom(rm, WithSeats(rm, seats)) /\ WithSeats(rm, seats).fill = rm.fill
  <1>1. rm.seats \o seats \in Seq(Joins \cup Adders \cup {Bot})
    BY ConcatProperties DEF RoomRecord
  <1>2. QED
    BY <1>1 DEF WithSeats, MarkMatchedIfFull, RoomRecord, SameRoom

LEMMA FillProperties ==
    ASSUME NEW rm \in RoomRecord
    PROVE  /\ DetachBotFill(rm) \in RoomRecord /\ DetachBotFill(rm).seats = rm.seats
           /\ SameRoom(rm, DetachBotFill(rm)) /\ DetachBotFill(rm).phase = rm.phase
           /\ ArmBotFill(rm) \in RoomRecord /\ ArmBotFill(rm).seats = rm.seats
           /\ SameRoom(rm, ArmBotFill(rm))
  BY DEF DetachBotFill, ArmBotFill, RoomRecord, SameRoom

LEMMA JoinedProperties ==
    ASSUME NEW rm \in RoomRecord, NEW player \in Joins
    PROVE  /\ Joined(rm, player) \in RoomRecord /\ SameRoom(rm, Joined(rm, player))
           /\ Joined(rm, player).seats = Append(rm.seats, player)
  <1> DEFINE after == WithSeats(rm, <<player>>)
  <1>1. <<player>> \in Seq(Joins \cup Adders \cup {Bot}) /\ rm.seats \in Seq(Joins \cup Adders \cup {Bot})
    BY DEF RoomRecord
  <1>2. /\ after \in RoomRecord /\ after.seats = Append(rm.seats, player) /\ SameRoom(rm, after)
    <2>1. rm.seats \o <<player>> = Append(rm.seats, player)
      BY <1>1, AppendIsConcat
    <2>2. after \in RoomRecord /\ after.seats = rm.seats \o <<player>> /\ SameRoom(rm, after)
      BY <1>1, WithSeatsProperties
    <2>3. QED
      BY <2>1, <2>2
  <1> HIDE DEF after
  <1>3. Joined(rm, player) \in {after, ArmBotFill(after), DetachBotFill(after)}
    BY DEF Joined, after
  <1>4. /\ SameRoom(after, ArmBotFill(after)) /\ SameRoom(after, DetachBotFill(after))
        /\ ArmBotFill(after) \in RoomRecord /\ DetachBotFill(after) \in RoomRecord
        /\ ArmBotFill(after).seats = after.seats /\ DetachBotFill(after).seats = after.seats
    BY <1>2, FillProperties
  <1>5. QED
    BY <1>2, <1>3, <1>4 DEF SameRoom

-----------------------------------------------------------------------------
(* Seats, ids and what a step may do to them.                                *)

\* A seat index of a room, its id, and who sits on it.
LEMMA SeatsOfRooms ==
    ASSUME TypeOK, NEW r \in Room
    PROVE  /\ room[r].seats \in Seq(Joins \cup Adders \cup {Bot})
           /\ DOMAIN room[r].seats = 1..Len(room[r].seats) /\ Len(room[r].seats) \in Nat
           /\ \A i \in DOMAIN room[r].seats :
                 i \in Nat /\ (room[r].seats[i] = Bot \/ room[r].seats[i] \in Callers)
  <1>1. room[r].seats \in Seq(Joins \cup Adders \cup {Bot})
    BY Types DEF RoomRecord
  <1>2. QED
    BY <1>1 DEF Callers

\* The set of ids in use, from the two parts of IdsInUse.
LEMMA IdsFromParts ==
    ASSUME SeatInv
    PROVE  playerIDs = (UNION {IdsOf(r, room[r].seats) : r \in Room}) \cup {c \in Callers : call[c].issued}
  <1> USE DEF SeatInv
  <1> DEFINE held == UNION {IdsOf(r, room[r].seats) : r \in Room}
  <1>1. ASSUME NEW id \in playerIDs
        PROVE  id \in held \/ (id \in Callers /\ call[id].issued)
    <2>1. CASE id \in Callers
      <3>1. CASE Sits(id)
        <4>1. PICK r \in Room : \E i \in DOMAIN room[r].seats : room[r].seats[i] = id
          BY <3>1 DEF Sits, SitsIn
        <4>2. id \in IdsOf(r, room[r].seats)
          BY <2>1, <4>1, HoldersAssumption DEF IdsOf, IdAt
        <4>3. QED
          BY <4>2
      <3>2. QED
        BY <2>1, <3>1 DEF IdsInUse
    <2>2. CASE id \in Room \X Nat
      <3>1. PICK r \in Room, i \in Nat : id = <<r, i>>
        BY <2>2
      <3>2. i \in DOMAIN room[r].seats /\ room[r].seats[i] = Bot
        BY <3>1 DEF IdsInUse
      <3>3. id \in IdsOf(r, room[r].seats)
        BY <3>1, <3>2 DEF IdsOf, IdAt
      <3>4. QED
        BY <3>3
    <2>3. QED
      BY <2>1, <2>2 DEF TypeOK, Ids
  <1>2. ASSUME NEW id \in held
        PROVE  id \in playerIDs
    <2>1. PICK r \in Room : id \in IdsOf(r, room[r].seats)
      OBVIOUS
    <2>2. PICK i \in DOMAIN room[r].seats : id = IdAt(r, room[r].seats, i)
      BY <2>1 DEF IdsOf
    <2>3. CASE room[r].seats[i] = Bot
      BY <2>2, <2>3, SeatsOfRooms DEF IdAt, IdsInUse
    <2>4. CASE room[r].seats[i] # Bot
      <3>1. id \in Callers /\ Sits(id)
        BY <2>2, <2>4, SeatsOfRooms DEF IdAt, Sits, SitsIn
      <3>2. QED
        BY <3>1 DEF IdsInUse
    <2>5. QED
      BY <2>3, <2>4
  <1>3. \A c \in Callers : call[c].issued => c \in playerIDs
    BY DEF IdsInUse
  <1>4. QED
    BY <1>1, <1>2, <1>3

\* The number of seats of one caller, from SeatIsTold and OneSeatEach.
LEMMA SeatsFromParts ==
    ASSUME SeatInv, NEW c \in Callers
    PROVE  Cardinality(SeatsOf(c)) <= IF call[c].result = "joined" THEN 1 ELSE 0
  <1>1. \A seat \in SeatsOf(c) : \E r \in Room : \E i \in DOMAIN room[r].seats :
              seat = <<r, i>> /\ room[r].seats[i] = c
    BY DEF SeatsOf
  <1>2. CASE SeatsOf(c) = {}
    BY <1>2, FS_EmptySet
  <1>3. CASE SeatsOf(c) # {}
    <2>1. PICK seat \in SeatsOf(c) : TRUE
      BY <1>3
    <2>2. SeatsOf(c) = {seat}
      BY <1>1, <2>1 DEF SeatInv, OneSeatEach
    <2>3. Cardinality(SeatsOf(c)) = 1
      BY <2>2, FS_Singleton
    <2>4. Sits(c)
      BY <1>1, <2>1 DEF Sits, SitsIn
    <2>5. QED
      BY <2>3, <2>4 DEF SeatInv, SeatIsTold
  <1>4. QED
    BY <1>2, <1>3

SeatPart == IdsInUse /\ SeatIsTold /\ OneSeatEach

\* Nobody sits down or gets up; a call may draw or give back its id.
LEMMA SeatsKept ==
    ASSUME TypeOK, SeatPart,
           \A r \in Room : room'[r].seats = room[r].seats,
           \A c \in Callers : Sits(c) => call'[c].result = "joined",
           \A c \in Callers : c \in playerIDs' <=> Sits(c) \/ call'[c].issued,
           \A r \in Room, i \in Nat : <<r, i>> \in playerIDs' <=> <<r, i>> \in playerIDs
    PROVE  SeatPart'
  <1>1. \A c : Sits(c)' <=> Sits(c)
    BY DEF Sits, SitsIn
  <1>2. IdsInUse'
    BY <1>1 DEF IdsInUse, SeatPart
  <1>3. SeatIsTold' /\ OneSeatEach'
    BY <1>1 DEF SeatIsTold, OneSeatEach, SeatPart
  <1>4. QED
    BY <1>2, <1>3 DEF SeatPart

\* A caller takes the next seat of a room.
LEMMA SeatTaken ==
    ASSUME TypeOK, SeatPart, NEW c \in Callers, NEW r \in Room, ~Sits(c),
           room'[r].seats = Append(room[r].seats, c),
           \A s \in Room \ {r} : room'[s].seats = room[s].seats,
           playerIDs' = playerIDs \cup {c},
           ~call'[c].issued, call'[c].result = "joined",
           \A d \in Callers \ {c} : call'[d] = call[d]
    PROVE  SeatPart'
  <1> DEFINE n == Len(room[r].seats)
             old == room[r].seats
             new == room'[r].seats
  <1>1. /\ n \in Nat /\ DOMAIN old = 1..n /\ DOMAIN new = 1..(n + 1) /\ new[n + 1] = c
        /\ \A i \in 1..n : new[i] = old[i]
        /\ \A i \in 1..n : old[i] # c
    <2>1. old \in Seq(Joins \cup Adders \cup {Bot}) /\ DOMAIN old = 1..n /\ n \in Nat
      BY SeatsOfRooms
    <2>2. new = Append(old, c)
      OBVIOUS
    <2>3. \A i \in 1..n : old[i] # c
      BY <2>1 DEF Sits, SitsIn
    <2> HIDE DEF old
    <2>4. QED
      BY <2>1, <2>2, <2>3
  <1> HIDE DEF n, old, new
  <1>2. c # Bot
    BY HoldersAssumption
  <1>3. \A d \in Callers : Sits(d)' <=> Sits(d) \/ d = c
    <2> SUFFICES ASSUME NEW d \in Callers PROVE Sits(d)' <=> Sits(d) \/ d = c
      OBVIOUS
    <2>1. SitsIn(d, r)' <=> SitsIn(d, r) \/ d = c
      BY <1>1 DEF SitsIn, old, new
    <2>2. \A s \in Room \ {r} : SitsIn(d, s)' <=> SitsIn(d, s)
      BY DEF SitsIn
    <2>3. QED
      BY <2>1, <2>2 DEF Sits
  <1>4. IdsInUse'
    <2>1. ASSUME NEW d \in Callers
          PROVE  d \in playerIDs' <=> Sits(d)' \/ call'[d].issued
      BY <1>3 DEF IdsInUse, SeatPart
    <2>2. ASSUME NEW s \in Room, NEW i \in Nat
          PROVE  <<s, i>> \in playerIDs' <=> i \in DOMAIN room'[s].seats /\ room'[s].seats[i] = Bot
      <3>1. <<s, i>> \in playerIDs' <=> <<s, i>> \in playerIDs
        BY HoldersAssumption
      <3>2. <<s, i>> \in playerIDs <=> i \in DOMAIN room[s].seats /\ room[s].seats[i] = Bot
        BY DEF IdsInUse, SeatPart
      <3>3. CASE s = r
        BY <1>1, <1>2, <3>1, <3>2, <3>3 DEF old, new
      <3>4. CASE s # r
        BY <3>1, <3>2, <3>4
      <3>5. QED
        BY <3>3, <3>4
    <2>3. QED
      BY <2>1, <2>2 DEF IdsInUse
  <1>5. SeatIsTold'
    BY <1>3 DEF SeatIsTold, SeatPart
  <1>6. OneSeatEach'
    <2> SUFFICES ASSUME NEW d \in Callers, NEW s \in Room, NEW t \in Room,
                        NEW i \in DOMAIN room'[s].seats, NEW j \in DOMAIN room'[t].seats,
                        room'[s].seats[i] = d, room'[t].seats[j] = d
                 PROVE  s = t /\ i = j
      BY DEF OneSeatEach
    <2>1. CASE d = c
      <3>1. \A u \in Room : \A k \in DOMAIN room'[u].seats :
               room'[u].seats[k] = c => u = r /\ k = n + 1
        BY <1>1 DEF old, new, Sits, SitsIn
      <3>2. QED
        BY <2>1, <3>1
    <2>2. CASE d # c
      <3>1. \A u \in Room : \A k \in DOMAIN room'[u].seats :
               room'[u].seats[k] = d => k \in DOMAIN room[u].seats /\ room[u].seats[k] = d
        BY <1>1, <2>2 DEF old, new
      <3>2. QED
        BY <3>1 DEF OneSeatEach, SeatPart
    <2>3. QED
      BY <2>1, <2>2
  <1>7. QED
    BY <1>4, <1>5, <1>6 DEF SeatPart

\* Bots take the next seats of a room.
LEMMA BotsSeated ==
    ASSUME TypeOK, SeatPart, NEW r \in Room, NEW n \in Int,
           room'[r].seats = room[r].seats \o Bots(n),
           \A s \in Room \ {r} : room'[s].seats = room[s].seats,
           playerIDs' = playerIDs \cup BotIds(r, n), call' = call
    PROVE  SeatPart'
  <1> DEFINE m == Len(room[r].seats)
             k == IF n > 0 THEN n ELSE 0
             old == room[r].seats
             new == room'[r].seats
  <1>1. /\ m \in Nat /\ k \in Nat /\ 1..n = 1..k
        /\ DOMAIN old = 1..m /\ DOMAIN new = 1..(m + k)
        /\ \A i \in 1..m : new[i] = old[i]
        /\ \A i \in (m + 1)..(m + k) : new[i] = Bot
    <2>1. old \in Seq(Joins \cup Adders \cup {Bot}) /\ DOMAIN old = 1..m /\ m \in Nat
      BY SeatsOfRooms
    <2>2. Bots(n) \in Seq({Bot}) /\ Len(Bots(n)) = k /\ \A i \in 1..k : Bots(n)[i] = Bot
      BY BotsAreASequence
    <2>3. Bots(n) \in Seq(Joins \cup Adders \cup {Bot})
      BY <2>2, SeqMonotonic
    <2>4. new = old \o Bots(n)
      OBVIOUS
    <2>5. k \in Nat /\ 1..n = 1..k
      OBVIOUS
    <2> HIDE DEF old, new, k
    <2>6. /\ DOMAIN new = 1..(m + k)
          /\ \A i \in 1..(m + k) : new[i] = IF i <= m THEN old[i] ELSE Bots(n)[i - m]
      <3>1. /\ Len(old \o Bots(n)) = Len(old) + Len(Bots(n))
            /\ old \o Bots(n) \in Seq(Joins \cup Adders \cup {Bot})
            /\ \A i \in 1..Len(old) + Len(Bots(n)) :
                  (old \o Bots(n))[i] = IF i <= Len(old) THEN old[i] ELSE Bots(n)[i - Len(old)]
        BY <2>1, <2>3, ConcatProperties
      <3>2. Len(old) = m
        BY DEF old
      <3>3. QED
        BY <2>1, <2>2, <2>4, <2>5, <3>1, <3>2
    <2>7. \A i \in 1..m : i \in 1..(m + k) /\ i <= m
      BY <2>1, <2>5
    <2>8. \A i \in (m + 1)..(m + k) : i \in 1..(m + k) /\ ~(i <= m) /\ i - m \in 1..k
      BY <2>1, <2>5
    <2>9. QED
      BY <2>1, <2>2, <2>5, <2>6, <2>7, <2>8
  <1>2. BotIds(r, n) = {<<r, m + i>> : i \in 1..k}
    BY <1>1 DEF BotIds
  <1> HIDE DEF m, k, old, new
  <1>3. \A c \in Callers : c # Bot
    BY HoldersAssumption
  <1>4. \A c \in Callers, s \in Room : SitsIn(c, s)' <=> SitsIn(c, s)
    <2> SUFFICES ASSUME NEW c \in Callers PROVE SitsIn(c, r)' <=> SitsIn(c, r)
      BY DEF SitsIn
    <2>1. \A i \in DOMAIN new : new[i] = c => i \in DOMAIN old
      BY <1>1, <1>3
    <2>2. \A i \in DOMAIN old : i \in DOMAIN new /\ new[i] = old[i]
      BY <1>1
    <2>3. QED
      BY <2>1, <2>2 DEF SitsIn, old, new
  <1>5. \A c \in Callers : Sits(c)' <=> Sits(c)
    BY <1>4 DEF Sits
  <1>6. IdsInUse'
    <2>1. ASSUME NEW c \in Callers
          PROVE  c \in playerIDs' <=> Sits(c)' \/ call'[c].issued
      <3>1. c \notin BotIds(r, n)
        BY <1>1, <1>2, HoldersAssumption
      <3>2. QED
        BY <1>5, <3>1 DEF IdsInUse, SeatPart
    <2>2. ASSUME NEW s \in Room, NEW i \in Nat
          PROVE  <<s, i>> \in playerIDs' <=> i \in DOMAIN room'[s].seats /\ room'[s].seats[i] = Bot
      <3>1. <<s, i>> \in playerIDs <=> i \in DOMAIN room[s].seats /\ room[s].seats[i] = Bot
        BY DEF IdsInUse, SeatPart
      <3>2. <<s, i>> \in BotIds(r, n) <=> s = r /\ i \in (m + 1)..(m + k)
        <4>1. ASSUME NEW j \in 1..k PROVE m + j \in (m + 1)..(m + k)
          BY <1>1
        <4>2. ASSUME i \in (m + 1)..(m + k) PROVE i - m \in 1..k /\ i = m + (i - m)
          BY <1>1, <4>2
        <4>3. QED
          BY <1>2, <4>1, <4>2
      <3>3. CASE s = r
        <4>1. i \in DOMAIN new /\ new[i] = Bot <=>
                 (i \in DOMAIN old /\ old[i] = Bot) \/ i \in (m + 1)..(m + k)
          BY <1>1
        <4>2. QED
          BY <3>1, <3>2, <3>3, <4>1 DEF old, new
      <3>4. CASE s # r
        BY <3>1, <3>2, <3>4
      <3>5. QED
        BY <3>3, <3>4
    <2>3. QED
      BY <2>1, <2>2 DEF IdsInUse
  <1>7. SeatIsTold'
    BY <1>5 DEF SeatIsTold, SeatPart
  <1>8. OneSeatEach'
    <2>1. \A c \in Callers, s \in Room : \A i \in DOMAIN room'[s].seats :
             room'[s].seats[i] = c => i \in DOMAIN room[s].seats /\ room[s].seats[i] = c
      <3>1. \A c \in Callers : \A i \in DOMAIN new : new[i] = c => i \in DOMAIN old /\ old[i] = c
        BY <1>1, <1>3
      <3>2. QED
        BY <3>1 DEF old, new
    <2>2. QED
      BY <2>1 DEF OneSeatEach, SeatPart
  <1>9. QED
    BY <1>6, <1>7, <1>8 DEF SeatPart

\* A room that is gone gives all its ids back.
LEMMA SeatsVacated ==
    ASSUME TypeOK, CallsFit, SeatPart, NEW r \in Room,
           room'[r].seats = <<>>,
           \A s \in Room \ {r} : room'[s].seats = room[s].seats,
           playerIDs' = playerIDs \ IdsOf(r, room[r].seats), call' = call
    PROVE  SeatPart'
  <1>1. \A c \in Callers : c \in IdsOf(r, room[r].seats) <=> SitsIn(c, r)
    <2> SUFFICES ASSUME NEW c \in Callers
                 PROVE  c \in IdsOf(r, room[r].seats) <=> SitsIn(c, r)
      OBVIOUS
    <2>1. \A i \in DOMAIN room[r].seats : c = IdAt(r, room[r].seats, i) <=> room[r].seats[i] = c
      BY SeatsOfRooms, HoldersAssumption DEF IdAt
    <2>2. QED
      BY <2>1 DEF IdsOf, SitsIn
  <1>2. \A s \in Room, i \in Nat : <<s, i>> \in IdsOf(r, room[r].seats) <=>
             s = r /\ i \in DOMAIN room[r].seats /\ room[r].seats[i] = Bot
    <2> SUFFICES ASSUME NEW s \in Room, NEW i \in Nat
                 PROVE  <<s, i>> \in IdsOf(r, room[r].seats) <=>
                           s = r /\ i \in DOMAIN room[r].seats /\ room[r].seats[i] = Bot
      OBVIOUS
    <2>1. \A j \in DOMAIN room[r].seats :
             <<s, i>> = IdAt(r, room[r].seats, j) <=> room[r].seats[j] = Bot /\ s = r /\ i = j
      BY SeatsOfRooms, HoldersAssumption DEF IdAt
    <2>2. QED
      BY <2>1 DEF IdsOf
  <1>3. \A c \in Callers : /\ SitsIn(c, r)' <=> FALSE
                           /\ \A s \in Room \ {r} : SitsIn(c, s)' <=> SitsIn(c, s)
    BY DEF SitsIn
  <1>4. \A c \in Callers : SitsIn(c, r) => /\ \A s \in Room \ {r} : ~SitsIn(c, s)
                                           /\ ~call[c].issued
    <2> SUFFICES ASSUME NEW c \in Callers, SitsIn(c, r)
                 PROVE  (\A s \in Room \ {r} : ~SitsIn(c, s)) /\ ~call[c].issued
      OBVIOUS
    <2>1. \A s \in Room \ {r} : ~SitsIn(c, s)
      BY DEF OneSeatEach, SeatPart, SitsIn
    <2>2. call[c].result = "joined"
      BY DEF SeatIsTold, SeatPart, Sits
    <2>3. QED
      BY <2>1, <2>2 DEF CallsFit, Fits
  <1>5. \A c \in Callers : Sits(c)' <=> Sits(c) /\ ~SitsIn(c, r)
    BY <1>3, <1>4 DEF Sits
  <1>6. IdsInUse'
    <2>1. ASSUME NEW c \in Callers
          PROVE  c \in playerIDs' <=> Sits(c)' \/ call'[c].issued
      BY <1>1, <1>4, <1>5 DEF IdsInUse, SeatPart
    <2>2. ASSUME NEW s \in Room, NEW i \in Nat
          PROVE  <<s, i>> \in playerIDs' <=> i \in DOMAIN room'[s].seats /\ room'[s].seats[i] = Bot
      <3>1. <<s, i>> \in playerIDs <=> i \in DOMAIN room[s].seats /\ room[s].seats[i] = Bot
        BY DEF IdsInUse, SeatPart
      <3>2. CASE s = r
        BY <1>2, <3>1, <3>2
      <3>3. CASE s # r
        BY <1>2, <3>1, <3>3
      <3>4. QED
        BY <3>2, <3>3
    <2>3. QED
      BY <2>1, <2>2 DEF IdsInUse
  <1>7. SeatIsTold'
    BY <1>5 DEF SeatIsTold, SeatPart
  <1>8. OneSeatEach'
    BY DEF OneSeatEach, SeatPart
  <1>9. QED
    BY <1>6, <1>7, <1>8 DEF SeatPart

-----------------------------------------------------------------------------
(* Every action but OpenRoom leaves the rooms as they are, or one of them    *)
(* older: further on in its life, and no readier to accept a player.         *)

Ages(rm, after) ==
    /\ after.stage = "none" <=> rm.stage = "none"
    /\ after.stage = "none" => after = rm
    /\ after.stage = "live" => rm.stage = "live"
    /\ after.stage = "marked" => rm.stage \in {"live", "marked"}
    /\ CanAccept(after) => CanAccept(rm) /\ after.mode = rm.mode /\ after.opener = rm.opener
RoomsAge == \A r \in Room : Ages(room[r], room'[r])

CallsGoOn == \A c \in Callers : call[c].at = "answered" => call'[c].at = "answered"

LEMMA RoomsStay == ASSUME room' = room PROVE RoomsAge
  BY DEF RoomsAge, Ages

LEMMA OneRoomAges ==
    ASSUME TypeOK, NEW r \in Room, NEW x \in RoomRecord,
           room' = [room EXCEPT ![r] = x], Ages(room[r], x)
    PROVE  /\ RoomsAge /\ room' \in [Room -> RoomRecord]
           /\ room'[r] = x /\ \A s \in Room \ {r} : room'[s] = room[s]
  <1>1. room \in [Room -> RoomRecord]
    BY Types
  <1>2. room'[r] = x /\ \A s \in Room \ {r} : room'[s] = room[s]
    BY <1>1
  <1>3. RoomsAge
    BY <1>2 DEF RoomsAge, Ages
  <1>4. QED
    BY <1>1, <1>2, <1>3

\* Seats are added, or a worker or the phase changes, in a room in use.
LEMMA RoomGrows ==
    ASSUME NEW rm \in RoomRecord, NEW x \in RoomRecord, SameRoom(rm, x),
           Len(rm.seats) <= Len(x.seats), rm.stage # "none"
    PROVE  Ages(rm, x)
  <1>1. rm.seats \in Seq(Joins \cup Adders \cup {Bot}) /\ x.seats \in Seq(Joins \cup Adders \cup {Bot})
    BY DEF RoomRecord
  <1>2. Len(rm.seats) \in Nat /\ Len(x.seats) \in Nat
    BY <1>1
  <1>3. rm.mode \in Modes
    BY DEF RoomRecord
  <1>4. Size[rm.mode] \in Nat /\ DebugCapacity \in Nat
    BY <1>3, ModesAssumption, CapacityAssumption
  <1>5. QED
    BY <1>2, <1>4 DEF Ages, CanAccept, SameRoom

LEMMA OneCallMoves ==
    ASSUME TypeOK, CallsFit, NEW c \in Callers, NEW x \in CallRecord,
           call' = [call EXCEPT ![c] = x], Fits(c, x), call[c].at # "answered"
    PROVE  /\ call' \in [Callers -> CallRecord] /\ CallsFit' /\ CallsGoOn
           /\ call'[c] = x /\ \A d \in Callers \ {c} : call'[d] = call[d]
  <1>1. call \in [Callers -> CallRecord]
    BY Types
  <1>2. call'[c] = x /\ \A d \in Callers \ {c} : call'[d] = call[d]
    BY <1>1
  <1>3. CallsFit' /\ CallsGoOn
    BY <1>2 DEF CallsFit, CallsGoOn
  <1>4. QED
    BY <1>1, <1>2, <1>3

\* A call that has no seat moves on, and draws or gives back no id.
LEMMA SeatsKeptByCall ==
    ASSUME SeatInv, NEW c \in Callers, NEW x \in CallRecord,
           call' = [call EXCEPT ![c] = x], call[c].result # "joined",
           x.issued = call[c].issued, UNCHANGED playerIDs,
           \A r \in Room : room'[r].seats = room[r].seats
    PROVE  SeatPart'
  <1>1. call'[c] = x /\ \A d \in Callers \ {c} : call'[d] = call[d]
    BY Types DEF SeatInv
  <1>2. \A d \in Callers : Sits(d) => call'[d].result = "joined"
    BY <1>1 DEF SeatInv, SeatIsTold
  <1>3. \A d \in Callers : d \in playerIDs' <=> Sits(d) \/ call'[d].issued
    BY <1>1 DEF SeatInv, IdsInUse
  <1>4. SeatPart /\ TypeOK
    BY DEF SeatPart, SeatInv
  <1>5. QED
    BY <1>2, <1>3, <1>4, SeatsKept

\* What has to be shown of an action that opens no room.
LEMMA Aging ==
    ASSUME SeatInv, TypeOK', CallsFit', SeatPart', RoomsAge, CallsGoOn
    PROVE  SeatInv'
  <1>1. {r \in Room : room'[r].stage # "none"} = {r \in Room : room[r].stage # "none"}
    BY DEF RoomsAge, Ages
  <1>2. UsedInOrder'
    <2> DEFINE answered == {c \in Joins \cup Creators : call[c].at = "answered"}
               now == {c \in Joins \cup Creators : call'[c].at = "answered"}
    <2>1. PICK k \in 0..Slots :
             /\ {r \in Room : room[r].stage # "none"} = 1..k /\ k <= Cardinality(answered)
      BY DEF SeatInv, UsedInOrder
    <2>2. answered \subseteq now /\ now \subseteq Joins \cup Creators
      BY DEF CallsGoOn, Callers
    <2>3. IsFiniteSet(now) /\ IsFiniteSet(answered)
      BY <2>2, BoundsAssumption, FS_Subset
    <2>4. Cardinality(answered) <= Cardinality(now)
          /\ Cardinality(answered) \in Nat /\ Cardinality(now) \in Nat
      BY <2>2, <2>3, FS_Subset, FS_CardinalityType
    <2>5. k <= Cardinality(now)
      BY <2>1, <2>4, BoundsAssumption
    <2>6. QED
      BY <1>1, <2>1, <2>5 DEF UsedInOrder
  <1>3. UnusedIsEmpty'
    BY DEF SeatInv, UnusedIsEmpty, RoomsAge, Ages
  <1>4. QED
    BY <1>2, <1>3 DEF SeatInv, SeatPart

\* A section that only moves a call on.
LEMMA CallOnly ==
    ASSUME SeatInv, NEW c \in Callers, NEW x \in CallRecord,
           call' = [call EXCEPT ![c] = x], call[c].at # "answered",
           Fits(c, x), x.issued = call[c].issued,
           UNCHANGED <<playerIDs, room>>, mu' \in Joins \cup {None}
    PROVE  SeatInv' /\ RoomsAge
  <1>1. TypeOK /\ CallsFit
    BY DEF SeatInv
  <1>2. call[c].result # "joined"
    BY <1>1 DEF CallsFit, Fits
  <1>3. call' \in [Callers -> CallRecord] /\ CallsFit' /\ CallsGoOn
    BY <1>1, OneCallMoves
  <1>4. SeatPart'
    BY <1>2, SeatsKeptByCall
  <1>5. TypeOK'
    BY <1>1, <1>3, Types, TypesNext
  <1>6. RoomsAge
    BY RoomsStay
  <1>7. QED
    BY <1>3, <1>4, <1>5, <1>6, Aging

\* A caller that sits nowhere draws its id, or gives it back.
LEMMA CallDraws ==
    ASSUME SeatInv, NEW c \in Callers, NEW x \in CallRecord,
           call' = [call EXCEPT ![c] = x], call[c].at # "answered", Fits(c, x),
           \/ x.issued /\ playerIDs' = playerIDs \cup {c}
           \/ ~x.issued /\ playerIDs' = playerIDs \ {c},
           UNCHANGED room, mu' \in Joins \cup {None}
    PROVE  SeatInv' /\ RoomsAge
  <1>1. TypeOK /\ CallsFit /\ SeatPart
    BY DEF SeatInv, SeatPart
  <1>2. ~Sits(c)
    BY <1>1 DEF CallsFit, Fits, SeatPart, SeatIsTold
  <1>3. /\ call' \in [Callers -> CallRecord] /\ CallsFit' /\ CallsGoOn
        /\ call'[c] = x /\ \A d \in Callers \ {c} : call'[d] = call[d]
    BY <1>1, OneCallMoves
  <1>4. SeatPart'
    <2>1. \A d \in Callers : Sits(d) => call'[d].result = "joined"
      BY <1>1, <1>2, <1>3 DEF SeatPart, SeatIsTold
    <2>2. \A d \in Callers : d \in playerIDs' <=> Sits(d) \/ call'[d].issued
      BY <1>1, <1>2, <1>3 DEF SeatPart, IdsInUse
    <2>3. \A r \in Room, i \in Nat : <<r, i>> \in playerIDs' <=> <<r, i>> \in playerIDs
      BY HoldersAssumption
    <2>4. QED
      BY <1>1, <2>1, <2>2, <2>3, SeatsKept
  <1>5. TypeOK'
    BY <1>1, <1>3, Types, TypesNext DEF Ids
  <1>6. RoomsAge
    BY RoomsStay
  <1>7. QED
    BY <1>3, <1>4, <1>5, <1>6, Aging

\* A caller that holds an id, and sits nowhere, is seated in a room.
LEMMA CallSeats ==
    ASSUME SeatInv, NEW c \in Joins \cup Adders, NEW r \in Room, NEW x \in RoomRecord,
           call' = [call EXCEPT ![c] = Answer("joined")],
           call[c].at # "answered", call[c].issued, room[r].stage = "live",
           room' = [room EXCEPT ![r] = x], SameRoom(room[r], x),
           x.seats = Append(room[r].seats, c),
           UNCHANGED playerIDs, mu' \in Joins \cup {None}
    PROVE  SeatInv' /\ RoomsAge
  <1>1. TypeOK /\ CallsFit /\ SeatPart
    BY DEF SeatInv, SeatPart
  <1>2. c \in Callers /\ Answer("joined") \in CallRecord /\ Fits(c, Answer("joined"))
    BY Records DEF Callers, Fits, Answer, Idle
  <1>3. ~Sits(c) /\ c \in playerIDs
    BY <1>1, <1>2 DEF CallsFit, Fits, SeatPart, SeatIsTold, IdsInUse
  <1>4. /\ call' \in [Callers -> CallRecord] /\ CallsFit' /\ CallsGoOn
        /\ call'[c] = Answer("joined") /\ \A d \in Callers \ {c} : call'[d] = call[d]
    BY <1>1, <1>2, OneCallMoves
  <1>5. room[r] \in RoomRecord /\ room[r].seats \in Seq(Joins \cup Adders \cup {Bot})
    BY <1>1, Types DEF RoomRecord
  <1>6. Len(room[r].seats) <= Len(x.seats)
    BY <1>5
  <1>7. /\ RoomsAge /\ room' \in [Room -> RoomRecord]
        /\ room'[r] = x /\ \A s \in Room \ {r} : room'[s] = room[s]
    BY <1>1, <1>5, <1>6, RoomGrows, OneRoomAges
  <1>8. SeatPart'
    <2>1. room'[r].seats = Append(room[r].seats, c) /\ \A s \in Room \ {r} : room'[s].seats = room[s].seats
      BY <1>7
    <2>2. playerIDs' = playerIDs \cup {c} /\ ~call'[c].issued /\ call'[c].result = "joined"
      BY <1>3, <1>4 DEF Answer, Idle
    <2>3. QED
      BY <1>1, <1>2, <1>3, <1>4, <2>1, <2>2, SeatTaken
  <1>9. TypeOK'
    BY <1>1, <1>4, <1>7, Types, TypesNext
  <1>10. QED
    BY <1>4, <1>7, <1>8, <1>9, Aging

\* A section that only changes one room, and no seat of it.
LEMMA RoomOnly ==
    ASSUME SeatInv, NEW r \in Room, NEW x \in RoomRecord,
           room' = [room EXCEPT ![r] = x], Ages(room[r], x), x.seats = room[r].seats,
           UNCHANGED <<mu, playerIDs, call>>
    PROVE  SeatInv' /\ RoomsAge
  <1>1. TypeOK /\ CallsFit /\ SeatPart
    BY DEF SeatInv, SeatPart
  <1>2. /\ RoomsAge /\ room' \in [Room -> RoomRecord]
        /\ room'[r] = x /\ \A s \in Room \ {r} : room'[s] = room[s]
    BY <1>1, OneRoomAges
  <1>3. SeatPart'
    BY <1>1, <1>2, SeatsKept DEF SeatPart, IdsInUse, SeatIsTold
  <1>4. TypeOK' /\ CallsFit' /\ CallsGoOn
    BY <1>1, <1>2, Types, TypesNext DEF CallsFit, CallsGoOn
  <1>5. QED
    BY <1>2, <1>3, <1>4, Aging

\* A section that seats bots in a room.
LEMMA RoomTakesBots ==
    ASSUME SeatInv, NEW r \in Room, NEW n \in Int, NEW x \in RoomRecord,
           room[r].stage # "none", room' = [room EXCEPT ![r] = x],
           SameRoom(room[r], x), x.seats = room[r].seats \o Bots(n),
           playerIDs' = playerIDs \cup BotIds(r, n), UNCHANGED <<mu, call>>
    PROVE  SeatInv' /\ RoomsAge
  <1>1. TypeOK /\ CallsFit /\ SeatPart
    BY DEF SeatInv, SeatPart
  <1>2. room[r] \in RoomRecord /\ room[r].seats \in Seq(Joins \cup Adders \cup {Bot})
    BY <1>1, Types DEF RoomRecord
  <1>3. Bots(n) \in Seq(Joins \cup Adders \cup {Bot}) /\ Len(Bots(n)) \in Nat
    <2>1. Bots(n) \in Seq({Bot})
      BY BotsAreASequence
    <2>2. QED
      BY <2>1, SeqMonotonic
  <1>4. Len(room[r].seats) <= Len(x.seats)
    BY <1>2, <1>3, ConcatProperties
  <1>5. /\ RoomsAge /\ room' \in [Room -> RoomRecord]
        /\ room'[r] = x /\ \A s \in Room \ {r} : room'[s] = room[s]
    BY <1>1, <1>2, <1>4, RoomGrows, OneRoomAges
  <1>6. SeatPart'
    <2>1. room'[r].seats = room[r].seats \o Bots(n) /\ \A s \in Room \ {r} : room'[s].seats = room[s].seats
      BY <1>5
    <2>2. QED
      BY <1>1, <2>1, BotsSeated
  <1>7. BotIds(r, n) \subseteq Ids
    BY <1>2 DEF BotIds, Ids
  <1>8. TypeOK' /\ CallsFit' /\ CallsGoOn
    BY <1>1, <1>5, <1>7, Types, TypesNext DEF CallsFit, CallsGoOn
  <1>9. QED
    BY <1>5, <1>6, <1>8, Aging

-----------------------------------------------------------------------------
(* Opening a room.                                                           *)

Answered == {c \in Joins \cup Creators : call[c].at = "answered"}

\* A call that is not answered yet finds a room to open.
LEMMA FirstUnusedIsNext ==
    ASSUME SeatInv, NEW c \in Joins \cup Creators, call[c].at # "answered"
    PROVE  /\ FirstUnused \in Room /\ room[FirstUnused] = Unused
           /\ {r \in Room : room[r].stage # "none"} \cup {FirstUnused} = 1..FirstUnused
           /\ FirstUnused <= Cardinality(Answered \cup {c})
  <1>1. PICK k \in 0..Slots : /\ {r \in Room : room[r].stage # "none"} = 1..k
                              /\ k <= Cardinality(Answered)
    BY DEF SeatInv, UsedInOrder, Answered
  <1>2. Answered \subseteq Joins \cup Creators /\ c \notin Answered
    BY DEF Answered
  <1>3. IsFiniteSet(Answered) /\ Cardinality(Answered) \in Nat
    BY <1>2, BoundsAssumption, FS_Subset, FS_CardinalityType
  <1>4. /\ IsFiniteSet(Answered \cup {c})
        /\ Cardinality(Answered \cup {c}) = Cardinality(Answered) + 1
    BY <1>2, <1>3, FS_AddElement
  <1>5. Cardinality(Answered) + 1 <= Slots
    <2>1. Answered \cup {c} \subseteq Joins \cup Creators
      BY <1>2
    <2>2. /\ Cardinality(Answered \cup {c}) <= Cardinality(Joins \cup Creators)
          /\ Cardinality(Joins \cup Creators) \in Nat
      BY <2>1, BoundsAssumption, FS_Subset, FS_CardinalityType
    <2>3. QED
      BY <1>3, <1>4, <2>2, BoundsAssumption
  <1>6. k \in Nat /\ k + 1 \in Room /\ Slots \in Nat
    BY <1>1, <1>3, <1>5, BoundsAssumption DEF Room
  <1>7. \A r \in Room : room[r].stage # "none" <=> r <= k
    <2>1. \A r \in Room : r \in 1..k <=> r <= k
      BY <1>6 DEF Room
    <2>2. \A r \in Room : r \in {s \in Room : room[s].stage # "none"} <=> r \in 1..k
      BY <1>1
    <2>3. QED
      BY <2>1, <2>2
  <1> DEFINE Next1(r) == room[r].stage = "none" /\ \A other \in 1..(r - 1) : room[other].stage # "none"
  <1>8. Next1(k + 1)
    <2>1. room[k + 1].stage = "none"
      BY <1>6, <1>7
    <2>2. \A other \in 1..k : other \in Room /\ other <= k
      BY <1>6 DEF Room
    <2>3. k + 1 - 1 = k
      BY <1>6
    <2>4. QED
      BY <1>7, <2>1, <2>2, <2>3
  <1>9. FirstUnused = CHOOSE r \in Room : Next1(r)
    BY DEF FirstUnused
  <1>10. FirstUnused \in Room /\ Next1(FirstUnused)
    <2> HIDE DEF Next1
    <2>1. \E r \in Room : Next1(r)
      BY <1>6, <1>8
    <2>2. QED
      BY <1>9, <2>1
  <1>11. FirstUnused = k + 1
    <2>1. ~(FirstUnused <= k)
      BY <1>7, <1>10
    <2>2. k + 1 \in 1..(FirstUnused - 1) \/ FirstUnused = k + 1
      BY <1>6, <1>10, <2>1 DEF Room
    <2>3. k + 1 \notin 1..(FirstUnused - 1)
      BY <1>8, <1>10
    <2>4. QED
      BY <2>2, <2>3
  <1>12. room[FirstUnused] = Unused
    BY <1>10 DEF SeatInv, UnusedIsEmpty
  <1>13. 1..k \cup {k + 1} = 1..(k + 1)
    BY <1>6
  <1>14. QED
    BY <1>1, <1>3, <1>4, <1>6, <1>10, <1>11, <1>12, <1>13

Opened(c) ==
    LET opened == [Unused EXCEPT !.stage = "live"]
        ours == [opened EXCEPT !.mode = call[c].mode, !.opener = "match"]
    IN IF c \in Joins THEN Joined(ours, c) ELSE opened

LEMMA OpenedRoom ==
    ASSUME TypeOK, NEW c \in Joins \cup Creators
    PROVE  /\ Opened(c) \in RoomRecord /\ Opened(c).stage = "live"
           /\ c \in Joins => /\ Opened(c).mode = call[c].mode
                             /\ Opened(c).seats = Append(<<>>, c)
           /\ c \notin Joins => Opened(c).opener = "debug" /\ Opened(c).seats = <<>>
  <1> DEFINE opened == [Unused EXCEPT !.stage = "live"]
             ours == [opened EXCEPT !.mode = call[c].mode, !.opener = "match"]
  <1>1. call[c].mode \in Modes
    BY Types DEF CallRecord, Callers
  <1>2. /\ opened \in RoomRecord /\ opened.stage = "live" /\ opened.opener = "debug" /\ opened.seats = <<>>
        /\ ours \in RoomRecord /\ ours.stage = "live" /\ ours.mode = call[c].mode /\ ours.seats = <<>>
    BY <1>1, Records DEF RoomRecord, Unused
  <1>3. Opened(c) = IF c \in Joins THEN Joined(ours, c) ELSE opened
    BY DEF Opened
  <1> HIDE DEF opened, ours
  <1>4. QED
    BY <1>2, <1>3, JoinedProperties DEF SameRoom

LEMMA OpenRoomStep ==
    ASSUME SeatInv, NEW c \in Joins \cup Creators, call[c].at # "answered", OpenRoom(c)
    PROVE  SeatInv'
  <1> DEFINE f == FirstUnused
             x == Opened(c)
  <1>1. TypeOK /\ CallsFit /\ SeatPart
    BY DEF SeatInv, SeatPart
  <1>2. /\ room' = [room EXCEPT ![f] = x]
        /\ playerIDs' = IF c \in Joins THEN playerIDs \cup {c} ELSE playerIDs
        /\ call' = [call EXCEPT ![c] = Answer("joined")]
        /\ mu' = IF mu = c THEN None ELSE mu
    BY DEF OpenRoom, Opened, Leave
  <1>3. /\ f \in Room /\ room[f] = Unused
        /\ {r \in Room : room[r].stage # "none"} \cup {f} = 1..f
        /\ f <= Cardinality(Answered \cup {c})
    BY FirstUnusedIsNext
  <1> HIDE DEF f, x
  <1>4. /\ x \in RoomRecord /\ x.stage = "live"
        /\ c \in Joins => x.seats = Append(<<>>, c)
        /\ c \notin Joins => x.seats = <<>>
    BY <1>1, OpenedRoom DEF x
  <1>5. /\ c \in Callers
        /\ c \in Joins \/ c \in Creators
        /\ Answer("joined") \in CallRecord /\ Fits(c, Answer("joined"))
        /\ ~Answer("joined").issued /\ Answer("joined").result = "joined"
        /\ Answer("joined").at = "answered"
    BY Records DEF Callers, Fits, Answer, Idle
  <1>6. /\ call' \in [Callers -> CallRecord] /\ CallsFit' /\ CallsGoOn
        /\ call'[c] = Answer("joined") /\ \A d \in Callers \ {c} : call'[d] = call[d]
    BY <1>1, <1>2, <1>5, OneCallMoves
  <1>7. /\ room' \in [Room -> RoomRecord] /\ room'[f] = x /\ \A s \in Room \ {f} : room'[s] = room[s]
    BY <1>1, <1>2, <1>3, <1>4, Types
  <1>8. TypeOK'
    <2>1. c \in Ids
      BY <1>5 DEF Ids
    <2>2. QED
      BY <1>1, <1>2, <1>6, <1>7, <2>1, Types, TypesNext
  <1>9. SeatPart'
    <2>1. room[f].seats = <<>>
      BY <1>3 DEF Unused
    <2>2. CASE c \in Joins
      <3>1. ~Sits(c)
        BY <1>1, <1>5 DEF CallsFit, Fits, SeatPart, SeatIsTold
      <3>2. /\ room'[f].seats = Append(room[f].seats, c)
            /\ \A s \in Room \ {f} : room'[s].seats = room[s].seats
            /\ playerIDs' = playerIDs \cup {c}
            /\ ~call'[c].issued /\ call'[c].result = "joined"
        BY <1>2, <1>4, <1>5, <1>6, <1>7, <2>1, <2>2
      <3>3. QED
        BY <1>1, <1>3, <1>5, <1>6, <3>1, <3>2, SeatTaken
    <2>3. CASE c \notin Joins
      <3>1. c \in Creators /\ ~call[c].issued
        BY <1>1, <1>5, <2>3 DEF CallsFit, Fits
      <3>2. \A r \in Room : room'[r].seats = room[r].seats
        BY <1>4, <1>7, <2>1, <2>3
      <3>3. playerIDs' = playerIDs
        BY <1>2, <2>3
      <3>4. \A d \in Callers : Sits(d) => call'[d].result = "joined"
        BY <1>1, <1>5, <1>6 DEF SeatPart, SeatIsTold
      <3>5. \A d \in Callers : call'[d].issued <=> call[d].issued
        BY <1>5, <1>6, <3>1
      <3>6. \A d \in Callers : d \in playerIDs' <=> Sits(d) \/ call'[d].issued
        BY <1>1, <3>3, <3>5 DEF SeatPart, IdsInUse
      <3>7. QED
        BY <1>1, <3>2, <3>3, <3>4, <3>6, SeatsKept
    <2>4. QED
      BY <2>2, <2>3
  <1>10. UsedInOrder'
    <2>1. {r \in Room : room'[r].stage # "none"} = 1..f
      BY <1>3, <1>4, <1>7
    <2>2. Answered' = Answered \cup {c}
      BY <1>5, <1>6 DEF Answered, Callers
    <2>3. f \in 0..Slots
      BY <1>3, BoundsAssumption DEF Room
    <2>4. f <= Cardinality(Answered')
      BY <1>3, <2>2
    <2>5. QED
      BY <2>1, <2>3, <2>4 DEF UsedInOrder, Answered
  <1>11. UnusedIsEmpty'
    BY <1>4, <1>7 DEF SeatInv, UnusedIsEmpty
  <1>12. QED
    BY <1>6, <1>8, <1>9, <1>10, <1>11 DEF SeatInv, SeatPart

-----------------------------------------------------------------------------
(* The actions one by one.                                                   *)

\* What is known of a call and of the room it is at.
LEMMA CallFacts ==
    ASSUME SeatInv, NEW c \in Callers
    PROVE  call[c] \in CallRecord /\ Fits(c, call[c]) /\ mu \in Joins \cup {None}
  BY Types DEF SeatInv, CallsFit

LEMMA RoomFacts ==
    ASSUME SeatInv, NEW r \in Room
    PROVE  room[r] \in RoomRecord /\ room[r].seats \in Seq(Joins \cup Adders \cup {Bot})
  BY Types DEF SeatInv, RoomRecord

LEMMA LeaveType ==
    ASSUME SeatInv, NEW c, Leave(c) PROVE mu' \in Joins \cup {None}
  BY Types DEF SeatInv, Leave

LEMMA StartJoinStep ==
    ASSUME SeatInv, NEW q \in Joins, StartJoin(q) PROVE SeatInv' /\ RoomsAge
  <1>1. q \in Callers
    BY DEF Callers
  <1>2. call[q] = Idle
    BY <1>1, CallFacts DEF StartJoin, Fits
  <1>3. PICK mode \in Modes :
           call' = [call EXCEPT ![q] = [Idle EXCEPT !.at = "scan", !.mode = mode, !.left = Registered]]
    BY DEF StartJoin
  <1> DEFINE x == [Idle EXCEPT !.at = "scan", !.mode = mode, !.left = Registered]
  <1>4. x \in CallRecord /\ Fits(q, x) /\ x.issued = call[q].issued
    BY <1>2 DEF Idle, CallRecord, Fits, Registered
  <1>5. call[q].at # "answered" /\ UNCHANGED <<playerIDs, room>> /\ mu' \in Joins \cup {None}
    BY DEF StartJoin
  <1> HIDE DEF x
  <1>6. call' = [call EXCEPT ![q] = x]
    BY <1>3 DEF x
  <1>7. QED
    BY <1>1, <1>4, <1>5, <1>6, CallOnly

LEMMA LookStep ==
    ASSUME SeatInv, NEW q \in Joins, Look(q) PROVE SeatInv' /\ RoomsAge
  <1>1. q \in Callers
    BY DEF Callers
  <1>2. PICK r \in call[q].left :
           call' = IF room[r].mode = call[q].mode /\ CanAccept(room[r])
                   THEN [call EXCEPT ![q].at = IF call[q].issued THEN "try" ELSE "issue",
                                     ![q].target = r, ![q].left = @ \ {r}]
                   ELSE [call EXCEPT ![q].left = @ \ {r}]
    BY DEF Look
  <1> DEFINE x == IF room[r].mode = call[q].mode /\ CanAccept(room[r])
                  THEN [call[q] EXCEPT !.at = IF call[q].issued THEN "try" ELSE "issue",
                                       !.target = r, !.left = @ \ {r}]
                  ELSE [call[q] EXCEPT !.left = @ \ {r}]
  <1>3. call[q].at = "scan" /\ call[q] \in CallRecord /\ Fits(q, call[q]) /\ mu \in Joins \cup {None}
    BY <1>1, CallFacts DEF Look
  <1>4. r \in Room
    BY <1>3 DEF CallRecord
  <1>5. x \in CallRecord /\ Fits(q, x) /\ x.issued = call[q].issued
    BY <1>3, <1>4 DEF CallRecord, Fits
  <1>6. call' = [call EXCEPT ![q] = x]
    BY <1>1, <1>2, Types DEF SeatInv
  <1> HIDE DEF x
  <1>7. QED
    BY <1>1, <1>3, <1>5, <1>6, CallOnly DEF Look

LEMMA IssueStep ==
    ASSUME SeatInv, NEW q \in Joins, IssueCredentials(q) PROVE SeatInv' /\ RoomsAge
  <1>1. q \in Callers /\ q \notin Creators
    BY CallersAssumption DEF Callers
  <1>2. /\ call[q].at = "issue" /\ call[q] \in CallRecord /\ Fits(q, call[q])
        /\ mu \in Joins \cup {None}
    BY <1>1, CallFacts DEF IssueCredentials
  <1>3. CASE /\ playerIDs' = playerIDs \cup {q} /\ UNCHANGED mu
             /\ call' = [call EXCEPT ![q] = [@ EXCEPT !.at = "try", !.issued = TRUE]]
    <2> DEFINE x == [call[q] EXCEPT !.at = "try", !.issued = TRUE]
    <2>1. x \in CallRecord /\ Fits(q, x) /\ x.issued
      BY <1>1, <1>2 DEF CallRecord, Fits
    <2>2. call' = [call EXCEPT ![q] = x]
      BY <1>3
    <2> HIDE DEF x
    <2>3. UNCHANGED room /\ mu' \in Joins \cup {None}
      BY <1>2, <1>3 DEF IssueCredentials
    <2>4. QED
      BY <1>1, <1>2, <1>3, <2>1, <2>2, <2>3, CallDraws
  <1>4. CASE call' = [call EXCEPT ![q] = Answer("error")] /\ Leave(q) /\ UNCHANGED playerIDs
    <2>1. call[q].issued = FALSE
      BY <1>2 DEF Fits, CallRecord
    <2>2. Answer("error") \in CallRecord /\ Fits(q, Answer("error")) /\ Answer("error").issued = FALSE
      BY Records DEF Answer, Idle, Fits
    <2>3. UNCHANGED <<playerIDs, room>> /\ mu' \in Joins \cup {None}
      BY <1>4, LeaveType DEF IssueCredentials
    <2>4. QED
      BY <1>1, <1>2, <1>4, <2>1, <2>2, <2>3, CallOnly
  <1>5. QED
    BY <1>3, <1>4 DEF IssueCredentials

LEMMA TryJoinStep ==
    ASSUME SeatInv, NEW q \in Joins, TryJoinRoom(q) PROVE SeatInv' /\ RoomsAge
  <1> DEFINE r == call[q].target
  <1>1. q \in Callers /\ q \in Joins \cup Adders
    BY DEF Callers
  <1>2. /\ call[q].at = "try" /\ call[q] \in CallRecord /\ Fits(q, call[q])
        /\ mu \in Joins \cup {None} /\ r \in Room /\ call[q].issued
    BY <1>1, CallFacts DEF TryJoinRoom, Fits
  <1>3. UNCHANGED playerIDs
    BY DEF TryJoinRoom
  <1>4. CASE CanAccept(room[r])
    <2> DEFINE x == Joined(room[r], q)
    <2>1. /\ room' = [room EXCEPT ![r] = x]
          /\ call' = [call EXCEPT ![q] = Answer("joined")] /\ Leave(q)
      BY <1>4 DEF TryJoinRoom
    <2>2. /\ x \in RoomRecord /\ SameRoom(room[r], x)
          /\ x.seats = Append(room[r].seats, q)
      BY <1>2, RoomFacts, JoinedProperties
    <2> HIDE DEF x
    <2>3. mu' \in Joins \cup {None} /\ room[r].stage = "live"
      BY <1>4, <2>1, LeaveType DEF CanAccept
    <2> HIDE DEF r
    <2>4. QED
      BY <1>1, <1>2, <1>3, <2>1, <2>2, <2>3, CallSeats
  <1>5. CASE ~CanAccept(room[r])
    <2> DEFINE x == [call[q] EXCEPT !.at = "scan", !.target = 0]
    <2>1. call' = [call EXCEPT ![q] = x] /\ UNCHANGED <<mu, room>>
      BY <1>5 DEF TryJoinRoom
    <2>2. x \in CallRecord /\ Fits(q, x) /\ x.issued = call[q].issued
      BY <1>1, <1>2 DEF CallRecord, Fits
    <2> HIDE DEF x
    <2>3. QED
      BY <1>1, <1>2, <1>3, <2>1, <2>2, CallOnly
  <1>6. QED
    BY <1>4, <1>5

LEMMA RefuseStep ==
    ASSUME SeatInv, NEW c \in Joins \cup Creators, NEW result \in {"cap", "error"},
           call[c].at # "answered", Refuse(c, result), UNCHANGED <<playerIDs, room>>
    PROVE  SeatInv' /\ RoomsAge
  <1>1. c \in Callers
    BY DEF Callers
  <1>2. call[c] \in CallRecord /\ Fits(c, call[c]) /\ mu \in Joins \cup {None}
    BY <1>1, CallFacts
  <1>3. CASE call[c].issued
    <2> DEFINE x == [call[c] EXCEPT !.at = "release", !.result = result]
    <2>1. call' = [call EXCEPT ![c] = x] /\ UNCHANGED mu
      BY <1>3 DEF Refuse
    <2>2. x \in CallRecord /\ Fits(c, x) /\ x.issued = call[c].issued
      BY <1>2 DEF CallRecord, Fits
    <2> HIDE DEF x
    <2>3. QED
      BY <1>1, <1>2, <2>1, <2>2, CallOnly
  <1>4. CASE ~call[c].issued
    <2>1. call' = [call EXCEPT ![c] = Answer(result)] /\ Leave(c)
      BY <1>4 DEF Refuse
    <2>2. /\ Answer(result) \in CallRecord /\ Fits(c, Answer(result))
          /\ Answer(result).issued = call[c].issued
      <3>1. call[c].issued = FALSE
        BY <1>2, <1>4 DEF CallRecord
      <3>2. Answer(result) \in CallRecord
        BY Records
      <3>3. Fits(c, Answer(result)) /\ Answer(result).issued = FALSE
        BY DEF Answer, Idle, Fits
      <3>4. QED
        BY <3>1, <3>2, <3>3
    <2>3. mu' \in Joins \cup {None}
      BY <2>1, LeaveType
    <2>4. QED
      BY <1>1, <2>1, <2>2, <2>3, CallOnly
  <1>5. QED
    BY <1>3, <1>4

LEMMA CreateRoomStep ==
    ASSUME SeatInv, NEW c \in Joins \cup Creators, CreateRoom(c)
    PROVE  /\ SeatInv'
           /\ call[c].at # "answered"
           /\ RoomsAge \/ OpenRoom(c)
  <1>1. c \in Callers
    BY DEF Callers
  <1>2. /\ call[c] \in CallRecord /\ Fits(c, call[c]) /\ mu \in Joins \cup {None}
        /\ call[c].at # "answered"
    BY <1>1, CallFacts DEF CreateRoom
  <1>3. CASE AtCap(c)
    <2>1. CASE call[c].tries = 0
      <3> DEFINE x == [call[c] EXCEPT !.at = "full", !.tries = 1]
      <3>1. call' = [call EXCEPT ![c] = x] /\ UNCHANGED <<mu, playerIDs, room>>
        BY <1>3, <2>1 DEF AtCap
      <3>2. x \in CallRecord /\ Fits(c, x) /\ x.issued = call[c].issued
        BY <1>1, <1>2 DEF CallRecord, Fits, Idle
      <3> HIDE DEF x
      <3>3. QED
        BY <1>1, <1>2, <3>1, <3>2, CallOnly
    <2>2. CASE call[c].tries # 0
      BY <1>2, <1>3, <2>2, RefuseStep DEF AtCap
    <2>3. QED
      BY <2>1, <2>2
  <1>4. CASE OpenRoom(c)
    BY <1>2, <1>4, OpenRoomStep
  <1>5. CASE OpenFails(c)
    BY <1>2, <1>5, RefuseStep DEF OpenFails
  <1>6. QED
    BY <1>2, <1>3, <1>4, <1>5 DEF CreateRoom

LEMMA EvictionSteps ==
    ASSUME SeatInv, NEW c \in Joins \cup Creators,
           StartEviction(c) \/ Evict(c) \/ FinishEviction(c)
    PROVE  SeatInv' /\ RoomsAge
  <1>1. c \in Callers
    BY DEF Callers
  <1>2. call[c] \in CallRecord /\ Fits(c, call[c]) /\ mu \in Joins \cup {None}
    BY <1>1, CallFacts
  <1>3. CASE StartEviction(c)
    <2> DEFINE x == [call[c] EXCEPT !.at = "evict", !.left = Registered, !.target = 0,
                                    !.excused = {r \in Room : room[r].stage = "none"}]
    <2>1. call' = [call EXCEPT ![c] = x] /\ UNCHANGED <<mu, playerIDs, room>> /\ call[c].at = "full"
      BY <1>3 DEF StartEviction
    <2>2. x \in CallRecord /\ Fits(c, x) /\ x.issued = call[c].issued
      BY <1>2, <2>1 DEF CallRecord, Fits, Registered
    <2> HIDE DEF x
    <2>3. QED
      BY <1>1, <1>2, <2>1, <2>2, CallOnly
  <1>4. CASE FinishEviction(c)
    <2> DEFINE x == [call[c] EXCEPT !.at = "retry", !.target = 0]
    <2>1. call' = [call EXCEPT ![c] = x] /\ UNCHANGED <<mu, playerIDs, room>> /\ call[c].at = "evict"
      BY <1>4 DEF FinishEviction
    <2>2. x \in CallRecord /\ Fits(c, x) /\ x.issued = call[c].issued
      BY <1>2, <2>1 DEF CallRecord, Fits
    <2> HIDE DEF x
    <2>3. QED
      BY <1>1, <1>2, <2>1, <2>2, CallOnly
  <1>5. CASE Evict(c)
    <2>1. PICK r \in call[c].left :
             \/ /\ room[r].stage = "live" /\ room' = Marked(r)
                /\ call' = [call EXCEPT ![c].left = @ \ {r}, ![c].target = r]
             \/ /\ call' = [call EXCEPT ![c].left = @ \ {r}, ![c].target = 0,
                               ![c].excused = IF room[r].stage = "live" THEN @ \cup {r} ELSE @]
                /\ UNCHANGED room
      BY <1>5 DEF Evict
    <2>2. call[c].at = "evict" /\ UNCHANGED <<mu, playerIDs>> /\ r \in Room
      BY <1>2, <1>5 DEF Evict, CallRecord
    <2>3. CASE /\ room[r].stage = "live" /\ room' = Marked(r)
               /\ call' = [call EXCEPT ![c].left = @ \ {r}, ![c].target = r]
      <3> DEFINE x == [call[c] EXCEPT !.left = @ \ {r}, !.target = r]
                 y == [DetachBotFill(room[r]) EXCEPT !.stage = "marked"]
      <3>1. call' = [call EXCEPT ![c] = x]
        BY <1>1, <2>3, Types DEF SeatInv
      <3>2. x \in CallRecord /\ Fits(c, x) /\ x.issued = call[c].issued
        BY <1>2, <2>2 DEF CallRecord, Fits
      <3>3. room' = [room EXCEPT ![r] = y]
        BY <2>3 DEF Marked
      <3>4. y \in RoomRecord /\ Ages(room[r], y) /\ y.seats = room[r].seats
        BY <2>2, <2>3, RoomFacts, FillProperties DEF RoomRecord, Ages, CanAccept
      <3> HIDE DEF x, y
      <3>5. call' \in [Callers -> CallRecord] /\ CallsFit' /\ CallsGoOn
        BY <1>1, <2>2, <3>1, <3>2, OneCallMoves DEF SeatInv
      <3>6. RoomsAge /\ room' \in [Room -> RoomRecord] /\ \A s \in Room : room'[s].seats = room[s].seats
        BY <2>2, <3>3, <3>4, OneRoomAges DEF SeatInv
      <3>7. SeatPart'
        BY <1>1, <1>2, <2>2, <3>1, <3>2, <3>6, SeatsKeptByCall DEF Fits
      <3>8. TypeOK'
        BY <1>2, <2>2, <3>5, <3>6, Types, TypesNext DEF SeatInv
      <3>9. QED
        BY <3>5, <3>6, <3>7, <3>8, Aging
    <2>4. CASE /\ call' = [call EXCEPT ![c].left = @ \ {r}, ![c].target = 0,
                              ![c].excused = IF room[r].stage = "live" THEN @ \cup {r} ELSE @]
               /\ UNCHANGED room
      <3> DEFINE x == [call[c] EXCEPT !.left = @ \ {r}, !.target = 0,
                          !.excused = IF room[r].stage = "live" THEN @ \cup {r} ELSE @]
      <3>1. call' = [call EXCEPT ![c] = x]
        BY <1>1, <2>4, Types DEF SeatInv
      <3>2. x \in CallRecord /\ Fits(c, x) /\ x.issued = call[c].issued
        BY <1>2, <2>2 DEF CallRecord, Fits
      <3> HIDE DEF x
      <3>3. QED
        BY <1>1, <1>2, <2>2, <2>4, <3>1, <3>2, CallOnly
    <2>5. QED
      BY <2>1, <2>3, <2>4
  <1>6. QED
    BY <1>3, <1>4, <1>5

LEMMA ReleaseStep ==
    ASSUME SeatInv, NEW c \in Callers, Release(c) PROVE SeatInv' /\ RoomsAge
  <1>1. /\ call[c] \in CallRecord /\ Fits(c, call[c]) /\ call[c].at = "release"
        /\ call' = [call EXCEPT ![c] = Answer(@.result)]
        /\ playerIDs' = playerIDs \ {c} /\ Leave(c) /\ UNCHANGED room
    BY CallFacts DEF Release
  <1> DEFINE x == Answer(call[c].result)
  <1>2. x \in CallRecord /\ Fits(c, x) /\ ~x.issued
    <2>1. call[c].result \in {"none", "joined", "cap", "error", "refused"}
      BY <1>1 DEF CallRecord
    <2>2. x \in CallRecord
      BY <2>1, Records
    <2>3. Fits(c, x) /\ ~x.issued
      BY DEF Answer, Idle, Fits
    <2>4. QED
      BY <2>2, <2>3
  <1>3. call' = [call EXCEPT ![c] = x]
    BY <1>1
  <1> HIDE DEF x
  <1>4. mu' \in Joins \cup {None}
    BY <1>1, LeaveType
  <1>5. QED
    BY <1>1, <1>2, <1>3, <1>4, CallDraws

LEMMA AddPlayerSteps ==
    ASSUME SeatInv, NEW d \in Adders, StartAddPlayer(d) \/ AddPlayer(d)
    PROVE  SeatInv' /\ RoomsAge
  <1>1. d \in Callers /\ d \in Joins \cup Adders /\ d \notin Creators
    BY CallersAssumption DEF Callers
  <1>2. call[d] \in CallRecord /\ Fits(d, call[d]) /\ mu \in Joins \cup {None}
    BY <1>1, CallFacts
  <1>3. CASE StartAddPlayer(d)
    <2>1. call[d] = Idle /\ UNCHANGED <<mu, room>>
      BY <1>2, <1>3 DEF StartAddPlayer, Fits
    <2>2. PICK r \in Registered :
             \/ /\ playerIDs' = playerIDs \cup {d}
                /\ call' = [call EXCEPT ![d] = [Idle EXCEPT !.at = "seat", !.issued = TRUE, !.target = r]]
             \/ call' = [call EXCEPT ![d] = Answer("error")] /\ UNCHANGED playerIDs
      BY <1>3 DEF StartAddPlayer
    <2>3. CASE /\ playerIDs' = playerIDs \cup {d}
               /\ call' = [call EXCEPT ![d] = [Idle EXCEPT !.at = "seat", !.issued = TRUE, !.target = r]]
      <3> DEFINE x == [Idle EXCEPT !.at = "seat", !.issued = TRUE, !.target = r]
      <3>1. x \in CallRecord /\ Fits(d, x) /\ x.issued
        BY <1>1, Records DEF Idle, CallRecord, Fits, Registered
      <3>2. call' = [call EXCEPT ![d] = x] /\ call[d].at # "answered"
        BY <2>1, <2>3 DEF Idle
      <3> HIDE DEF x
      <3>3. QED
        BY <1>1, <1>2, <2>1, <2>3, <3>1, <3>2, CallDraws
    <2>4. CASE call' = [call EXCEPT ![d] = Answer("error")] /\ UNCHANGED playerIDs
      <3>1. /\ Answer("error") \in CallRecord /\ Fits(d, Answer("error"))
            /\ Answer("error").issued = call[d].issued /\ call[d].at # "answered"
        BY <2>1, Records DEF Answer, Idle, Fits
      <3>2. QED
        BY <1>1, <1>2, <2>1, <2>4, <3>1, CallOnly
    <2>5. QED
      BY <2>2, <2>3, <2>4
  <1>4. CASE AddPlayer(d)
    <2> DEFINE r == call[d].target
    <2>1. /\ r \in Room /\ call[d].issued /\ call[d].at # "answered"
          /\ UNCHANGED <<mu, playerIDs>>
      BY <1>2, <1>4 DEF AddPlayer, Fits
    <2>2. CASE room[r].stage = "live" /\ room[r].phase = "waiting" /\ Len(room[r].seats) < DebugCapacity
      <3> DEFINE x == [room[r] EXCEPT !.seats = Append(@, d)]
      <3>1. /\ room' = [room EXCEPT ![r].seats = Append(@, d)]
            /\ call' = [call EXCEPT ![d] = Answer("joined")]
        BY <1>4, <2>2 DEF AddPlayer
      <3>2. room' = [room EXCEPT ![r] = x]
        BY <3>1
      <3>3. Append(room[r].seats, d) \in Seq(Joins \cup Adders \cup {Bot})
        BY <2>1, RoomFacts
      <3>4. /\ x \in RoomRecord /\ SameRoom(room[r], x)
            /\ x.seats = Append(room[r].seats, d)
        BY <2>1, <3>3, RoomFacts DEF RoomRecord, SameRoom
      <3> HIDE DEF x, r
      <3>5. QED
        BY <1>1, <1>2, <2>1, <2>2, <3>1, <3>2, <3>4, CallSeats
    <2>3. CASE ~(room[r].stage = "live" /\ room[r].phase = "waiting" /\ Len(room[r].seats) < DebugCapacity)
      <3> DEFINE x == [call[d] EXCEPT !.at = "release", !.result = "refused"]
      <3>1. call' = [call EXCEPT ![d] = x] /\ UNCHANGED room
        BY <1>4, <2>3 DEF AddPlayer
      <3>2. x \in CallRecord /\ Fits(d, x) /\ x.issued = call[d].issued
        BY <1>2 DEF CallRecord, Fits
      <3> HIDE DEF x, r
      <3>3. QED
        BY <1>1, <1>2, <2>1, <3>1, <3>2, CallOnly
    <2>4. QED
      BY <2>2, <2>3
  <1>5. QED
    BY <1>3, <1>4

LEMMA RemovalSteps ==
    ASSUME SeatInv, NEW r \in Room, Remove(r) \/ Unregister(r) \/ ReleaseRoomIds(r)
    PROVE  SeatInv' /\ RoomsAge
  <1>1. room[r] \in RoomRecord
    BY RoomFacts
  <1>2. CASE Remove(r)
    <2> DEFINE x == [DetachBotFill(room[r]) EXCEPT !.stage = "marked"]
    <2>1. room' = [room EXCEPT ![r] = x] /\ UNCHANGED <<mu, playerIDs, call>>
      BY <1>2 DEF Remove, Marked
    <2>2. x \in RoomRecord /\ Ages(room[r], x) /\ x.seats = room[r].seats
      BY <1>1, <1>2, FillProperties DEF RoomRecord, Ages, CanAccept, Remove
    <2> HIDE DEF x
    <2>3. QED
      BY <2>1, <2>2, RoomOnly
  <1>3. CASE Unregister(r)
    <2> DEFINE x == [room[r] EXCEPT !.stage = "unregistered"]
    <2>1. room' = [room EXCEPT ![r] = x] /\ UNCHANGED <<mu, playerIDs, call>>
      BY <1>3 DEF Unregister
    <2>2. x \in RoomRecord /\ Ages(room[r], x) /\ x.seats = room[r].seats
      BY <1>1, <1>3 DEF RoomRecord, Ages, CanAccept, Unregister
    <2> HIDE DEF x
    <2>3. QED
      BY <2>1, <2>2, RoomOnly
  <1>4. CASE ReleaseRoomIds(r)
    <2> DEFINE x == [Unused EXCEPT !.stage = "gone"]
    <2>1. /\ room' = [room EXCEPT ![r] = x] /\ UNCHANGED <<mu, call>>
          /\ playerIDs' = playerIDs \ IdsOf(r, room[r].seats)
      BY <1>4 DEF ReleaseRoomIds
    <2>2. x \in RoomRecord /\ Ages(room[r], x) /\ x.seats = <<>>
      BY <1>4, Records DEF RoomRecord, Ages, CanAccept, Unused, ReleaseRoomIds
    <2> HIDE DEF x
    <2>3. TypeOK /\ CallsFit /\ SeatPart
      BY DEF SeatInv, SeatPart
    <2>4. /\ RoomsAge /\ room' \in [Room -> RoomRecord]
          /\ room'[r] = x /\ \A s \in Room \ {r} : room'[s] = room[s]
      BY <2>1, <2>2, <2>3, OneRoomAges
    <2>5. SeatPart'
      BY <2>1, <2>2, <2>3, <2>4, SeatsVacated
    <2>6. TypeOK' /\ CallsFit' /\ CallsGoOn
      BY <2>1, <2>3, <2>4, Types, TypesNext DEF CallsFit, CallsGoOn
    <2>7. QED
      BY <2>4, <2>5, <2>6, Aging
  <1>5. QED
    BY <1>2, <1>3, <1>4

LEMMA StartRoomStep ==
    ASSUME SeatInv, NEW r \in Room, StartRoom(r) PROVE SeatInv' /\ RoomsAge
  <1> DEFINE x == [DetachBotFill(room[r]) EXCEPT !.phase = "matched"]
  <1>1. room' = [room EXCEPT ![r] = x] /\ UNCHANGED <<mu, playerIDs, call>>
    BY DEF StartRoom
  <1>2. x \in RoomRecord /\ Ages(room[r], x) /\ x.seats = room[r].seats
    BY RoomFacts, FillProperties DEF RoomRecord, Ages, CanAccept, StartRoom, SameRoom
  <1> HIDE DEF x
  <1>3. QED
    BY <1>1, <1>2, RoomOnly

LEMMA BotSteps ==
    ASSUME SeatInv, NEW r \in Room, FillBots(r) \/ AddBots(r) PROVE SeatInv' /\ RoomsAge
  <1> DEFINE n == Size[room[r].mode] - Len(room[r].seats)
  <1>1. room[r] \in RoomRecord /\ room[r].mode \in Modes /\ n \in Int
    BY RoomFacts, ModesAssumption DEF RoomRecord
  <1>2. \A k \in Int : /\ WithSeats(room[r], Bots(k)) \in RoomRecord
                       /\ WithSeats(room[r], Bots(k)).seats = room[r].seats \o Bots(k)
                       /\ SameRoom(room[r], WithSeats(room[r], Bots(k)))
    <2> SUFFICES ASSUME NEW k \in Int
                 PROVE  /\ WithSeats(room[r], Bots(k)) \in RoomRecord
                        /\ WithSeats(room[r], Bots(k)).seats = room[r].seats \o Bots(k)
                        /\ SameRoom(room[r], WithSeats(room[r], Bots(k)))
      OBVIOUS
    <2>1. Bots(k) \in Seq(Joins \cup Adders \cup {Bot})
      BY BotsAreASequence, SeqMonotonic
    <2>2. QED
      BY <1>1, <2>1, WithSeatsProperties
  <1> DEFINE Grown(k) == WithSeats(room[r], Bots(k))
  <1>3. \A k \in Int : /\ DetachBotFill(Grown(k)) \in RoomRecord
                       /\ DetachBotFill(Grown(k)).seats = room[r].seats \o Bots(k)
                       /\ SameRoom(room[r], DetachBotFill(Grown(k)))
    <2> SUFFICES ASSUME NEW k \in Int
                 PROVE  /\ DetachBotFill(Grown(k)) \in RoomRecord
                        /\ DetachBotFill(Grown(k)).seats = room[r].seats \o Bots(k)
                        /\ SameRoom(room[r], DetachBotFill(Grown(k)))
      OBVIOUS
    <2>1. /\ Grown(k) \in RoomRecord /\ Grown(k).seats = room[r].seats \o Bots(k)
          /\ SameRoom(room[r], Grown(k))
      BY <1>2
    <2> HIDE DEF Grown
    <2>2. QED
      BY <2>1, FillProperties DEF SameRoom
  <1>4. CASE FillBots(r)
    <2>1. room[r].fill = "armed" /\ UNCHANGED <<mu, call>>
      BY <1>4 DEF FillBots
    <2>2. room[r].stage # "none"
      BY <2>1 DEF SeatInv, UnusedIsEmpty, Unused
    <2>3. CASE /\ room' = [room EXCEPT ![r] = DetachBotFill(Grown(n))]
               /\ playerIDs' = playerIDs \cup BotIds(r, n)
      <3> HIDE DEF n, Grown
      <3>1. QED
        BY <1>1, <1>3, <2>1, <2>2, <2>3, RoomTakesBots
    <2>4. CASE room' = [room EXCEPT ![r].fill = "failed"] /\ UNCHANGED playerIDs
      <3> DEFINE x == [room[r] EXCEPT !.fill = "failed"]
      <3>1. room' = [room EXCEPT ![r] = x]
        BY <2>4
      <3>2. x \in RoomRecord /\ Ages(room[r], x) /\ x.seats = room[r].seats
        BY <1>1, <2>2 DEF RoomRecord, Ages, CanAccept
      <3> HIDE DEF x
      <3>3. QED
        BY <2>1, <2>4, <3>1, <3>2, RoomOnly
    <2>5. \/ /\ room' = [room EXCEPT ![r] = DetachBotFill(Grown(n))]
             /\ playerIDs' = playerIDs \cup BotIds(r, n)
          \/ room' = [room EXCEPT ![r].fill = "failed"] /\ UNCHANGED playerIDs
      BY <1>4 DEF FillBots
    <2>6. QED
      BY <2>3, <2>4, <2>5
  <1>5. CASE AddBots(r)
    <2>1. PICK k \in 1..n :
             /\ room' = [room EXCEPT ![r] = IF IsFull(Grown(k)) THEN DetachBotFill(Grown(k)) ELSE Grown(k)]
             /\ playerIDs' = playerIDs \cup BotIds(r, k)
      BY <1>5 DEF AddBots
    <2>2. k \in Int /\ room[r].stage # "none" /\ UNCHANGED <<mu, call>>
      BY <1>5 DEF AddBots
    <2> DEFINE x == IF IsFull(Grown(k)) THEN DetachBotFill(Grown(k)) ELSE Grown(k)
    <2>3. x \in RoomRecord /\ SameRoom(room[r], x) /\ x.seats = room[r].seats \o Bots(k)
      BY <1>2, <1>3, <2>2
    <2>4. room' = [room EXCEPT ![r] = x]
      BY <2>1
    <2> HIDE DEF x, n, Grown
    <2>5. QED
      BY <2>1, <2>2, <2>3, <2>4, RoomTakesBots
  <1>6. QED
    BY <1>4, <1>5

LEMMA SeatStep ==
    ASSUME SeatInv, [Next]_vars
    PROVE  /\ SeatInv'
           /\ RoomsAge \/ \E c \in Joins \cup Creators : call[c].at # "answered" /\ OpenRoom(c)
  <1>1. ASSUME NEW q \in Joins, StartJoin(q) \/ JoinStep(q)
        PROVE  SeatInv' /\ RoomsAge
    BY <1>1, StartJoinStep, LookStep, IssueStep, TryJoinStep DEF JoinStep
  <1>2. ASSUME NEW c \in Joins \cup Creators, CreateStep(c)
        PROVE  SeatInv' /\ (RoomsAge \/ (call[c].at # "answered" /\ OpenRoom(c)))
    BY <1>2, CreateRoomStep, EvictionSteps DEF CreateStep
  <1>3. ASSUME NEW d \in Adders, StartAddPlayer(d) \/ AddPlayer(d)
        PROVE  SeatInv' /\ RoomsAge
    BY <1>3, AddPlayerSteps
  <1>4. ASSUME NEW c \in Callers, Release(c)
        PROVE  SeatInv' /\ RoomsAge
    BY <1>4, ReleaseStep
  <1>5. ASSUME NEW r \in Room, Remove(r) \/ RemovalStep(r) \/ FillBots(r) \/ AddBots(r) \/ StartRoom(r)
        PROVE  SeatInv' /\ RoomsAge
    BY <1>5, RemovalSteps, BotSteps, StartRoomStep DEF RemovalStep
  <1>6. CASE UNCHANGED vars
    <2>1. mu' = mu /\ playerIDs' = playerIDs /\ room' = room /\ call' = call
      BY <1>6 DEF vars
    <2>2. TypeOK' /\ CallsFit' /\ UsedInOrder' /\ UnusedIsEmpty'
      BY <2>1 DEF SeatInv, TypeOK, CallsFit, UsedInOrder, UnusedIsEmpty
    <2>3. IdsInUse' /\ SeatIsTold' /\ OneSeatEach'
      BY <2>1 DEF SeatInv, IdsInUse, SeatIsTold, OneSeatEach, Sits, SitsIn
    <2>4. QED
      BY <2>1, <2>2, <2>3, RoomsStay DEF SeatInv
  <1>7. QED
    BY <1>1, <1>2, <1>3, <1>4, <1>5, <1>6 DEF Next

LEMMA SeatInit == Init => SeatInv
  <1> SUFFICES ASSUME Init PROVE SeatInv
    OBVIOUS
  <1>1. /\ room \in [Room -> RoomRecord] /\ call \in [Callers -> CallRecord]
        /\ \A r \in Room : room[r] = Unused
        /\ \A c \in Callers : call[c] = Idle
    BY Records DEF Init
  <1>2. TypeOK
    BY <1>1, Types DEF Init
  <1>3. CallsFit
    BY <1>1 DEF CallsFit, Fits, Idle
  <1>4. UsedInOrder
    <2>1. {r \in Room : room[r].stage # "none"} = 1..0
      BY <1>1 DEF Unused
    <2>2. {c \in Joins \cup Creators : call[c].at = "answered"} = {}
      BY <1>1 DEF Idle, Callers
    <2>3. 0 <= Cardinality({}) /\ 0 \in 0..Slots
      BY FS_EmptySet, BoundsAssumption
    <2>4. QED
      BY <2>1, <2>2, <2>3 DEF UsedInOrder
  <1>5. \A r \in Room : room[r].seats = <<>> /\ DOMAIN room[r].seats = {}
    BY <1>1 DEF Unused
  <1>6. UnusedIsEmpty /\ IdsInUse /\ SeatIsTold /\ OneSeatEach
    BY <1>1, <1>5 DEF Init, UnusedIsEmpty, IdsInUse, SeatIsTold, OneSeatEach, Sits, SitsIn, Idle
  <1>7. QED
    BY <1>2, <1>3, <1>4, <1>6 DEF SeatInv

\* The inductive invariant, over every section of every call.
THEOREM SeatInvariant == Spec => []SeatInv
  <1>1. SeatInv /\ [Next]_vars => SeatInv'
    BY SeatStep
  <1>2. QED
    BY SeatInit, <1>1, PTL DEF Spec

\* The ids in use are those of the seats and of the calls that have not placed
\* theirs, and nobody sits twice or without having been told: whatever the
\* joins, debug requests, bot fills and removals, and however they interleave.
THEOREM SeatsAndIdsAgreeAlways == Spec => []SeatsAndIdsAgree
  <1>1. SeatInv => SeatsAndIdsAgree
    BY IdsFromParts, SeatsFromParts DEF SeatsAndIdsAgree, SeatInv
  <1>2. QED
    BY SeatInvariant, <1>1, PTL

-----------------------------------------------------------------------------
(* Who has looked where: the invariants behind NobodyWaitsApart and          *)
(* RefusalIsHonest.                                                          *)

Working == {"scan", "issue", "try", "full", "evict", "retry"}

\* Whatever a join does between its start and its answer, it does under the lock.
Serialised == \A q \in Joins : call[q].at \notin {"idle", "answered"} => mu = q

Accepting(mode) ==
    {r \in Room : room[r].mode = mode /\ room[r].opener = "match" /\ CanAccept(room[r])}

\* Join q has not yet passed the rooms of its mode that would accept it.
MissesNothing(q) ==
    call[q].at \in Working =>
        \A r \in Accepting(call[q].mode) :
            \/ call[q].at \in {"scan", "issue", "try"} /\ r \in call[q].left
            \/ call[q].at \in {"issue", "try"} /\ r = call[q].target
NothingMissed == \A q \in Joins : MissesNothing(q)

OneAccepting == \A mode \in Modes : \A r, s \in Accepting(mode) : r = s

WaitInv == Serialised /\ NothingMissed /\ OneAccepting

\* An eviction excuses the rooms that were not open when it began, and those
\* that it has looked at and left open.
Excuses(c) ==
    call[c].at \in {"evict", "retry"} => \A r \in Room :
        /\ room[r].stage = "none" => r \in call[c].excused
        /\ room[r].stage = "live" =>
              r \in call[c].excused \/ (call[c].at = "evict" /\ r \in call[c].left)
EvictionSeen == \A c \in Joins \cup Creators : Excuses(c)

-----------------------------------------------------------------------------
(* What one call's step means for the others.                                *)

OnlyMoves(c) == \A d \in Callers \ {c} : call'[d] = call[d]

\* The lock stays where it is, or is given up by a call that is answered.
KeepsTurn(c) ==
    \/ mu' = mu /\ (c \in Joins => call[c].at \notin {"idle", "answered"})
    \/ Leave(c) /\ call'[c].at = "answered"

LEMMA SerialisedStep ==
    ASSUME Serialised, NEW c \in Callers, OnlyMoves(c), KeepsTurn(c) PROVE Serialised'
  <1> SUFFICES ASSUME NEW q \in Joins, call'[q].at \notin {"idle", "answered"} PROVE mu' = q
    BY DEF Serialised
  <1>1. CASE q = c
    BY <1>1 DEF Serialised, KeepsTurn
  <1>2. CASE q # c
    <2>1. call'[q] = call[q]
      BY <1>2 DEF OnlyMoves, Callers
    <2>2. mu = q
      BY <2>1 DEF Serialised
    <2>3. QED
      BY <1>2, <2>2 DEF KeepsTurn, Leave
  <1>3. QED
    BY <1>1, <1>2

LEMMA AcceptingShrinks ==
    ASSUME RoomsAge, NEW mode PROVE Accepting(mode)' \subseteq Accepting(mode)
  BY DEF RoomsAge, Ages, Accepting

\* No call but c moves, and no room is opened.
LEMMA WaitStep ==
    ASSUME WaitInv, RoomsAge, NEW c \in Callers, OnlyMoves(c), KeepsTurn(c),
           c \in Joins => MissesNothing(c)'
    PROVE  WaitInv'
  <1>1. Serialised'
    BY SerialisedStep DEF WaitInv
  <1>2. NothingMissed'
    <2> SUFFICES ASSUME NEW q \in Joins, q # c PROVE MissesNothing(q)'
      BY DEF NothingMissed
    <2>1. call'[q] = call[q]
      BY DEF OnlyMoves, Callers
    <2>2. MissesNothing(q)
      BY DEF WaitInv, NothingMissed
    <2>3. QED
      BY <2>1, <2>2 DEF MissesNothing, Accepting, RoomsAge, Ages
  <1>3. OneAccepting'
    BY AcceptingShrinks DEF WaitInv, OneAccepting
  <1>4. QED
    BY <1>1, <1>2, <1>3 DEF WaitInv

\* No call moves and no room is opened.
LEMMA WaitAging ==
    ASSUME WaitInv, RoomsAge, UNCHANGED <<mu, call>> PROVE WaitInv'
  <1>1. Serialised'
    BY DEF WaitInv, Serialised
  <1>2. NothingMissed' /\ OneAccepting'
    BY AcceptingShrinks DEF WaitInv, NothingMissed, MissesNothing, OneAccepting
  <1>3. QED
    BY <1>1, <1>2 DEF WaitInv

LEMMA EvictionStep ==
    ASSUME EvictionSeen, RoomsAge, NEW c \in Callers, OnlyMoves(c),
           c \in Joins \cup Creators => Excuses(c)'
    PROVE  EvictionSeen'
  <1> SUFFICES ASSUME NEW d \in Joins \cup Creators, d # c PROVE Excuses(d)'
    BY DEF EvictionSeen
  <1>1. call'[d] = call[d]
    BY DEF OnlyMoves, Callers
  <1>2. \A r \in Room : /\ room'[r].stage = "none" => room[r].stage = "none"
                        /\ room'[r].stage = "live" => room[r].stage = "live"
    BY DEF RoomsAge, Ages
  <1>3. QED
    BY <1>1, <1>2 DEF EvictionSeen, Excuses

LEMMA EvictionAging ==
    ASSUME EvictionSeen, RoomsAge, UNCHANGED call PROVE EvictionSeen'
  <1>1. \A r \in Room : /\ room'[r].stage = "none" => room[r].stage = "none"
                        /\ room'[r].stage = "live" => room[r].stage = "live"
    BY DEF RoomsAge, Ages
  <1>2. QED
    BY <1>1 DEF EvictionSeen, Excuses

RoomsInv == WaitInv /\ EvictionSeen

\* What has to be shown of an action of call c that opens no room.
LEMMA RoomsStep ==
    ASSUME RoomsInv, RoomsAge, NEW c \in Callers, OnlyMoves(c), KeepsTurn(c),
           c \in Joins => MissesNothing(c)', c \in Joins \cup Creators => Excuses(c)'
    PROVE  RoomsInv'
  BY WaitStep, EvictionStep DEF RoomsInv

\* The values of one call after a step.
LEMMA MovedCall ==
    ASSUME TypeOK, NEW c \in Callers, NEW x, call' = [call EXCEPT ![c] = x]
    PROVE  call'[c] = x /\ OnlyMoves(c)
  BY Types DEF OnlyMoves

LEMMA AnsweredCall ==
    ASSUME SeatInv, NEW c \in Callers, NEW result, call' = [call EXCEPT ![c] = Answer(result)]
    PROVE  OnlyMoves(c) /\ call'[c].at = "answered" /\ call'[c].result = result
  <1>1. Answer(result).at = "answered" /\ Answer(result).result = result
    BY DEF Answer, Idle
  <1>2. OnlyMoves(c) /\ call'[c] = Answer(result)
    BY MovedCall DEF SeatInv
  <1>3. QED
    BY <1>1, <1>2

-----------------------------------------------------------------------------
(* The actions one by one.                                                   *)

LEMMA JoinsAreNotOthers ==
    ASSUME NEW q \in Joins
    PROVE  q \in Callers /\ q \notin Creators /\ q \notin Adders /\ q # None
  BY CallersAssumption DEF Callers

LEMMA StartJoinRooms ==
    ASSUME SeatInv, RoomsInv, NEW q \in Joins, StartJoin(q) PROVE RoomsInv'
  <1>1. PICK mode \in Modes :
           call' = [call EXCEPT ![q] = [Idle EXCEPT !.at = "scan", !.mode = mode, !.left = Registered]]
    BY DEF StartJoin
  <1>2. /\ call'[q] = [Idle EXCEPT !.at = "scan", !.mode = mode, !.left = Registered]
        /\ OnlyMoves(q) /\ mu = None /\ mu' = q /\ room' = room /\ q \in Callers
    BY <1>1, JoinsAreNotOthers, MovedCall DEF StartJoin, SeatInv
  <1>3. call'[q].at = "scan" /\ call'[q].left = Registered
    BY <1>2 DEF Idle
  <1>4. Serialised'
    <2> SUFFICES ASSUME NEW p \in Joins, p # q, call'[p].at \notin {"idle", "answered"} PROVE FALSE
      BY <1>2 DEF Serialised
    <2>1. call[p] = call'[p]
      BY <1>2 DEF OnlyMoves, Callers
    <2>2. mu = p
      BY <2>1 DEF RoomsInv, WaitInv, Serialised
    <2>3. QED
      BY <1>2, <2>2, JoinsAreNotOthers
  <1>5. NothingMissed'
    <2> SUFFICES ASSUME NEW p \in Joins PROVE MissesNothing(p)'
      BY DEF NothingMissed
    <2>1. CASE p = q
      BY <1>2, <1>3, <2>1 DEF MissesNothing, Accepting, CanAccept, Registered
    <2>2. CASE p # q
      <3>1. call'[p] = call[p]
        BY <1>2, <2>2 DEF OnlyMoves, Callers
      <3>2. QED
        BY <1>2, <3>1 DEF RoomsInv, WaitInv, NothingMissed, MissesNothing, Accepting
    <2>3. QED
      BY <2>1, <2>2
  <1>6. OneAccepting'
    BY <1>2 DEF RoomsInv, WaitInv, OneAccepting, Accepting
  <1>7. EvictionSeen'
    <2>1. Excuses(q)'
      BY <1>3 DEF Excuses
    <2>2. QED
      BY <1>2, <2>1, RoomsStay, EvictionStep DEF RoomsInv
  <1>8. QED
    BY <1>4, <1>5, <1>6, <1>7 DEF RoomsInv, WaitInv

LEMMA LookRooms ==
    ASSUME SeatInv, RoomsInv, NEW q \in Joins, Look(q) PROVE RoomsInv'
  <1>1. /\ q \in Callers /\ call[q].at = "scan" /\ mu' = mu /\ room' = room
        /\ call \in [Callers -> CallRecord]
    BY JoinsAreNotOthers, Types DEF Look, SeatInv
  <1>2. PICK r \in call[q].left :
           call' = IF room[r].mode = call[q].mode /\ CanAccept(room[r])
                   THEN [call EXCEPT ![q].at = IF call[q].issued THEN "try" ELSE "issue",
                                     ![q].target = r, ![q].left = @ \ {r}]
                   ELSE [call EXCEPT ![q].left = @ \ {r}]
    BY DEF Look
  <1>3. OnlyMoves(q) /\ call'[q].mode = call[q].mode /\ call'[q].left = call[q].left \ {r}
    BY <1>1, <1>2 DEF OnlyMoves, CallRecord
  <1>4. \/ call'[q].at \in {"issue", "try"} /\ call'[q].target = r
        \/ call'[q].at = "scan" /\ ~(room[r].mode = call[q].mode /\ CanAccept(room[r]))
    BY <1>1, <1>2 DEF CallRecord
  <1>5. MissesNothing(q)
    BY DEF RoomsInv, WaitInv, NothingMissed
  <1>6. \A s \in Accepting(call[q].mode) : s \in call[q].left
    BY <1>1, <1>5 DEF MissesNothing, Working
  <1>7. MissesNothing(q)'
    <2>1. CASE call'[q].at \in {"issue", "try"} /\ call'[q].target = r
      BY <1>1, <1>3, <1>6, <2>1 DEF MissesNothing, Accepting
    <2>2. CASE call'[q].at = "scan" /\ ~(room[r].mode = call[q].mode /\ CanAccept(room[r]))
      BY <1>1, <1>3, <1>6, <2>2 DEF MissesNothing, Accepting
    <2>3. QED
      BY <1>4, <2>1, <2>2
  <1>8. Excuses(q)'
    BY <1>4 DEF Excuses
  <1>9. QED
    BY <1>1, <1>3, <1>7, <1>8, RoomsStay, RoomsStep DEF KeepsTurn

LEMMA IssueRooms ==
    ASSUME SeatInv, RoomsInv, NEW q \in Joins, IssueCredentials(q) PROVE RoomsInv'
  <1>1. /\ q \in Callers /\ call[q].at = "issue" /\ room' = room /\ call[q] \in CallRecord
    BY JoinsAreNotOthers, CallFacts DEF IssueCredentials
  <1>2. \/ UNCHANGED mu /\ call' = [call EXCEPT ![q] = [@ EXCEPT !.at = "try", !.issued = TRUE]]
        \/ Leave(q) /\ call' = [call EXCEPT ![q] = Answer("error")]
    BY DEF IssueCredentials
  <1>3. OnlyMoves(q)
    BY <1>1, <1>2, MovedCall DEF SeatInv
  <1>4. \/ /\ mu' = mu /\ call'[q].at = "try" /\ call'[q].mode = call[q].mode
           /\ call'[q].left = call[q].left /\ call'[q].target = call[q].target
        \/ Leave(q) /\ call'[q].at = "answered"
    <2>1. CASE UNCHANGED mu /\ call' = [call EXCEPT ![q] = [@ EXCEPT !.at = "try", !.issued = TRUE]]
      <3> DEFINE x == [call[q] EXCEPT !.at = "try", !.issued = TRUE]
      <3>1. call' = [call EXCEPT ![q] = x]
        BY <2>1
      <3>2. call'[q] = x
        BY <1>1, <3>1, MovedCall DEF SeatInv
      <3>3. x.at = "try" /\ x.mode = call[q].mode /\ x.left = call[q].left /\ x.target = call[q].target
        BY <1>1 DEF CallRecord
      <3> HIDE DEF x
      <3>4. QED
        BY <2>1, <3>2, <3>3
    <2>2. CASE Leave(q) /\ call' = [call EXCEPT ![q] = Answer("error")]
      BY <1>1, <2>2, AnsweredCall
    <2>3. QED
      BY <1>2, <2>1, <2>2
  <1>5. MissesNothing(q)
    BY DEF RoomsInv, WaitInv, NothingMissed
  <1>6. MissesNothing(q)' /\ Excuses(q)'
    BY <1>1, <1>4, <1>5 DEF MissesNothing, Accepting, Working, Excuses
  <1>7. KeepsTurn(q)
    BY <1>1, <1>4 DEF KeepsTurn
  <1>8. QED
    BY <1>1, <1>3, <1>6, <1>7, RoomsStay, RoomsStep

LEMMA TryJoinRooms ==
    ASSUME SeatInv, RoomsInv, RoomsAge, NEW q \in Joins, TryJoinRoom(q) PROVE RoomsInv'
  <1> DEFINE r == call[q].target
  <1>1. q \in Callers /\ call[q].at = "try" /\ call[q] \in CallRecord
    BY JoinsAreNotOthers, CallFacts DEF TryJoinRoom
  <1>2. CASE CanAccept(room[r])
    <2>1. call' = [call EXCEPT ![q] = Answer("joined")] /\ Leave(q)
      BY <1>2 DEF TryJoinRoom
    <2>2. OnlyMoves(q) /\ call'[q].at = "answered"
      BY <1>1, <2>1, AnsweredCall
    <2>3. QED
      BY <1>1, <2>1, <2>2, RoomsStep DEF KeepsTurn, MissesNothing, Working, Excuses
  <1>3. CASE ~CanAccept(room[r])
    <2> DEFINE x == [call[q] EXCEPT !.at = "scan", !.target = 0]
    <2>1. call' = [call EXCEPT ![q] = x] /\ UNCHANGED <<mu, room>>
      BY <1>3 DEF TryJoinRoom
    <2>2. OnlyMoves(q) /\ call'[q] = x
      BY <1>1, <2>1, MovedCall DEF SeatInv
    <2>3. x.at = "scan" /\ x.left = call[q].left /\ x.mode = call[q].mode
      BY <1>1 DEF CallRecord
    <2> HIDE DEF x
    <2>4. MissesNothing(q)
      BY DEF RoomsInv, WaitInv, NothingMissed
    <2>5. \A s \in Accepting(call[q].mode) : s \in call[q].left
      BY <1>1, <1>3, <2>4 DEF MissesNothing, Working, Accepting
    <2>6. MissesNothing(q)' /\ Excuses(q)'
      BY <2>1, <2>2, <2>3, <2>5 DEF MissesNothing, Accepting, Excuses
    <2>7. KeepsTurn(q)
      BY <1>1, <2>1 DEF KeepsTurn
    <2>8. QED
      BY <1>1, <2>2, <2>6, <2>7, RoomsStep
  <1>4. QED
    BY <1>2, <1>3

\* A call that is about to create a room knows that no room of its mode would do.
LEMMA NoneAccepts ==
    ASSUME SeatInv, RoomsInv, NEW c \in Joins,
           \/ call[c].at = "scan" /\ call[c].left = {}
           \/ call[c].at \in {"full", "evict", "retry"}
    PROVE  Accepting(call[c].mode) = {}
  <1>1. MissesNothing(c)
    BY DEF RoomsInv, WaitInv, NothingMissed
  <1>2. QED
    BY <1>1 DEF MissesNothing, Working

\* A creating call that changes nothing but itself and keeps its mode.
LEMMA CreatorMoves ==
    ASSUME SeatInv, RoomsInv, RoomsAge, NEW c \in Joins \cup Creators, OnlyMoves(c),
           \/ call[c].at = "scan" /\ call[c].left = {}
           \/ c \in Creators /\ call[c].at = "idle"
           \/ call[c].at \in {"full", "evict", "retry"},
           \/ /\ mu' = mu /\ call'[c].mode = call[c].mode
              /\ call'[c].at \in {"full", "evict", "retry", "release"}
           \/ Leave(c) /\ call'[c].at = "answered",
           Excuses(c)'
    PROVE  RoomsInv'
  <1>1. c \in Callers /\ (c \in Joins => c \notin Creators)
    BY CallersAssumption DEF Callers
  <1>2. KeepsTurn(c)
    BY <1>1 DEF KeepsTurn
  <1>3. ASSUME c \in Joins PROVE MissesNothing(c)'
    <2>1. Accepting(call[c].mode) = {}
      BY <1>1, <1>3, NoneAccepts
    <2>2. QED
      BY <2>1 DEF MissesNothing, Working, Accepting, RoomsAge, Ages
  <1>4. QED
    BY <1>1, <1>2, <1>3, RoomsStep

LEMMA RefuseMoves ==
    ASSUME SeatInv, NEW c \in Joins \cup Creators, NEW result, Refuse(c, result)
    PROVE  /\ OnlyMoves(c) /\ call'[c].result = result
           /\ \/ /\ mu' = mu /\ call'[c].mode = call[c].mode /\ call'[c].at = "release"
              \/ Leave(c) /\ call'[c].at = "answered"
  <1>1. c \in Callers /\ call \in [Callers -> CallRecord]
    BY Types DEF Callers, SeatInv
  <1>2. CASE call[c].issued
    <2> DEFINE x == [call[c] EXCEPT !.at = "release", !.result = result]
    <2>1. call' = [call EXCEPT ![c] = x] /\ UNCHANGED mu
      BY <1>2 DEF Refuse
    <2>2. OnlyMoves(c) /\ call'[c] = x
      BY <1>1, <2>1, MovedCall DEF SeatInv
    <2>3. QED
      BY <1>1, <2>1, <2>2 DEF CallRecord
  <1>3. CASE ~call[c].issued
    BY <1>1, <1>3, AnsweredCall DEF Refuse
  <1>4. QED
    BY <1>2, <1>3

LEMMA OpenRoomRooms ==
    ASSUME SeatInv, RoomsInv, NEW c \in Joins \cup Creators, CreateRoom(c), OpenRoom(c)
    PROVE  RoomsInv'
  <1> DEFINE f == FirstUnused
             x == Opened(c)
  <1>1. /\ c \in Callers /\ call[c].at # "answered"
        /\ \/ call[c].at = "scan" /\ call[c].left = {}
           \/ c \in Creators /\ call[c].at = "idle"
           \/ call[c].at = "retry"
    BY DEF CreateRoom, Callers
  <1>2. /\ room' = [room EXCEPT ![f] = x] /\ Leave(c)
        /\ call' = [call EXCEPT ![c] = Answer("joined")]
    BY DEF OpenRoom, Opened
  <1>3. f \in Room /\ room[f] = Unused
    BY <1>1, FirstUnusedIsNext
  <1>4. /\ c \in Joins => x.mode = call[c].mode
        /\ c \notin Joins => x.opener = "debug"
        /\ x.stage = "live"
    BY OpenedRoom DEF SeatInv
  <1> HIDE DEF f, x
  <1>5. room'[f] = x /\ \A r \in Room \ {f} : room'[r] = room[r]
    BY <1>2, <1>3, Types DEF SeatInv
  <1>6. OnlyMoves(c) /\ call'[c].at = "answered"
    BY <1>1, <1>2, AnsweredCall
  <1>7. Serialised'
    BY <1>1, <1>2, <1>6, SerialisedStep DEF RoomsInv, WaitInv, KeepsTurn
  <1>8. NothingMissed'
    <2> SUFFICES ASSUME NEW q \in Joins, q # c, call'[q].at \in Working PROVE MissesNothing(q)'
      BY <1>6 DEF NothingMissed, MissesNothing, Working
    <2>1. call'[q] = call[q]
      BY <1>6 DEF OnlyMoves, Callers
    <2>2. mu = q
      BY <2>1 DEF RoomsInv, WaitInv, Serialised, Working
    <2>3. c \notin Joins
      BY <1>1, <2>2, JoinsAreNotOthers DEF RoomsInv, WaitInv, Serialised
    <2>4. MissesNothing(q)
      BY DEF RoomsInv, WaitInv, NothingMissed
    <2>5. \A r \in Room : room'[r].opener = "match" => room'[r] = room[r]
      BY <1>4, <1>5, <2>3
    <2>6. QED
      BY <2>1, <2>4, <2>5 DEF MissesNothing, Accepting
  <1>9. OneAccepting'
    <2> SUFFICES ASSUME NEW mode \in Modes, NEW r \in Accepting(mode)', NEW s \in Accepting(mode)'
                 PROVE  r = s
      BY DEF OneAccepting
    <2>1. \A t \in Accepting(mode)' : t # f => t \in Accepting(mode)
      BY <1>5 DEF Accepting
    <2>2. CASE r # f /\ s # f
      BY <2>1, <2>2 DEF RoomsInv, WaitInv, OneAccepting
    <2>3. CASE r = f \/ s = f
      <3>1. c \in Joins /\ mode = call[c].mode
        BY <1>4, <1>5, <2>3 DEF Accepting
      <3>2. Accepting(mode) = {}
        BY <1>1, <3>1, JoinsAreNotOthers, NoneAccepts
      <3>3. QED
        BY <2>1, <3>2
    <2>4. QED
      BY <2>2, <2>3
  <1>10. EvictionSeen'
    <2> SUFFICES ASSUME NEW d \in Joins \cup Creators, d # c PROVE Excuses(d)'
      BY <1>6 DEF EvictionSeen, Excuses
    <2>1. call'[d] = call[d] /\ Excuses(d)
      BY <1>6 DEF OnlyMoves, Callers, RoomsInv, EvictionSeen
    <2>2. room[f].stage = "none"
      BY <1>3 DEF Unused
    <2>3. QED
      BY <1>4, <1>5, <2>1, <2>2 DEF Excuses
  <1>11. QED
    BY <1>7, <1>8, <1>9, <1>10 DEF RoomsInv, WaitInv

LEMMA CreateRooms ==
    ASSUME SeatInv, RoomsInv, NEW c \in Joins \cup Creators, CreateRoom(c) PROVE RoomsInv'
  <1>1. CASE OpenRoom(c)
    BY <1>1, OpenRoomRooms
  <1>2. CASE AtCap(c) \/ OpenFails(c)
    <2>1. room' = room /\ c \in Callers /\ call \in [Callers -> CallRecord]
      BY <1>2, Types DEF AtCap, OpenFails, SeatInv, Callers
    <2>2. /\ OnlyMoves(c)
          /\ \/ /\ mu' = mu /\ call'[c].mode = call[c].mode
                /\ call'[c].at \in {"full", "release"}
             \/ Leave(c) /\ call'[c].at = "answered"
      <3>1. CASE AtCap(c) /\ call[c].tries = 0
        <4> DEFINE x == [call[c] EXCEPT !.at = "full", !.tries = 1]
        <4>1. call' = [call EXCEPT ![c] = x] /\ UNCHANGED mu
          BY <3>1 DEF AtCap
        <4>2. OnlyMoves(c) /\ call'[c] = x
          BY <2>1, <4>1, MovedCall DEF SeatInv
        <4>3. QED
          BY <2>1, <4>1, <4>2 DEF CallRecord
      <3>2. CASE (AtCap(c) /\ call[c].tries # 0) \/ OpenFails(c)
        <4>1. Refuse(c, "cap") \/ Refuse(c, "error")
          BY <3>2 DEF AtCap, OpenFails
        <4>2. QED
          BY <4>1, RefuseMoves
      <3>3. QED
        BY <1>2, <3>1, <3>2
    <2>3. Excuses(c)'
      BY <2>2 DEF Excuses
    <2>4. QED
      BY <2>1, <2>2, <2>3, RoomsStay, CreatorMoves DEF CreateRoom
  <1>3. QED
    BY <1>1, <1>2 DEF CreateRoom

LEMMA EvictionRooms ==
    ASSUME SeatInv, RoomsInv, RoomsAge, NEW c \in Joins \cup Creators,
           StartEviction(c) \/ Evict(c) \/ FinishEviction(c)
    PROVE  RoomsInv'
  <1>1. c \in Callers /\ call \in [Callers -> CallRecord] /\ mu' = mu
    BY Types DEF SeatInv, Callers, StartEviction, Evict, FinishEviction
  <1>2. Excuses(c)
    BY DEF RoomsInv, EvictionSeen
  <1>3. CASE StartEviction(c)
    <2>1. /\ call[c].at = "full" /\ OnlyMoves(c) /\ call'[c].mode = call[c].mode
          /\ call'[c].at = "evict" /\ call'[c].left = Registered
          /\ call'[c].excused = {r \in Room : room[r].stage = "none"} /\ room' = room
      BY <1>1, <1>3 DEF StartEviction, OnlyMoves, CallRecord
    <2>2. Excuses(c)'
      BY <2>1 DEF Excuses, Registered
    <2>3. QED
      BY <1>1, <2>1, <2>2, CreatorMoves
  <1>4. CASE Evict(c)
    <2>1. PICK r \in call[c].left :
             \/ /\ room[r].stage = "live" /\ room' = Marked(r)
                /\ call' = [call EXCEPT ![c].left = @ \ {r}, ![c].target = r]
             \/ /\ call' = [call EXCEPT ![c].left = @ \ {r}, ![c].target = 0,
                               ![c].excused = IF room[r].stage = "live" THEN @ \cup {r} ELSE @]
                /\ UNCHANGED room
      BY <1>4 DEF Evict
    <2>2. /\ call[c].at = "evict" /\ OnlyMoves(c) /\ call'[c].mode = call[c].mode
          /\ call'[c].at = "evict" /\ call'[c].left = call[c].left \ {r}
      <3>1. \/ call' = [call EXCEPT ![c].left = @ \ {r}, ![c].target = r]
            \/ call' = [call EXCEPT ![c].left = @ \ {r}, ![c].target = 0,
                           ![c].excused = IF room[r].stage = "live" THEN @ \cup {r} ELSE @]
        BY <2>1
      <3>2. call[c].at = "evict"
        BY <1>4 DEF Evict
      <3>3. OnlyMoves(c)
        BY <1>1, <3>1 DEF OnlyMoves
      <3>4. call'[c].mode = call[c].mode /\ call'[c].at = "evict" /\ call'[c].left = call[c].left \ {r}
        BY <1>1, <3>1, <3>2 DEF CallRecord
      <3>5. QED
        BY <3>2, <3>3, <3>4
    <2>3. /\ call[c].excused \subseteq call'[c].excused
          /\ room'[r].stage = "live" => r \in call'[c].excused
      <3>1. r \in Room
        BY <1>1 DEF CallRecord
      <3>2. CASE /\ room[r].stage = "live" /\ room' = Marked(r)
                 /\ call' = [call EXCEPT ![c].left = @ \ {r}, ![c].target = r]
        <4>1. room'[r].stage = "marked"
          BY <3>1, <3>2, FillProperties, Types, RoomFacts DEF Marked, SeatInv, RoomRecord
        <4>2. QED
          BY <1>1, <3>2, <4>1 DEF CallRecord
      <3>3. CASE /\ call' = [call EXCEPT ![c].left = @ \ {r}, ![c].target = 0,
                                ![c].excused = IF room[r].stage = "live" THEN @ \cup {r} ELSE @]
                 /\ UNCHANGED room
        BY <1>1, <3>3 DEF CallRecord
      <3>4. QED
        BY <2>1, <3>2, <3>3
    <2>4. Excuses(c)'
      BY <1>2, <2>2, <2>3 DEF Excuses, RoomsAge, Ages
    <2>5. QED
      BY <1>1, <2>2, <2>4, CreatorMoves
  <1>5. CASE FinishEviction(c)
    <2>1. /\ call[c].at = "evict" /\ call[c].left = {} /\ OnlyMoves(c)
          /\ call'[c].mode = call[c].mode /\ call'[c].at = "retry"
          /\ call'[c].excused = call[c].excused /\ room' = room
      BY <1>1, <1>5 DEF FinishEviction, OnlyMoves, CallRecord
    <2>2. Excuses(c)'
      BY <1>2, <2>1 DEF Excuses
    <2>3. QED
      BY <1>1, <2>1, <2>2, CreatorMoves
  <1>6. QED
    BY <1>3, <1>4, <1>5

LEMMA OtherRooms ==
    ASSUME SeatInv, RoomsInv, RoomsAge,
           \/ \E d \in Adders : StartAddPlayer(d) \/ AddPlayer(d)
           \/ \E c \in Callers : Release(c)
    PROVE  RoomsInv'
  <1>1. ASSUME NEW d \in Adders, StartAddPlayer(d) \/ AddPlayer(d) PROVE RoomsInv'
    <2>1. d \in Callers /\ d \notin Joins /\ d \notin Creators /\ mu' = mu
      BY <1>1, CallersAssumption DEF Callers, StartAddPlayer, AddPlayer
    <2>2. OnlyMoves(d)
      BY <1>1, <2>1, Types DEF StartAddPlayer, AddPlayer, OnlyMoves, SeatInv
    <2>3. QED
      BY <2>1, <2>2, RoomsStep DEF KeepsTurn
  <1>2. ASSUME NEW c \in Callers, Release(c) PROVE RoomsInv'
    <2>1. OnlyMoves(c) /\ call'[c].at = "answered" /\ Leave(c)
      BY <1>2, AnsweredCall DEF Release
    <2>2. QED
      BY <2>1, RoomsStep DEF KeepsTurn, MissesNothing, Working, Excuses
  <1>3. QED
    BY <1>1, <1>2

LEMMA RoomsInvStep ==
    ASSUME SeatInv, RoomsInv, [Next]_vars PROVE RoomsInv'
  <1>1. ASSUME NEW q \in Joins, StartJoin(q) \/ JoinStep(q) PROVE RoomsInv'
    BY <1>1, StartJoinRooms, LookRooms, IssueRooms, TryJoinRooms, TryJoinStep DEF JoinStep
  <1>2. ASSUME NEW c \in Joins \cup Creators, CreateStep(c) PROVE RoomsInv'
    BY <1>2, CreateRooms, EvictionRooms, EvictionSteps DEF CreateStep
  <1>3. ASSUME NEW d \in Adders, StartAddPlayer(d) \/ AddPlayer(d) PROVE RoomsInv'
    BY <1>3, AddPlayerSteps, OtherRooms
  <1>4. ASSUME NEW c \in Callers, Release(c) PROVE RoomsInv'
    BY <1>4, ReleaseStep, OtherRooms
  <1>5. ASSUME NEW r \in Room, Remove(r) \/ RemovalStep(r) \/ FillBots(r) \/ AddBots(r) \/ StartRoom(r)
        PROVE  RoomsInv'
    <2>1. UNCHANGED <<mu, call>>
      BY <1>5 DEF Remove, RemovalStep, Unregister, ReleaseRoomIds, FillBots, AddBots, StartRoom
    <2>2. RoomsAge
      BY <1>5, RemovalSteps, BotSteps, StartRoomStep DEF RemovalStep
    <2>3. QED
      BY <2>1, <2>2, WaitAging, EvictionAging DEF RoomsInv
  <1>6. CASE UNCHANGED vars
    BY <1>6, RoomsStay, WaitAging, EvictionAging DEF RoomsInv, vars
  <1>7. QED
    BY <1>1, <1>2, <1>3, <1>4, <1>5, <1>6 DEF Next

LEMMA RoomsInit == Init => RoomsInv
  <1> SUFFICES ASSUME Init PROVE RoomsInv
    OBVIOUS
  <1>1. (\A c \in Callers : call[c].at = "idle") /\ \A r \in Room : room[r].stage = "none"
    BY DEF Init, Idle, Unused
  <1>2. Serialised /\ NothingMissed /\ EvictionSeen
    BY <1>1 DEF Serialised, NothingMissed, MissesNothing, Working, EvictionSeen, Excuses, Callers
  <1>3. OneAccepting
    BY <1>1 DEF OneAccepting, Accepting, CanAccept
  <1>4. QED
    BY <1>2, <1>3 DEF RoomsInv, WaitInv

\* The inductive invariant: only the join that has the lock has looked, and an
\* eviction has an excuse for every room it left open.
THEOREM RoomsInvariant == Spec => [](SeatInv /\ RoomsInv)
  <1>1. Init => SeatInv /\ RoomsInv
    BY SeatInit, RoomsInit
  <1>2. SeatInv /\ RoomsInv /\ [Next]_vars => (SeatInv /\ RoomsInv)'
    BY SeatStep, RoomsInvStep
  <1>3. QED
    BY <1>1, <1>2, PTL DEF Spec

\* Of the rooms that matchmaking opened for a mode, a join would be accepted
\* in at most one: in every interleaving of the search, the opening of rooms
\* and everything that fills, starts or removes them.
THEOREM NobodyWaitsApartAlways == Spec => []NobodyWaitsApart
  <1>1. OneAccepting => NobodyWaitsApart
    <2> SUFFICES ASSUME OneAccepting, NEW mode \in Modes PROVE Cardinality(Accepting(mode)) <= 1
      BY DEF NobodyWaitsApart, Accepting
    <2>1. CASE Accepting(mode) = {}
      BY <2>1, FS_EmptySet
    <2>2. CASE Accepting(mode) # {}
      <3>1. PICK r \in Accepting(mode) : Accepting(mode) = {r}
        BY <2>2 DEF OneAccepting
      <3>2. QED
        BY <3>1, FS_Singleton
    <2>3. QED
      BY <2>1, <2>2
  <1>2. QED
    BY RoomsInvariant, <1>1, PTL DEF RoomsInv, WaitInv

-----------------------------------------------------------------------------
(* Refusals.                                                                 *)

\* Only a creation that was tried a second time refuses a call for the cap.
LEMMA RefusedAtRetry ==
    ASSUME SeatInv, Next, NEW c \in Joins \cup Creators,
           call[c].result # "cap", call'[c].result = "cap"
    PROVE  call[c].at = "retry" /\ Cardinality(Registered) >= MaxRooms
  <1>1. c \in Callers /\ call \in [Callers -> CallRecord] /\ Fits(c, call[c])
    BY CallFacts, Types DEF Callers, SeatInv
  <1>2. ASSUME NEW d \in Callers, OnlyMoves(d) PROVE d = c
    BY <1>1, <1>2 DEF OnlyMoves
  <1>3. ASSUME NEW q \in Joins, StartJoin(q) \/ JoinStep(q) PROVE FALSE
    <2>1. q \in Callers
      BY DEF Callers
    <2>2. CASE StartJoin(q)
      BY <1>1, <2>1, <2>2 DEF StartJoin, Idle
    <2>3. CASE Look(q)
      BY <1>1, <2>1, <2>3 DEF Look, CallRecord
    <2>4. CASE IssueCredentials(q)
      BY <1>1, <2>1, <2>4 DEF IssueCredentials, CallRecord, Answer, Idle
    <2>5. CASE TryJoinRoom(q)
      BY <1>1, <2>1, <2>5 DEF TryJoinRoom, CallRecord, Answer, Idle
    <2>6. QED
      BY <1>3, <2>2, <2>3, <2>4, <2>5 DEF JoinStep
  <1>4. ASSUME NEW d \in Joins \cup Creators, CreateRoom(d)
        PROVE  call[c].at = "retry" /\ Cardinality(Registered) >= MaxRooms
    <2>1. d \in Callers
      BY DEF Callers
    <2>2. CASE OpenRoom(d)
      <3>1. OnlyMoves(d) /\ call'[d].result = "joined"
        BY <2>1, <2>2, AnsweredCall DEF OpenRoom
      <3>2. QED
        BY <1>2, <2>1, <3>1
    <2>3. CASE OpenFails(d)
      <3>1. OnlyMoves(d) /\ call'[d].result = "error"
        BY <2>3, RefuseMoves DEF OpenFails
      <3>2. QED
        BY <1>2, <2>1, <3>1
    <2>4. CASE AtCap(d) /\ call[d].tries = 0
      <3> DEFINE x == [call[d] EXCEPT !.at = "full", !.tries = 1]
      <3>1. call' = [call EXCEPT ![d] = x]
        BY <2>4 DEF AtCap
      <3>2. OnlyMoves(d) /\ call'[d] = x
        BY <2>1, <3>1, MovedCall DEF SeatInv
      <3>3. x.result = call[d].result
        BY <1>1, <2>1 DEF CallRecord
      <3> HIDE DEF x
      <3>4. QED
        BY <1>2, <2>1, <3>2, <3>3
    <2>5. CASE AtCap(d) /\ call[d].tries # 0
      <3>1. OnlyMoves(d)
        BY <2>5, RefuseMoves DEF AtCap
      <3>2. d = c
        BY <1>2, <2>1, <3>1
      <3>3. call[c].at = "retry"
        BY <1>1, <1>4, <2>5, <3>2 DEF CreateRoom, Fits, Idle
      <3>4. QED
        BY <2>5, <3>3 DEF AtCap
    <2>6. QED
      BY <1>4, <2>2, <2>3, <2>4, <2>5 DEF CreateRoom
  <1>5. ASSUME NEW d \in Joins \cup Creators, StartEviction(d) \/ Evict(d) \/ FinishEviction(d)
        PROVE  FALSE
    <2>1. d \in Callers
      BY DEF Callers
    <2>2. CASE StartEviction(d)
      BY <1>1, <2>1, <2>2 DEF StartEviction, CallRecord
    <2>3. CASE Evict(d)
      BY <1>1, <2>1, <2>3 DEF Evict, CallRecord
    <2>4. CASE FinishEviction(d)
      BY <1>1, <2>1, <2>4 DEF FinishEviction, CallRecord
    <2>5. QED
      BY <1>5, <2>2, <2>3, <2>4
  <1>6. ASSUME NEW d \in Adders, StartAddPlayer(d) \/ AddPlayer(d) PROVE FALSE
    <2>1. d \in Callers /\ d # c
      BY CallersAssumption DEF Callers
    <2>2. QED
      BY <1>1, <1>6, <2>1 DEF StartAddPlayer, AddPlayer
  <1>7. ASSUME NEW d \in Callers, Release(d) PROVE FALSE
    <2>1. OnlyMoves(d) /\ call'[d].result = call[d].result
      BY <1>7, AnsweredCall DEF Release
    <2>2. QED
      BY <1>2, <2>1
  <1>8. ASSUME NEW r \in Room, Remove(r) \/ RemovalStep(r) \/ FillBots(r) \/ AddBots(r) \/ StartRoom(r)
        PROVE  FALSE
    BY <1>8 DEF Remove, RemovalStep, Unregister, ReleaseRoomIds, FillBots, AddBots, StartRoom
  <1>9. QED
    BY <1>3, <1>4, <1>5, <1>6, <1>7, <1>8 DEF Next, CreateStep

\* A call that is refused for the room cap has looked at every registered
\* room: each is unexpired, on its way out, or was opened since.
THEOREM RefusalIsHonestAlways == Spec => RefusalIsHonest
  <1> DEFINE Honest == \A c \in Joins \cup Creators :
                call[c].result # "cap" /\ call'[c].result = "cap" =>
                   /\ Cardinality(Registered) >= MaxRooms
                   /\ \A r \in Registered : r \in call[c].excused \/ room[r].stage = "marked"
  <1>1. ASSUME SeatInv, RoomsInv, Next PROVE Honest
    <2> SUFFICES ASSUME NEW c \in Joins \cup Creators,
                        call[c].result # "cap", call'[c].result = "cap"
                 PROVE  /\ Cardinality(Registered) >= MaxRooms
                        /\ \A r \in Registered : r \in call[c].excused \/ room[r].stage = "marked"
      OBVIOUS
    <2>1. call[c].at = "retry" /\ Cardinality(Registered) >= MaxRooms
      BY <1>1, RefusedAtRetry
    <2>2. QED
      BY <1>1, <2>1 DEF RoomsInv, EvictionSeen, Excuses, Registered
  <1>2. SeatInv /\ RoomsInv /\ [Next]_vars => [Honest]_vars
    BY <1>1
  <1>3. QED
    BY RoomsInvariant, <1>2, PTL DEF Spec, RefusalIsHonest
=============================================================================
