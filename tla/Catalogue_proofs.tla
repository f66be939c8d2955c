---------------------------- MODULE Catalogue_proofs ---------------------------
(***************************************************************************)
(* What module Catalogue promises for any number of rooms, seats, calls    *)
(* and requests: the rules of the catalogue are broken by the races and    *)
(* the unchecked writes that the properties name, and by nothing else; a   *)
(* seat with a booking survives them all.                                  *)
(***************************************************************************)
EXTENDS Catalogue, TLAPS
------------------------------------------------------------------------------
(* The inductive invariant.  A part that speaks of one call looks at the   *)
(* tables only as long as no other call has written them since it began.   *)

RoomPhases == {"name", "saveRoom"}
SeatPhases == {"newRoom", "fits", "place", "saveSeat"}
NewSeatsPhases == {"empty", "saveAll"}

\* What a call carries along, by the step it waits in.
NewRoom(j) == /\ j.id = Nothing /\ j.old = BlankRoom
              /\ j.dto.name # Nothing /\ j.dto.size # Nothing
OldRoom(j) == j.id \in Rooms /\ j.old \in RoomRow
NewSeat(j) == /\ j.id = Nothing /\ j.old = BlankSeat
              /\ j.dto.room # Nothing /\ j.dto.place # Nothing
OldSeat(j) == j.id \in Seats /\ j.old \in SeatRow

JobFits(c) ==
    /\ pc[c] = "saveRoom" => job[c].dto \in RoomDto /\ (NewRoom(job[c]) \/ OldRoom(job[c]))
    /\ pc[c] = "name" =>
          job[c].dto \in RoomDto /\ OldRoom(job[c]) /\ job[c].dto.name # Nothing
    /\ pc[c] \in {"place", "saveSeat"} =>
          job[c].dto \in SeatDto /\ (NewSeat(job[c]) \/ OldSeat(job[c]))
    /\ pc[c] \in {"newRoom", "fits"} => job[c].dto \in SeatDto /\ OldSeat(job[c])
    /\ pc[c] = "newRoom" => job[c].dto.room # Nothing
    /\ pc[c] \in {"fits", "place"} => job[c].dto.room # Nothing /\ job[c].dto.place # Nothing
    /\ pc[c] \in NewSeatsPhases => OldRoom(job[c])
    /\ pc[c] = "removeRoom" => job[c].id \in Rooms
    /\ pc[c] = "removeSeat" => job[c].id \in Seats

\* The row it read is the row there is.
RowFresh(c) ==
    /\ "rooms" \notin stale[c] /\ pc[c] \in RoomPhases \cup NewSeatsPhases =>
          job[c].id = Nothing \/ room[job[c].id] = job[c].old
    /\ "seats" \notin stale[c] /\ pc[c] \in SeatPhases =>
          job[c].id = Nothing \/ seat[job[c].id] = job[c].old

\* The checks it made still hold.
ChecksHold(c) ==
    /\ /\ "rooms" \notin stale[c]
       /\ pc[c] = "saveRoom" /\ job[c].dto.name # Nothing
       /\ job[c].id = Nothing \/ job[c].dto.name # job[c].old.name
       => ~NameTaken(job[c].dto.name)
    /\ /\ "seats" \notin stale[c]
       /\ pc[c] = "saveSeat" /\ job[c].dto.place # Nothing /\ job[c].dto.room # Nothing
       => ~PlaceTaken(job[c].id, job[c].dto.room, job[c].dto.place)
    /\ /\ "rooms" \notin stale[c]
       /\ pc[c] \in {"place", "saveSeat"}
       /\ job[c].dto.place # Nothing /\ job[c].dto.room # Nothing
       => Fits(job[c].dto.room, job[c].dto.place)
    /\ "seats" \notin stale[c] /\ pc[c] = "saveAll" => SeatsOf(job[c].id) = {}

\* The seat it read was inside its room, if all seats were.
OldFits(c) ==
    /\ <<"seats", "rooms">> \notin races /\ unchecked = {}
    /\ "rooms" \notin stale[c] /\ pc[c] \in SeatPhases /\ job[c].id # Nothing
    => Fits(job[c].old.room, job[c].old.place)

CallOK(c) == JobFits(c) /\ RowFresh(c) /\ ChecksHold(c) /\ OldFits(c)

\* What the database itself keeps: the types and the foreign keys.
TablesOK ==
    /\ room \in [Rooms -> Optional(RoomRow)]
    /\ seat \in [Seats -> Optional(SeatRow)]
    /\ booked \subseteq Seats
    /\ removed \subseteq Rooms \cup Seats
    /\ \A s \in Seats : seat[s] # Nothing => room[seat[s].room] # Nothing
    /\ \A s \in booked : seat[s] # Nothing

Rules == NamesUnique /\ PlacesUnique /\ SeatsInside

IInv == /\ TypeOK
        /\ TablesOK
        /\ Rules
        /\ \A c \in Calls : CallOK(c)
------------------------------------------------------------------------------
(* What the steps of a call leave alone.                                   *)

\* Call d sleeps: whatever others write into a table makes it stale for d.
Sleeps(d) ==
    /\ pc'[d] = pc[d] /\ job'[d] = job[d]
    /\ pc[d] \notin {"idle", "done"} =>
          /\ stale[d] \subseteq stale'[d]
          /\ room' = room \/ "rooms" \in stale'[d]
          /\ seat' = seat \/ "seats" \in stale'[d]
    /\ races \subseteq races' /\ unchecked \subseteq unchecked'

LEMMA SleepersOK ==
    ASSUME NEW d \in Calls, CallOK(d), Sleeps(d)
    PROVE  CallOK(d)'
<1>1. CASE pc[d] \in {"idle", "done"}
      BY <1>1 DEF Sleeps, CallOK, JobFits, RowFresh, ChecksHold, OldFits, RoomPhases,
                  SeatPhases, NewSeatsPhases
<1>2. CASE pc[d] \notin {"idle", "done"}
  <2>1. JobFits(d)'
        BY DEF Sleeps, CallOK, JobFits, NewRoom, OldRoom, NewSeat, OldSeat
  <2>2. RowFresh(d)'
        BY <1>2 DEF Sleeps, CallOK, RowFresh
  <2>3. ChecksHold(d)'
        BY <1>2 DEF Sleeps, CallOK, ChecksHold, NameTaken, PlaceTaken, Fits, SeatsOf
  <2>4. OldFits(d)'
        BY <1>2 DEF Sleeps, CallOK, OldFits, Fits
  <2>5. QED  BY <2>1, <2>2, <2>3, <2>4 DEF CallOK
<1>3. QED  BY <1>1, <1>2

\* A call that is over has nothing to check.
LEMMA DoneOK ==
    ASSUME NEW c \in Calls, TypeOK, End(c)
    PROVE  CallOK(c)'
BY DEF TypeOK, End, CallOK, JobFits, RowFresh, ChecksHold, OldFits, RoomPhases,
       SeatPhases, NewSeatsPhases

\* The invariant after a step of c that changes no table.
LEMMA QuietStep ==
    ASSUME NEW c \in Calls, IInv, UNCHANGED <<tables, history>>,
           \A d \in Calls \ {c} : pc'[d] = pc[d] /\ job'[d] = job[d] /\ stale'[d] = stale[d],
           TypeOK', CallOK(c)'
    PROVE  IInv'
<1>1. \A d \in Calls : CallOK(d)'
      BY SleepersOK DEF Sleeps, IInv, tables, history
<1>2. TablesOK' /\ Rules'
      BY DEF IInv, TablesOK, Rules, NamesUnique, PlacesUnique, SeatsInside,
             NamesDiffer, PlacesDiffer, SeatsFit, tables, history
<1>3. QED  BY <1>1, <1>2 DEF IInv

\* The invariant after the write of c, which is its last step.
LEMMA WriteStep ==
    ASSUME NEW c \in Calls, NEW t \in Tables, NEW written \in SUBSET Tables,
           IInv, Writes(c, t, written),
           room' = room \/ "rooms" \in written,
           seat' = seat \/ "seats" \in written,
           unchecked \subseteq unchecked', unchecked' \subseteq {"place", "size"},
           TablesOK', Rules'
    PROVE  IInv'
<1>1. TypeOK'
      BY DEF IInv, TypeOK, TablesOK, Writes, End, Tables, NoJob, Optional
<1>2. \A d \in Calls \ {c} : CallOK(d)'
  <2>1. TAKE d \in Calls \ {c}
  <2>2. Sleeps(d)
        BY DEF Sleeps, IInv, TypeOK, Writes, End
  <2>3. QED  BY <2>2, SleepersOK DEF IInv
<1>3. CallOK(c)'
      BY DoneOK DEF IInv, Writes
<1>4. QED  BY <1>1, <1>2, <1>3 DEF IInv

\* The invariant after a call that throws.
LEMMA QuitStep ==
    ASSUME NEW c \in Calls, IInv, Quit(c)
    PROVE  IInv'
<1>1. TypeOK'
      BY DEF IInv, TypeOK, Quit, End, Tables, NoJob, Optional, tables, history
<1>2. CallOK(c)'
      BY DoneOK DEF IInv, Quit
<1>3. QED  BY <1>1, <1>2, QuietStep DEF IInv, TypeOK, Quit, End

\* The invariant after the first step of c.
LEMMA BeginStep ==
    ASSUME NEW c \in Calls, NEW next \in Waiting, NEW id \in Optional(Rooms \cup Seats),
           NEW old \in {BlankRoom, BlankSeat} \cup Optional(RoomRow \cup SeatRow),
           NEW dto \in Optional(RoomDto \cup SeatDto),
           IInv, Begin(c, next, id, old, dto), CallOK(c)'
    PROVE  IInv'
<1>1. TypeOK'
      BY DEF IInv, TypeOK, Begin, tables, history
<1>2. QED  BY <1>1, QuietStep DEF IInv, TypeOK, Begin

\* The invariant after the answer to a query of c.
LEMMA QueryStep ==
    ASSUME NEW c \in Calls, NEW here \in Waiting, NEW next \in Waiting,
           NEW passes, IInv, Query(c, here, passes, next),
           /\ passes /\ pc[c] = here /\ pc'[c] = next /\ job' = job
           /\ UNCHANGED <<tables, stale, history>>
           => CallOK(c)'
    PROVE  IInv'
<1>1. CASE Quit(c)
      BY <1>1, QuitStep
<1>2. CASE /\ passes /\ pc[c] = here /\ pc' = [pc EXCEPT ![c] = next]
           /\ UNCHANGED <<tables, job, stale, history>>
  <2>1. TypeOK' /\ pc'[c] = next
        BY <1>2 DEF IInv, TypeOK, tables, history
  <2>2. CallOK(c)'
        BY <1>2, <2>1
  <2>3. QED  BY <1>2, <2>1, <2>2, QuietStep DEF IInv, TypeOK
<1>3. QED  BY <1>1, <1>2 DEF Query
------------------------------------------------------------------------------
(* RoomsService.                                                           *)

\* The entity of a room, with the columns of the request.
LEMMA MergedRoom ==
    ASSUME NEW c \in Calls, JobFits(c), pc[c] = "saveRoom"
    PROVE  /\ Merged(c) \in RoomRow
           /\ Merged(c).name = IF job[c].dto.name = Nothing THEN job[c].old.name
                               ELSE job[c].dto.name
<1>1. job[c].dto \in RoomDto /\ (NewRoom(job[c]) \/ OldRoom(job[c]))
      BY DEF JobFits
<1>2. DOMAIN job[c].old = {"name", "size", "isActive"}
      BY <1>1 DEF NewRoom, OldRoom, BlankRoom, RoomRow
<1>3. Merged(c) = [k \in {"name", "size", "isActive"} |->
                     IF job[c].dto[k] = Nothing THEN job[c].old[k] ELSE job[c].dto[k]]
      BY <1>2 DEF Merged
<1>4. /\ Merged(c).name \in Names /\ Merged(c).size \in Sizes
      /\ Merged(c).isActive \in BOOLEAN
  <2>1. CASE NewRoom(job[c])
    <3>1. /\ job[c].dto.name \in Names /\ job[c].dto.size \in Sizes
          /\ job[c].dto.isActive \in {Nothing} \cup BOOLEAN
          BY <1>1, <2>1 DEF NewRoom, RoomDto, Optional
    <3>2. job[c].old.isActive \in BOOLEAN
          BY <2>1 DEF NewRoom, BlankRoom
    <3>3. /\ Merged(c).name = job[c].dto.name /\ Merged(c).size = job[c].dto.size
          /\ Merged(c).isActive \in {job[c].old.isActive, job[c].dto.isActive} \ {Nothing}
          BY <1>3, <2>1, <3>2, CatalogueAssumption DEF NewRoom
    <3>4. QED  BY <3>1, <3>2, <3>3
  <2>2. CASE OldRoom(job[c])
        BY <1>1, <1>3, <2>2 DEF OldRoom, RoomRow, RoomDto, Optional
  <2>3. QED  BY <1>1, <2>1, <2>2
<1>5. QED  BY <1>3, <1>4 DEF RoomRow

\* A new room: its name was free when the call looked.
LEMMA CreateRoomKeeps ==
    ASSUME IInv, NEW c \in Calls, NEW dto \in NewRooms, CreateRoom(c, dto)
    PROVE  IInv'
<1>1. dto \in RoomDto /\ dto.name # Nothing /\ dto.size # Nothing
      BY CatalogueAssumption
<1>2. /\ pc'[c] = "saveRoom" /\ job'[c] = [id |-> Nothing, old |-> BlankRoom, dto |-> dto]
      /\ room' = room /\ ~NameTaken(dto.name)
      BY DEF CreateRoom, Begin, IInv, TypeOK, tables
<1>3. CallOK(c)'
  <2>1. JobFits(c)'
        BY <1>1, <1>2 DEF JobFits, NewRoom, NewSeatsPhases
  <2>2. ChecksHold(c)'
        BY <1>2 DEF ChecksHold, NameTaken
  <2>3. QED  BY <1>2, <2>1, <2>2 DEF CallOK, RowFresh, OldFits, SeatPhases
<1>4. QED  BY <1>1, <1>3, BeginStep DEF CreateRoom, Waiting, Optional

\* A patch of a room, and its activation: the row is read.
LEMMA UpdateRoomKeeps ==
    ASSUME IInv, NEW c \in Calls, NEW r \in Rooms, NEW dto \in RoomDto, NEW next,
           room[r] # Nothing, Begin(c, next, r, room[r], dto),
           next = IF dto.name \notin {Nothing, room[r].name} THEN "name" ELSE "saveRoom"
    PROVE  IInv'
<1>1. room[r] \in RoomRow
      BY DEF IInv, TypeOK, Optional
<1>2. /\ pc'[c] = next /\ job'[c] = [id |-> r, old |-> room[r], dto |-> dto]
      /\ room' = room
      BY DEF Begin, IInv, TypeOK, tables
<1>3. CallOK(c)'
  <2>1. JobFits(c)'
        BY <1>1, <1>2 DEF JobFits, OldRoom, NewSeatsPhases
  <2>2. RowFresh(c)' /\ OldFits(c)'
        BY <1>2 DEF RowFresh, OldFits, SeatPhases
  <2>3. ChecksHold(c)'
        BY <1>2, CatalogueAssumption DEF ChecksHold
  <2>4. QED  BY <2>1, <2>2, <2>3 DEF CallOK
<1>4. QED  BY <1>1, <1>3, BeginStep DEF Waiting, Optional

\* The name of a patch is free.
LEMMA CheckNameKeeps ==
    ASSUME IInv, NEW c \in Calls, CheckName(c)
    PROVE  IInv'
<1>1. ASSUME ~NameTaken(job[c].dto.name), pc[c] = "name", pc'[c] = "saveRoom",
             job' = job, UNCHANGED <<tables, stale, history>>
      PROVE  CallOK(c)'
  <2>1. CallOK(c)
        BY DEF IInv
  <2>2. JobFits(c)'
        BY <1>1, <2>1 DEF CallOK, JobFits, NewSeatsPhases, OldRoom
  <2>3. RowFresh(c)' /\ OldFits(c)'
        BY <1>1, <2>1 DEF CallOK, RowFresh, OldFits, RoomPhases, SeatPhases, tables
  <2>4. ChecksHold(c)'
        BY <1>1 DEF ChecksHold, NameTaken, tables
  <2>5. QED  BY <2>2, <2>3, <2>4 DEF CallOK
<1>2. QED  BY <1>1, QueryStep DEF CheckName, Waiting

\* The removal of a room and the generation of its seats begin.
LEMMA RoomReadKeeps ==
    ASSUME IInv, NEW c \in Calls, NEW r \in Rooms, NEW next \in {"removeRoom", "empty"},
           room[r] # Nothing, Begin(c, next, r, room[r], Nothing)
    PROVE  IInv'
<1>1. room[r] \in RoomRow
      BY DEF IInv, TypeOK, Optional
<1>2. /\ pc'[c] = next /\ job'[c] = [id |-> r, old |-> room[r], dto |-> Nothing]
      /\ room' = room
      BY DEF Begin, IInv, TypeOK, tables
<1>3. CallOK(c)'
      BY <1>1, <1>2 DEF CallOK, JobFits, RowFresh, ChecksHold, OldFits, OldRoom,
         RoomPhases, SeatPhases, NewSeatsPhases
<1>4. QED  BY <1>1, <1>3, BeginStep DEF Waiting, Optional

\* The write of a room.  A name that the call did not see taken may have been
\* taken since; then another call wrote the rooms, and there was a race.
LEMMA SaveRoomKeeps ==
    ASSUME IInv, NEW c \in Calls, SaveRoom(c)
    PROVE  IInv'
<1> DEFINE raced == <<"rooms", "rooms">> \in races'
<1>1. /\ pc[c] = "saveRoom" /\ Writes(c, "rooms", {"rooms"})
      /\ UNCHANGED <<seat, booked, removed>>
      BY DEF SaveRoom
<1>2. PICK r \in IF job[c].id = Nothing THEN FreshRooms ELSE {job[c].id} :
        /\ room' = [room EXCEPT ![r] = Merged(c)]
        /\ unchecked' = IF \A s \in SeatsOf(r) : seat[s].place \in Merged(c).size
                        THEN unchecked ELSE unchecked \cup {"size"}
      BY DEF SaveRoom
<1>3. /\ CallOK(c) /\ TypeOK /\ TablesOK /\ Rules
      /\ JobFits(c) /\ RowFresh(c) /\ ChecksHold(c)
      BY DEF IInv, CallOK
<1>4. /\ Merged(c) \in RoomRow
      /\ Merged(c).name = IF job[c].dto.name = Nothing THEN job[c].old.name
                          ELSE job[c].dto.name
      BY <1>1, <1>3, MergedRoom
<1>5. r \in Rooms /\ (job[c].id = Nothing => r \in FreshRooms)
      BY <1>1, <1>2, <1>3 DEF JobFits, NewRoom, OldRoom, FreshRooms
<1>6. /\ races \subseteq races' /\ unchecked \subseteq unchecked'
      /\ unchecked' \subseteq {"place", "size"}
      /\ "rooms" \in stale[c] => raced
      BY <1>1, <1>2, <1>3 DEF Writes, TypeOK
<1>7. TablesOK'
  <2>1. room' \in [Rooms -> Optional(RoomRow)] /\ room'[r] = Merged(c)
        BY <1>2, <1>3, <1>4, <1>5 DEF TablesOK, Optional
  <2>2. Merged(c) # Nothing
        BY <1>4, CatalogueAssumption
  <2>3. \A q \in Rooms : room[q] # Nothing => room'[q] # Nothing
        BY <1>2, <1>3, <1>5, <2>1, <2>2 DEF TablesOK
  <2>4. \A s \in Seats : seat[s] # Nothing => seat[s].room \in Rooms
        BY <1>3 DEF TablesOK, Optional, SeatRow
  <2>5. QED  BY <1>1, <1>3, <2>1, <2>3, <2>4 DEF TablesOK
<1>8. ASSUME ~raced
      PROVE  \A q \in Rooms : q # r /\ room[q] # Nothing => room[q].name # Merged(c).name
  <2>1. "rooms" \notin stale[c] /\ NamesDiffer(room)
        BY <1>3, <1>6, <1>8 DEF Rules, NamesUnique
  <2>2. CASE job[c].dto.name # Nothing /\ (job[c].id = Nothing \/ job[c].dto.name # job[c].old.name)
        BY <1>1, <1>3, <1>4, <2>1, <2>2 DEF ChecksHold, NameTaken
  <2>3. CASE job[c].id # Nothing /\ job[c].dto.name \in {Nothing, job[c].old.name}
    <3>1. r = job[c].id /\ room[r] = job[c].old /\ Merged(c).name = job[c].old.name
          BY <1>1, <1>2, <1>3, <1>4, <2>1, <2>3 DEF RowFresh, RoomPhases
    <3>2. room[r] # Nothing
          BY <1>1, <1>3, <2>3, <3>1, CatalogueAssumption DEF JobFits, NewRoom, OldRoom
    <3>3. QED  BY <1>5, <2>1, <3>1, <3>2 DEF NamesDiffer
  <2>4. job[c].id = Nothing => job[c].dto.name # Nothing
        BY <1>1, <1>3, CatalogueAssumption DEF JobFits, NewRoom, OldRoom
  <2>5. QED  BY <2>2, <2>3, <2>4
<1>9. NamesUnique'
  <2>1. CASE raced
        BY <2>1 DEF NamesUnique
  <2>2. CASE ~raced
    <3>1. NamesDiffer(room)
          BY <1>3, <1>6, <2>2 DEF Rules, NamesUnique
    <3>2. NamesDiffer(room)'
          BY <1>2, <1>3, <1>5, <1>8, <2>2, <3>1 DEF NamesDiffer, TypeOK
    <3>3. QED  BY <3>2 DEF NamesUnique
  <2>3. QED  BY <2>1, <2>2
<1>10. PlacesUnique'
      BY <1>1, <1>3, <1>6 DEF Rules, PlacesUnique, PlacesDiffer
<1>11. SeatsInside'
  <2>1. SUFFICES ASSUME <<"seats", "rooms">> \notin races', unchecked' = {}
                 PROVE  SeatsFit(room, seat)'
        BY DEF SeatsInside
  <2>2. SeatsFit(room, seat)
        BY <1>3, <1>6, <2>1 DEF Rules, SeatsInside
  <2>3. \A s \in SeatsOf(r) : seat[s].place \in Merged(c).size
        BY <1>2, <2>1
  <2>4. \A s \in Seats : seat[s] # Nothing => seat[s].room \in Rooms
        BY <1>3 DEF TablesOK, Optional, SeatRow
  <2>5. Merged(c) # Nothing
        BY <1>4, CatalogueAssumption
  <2>6. QED  BY <1>1, <1>2, <1>3, <1>5, <2>2, <2>3, <2>4, <2>5 DEF SeatsFit, SeatsOf, TypeOK
<1>12. Rules'
      BY <1>9, <1>10, <1>11 DEF Rules
<1>13. QED  BY <1>1, <1>6, <1>7, <1>12, WriteStep DEF Tables

\* Rows that go away break no rule, as long as bookings do not refer to them.
LEMMA RowsGo ==
    ASSUME IInv, NEW gone \in SUBSET Seats, NEW left \in SUBSET Rooms,
           room' = [r \in Rooms |-> IF r \in left THEN Nothing ELSE room[r]],
           seat' = [s \in Seats |-> IF s \in gone THEN Nothing ELSE seat[s]],
           removed' = removed \cup left \cup gone,
           \A r \in left : SeatsOf(r) \subseteq gone,
           gone \cap booked = {},
           races \subseteq races', UNCHANGED <<booked, unchecked>>
    PROVE  TablesOK' /\ Rules'
<1>1. TypeOK /\ TablesOK /\ Rules
      BY DEF IInv
<1>2. /\ \A s \in Seats : seat[s] # Nothing => seat[s].room \in Rooms
      /\ \A s \in Seats : seat'[s] # Nothing => seat'[s] = seat[s] /\ s \notin gone
      /\ \A r \in Rooms : room'[r] # Nothing => room'[r] = room[r]
      BY <1>1 DEF TablesOK, Optional, SeatRow
<1>3. \A s \in Seats : seat'[s] # Nothing => room'[seat'[s].room] = room[seat[s].room]
      BY <1>2 DEF SeatsOf
<1>4. TablesOK'
  <2>1. room' \in [Rooms -> Optional(RoomRow)] /\ seat' \in [Seats -> Optional(SeatRow)]
        BY <1>1 DEF TablesOK, Optional
  <2>2. booked' \subseteq Seats /\ removed' \subseteq Rooms \cup Seats
        BY <1>1 DEF TablesOK
  <2>3. \A s \in Seats : seat'[s] # Nothing => room'[seat'[s].room] # Nothing
        BY <1>1, <1>2, <1>3 DEF TablesOK
  <2>4. \A s \in booked' : seat'[s] # Nothing
        BY <1>1 DEF TablesOK
  <2>5. QED  BY <2>1, <2>2, <2>3, <2>4 DEF TablesOK
<1>5. NamesUnique' /\ PlacesUnique'
      BY <1>1, <1>2 DEF Rules, NamesUnique, PlacesUnique, NamesDiffer, PlacesDiffer
<1>6. SeatsInside'
      BY <1>1, <1>2, <1>3 DEF Rules, SeatsInside, SeatsFit
<1>7. QED  BY <1>4, <1>5, <1>6 DEF Rules

\* The removal of a room takes its seats along.
LEMMA DeleteRoomKeeps ==
    ASSUME IInv, NEW c \in Calls, DeleteRoom(c)
    PROVE  IInv'
<1> DEFINE r == job[c].id
           gone == SeatsOf(r)
<1>1. CASE Quit(c)
      BY <1>1, QuitStep
<1>2. CASE /\ ~Referenced(gone)
           /\ room' = [room EXCEPT ![r] = Nothing]
           /\ seat' = [s \in Seats |-> IF s \in gone THEN Nothing ELSE seat[s]]
           /\ removed' = removed \cup {r} \cup gone
           /\ Writes(c, "rooms", Tables)
           /\ UNCHANGED <<booked, unchecked>>
  <2>1. r \in Rooms /\ gone \in SUBSET Seats
        BY DEF DeleteRoom, IInv, CallOK, JobFits, SeatsOf
  <2>2. room' = [q \in Rooms |-> IF q \in {r} THEN Nothing ELSE room[q]]
        BY <1>2, <2>1 DEF IInv, TypeOK
  <2>3. races \subseteq races'
        BY <1>2 DEF Writes
  <2>4. \A q \in {r} : SeatsOf(q) \subseteq gone
        OBVIOUS
  <2>5. TablesOK' /\ Rules'
    <3> DEFINE left == {r}
    <3>1. /\ gone \cap booked = {} /\ left \in SUBSET Rooms
          /\ room' = [q \in Rooms |-> IF q \in left THEN Nothing ELSE room[q]]
          /\ removed' = removed \cup left \cup gone
          /\ \A q \in left : SeatsOf(q) \subseteq gone
          /\ UNCHANGED <<booked, unchecked>>
          BY <1>2, <2>1, <2>2, <2>4 DEF Referenced
    <3>2. seat' = [s \in Seats |-> IF s \in gone THEN Nothing ELSE seat[s]]
          BY <1>2
    <3> HIDE DEF r, gone, left
    <3>3. QED  BY <2>1, <2>3, <3>1, <3>2, RowsGo
  <2>6. "rooms" \in Tables /\ "seats" \in Tables /\ Tables \in SUBSET Tables
        BY DEF Tables
  <2>7. unchecked' \subseteq {"place", "size"}
        BY <1>2 DEF IInv, TypeOK
  <2>8. QED  BY <1>2, <2>5, <2>6, <2>7, WriteStep
<1>3. QED  BY <1>1, <1>2 DEF DeleteRoom
------------------------------------------------------------------------------
(* SeatsService.                                                           *)

\* A new seat: its place is inside its room when the call looks.
LEMMA CreateSeatKeeps ==
    ASSUME IInv, NEW c \in Calls, NEW dto \in NewSeats, CreateSeat(c, dto)
    PROVE  IInv'
<1>1. dto \in SeatDto /\ dto.room # Nothing /\ dto.place # Nothing
      BY CatalogueAssumption
<1>2. /\ pc'[c] = "place" /\ job'[c] = [id |-> Nothing, old |-> BlankSeat, dto |-> dto]
      /\ room' = room /\ Fits(dto.room, dto.place)
      BY DEF CreateSeat, Begin, IInv, TypeOK, tables
<1>3. CallOK(c)'
  <2>1. JobFits(c)'
        BY <1>1, <1>2 DEF JobFits, NewSeat, NewSeatsPhases
  <2>2. ChecksHold(c)'
        BY <1>2 DEF ChecksHold, Fits
  <2>3. QED  BY <1>2, <2>1, <2>2 DEF CallOK, RowFresh, OldFits, RoomPhases, NewSeatsPhases
<1>4. QED  BY <1>1, <1>3, BeginStep DEF CreateSeat, Waiting, Optional

\* A patch of a seat, and its activation: the row is read.  It lies in its room
\* if all seats do.
LEMMA UpdateSeatKeeps ==
    ASSUME IInv, NEW c \in Calls, NEW s \in Seats, NEW dto \in SeatDto,
           NEW next \in {"newRoom", "fits", "saveSeat"},
           seat[s] # Nothing, Begin(c, next, s, seat[s], dto),
           next = "newRoom" => dto.room # Nothing,
           next = "fits" => dto.room # Nothing /\ dto.place # Nothing,
           next = "saveSeat" => dto.room = Nothing \/ dto.place = Nothing
    PROVE  IInv'
<1>1. seat[s] \in SeatRow
      BY DEF IInv, TypeOK, Optional
<1>2. /\ pc'[c] = next /\ job'[c] = [id |-> s, old |-> seat[s], dto |-> dto]
      /\ UNCHANGED <<room, seat, races, unchecked>>
      BY DEF Begin, IInv, TypeOK, tables, history
<1>3. CallOK(c)'
  <2>1. JobFits(c)'
        BY <1>1, <1>2 DEF JobFits, OldSeat, NewSeatsPhases
  <2>2. RowFresh(c)'
        BY <1>2 DEF RowFresh, RoomPhases, NewSeatsPhases
  <2>3. OldFits(c)'
        BY <1>2 DEF OldFits, IInv, Rules, SeatsInside, SeatsFit, Fits
  <2>4. ChecksHold(c)'
        BY <1>2 DEF ChecksHold
  <2>5. QED  BY <2>1, <2>2, <2>3, <2>4 DEF CallOK
<1>4. QED  BY <1>1, <1>3, BeginStep DEF Waiting, Optional

\* The queries of a patch and of a new seat.
LEMMA CheckNewRoomKeeps ==
    ASSUME IInv, NEW c \in Calls, CheckNewRoom(c)
    PROVE  IInv'
<1>1. PlaceCheck(job[c].dto) \in {"fits", "saveSeat"}
      BY DEF PlaceCheck
<1>2. ASSUME pc[c] = "newRoom", pc'[c] = PlaceCheck(job[c].dto),
             job' = job, UNCHANGED <<tables, stale, history>>
      PROVE  CallOK(c)'
  <2>1. CallOK(c)
        BY DEF IInv
  <2>2. JobFits(c)'
        BY <1>1, <1>2, <2>1 DEF CallOK, JobFits, NewSeatsPhases, OldSeat, PlaceCheck
  <2>3. RowFresh(c)' /\ OldFits(c)'
        BY <1>1, <1>2, <2>1 DEF CallOK, RowFresh, OldFits, RoomPhases, SeatPhases,
           NewSeatsPhases, Fits, tables, history
  <2>4. ChecksHold(c)'
        BY <1>1, <1>2 DEF ChecksHold, PlaceCheck
  <2>5. QED  BY <2>2, <2>3, <2>4 DEF CallOK
<1>3. QED  BY <1>1, <1>2, QueryStep DEF CheckNewRoom, Waiting

LEMMA CheckFitsKeeps ==
    ASSUME IInv, NEW c \in Calls, CheckFits(c)
    PROVE  IInv'
<1>1. ASSUME Fits(job[c].dto.room, job[c].dto.place), pc[c] = "fits", pc'[c] = "place",
             job' = job, UNCHANGED <<tables, stale, history>>
      PROVE  CallOK(c)'
  <2>1. CallOK(c)
        BY DEF IInv
  <2>2. JobFits(c)'
        BY <1>1, <2>1 DEF CallOK, JobFits, NewSeatsPhases, OldSeat
  <2>3. RowFresh(c)' /\ OldFits(c)'
        BY <1>1, <2>1 DEF CallOK, RowFresh, OldFits, RoomPhases, SeatPhases,
           NewSeatsPhases, Fits, tables, history
  <2>4. ChecksHold(c)'
        BY <1>1 DEF ChecksHold, Fits, tables
  <2>5. QED  BY <2>2, <2>3, <2>4 DEF CallOK
<1>2. QED  BY <1>1, QueryStep DEF CheckFits, Waiting

LEMMA CheckPlaceKeeps ==
    ASSUME IInv, NEW c \in Calls, CheckPlace(c)
    PROVE  IInv'
<1>1. ASSUME ~PlaceTaken(job[c].id, job[c].dto.room, job[c].dto.place),
             pc[c] = "place", pc'[c] = "saveSeat",
             job' = job, UNCHANGED <<tables, stale, history>>
      PROVE  CallOK(c)'
  <2>1. CallOK(c)
        BY DEF IInv
  <2>2. JobFits(c)'
        BY <1>1, <2>1 DEF CallOK, JobFits, NewSeatsPhases, OldSeat, NewSeat
  <2>3. RowFresh(c)' /\ OldFits(c)'
        BY <1>1, <2>1 DEF CallOK, RowFresh, OldFits, RoomPhases, SeatPhases,
           NewSeatsPhases, Fits, tables, history
  <2>4. ChecksHold(c)'
        BY <1>1, <2>1 DEF CallOK, ChecksHold, PlaceTaken, SeatsOf, Fits, tables
  <2>5. QED  BY <2>2, <2>3, <2>4 DEF CallOK
<1>2. QED  BY <1>1, QueryStep DEF CheckPlace, Waiting

\* A room without seats is about to get them.
LEMMA CheckEmptyKeeps ==
    ASSUME IInv, NEW c \in Calls, CheckEmpty(c)
    PROVE  IInv'
<1>1. ASSUME SeatsOf(job[c].id) = {}, pc[c] = "empty", pc'[c] = "saveAll",
             job' = job, UNCHANGED <<tables, stale, history>>
      PROVE  CallOK(c)'
  <2>1. CallOK(c)
        BY DEF IInv
  <2>2. JobFits(c)'
        BY <1>1, <2>1 DEF CallOK, JobFits, NewSeatsPhases, OldRoom
  <2>3. RowFresh(c)' /\ OldFits(c)'
        BY <1>1, <2>1 DEF CallOK, RowFresh, OldFits, RoomPhases, SeatPhases,
           NewSeatsPhases, tables, history
  <2>4. ChecksHold(c)'
        BY <1>1 DEF ChecksHold, SeatsOf, tables
  <2>5. QED  BY <2>2, <2>3, <2>4 DEF CallOK
<1>2. QED  BY <1>1, QueryStep DEF CheckEmpty, Waiting

\* The removal of a seat begins.
LEMMA RemoveSeatKeeps ==
    ASSUME IInv, NEW c \in Calls, NEW s \in Seats, RemoveSeat(c, s)
    PROVE  IInv'
<1>1. seat[s] \in SeatRow
      BY DEF IInv, TypeOK, Optional, RemoveSeat
<1>2. /\ pc'[c] = "removeSeat" /\ job'[c] = [id |-> s, old |-> seat[s], dto |-> Nothing]
      BY DEF RemoveSeat, Begin, IInv, TypeOK
<1>3. CallOK(c)'
      BY <1>1, <1>2 DEF CallOK, JobFits, RowFresh, ChecksHold, OldFits, RoomPhases,
         SeatPhases, NewSeatsPhases
<1>4. QED  BY <1>1, <1>3, BeginStep DEF RemoveSeat, Waiting, Optional

\* The entity of a seat, with the columns of the request, in the room that
\* is stored.
LEMMA MergedSeat ==
    ASSUME NEW c \in Calls, JobFits(c), pc[c] = "saveSeat",
           NEW r \in {Merged(c).room, job[c].old.room} \ {Nothing}
    PROVE  /\ r \in Rooms
           /\ [Merged(c) EXCEPT !.room = r] \in SeatRow
           /\ [Merged(c) EXCEPT !.room = r].room = r
           /\ [Merged(c) EXCEPT !.room = r].place = Merged(c).place
           /\ Merged(c).place = IF job[c].dto.place = Nothing THEN job[c].old.place
                                ELSE job[c].dto.place
           /\ NewSeat(job[c]) => r = job[c].dto.room
<1>1. job[c].dto \in SeatDto /\ (NewSeat(job[c]) \/ OldSeat(job[c]))
      BY DEF JobFits
<1>2. DOMAIN job[c].old = {"room", "place", "isActive"}
      BY <1>1 DEF NewSeat, OldSeat, BlankSeat, SeatRow
<1>3. Merged(c) = [k \in {"room", "place", "isActive"} |->
                     IF job[c].dto[k] = Nothing THEN job[c].old[k] ELSE job[c].dto[k]]
      BY <1>2 DEF Merged
<1>4. /\ Merged(c).room \in Rooms /\ Merged(c).place \in Places
      /\ Merged(c).isActive \in BOOLEAN
      /\ r \in Rooms /\ (NewSeat(job[c]) => r = job[c].dto.room)
  <2>1. CASE NewSeat(job[c])
    <3>1. /\ job[c].dto.room \in Rooms /\ job[c].dto.place \in Places
          /\ job[c].dto.isActive \in {Nothing} \cup BOOLEAN
          BY <1>1, <2>1 DEF NewSeat, SeatDto, Optional
    <3>2. job[c].old.isActive \in BOOLEAN /\ job[c].old.room = Nothing
          BY <2>1 DEF NewSeat, BlankSeat
    <3>3. /\ Merged(c).room = job[c].dto.room /\ Merged(c).place = job[c].dto.place
          /\ Merged(c).isActive \in {job[c].old.isActive, job[c].dto.isActive} \ {Nothing}
          BY <1>3, <2>1, <3>2, CatalogueAssumption DEF NewSeat
    <3>4. QED  BY <3>1, <3>2, <3>3
  <2>2. CASE OldSeat(job[c])
    <3>1. Nothing \notin Seats
          BY CatalogueAssumption
    <3>2. QED  BY <1>1, <1>3, <2>2, <3>1 DEF OldSeat, NewSeat, SeatRow, SeatDto, Optional
  <2>3. QED  BY <1>1, <2>1, <2>2
<1>5. QED  BY <1>3, <1>4 DEF SeatRow

\* The write of a seat.
LEMMA SaveSeatKeeps ==
    ASSUME IInv, NEW c \in Calls, SaveSeat(c)
    PROVE  IInv'
<1>1. pc[c] = "saveSeat"
      BY DEF SaveSeat
<1>2. /\ CallOK(c) /\ TypeOK /\ TablesOK /\ Rules
      /\ JobFits(c) /\ RowFresh(c) /\ ChecksHold(c) /\ OldFits(c)
      /\ NewSeat(job[c]) \/ OldSeat(job[c])
      BY <1>1 DEF IInv, CallOK, JobFits
<1>3. CASE Quit(c)
      BY <1>3, QuitStep
<1>4. ASSUME NEW r \in {Merged(c).room, job[c].old.room} \ {Nothing},
             NEW s \in IF job[c].id = Nothing THEN FreshSeats ELSE {job[c].id},
             room[r] # Nothing,
             seat' = [seat EXCEPT ![s] = [Merged(c) EXCEPT !.room = r]],
             unchecked' = IF Unchecked(c, r) THEN unchecked \cup {"place"} ELSE unchecked,
             Writes(c, "seats", {"seats"}),
             UNCHANGED <<room, booked, removed>>
      PROVE  IInv'
  <2> DEFINE row == [Merged(c) EXCEPT !.room = r]
             p   == Merged(c).place
  <2>1. /\ r \in Rooms /\ row \in SeatRow /\ row.room = r /\ row.place = p
        /\ p = IF job[c].dto.place = Nothing THEN job[c].old.place ELSE job[c].dto.place
        /\ NewSeat(job[c]) => r = job[c].dto.room
        BY <1>1, <1>2, MergedSeat
  <2>2. row # Nothing
        BY <2>1, CatalogueAssumption
  <2>3. s \in Seats /\ (NewSeat(job[c]) => s \in FreshSeats) /\ (OldSeat(job[c]) => s = job[c].id)
        BY <1>2, CatalogueAssumption DEF NewSeat, OldSeat, FreshSeats
  <2>4. /\ seat'[s] = row /\ \A q \in Seats \ {s} : seat'[q] = seat[q]
        /\ seat' \in [Seats -> Optional(SeatRow)]
    <3> HIDE DEF row
    <3>1. seat' = [seat EXCEPT ![s] = row]
          BY <1>4 DEF row
    <3>2. QED  BY <1>2, <2>1, <2>3, <3>1 DEF TablesOK, Optional
  <2> HIDE DEF row, p
  <2>5. /\ races \subseteq races' /\ unchecked \subseteq unchecked'
        /\ unchecked' \subseteq {"place", "size"}
        /\ \A u \in stale[c] : <<"seats", u>> \in races'
        /\ Unchecked(c, r) => "place" \in unchecked'
        BY <1>2, <1>4 DEF Writes, TypeOK
  <2>6. \/ Unchecked(c, r)
        \/ job[c].dto.place # Nothing /\ job[c].dto.room = r /\ p = job[c].dto.place
        \/ OldSeat(job[c]) /\ r = job[c].old.room /\ p = job[c].old.place
        BY <1>2, <2>1 DEF Unchecked, NewSeat, p
  <2>7. TablesOK'
    <3>1. \A q \in Seats : seat'[q] # Nothing => room[seat'[q].room] # Nothing
          BY <1>2, <1>4, <2>1, <2>4 DEF TablesOK
    <3>2. \A q \in booked : seat'[q] # Nothing
          BY <1>2, <2>2, <2>4 DEF TablesOK
    <3>3. QED  BY <1>2, <1>4, <2>4, <3>1, <3>2 DEF TablesOK
  <2>8. NamesUnique'
        BY <1>2, <1>4, <2>5 DEF Rules, NamesUnique, NamesDiffer
  <2>9. PlacesUnique'
    <3>1. SUFFICES ASSUME <<"seats", "seats">> \notin races', "place" \notin unchecked'
                   PROVE  PlacesDiffer(seat)'
          BY DEF PlacesUnique
    <3>2. "seats" \notin stale[c] /\ ~Unchecked(c, r) /\ PlacesDiffer(seat)
          BY <1>2, <2>5, <3>1 DEF Rules, PlacesUnique
    <3>3. ASSUME NEW q \in Seats \ {s}, seat[q] # Nothing
          PROVE  <<seat[q].room, seat[q].place>> # <<r, p>>
      <4>1. CASE job[c].dto.place # Nothing /\ job[c].dto.room = r /\ p = job[c].dto.place
        <5>1. ~PlaceTaken(job[c].id, r, p)
              BY <1>1, <1>2, <3>2, <4>1, CatalogueAssumption, <2>1 DEF ChecksHold
        <5>2. q # job[c].id
              BY <1>2, <2>3, CatalogueAssumption DEF NewSeat
        <5>3. QED  BY <3>3, <5>1, <5>2 DEF PlaceTaken, SeatsOf
      <4>2. CASE OldSeat(job[c]) /\ r = job[c].old.room /\ p = job[c].old.place
        <5>1. seat[s] = job[c].old /\ seat[s] # Nothing
              BY <1>1, <1>2, <2>3, <3>2, <4>2, CatalogueAssumption
                 DEF RowFresh, SeatPhases, OldSeat
        <5>2. QED  BY <2>3, <3>2, <3>3, <4>2, <5>1 DEF PlacesDiffer
      <4>3. QED  BY <2>6, <3>2, <4>1, <4>2
    <3>4. QED  BY <2>1, <2>3, <2>4, <3>2, <3>3 DEF PlacesDiffer
  <2>10. SeatsInside'
    <3>1. SUFFICES ASSUME <<"seats", "rooms">> \notin races', unchecked' = {}
                   PROVE  SeatsFit(room, seat)'
          BY DEF SeatsInside
    <3>2. /\ "rooms" \notin stale[c] /\ ~Unchecked(c, r) /\ SeatsFit(room, seat)
          /\ <<"seats", "rooms">> \notin races /\ unchecked = {}
          BY <1>2, <2>5, <3>1 DEF Rules, SeatsInside
    <3>3. ASSUME Fits(r, p)
          PROVE  SeatsFit(room, seat)'
      <4>1. \A q \in Seats : seat[q] # Nothing => Fits(seat[q].room, seat[q].place)
            BY <3>2 DEF SeatsFit, Fits
      <4>2. \A q \in Seats : seat'[q] # Nothing => Fits(seat'[q].room, seat'[q].place)
            BY <2>1, <2>3, <2>4, <3>3, <4>1
      <4>3. room' = room
            BY <1>4
      <4>4. QED  BY <4>2, <4>3 DEF SeatsFit, Fits
    <3>4. CASE job[c].dto.place # Nothing /\ job[c].dto.room = r /\ p = job[c].dto.place
      <4>1. Fits(r, p)
            BY <1>1, <1>2, <2>1, <3>2, <3>4, CatalogueAssumption DEF ChecksHold
      <4>2. QED  BY <4>1, <3>3
    <3>5. CASE OldSeat(job[c]) /\ r = job[c].old.room /\ p = job[c].old.place
      <4>1. Fits(r, p)
            BY <1>1, <1>2, <3>2, <3>5, CatalogueAssumption DEF OldFits, SeatPhases, OldSeat
      <4>2. QED  BY <4>1, <3>3
    <3>6. QED  BY <2>6, <3>2, <3>4, <3>5
  <2>11. Rules'
        BY <2>8, <2>9, <2>10 DEF Rules
  <2>12. /\ "seats" \in Tables /\ {"seats"} \in SUBSET Tables /\ "seats" \in {"seats"}
         /\ room' = room
        BY <1>4 DEF Tables
  <2>13. QED  BY <1>4, <2>5, <2>7, <2>11, <2>12, WriteStep
<1>5. QED  BY <1>3, <1>4 DEF SaveSeat

\* The removal of a seat.
LEMMA DeleteSeatKeeps ==
    ASSUME IInv, NEW c \in Calls, DeleteSeat(c)
    PROVE  IInv'
<1> DEFINE s == job[c].id
<1>1. CASE Quit(c)
      BY <1>1, QuitStep
<1>2. CASE /\ ~Referenced({s})
           /\ seat' = [seat EXCEPT ![s] = Nothing]
           /\ removed' = removed \cup {s}
           /\ Writes(c, "seats", {"seats"})
           /\ UNCHANGED <<room, booked, unchecked>>
  <2> DEFINE gone == {s}
             left == {}
  <2>1. s \in Seats
        BY DEF DeleteSeat, IInv, CallOK, JobFits
  <2>2. /\ gone \cap booked = {} /\ gone \in SUBSET Seats /\ left \in SUBSET Rooms
        /\ removed' = removed \cup left \cup gone
        /\ \A q \in left : SeatsOf(q) \subseteq gone
        /\ races \subseteq races' /\ UNCHANGED <<booked, unchecked>>
        BY <1>2, <2>1 DEF Referenced, Writes
  <2>3. /\ room' = [q \in Rooms |-> IF q \in left THEN Nothing ELSE room[q]]
        /\ seat' = [q \in Seats |-> IF q \in gone THEN Nothing ELSE seat[q]]
        BY <1>2, <2>1 DEF IInv, TypeOK
  <2>4. /\ "seats" \in Tables /\ {"seats"} \in SUBSET Tables /\ "seats" \in {"seats"}
        /\ unchecked' = unchecked /\ unchecked' \subseteq {"place", "size"} /\ room' = room
        BY <1>2 DEF Tables, IInv, TypeOK
  <2> HIDE DEF s, gone, left
  <2>5. TablesOK' /\ Rules'
        BY <2>2, <2>3, RowsGo
  <2>6. QED  BY <1>2, <2>4, <2>5, WriteStep
<1>3. QED  BY <1>1, <1>2 DEF DeleteSeat

\* The write of a whole room of seats.
LEMMA SaveAllKeeps ==
    ASSUME IInv, NEW c \in Calls, SaveAll(c)
    PROVE  IInv'
<1> DEFINE r == job[c].id
           size == job[c].old.size
<1>1. pc[c] = "saveAll" /\ r \in Rooms /\ job[c].old \in RoomRow
      BY DEF SaveAll, IInv, CallOK, JobFits, NewSeatsPhases, OldRoom
<1>2. /\ CallOK(c) /\ TypeOK /\ TablesOK /\ Rules
      /\ RowFresh(c) /\ ChecksHold(c)
      BY DEF IInv, CallOK
<1>3. CASE Quit(c)
      BY <1>3, QuitStep
<1>4. ASSUME NEW at \in [size -> FreshSeats],
             \A p, q \in size : at[p] = at[q] => p = q,
             seat' = [s \in Seats |->
                IF \E p \in size : at[p] = s
                THEN [room |-> r, place |-> CHOOSE p \in size : at[p] = s, isActive |-> TRUE]
                ELSE seat[s]],
             room[r] # Nothing,
             Writes(c, "seats", {"seats"}),
             UNCHANGED <<room, booked, unchecked, removed>>
      PROVE  IInv'
  <2> DEFINE new == {s \in Seats : \E p \in size : at[p] = s}
  <2>1. size \subseteq Places
        BY <1>1 DEF RoomRow, Sizes
  <2>2. \A s \in Seats \ new : seat'[s] = seat[s]
        BY <1>4
  <2>3. ASSUME NEW s \in new
        PROVE  /\ s \in FreshSeats /\ seat'[s] \in SeatRow /\ seat'[s].room = r
               /\ seat'[s].place \in size /\ at[seat'[s].place] = s
    <3>1. PICK p \in size : at[p] = s
          OBVIOUS
    <3>2. (CHOOSE q \in size : at[q] = s) = p
          BY <1>4, <3>1
    <3>3. seat'[s] = [room |-> r, place |-> p, isActive |-> TRUE]
          BY <1>4, <3>1, <3>2
    <3>4. QED  BY <1>1, <2>1, <3>1, <3>3 DEF SeatRow
  <2>4. /\ races \subseteq races' /\ \A u \in stale[c] : <<"seats", u>> \in races'
        /\ UNCHANGED <<room, booked, unchecked, removed>>
        BY <1>4 DEF Writes
  <2>5. seat' \in [Seats -> Optional(SeatRow)]
    <3>1. \A s \in Seats : seat'[s] \in Optional(SeatRow)
          BY <1>2, <2>2, <2>3 DEF TablesOK, Optional
    <3>2. DOMAIN seat' = Seats /\ seat' = [s \in Seats |-> seat'[s]]
          BY <1>4
    <3>3. QED  BY <3>1, <3>2
  <2> HIDE DEF new, r, size
  <2>6. TablesOK'
    <3>1. \A s \in Seats : seat'[s] # Nothing => room[seat'[s].room] # Nothing
          BY <1>2, <1>4, <2>2, <2>3 DEF TablesOK
    <3>2. \A s \in booked : seat'[s] # Nothing
          BY <1>2, <2>2, <2>3, CatalogueAssumption DEF TablesOK
    <3>3. QED  BY <1>2, <2>4, <2>5, <3>1, <3>2 DEF TablesOK
  <2>7. NamesUnique'
        BY <1>2, <2>4 DEF Rules, NamesUnique, NamesDiffer
  <2>8. PlacesUnique'
    <3>1. SUFFICES ASSUME <<"seats", "seats">> \notin races', "place" \notin unchecked'
                   PROVE  PlacesDiffer(seat)'
          BY DEF PlacesUnique
    <3>2. "seats" \notin stale[c] /\ PlacesDiffer(seat)
          BY <1>2, <2>4, <3>1 DEF Rules, PlacesUnique
    <3>3. \A s \in Seats : seat[s] # Nothing => seat[s].room # r
          BY <1>1, <1>2, <3>2 DEF ChecksHold, SeatsOf, r
    <3>4. ASSUME NEW s \in Seats, NEW q \in Seats, s # q, seat'[s] # Nothing, seat'[q] # Nothing
          PROVE  <<seat'[s].room, seat'[s].place>> # <<seat'[q].room, seat'[q].place>>
      <4>1. CASE s \in new /\ q \in new
            BY <2>3, <3>4, <4>1
      <4>2. CASE s \in new /\ q \notin new
            BY <2>2, <2>3, <3>3, <3>4, <4>2
      <4>3. CASE s \notin new /\ q \in new
            BY <2>2, <2>3, <3>3, <3>4, <4>3
      <4>4. CASE s \notin new /\ q \notin new
            BY <2>2, <3>2, <3>4, <4>4 DEF PlacesDiffer
      <4>5. QED  BY <4>1, <4>2, <4>3, <4>4
    <3>5. QED  BY <3>4 DEF PlacesDiffer
  <2>9. SeatsInside'
    <3>1. SUFFICES ASSUME <<"seats", "rooms">> \notin races', unchecked' = {}
                   PROVE  SeatsFit(room, seat)'
          BY DEF SeatsInside
    <3>2. "rooms" \notin stale[c] /\ SeatsFit(room, seat)
          BY <1>2, <2>4, <3>1 DEF Rules, SeatsInside
    <3>3. room[r].size = size
          BY <1>1, <1>2, <3>2, CatalogueAssumption DEF RowFresh, NewSeatsPhases, r, size
    <3>4. \A s \in Seats : seat'[s] # Nothing =>
             room[seat'[s].room] # Nothing /\ seat'[s].place \in room[seat'[s].room].size
          BY <1>4, <2>2, <2>3, <3>2, <3>3 DEF SeatsFit
    <3>5. QED  BY <2>4, <3>4 DEF SeatsFit
  <2>10. Rules'
        BY <2>7, <2>8, <2>9 DEF Rules
  <2>11. /\ "seats" \in Tables /\ {"seats"} \in SUBSET Tables /\ "seats" \in {"seats"}
         /\ unchecked' \subseteq {"place", "size"} /\ room' = room /\ unchecked' = unchecked
        BY <1>2, <2>4 DEF Tables, TypeOK
  <2>12. QED  BY <1>4, <2>6, <2>10, <2>11, WriteStep
<1>5. QED  BY <1>3, <1>4 DEF SaveAll
------------------------------------------------------------------------------
(* All steps.                                                              *)

\* A booking refers to a seat that is there.
LEMMA BookKeeps ==
    ASSUME IInv, NEW s \in Seats, Book(s)
    PROVE  IInv'
<1>1. TypeOK' /\ TablesOK' /\ Rules'
      BY DEF Book, IInv, TypeOK, TablesOK, Rules, NamesUnique, PlacesUnique, SeatsInside,
             NamesDiffer, PlacesDiffer, SeatsFit, history
<1>2. \A d \in Calls : CallOK(d)'
      BY SleepersOK DEF Sleeps, Book, IInv, history
<1>3. QED  BY <1>1, <1>2 DEF IInv

LEMMA RoomCallKeeps ==
    ASSUME IInv, NEW c \in Calls, RoomCall(c)
    PROVE  IInv'
<1>1. ASSUME NEW r \in Rooms, NEW dto \in RoomPatches, UpdateRoom(c, r, dto)
      PROVE  IInv'
  <2>1. dto \in RoomDto
        BY CatalogueAssumption
  <2>2. QED  BY <1>1, <2>1, UpdateRoomKeeps DEF UpdateRoom
<1>2. ASSUME NEW r \in Rooms, NEW active \in BOOLEAN, SwitchRoom(c, r, active)
      PROVE  IInv'
  <2> DEFINE dto == [name |-> Nothing, size |-> Nothing, isActive |-> active]
  <2>1. dto \in RoomDto /\ dto.name = Nothing
        BY DEF RoomDto, Optional
  <2>2. room[r] # Nothing /\ Begin(c, "saveRoom", r, room[r], dto)
        BY <1>2 DEF SwitchRoom
  <2> HIDE DEF dto
  <2>3. QED  BY <2>1, <2>2, UpdateRoomKeeps
<1>3. ASSUME NEW r \in Rooms, RemoveRoom(c, r)
      PROVE  IInv'
      BY <1>3, RoomReadKeeps DEF RemoveRoom
<1>4. QED  BY <1>1, <1>2, <1>3, CreateRoomKeeps, CheckNameKeeps, SaveRoomKeeps,
              DeleteRoomKeeps DEF RoomCall

LEMMA SeatCallKeeps ==
    ASSUME IInv, NEW c \in Calls, SeatCall(c)
    PROVE  IInv'
<1>1. ASSUME NEW s \in Seats, NEW dto \in SeatPatches, UpdateSeat(c, s, dto)
      PROVE  IInv'
  <2> DEFINE next == IF dto.room \notin {Nothing, seat[s].room} THEN "newRoom"
                     ELSE PlaceCheck(dto)
  <2>1. dto \in SeatDto
        BY CatalogueAssumption
  <2>2. /\ next \in {"newRoom", "fits", "saveSeat"}
        /\ next = "newRoom" => dto.room # Nothing
        /\ next = "fits" => dto.room # Nothing /\ dto.place # Nothing
        /\ next = "saveSeat" => dto.room = Nothing \/ dto.place = Nothing
        BY DEF PlaceCheck
  <2>3. seat[s] # Nothing /\ Begin(c, next, s, seat[s], dto)
        BY <1>1 DEF UpdateSeat
  <2> HIDE DEF next
  <2>4. QED  BY <2>1, <2>2, <2>3, UpdateSeatKeeps
<1>2. ASSUME NEW s \in Seats, NEW active \in BOOLEAN, SwitchSeat(c, s, active)
      PROVE  IInv'
  <2> DEFINE dto == [room |-> Nothing, place |-> Nothing, isActive |-> active]
  <2>1. dto \in SeatDto /\ dto.room = Nothing
        BY DEF SeatDto, Optional
  <2>2. seat[s] # Nothing /\ Begin(c, "saveSeat", s, seat[s], dto)
        BY <1>2 DEF SwitchSeat
  <2> HIDE DEF dto
  <2>3. QED  BY <2>1, <2>2, UpdateSeatKeeps
<1>3. ASSUME NEW r \in Rooms, GenerateSeats(c, r)
      PROVE  IInv'
      BY <1>3, RoomReadKeeps DEF GenerateSeats
<1>4. QED  BY <1>1, <1>2, <1>3, CreateSeatKeeps, RemoveSeatKeeps, CheckNewRoomKeeps,
              CheckFitsKeeps, CheckPlaceKeeps, CheckEmptyKeeps, SaveSeatKeeps,
              SaveAllKeeps, DeleteSeatKeeps DEF SeatCall

LEMMA StepKeeps ==
    ASSUME IInv, [Next]_vars
    PROVE  IInv'
<1>1. CASE UNCHANGED vars
  <2>1. \A d \in Calls : CallOK(d)'
        BY <1>1, SleepersOK DEF vars, tables, history, Sleeps, IInv
  <2>2. TypeOK' /\ TablesOK' /\ Rules'
        BY <1>1 DEF vars, tables, history, IInv, TypeOK, TablesOK, Rules, NamesUnique,
           PlacesUnique, SeatsInside, NamesDiffer, PlacesDiffer, SeatsFit
  <2>3. QED  BY <2>1, <2>2 DEF IInv
<1>2. QED  BY <1>1, RoomCallKeeps, SeatCallKeeps, BookKeeps DEF Next

\* At the start no call is under way and the tables keep the rules.
LEMMA InitInv == ASSUME Init PROVE IInv
<1>1. TypeOK
      BY CatalogueAssumption DEF Init, TypeOK, NoJob, Optional
<1>2. TablesOK
  <2>1. \A s \in Seats : FirstSeats[s] # Nothing => FirstRooms[FirstSeats[s].room] # Nothing
        BY CatalogueAssumption DEF SeatsFit
  <2>2. QED  BY <2>1, CatalogueAssumption DEF Init, TablesOK
<1>3. Rules
      BY CatalogueAssumption
         DEF Init, Rules, NamesUnique, PlacesUnique, SeatsInside
<1>4. \A c \in Calls : CallOK(c)
      BY DEF Init, CallOK, JobFits, RowFresh, ChecksHold, OldFits, RoomPhases, SeatPhases,
             NewSeatsPhases
<1>5. QED  BY <1>1, <1>2, <1>3, <1>4 DEF IInv

\* A save of an entity that is still as it was read changes what was asked for.
LEMMA SavesAsAsked ==
    ASSUME IInv, [Next]_vars, NEW c \in Calls, pc[c] \in {"saveRoom", "saveSeat"},
           pc'[c] = "done", job[c].id # Nothing
    PROVE  /\ pc[c] = "saveRoom" /\ "rooms" \notin stale[c] =>
                \A k \in {"name", "size", "isActive"} :
                    job[c].dto[k] = Nothing => room'[job[c].id][k] = room[job[c].id][k]
           /\ pc[c] = "saveSeat" /\ "seats" \notin stale[c] =>
                \A k \in {"room", "place", "isActive"} :
                    job[c].dto[k] = Nothing => seat'[job[c].id][k] = seat[job[c].id][k]
<1>1. TypeOK /\ JobFits(c) /\ RowFresh(c)
      BY DEF IInv, CallOK
<1>2. SaveRoom(c) \/ SaveSeat(c)
  <2>1. ASSUME NEW d \in Calls, d # c, RoomCall(d) \/ SeatCall(d)
        PROVE  FALSE
    <3>1. pc'[c] = pc[c]
          BY <1>1, <2>1 DEF TypeOK, RoomCall, SeatCall, CreateRoom, UpdateRoom, SwitchRoom,
             RemoveRoom, CheckName, SaveRoom, DeleteRoom, CreateSeat, UpdateSeat,
             SwitchSeat, RemoveSeat, GenerateSeats, CheckNewRoom, CheckFits, CheckPlace,
             CheckEmpty, SaveSeat, SaveAll, DeleteSeat, Begin, Query, Quit, Writes, End
    <3>2. QED  BY <3>1
  <2>2. ~(UNCHANGED vars) /\ \A s \in Seats : ~Book(s)
        BY DEF vars, Book
  <2>3. RoomCall(c) \/ SeatCall(c)
        BY <2>1, <2>2 DEF Next
  <2>4. QED  BY <2>3 DEF RoomCall, SeatCall, CreateRoom, UpdateRoom, SwitchRoom,
             RemoveRoom, CheckName, DeleteRoom, CreateSeat, UpdateSeat,
             SwitchSeat, RemoveSeat, GenerateSeats, CheckNewRoom, CheckFits, CheckPlace,
             CheckEmpty, SaveAll, DeleteSeat, Begin, Query
<1>3. CASE pc[c] = "saveRoom" /\ "rooms" \notin stale[c]
  <2>1. OldRoom(job[c]) /\ room[job[c].id] = job[c].old
        BY <1>1, <1>3 DEF JobFits, NewRoom, RowFresh, RoomPhases
  <2>2. room'[job[c].id] = Merged(c)
        BY <1>1, <1>2, <1>3, <2>1 DEF SaveRoom, SaveSeat, OldRoom, TypeOK
  <2>3. DOMAIN job[c].old = {"name", "size", "isActive"}
        BY <2>1 DEF OldRoom, RoomRow
  <2>4. QED  BY <1>3, <2>1, <2>2, <2>3 DEF Merged
<1>4. CASE pc[c] = "saveSeat" /\ "seats" \notin stale[c]
  <2>1. OldSeat(job[c]) /\ seat[job[c].id] = job[c].old
        BY <1>1, <1>4 DEF JobFits, NewSeat, RowFresh, SeatPhases
  <2>2. DOMAIN job[c].old = {"room", "place", "isActive"}
        BY <2>1 DEF OldSeat, SeatRow
  <2>3. \A k \in {"room", "place", "isActive"} :
           job[c].dto[k] = Nothing => Merged(c)[k] = seat[job[c].id][k]
        BY <2>1, <2>2 DEF Merged
  <2>4. CASE Quit(c)
        BY <1>4, <2>4 DEF Quit, tables
  <2>5. ASSUME NEW r \in {Merged(c).room, job[c].old.room} \ {Nothing},
               seat' = [seat EXCEPT ![job[c].id] = [Merged(c) EXCEPT !.room = r]]
        PROVE  \A k \in {"room", "place", "isActive"} :
                  job[c].dto[k] = Nothing => seat'[job[c].id][k] = seat[job[c].id][k]
    <3>1. seat'[job[c].id] = [Merged(c) EXCEPT !.room = r]
          BY <1>1, <2>1, <2>5 DEF OldSeat, TypeOK
    <3>2. DOMAIN Merged(c) = {"room", "place", "isActive"}
          BY <2>2 DEF Merged
    <3>3. /\ seat'[job[c].id].room = r
          /\ seat'[job[c].id].place = Merged(c).place
          /\ seat'[job[c].id].isActive = Merged(c).isActive
          BY <3>1, <3>2 DEF Merged
    <3>4. job[c].dto.room = Nothing => r = seat[job[c].id].room
          BY <2>1, <2>3, <2>5
    <3>5. QED  BY <2>3, <3>3, <3>4
  <2>6. QED  BY <1>2, <1>4, <2>4, <2>5 DEF SaveRoom, SaveSeat
<1>5. QED  BY <1>3, <1>4

\* The invariant holds in every behaviour.
THEOREM CatalogueInvariant == Spec => []IInv
BY InitInv, StepKeeps, PTL DEF Spec

\* Types: no write stores a row with a missing column.
THEOREM CatalogueTypes == Spec => []TypeOK
<1>1. IInv => TypeOK
      BY DEF IInv
<1>2. QED  BY <1>1, CatalogueInvariant, PTL

\* Two rooms have one name only by a race between two writes of rooms.
THEOREM NamesClashByRace == Spec => []NamesUnique
<1>1. IInv => NamesUnique
      BY DEF IInv, Rules
<1>2. QED  BY <1>1, CatalogueInvariant, PTL

\* Two seats are at one place only by a race between two writes of seats, or by
\* a patch whose place nothing had checked.
THEOREM PlacesClashByRace == Spec => []PlacesUnique
<1>1. IInv => PlacesUnique
      BY DEF IInv, Rules
<1>2. QED  BY <1>1, CatalogueInvariant, PTL

\* A seat is outside its room only by a race with a change of the room, or by
\* one of the two writes that are never checked.
THEOREM SeatsLeaveByRace == Spec => []SeatsInside
<1>1. IInv => SeatsInside
      BY DEF IInv, Rules
<1>2. QED  BY <1>1, CatalogueInvariant, PTL

\* No removal, of a seat or of its room, takes a seat away that has a booking.
THEOREM BookedSeatsKept == Spec => []BookedSeatsStay
<1>1. IInv => BookedSeatsStay
      BY DEF IInv, TablesOK, BookedSeatsStay
<1>2. QED  BY <1>1, CatalogueInvariant, PTL

\* A save that no other write came before changes the columns it was asked to.
THEOREM SavesChangeTheirs == Spec => OnlyAskedChanges
<1>1. IInv /\ [Next]_vars =>
        [\A c \in Calls :
        pc[c] \in {"saveRoom", "saveSeat"} /\ pc'[c] = "done" /\ job[c].id # Nothing =>
          /\ pc[c] = "saveRoom" /\ "rooms" \notin stale[c] =>
                \A k \in {"name", "size", "isActive"} :
                    job[c].dto[k] = Nothing => room'[job[c].id][k] = room[job[c].id][k]
          /\ pc[c] = "saveSeat" /\ "seats" \notin stale[c] =>
                \A k \in {"room", "place", "isActive"} :
                    job[c].dto[k] = Nothing => seat'[job[c].id][k] = seat[job[c].id][k]]_vars
      BY SavesAsAsked
<1>2. QED  BY <1>1, CatalogueInvariant, PTL DEF Spec, OnlyAskedChanges
==============================================================================
