------------------------------ MODULE Catalogue -------------------------------
(***************************************************************************)
(* RoomsService and SeatsService: the rooms, their seats, and the calls    *)
(* that administrators make.  No call locks anything or runs its reads in  *)
(* the transaction of its write, so calls come between each other's steps. *)
(*                                                                         *)
(* A call starts with its first query: it reads the row it is about, or    *)
(* looks for a row it would collide with.  If that refuses the call,       *)
(* nothing else happens and there is no step.  pc[c] is the query or the   *)
(* write the call waits in next:                                           *)
(*    "name"      is there a room of the new name?                         *)
(*    "newRoom"   does the room of a patch exist?                          *)
(*    "fits"      is the place inside the room of the patch?               *)
(*    "place"     is there another seat at the place?                      *)
(*    "empty"     has the room no seats?                                   *)
(*    "saveRoom", "saveSeat", "saveAll", "removeRoom", "removeSeat"        *)
(*                                                                         *)
(* Row and column of a seat are one place here, the dimensions of a room   *)
(* the set of its places; descriptions, labels and prices are left out.    *)
(*                                                                         *)
(* TypeORM, as the code uses it: save writes back all columns of the       *)
(* entity it is given, and inserts the row if it is gone by then; of a     *)
(* patched roomId and the room object loaded with the seat it stores one,  *)
(* and both are allowed here.  Deleting a room deletes its seats; a seat   *)
(* with a booking cannot be deleted.                                       *)
(***************************************************************************)
EXTENDS Naturals

CONSTANTS
    Rooms, Seats,   \* ids; an id is drawn by one insert only
    Names,
    Places,
    Nothing,        \* no row, or a column that a request does not give
    FirstRooms,     \* the tables at the start
    FirstSeats,
    NewRooms,       \* what administrators send: rooms to create,
    RoomPatches,    \* changes of rooms, with Nothing where no change is asked,
    NewSeats,       \* and the same for seats
    SeatPatches,
    Calls           \* bound: the calls made in a behaviour

Sizes   == (SUBSET Places) \ {{}}
RoomRow == [name : Names, size : Sizes, isActive : BOOLEAN]
SeatRow == [room : Rooms, place : Places, isActive : BOOLEAN]

\* A column that may be left out; a row that may be missing.
Optional(S) == {Nothing} \cup S

RoomDto == [name : Optional(Names), size : Optional(Sizes), isActive : Optional(BOOLEAN)]
SeatDto == [room : Optional(Rooms), place : Optional(Places), isActive : Optional(BOOLEAN)]

\* The tables keep the rules that the calls check.
NamesDiffer(rooms) ==
    \A r1, r2 \in Rooms :
        rooms[r1] # Nothing /\ rooms[r2] # Nothing /\ r1 # r2 =>
            rooms[r1].name # rooms[r2].name
PlacesDiffer(seats) ==
    \A s1, s2 \in Seats :
        seats[s1] # Nothing /\ seats[s2] # Nothing /\ s1 # s2 =>
            <<seats[s1].room, seats[s1].place>> # <<seats[s2].room, seats[s2].place>>
SeatsFit(rooms, seats) ==
    \A s \in Seats : seats[s] # Nothing =>
        /\ rooms[seats[s].room] # Nothing
        /\ seats[s].place \in rooms[seats[s].room].size

ASSUME CatalogueAssumption ==
    /\ Rooms \cap Seats = {}
    /\ Nothing \notin Rooms \cup Seats \cup Names \cup Places \cup BOOLEAN
    /\ \A x \in Sizes \cup RoomRow \cup SeatRow : x # Nothing
    /\ FirstRooms \in [Rooms -> Optional(RoomRow)]
    /\ FirstSeats \in [Seats -> Optional(SeatRow)]
    /\ NamesDiffer(FirstRooms)
    /\ PlacesDiffer(FirstSeats)
    /\ SeatsFit(FirstRooms, FirstSeats)
    /\ RoomPatches \subseteq RoomDto
    /\ SeatPatches \subseteq SeatDto
    /\ NewRooms \subseteq {d \in RoomDto : d.name # Nothing /\ d.size # Nothing}
    /\ NewSeats \subseteq {d \in SeatDto : d.room # Nothing /\ d.place # Nothing}

VARIABLES
    room,       \* room[r]: the row, or Nothing
    seat,       \* seat[s]: the row, or Nothing
    booked,     \* seats with bookings, of any status
    pc,         \* where each call is
    job,        \* job[c]: id of its row, the row as it was read, the request
    stale,      \* history: tables written by others since a call began
    races,      \* history: <<t, u>> if a call wrote t after another wrote u
    unchecked,  \* history: kinds of writes that no check stood before
    removed     \* history: ids whose rows were deleted

tables  == <<room, seat, booked>>
history == <<races, unchecked, removed>>
vars    == <<tables, pc, job, stale, history>>

Tables  == {"rooms", "seats"}
Waiting == {"name", "newRoom", "fits", "place", "empty", "saveRoom", "saveSeat",
            "saveAll", "removeRoom", "removeSeat"}

NoJob == [id |-> Nothing, old |-> Nothing, dto |-> Nothing]

\* The entity of a create before the request is merged into it.
BlankRoom == [name |-> Nothing, size |-> Nothing, isActive |-> TRUE]
BlankSeat == [room |-> Nothing, place |-> Nothing, isActive |-> TRUE]

TypeOK ==
    /\ room \in [Rooms -> Optional(RoomRow)]
    /\ seat \in [Seats -> Optional(SeatRow)]
    /\ booked \subseteq Seats
    /\ pc \in [Calls -> Waiting \cup {"idle", "done"}]
    /\ job \in [Calls -> [id : Optional(Rooms \cup Seats),
                          old : {BlankRoom, BlankSeat} \cup Optional(RoomRow \cup SeatRow),
                          dto : Optional(RoomDto \cup SeatDto)]]
    /\ stale \in [Calls -> SUBSET Tables]
    /\ races \subseteq Tables \X Tables
    /\ unchecked \subseteq {"place", "size"}
    /\ removed \subseteq Rooms \cup Seats

Init ==
    /\ room = FirstRooms
    /\ seat = FirstSeats
    /\ booked = {}
    /\ pc = [c \in Calls |-> "idle"]
    /\ job = [c \in Calls |-> NoJob]
    /\ stale = [c \in Calls |-> {}]
    /\ races = {}
    /\ unchecked = {}
    /\ removed = {}
------------------------------------------------------------------------------
(* The parts of a call.                                                    *)

\* The first query of call c is answered and does not refuse it.
Begin(c, next, id, old, dto) ==
    /\ pc[c] = "idle"
    /\ pc' = [pc EXCEPT ![c] = next]
    /\ job' = [job EXCEPT ![c] = [id |-> id, old |-> old, dto |-> dto]]
    /\ UNCHANGED <<tables, stale, history>>

\* The call returns or throws.
End(c) ==
    /\ pc' = [pc EXCEPT ![c] = "done"]
    /\ job' = [job EXCEPT ![c] = NoJob]

Quit(c) == End(c) /\ stale' = [stale EXCEPT ![c] = {}] /\ UNCHANGED <<tables, history>>

\* A query of call c is answered: go on with the next, or throw.
Query(c, here, passes, next) ==
    /\ pc[c] = here
    /\ \/ /\ passes
          /\ pc' = [pc EXCEPT ![c] = next]
          /\ UNCHANGED <<tables, job, stale, history>>
       \/ ~passes /\ Quit(c)

\* Call c writes table t, and possibly others through the database, and is over.
Writes(c, t, written) ==
    /\ End(c)
    /\ stale' = [d \in Calls |-> IF d = c \/ pc[d] \in {"idle", "done"} THEN {}
                                 ELSE stale[d] \cup written]
    /\ races' = races \cup ({t} \X stale[c])

\* The entity with the columns that the request gives.  (Mutants: a column that
\* is not given gets its default; it gets undefined.)
DefaultedMutant(c) ==
    [k \in DOMAIN job[c].old |-> IF job[c].dto[k] # Nothing THEN job[c].dto[k]
                                 ELSE IF k = "isActive" THEN TRUE ELSE job[c].old[k]]
UndefinedMutant(c) == job[c].dto
Merged(c) ==
    [k \in DOMAIN job[c].old |-> IF job[c].dto[k] = Nothing THEN job[c].old[k]
                                 ELSE job[c].dto[k]]

SeatsOf(r) == {s \in Seats : seat[s] # Nothing /\ seat[s].room = r}
\* Ids are random: no id is given twice, not even that of a deleted row.
FreshSeats == {s \in Seats : seat[s] = Nothing /\ s \notin removed}
FreshRooms == {r \in Rooms : room[r] = Nothing /\ r \notin removed}
------------------------------------------------------------------------------
(* RoomsService.                                                           *)

\* (Mutant: only active rooms are looked at.)
NameTakenMutant(n) ==
    \E r \in Rooms : room[r] # Nothing /\ room[r].name = n /\ room[r].isActive
NameTaken(n) == \E r \in Rooms : room[r] # Nothing /\ room[r].name = n

CreateRoom(c, dto) ==
    /\ ~NameTaken(dto.name)
    /\ Begin(c, "saveRoom", Nothing, BlankRoom, dto)

UpdateRoom(c, r, dto) ==
    /\ room[r] # Nothing
    /\ Begin(c, IF dto.name \notin {Nothing, room[r].name} THEN "name" ELSE "saveRoom",
             r, room[r], dto)

CheckName(c) == Query(c, "name", ~NameTaken(job[c].dto.name), "saveRoom")

\* activate and deactivate.
SwitchRoom(c, r, active) ==
    /\ room[r] # Nothing
    /\ Begin(c, "saveRoom", r, room[r],
             [name |-> Nothing, size |-> Nothing, isActive |-> active])

SaveRoom(c) ==
    /\ pc[c] = "saveRoom"
    /\ \E r \in IF job[c].id = Nothing THEN FreshRooms ELSE {job[c].id} :
        /\ room' = [room EXCEPT ![r] = Merged(c)]
        /\ unchecked' = IF \A s \in SeatsOf(r) : seat[s].place \in Merged(c).size
                        THEN unchecked ELSE unchecked \cup {"size"}
    /\ Writes(c, "rooms", {"rooms"})
    /\ UNCHANGED <<seat, booked, removed>>

RemoveRoom(c, r) ==
    /\ room[r] # Nothing
    /\ Begin(c, "removeRoom", r, room[r], Nothing)

\* A booking refers to one of the seats.  (Mutant: bookings are deleted with
\* their seats.)
ReferencedMutant(S) == FALSE
Referenced(S) == S \cap booked # {}

DeleteRoom(c) ==
    /\ pc[c] = "removeRoom"
    /\ LET r == job[c].id
           gone == SeatsOf(r)
       IN  \/ Referenced(gone) /\ Quit(c)
           \/ /\ ~Referenced(gone)
              /\ room' = [room EXCEPT ![r] = Nothing]
              /\ seat' = [s \in Seats |-> IF s \in gone THEN Nothing ELSE seat[s]]
              /\ removed' = removed \cup {r} \cup gone
              /\ Writes(c, "rooms", Tables)
              /\ UNCHANGED <<booked, unchecked>>
------------------------------------------------------------------------------
(* SeatsService.                                                           *)

\* Place p is inside room r.  (Mutant: only the room is looked for.)
FitsMutant(r, p) == room[r] # Nothing
Fits(r, p) == room[r] # Nothing /\ p \in room[r].size

CreateSeat(c, dto) ==
    /\ Fits(dto.room, dto.place)
    /\ Begin(c, "place", Nothing, BlankSeat, dto)

\* What update has to check next, once it knows that the room exists: a place is
\* checked if the request gives it, and the room with it.
PlaceCheck(dto) == IF dto.place # Nothing /\ dto.room # Nothing THEN "fits" ELSE "saveSeat"

UpdateSeat(c, s, dto) ==
    /\ seat[s] # Nothing
    /\ Begin(c, IF dto.room \notin {Nothing, seat[s].room} THEN "newRoom" ELSE PlaceCheck(dto),
             s, seat[s], dto)

CheckNewRoom(c) ==
    Query(c, "newRoom", room[job[c].dto.room] # Nothing, PlaceCheck(job[c].dto))

CheckFits(c) == Query(c, "fits", Fits(job[c].dto.room, job[c].dto.place), "place")

\* Another seat is at the place.  (Mutant: only active seats are looked at.)
PlaceTakenMutant(id, r, p) == \E s \in SeatsOf(r) \ {id} : seat[s].place = p /\ seat[s].isActive
PlaceTaken(id, r, p) == \E s \in SeatsOf(r) \ {id} : seat[s].place = p

CheckPlace(c) ==
    Query(c, "place", ~PlaceTaken(job[c].id, job[c].dto.room, job[c].dto.place), "saveSeat")

SwitchSeat(c, s, active) ==
    /\ seat[s] # Nothing
    /\ Begin(c, "saveSeat", s, seat[s],
             [room |-> Nothing, place |-> Nothing, isActive |-> active])

\* The place of a seat is about to change without having been checked in room r.
Unchecked(c, r) ==
    /\ <<r, Merged(c).place>> # <<job[c].old.room, job[c].old.place>>
    /\ ~(job[c].dto.place # Nothing /\ job[c].dto.room = r)

\* The foreign key refuses a seat without a room.
SaveSeat(c) ==
    /\ pc[c] = "saveSeat"
    /\ \E r \in {Merged(c).room, job[c].old.room} \ {Nothing} :
        \/ room[r] = Nothing /\ Quit(c)
        \/ /\ room[r] # Nothing
           /\ \E s \in IF job[c].id = Nothing THEN FreshSeats ELSE {job[c].id} :
                seat' = [seat EXCEPT ![s] = [Merged(c) EXCEPT !.room = r]]
           /\ unchecked' = IF Unchecked(c, r) THEN unchecked \cup {"place"} ELSE unchecked
           /\ Writes(c, "seats", {"seats"})
           /\ UNCHANGED <<room, booked, removed>>

RemoveSeat(c, s) ==
    /\ seat[s] # Nothing
    /\ Begin(c, "removeSeat", s, seat[s], Nothing)

DeleteSeat(c) ==
    /\ pc[c] = "removeSeat"
    /\ LET s == job[c].id
       IN  \/ Referenced({s}) /\ Quit(c)
           \/ /\ ~Referenced({s})
              /\ seat' = [seat EXCEPT ![s] = Nothing]
              /\ removed' = removed \cup {s}
              /\ Writes(c, "seats", {"seats"})
              /\ UNCHANGED <<room, booked, unchecked>>

GenerateSeats(c, r) ==
    /\ room[r] # Nothing
    /\ Begin(c, "empty", r, room[r], Nothing)

CheckEmpty(c) == Query(c, "empty", SeatsOf(job[c].id) = {}, "saveAll")

\* One seat for each place of the room as it was read, in one transaction.
SaveAll(c) ==
    /\ pc[c] = "saveAll"
    /\ LET r == job[c].id
           size == job[c].old.size
       IN  \/ room[r] = Nothing /\ Quit(c)
           \/ /\ room[r] # Nothing
              /\ \E at \in [size -> FreshSeats] :
                    /\ \A p, q \in size : at[p] = at[q] => p = q
                    /\ seat' = [s \in Seats |->
                          IF \E p \in size : at[p] = s
                          THEN [room |-> r, place |-> CHOOSE p \in size : at[p] = s,
                                isActive |-> TRUE]
                          ELSE seat[s]]
              /\ Writes(c, "seats", {"seats"})
              /\ UNCHANGED <<room, booked, unchecked, removed>>
------------------------------------------------------------------------------
\* BookingsService stores a booking of seat s.
Book(s) ==
    /\ seat[s] # Nothing
    /\ s \notin booked
    /\ booked' = booked \cup {s}
    /\ UNCHANGED <<room, seat, pc, job, stale, history>>

RoomCall(c) ==
    \/ \E dto \in NewRooms : CreateRoom(c, dto)
    \/ \E r \in Rooms, dto \in RoomPatches : UpdateRoom(c, r, dto)
    \/ \E r \in Rooms, active \in BOOLEAN : SwitchRoom(c, r, active)
    \/ \E r \in Rooms : RemoveRoom(c, r)
    \/ CheckName(c) \/ SaveRoom(c) \/ DeleteRoom(c)

SeatCall(c) ==
    \/ \E dto \in NewSeats : CreateSeat(c, dto)
    \/ \E s \in Seats, dto \in SeatPatches : UpdateSeat(c, s, dto)
    \/ \E s \in Seats, active \in BOOLEAN : SwitchSeat(c, s, active)
    \/ \E s \in Seats : RemoveSeat(c, s)
    \/ \E r \in Rooms : GenerateSeats(c, r)
    \/ CheckNewRoom(c) \/ CheckFits(c) \/ CheckPlace(c) \/ CheckEmpty(c)
    \/ SaveSeat(c) \/ SaveAll(c) \/ DeleteSeat(c)

Next ==
    \/ \E c \in Calls : RoomCall(c) \/ SeatCall(c)
    \/ \E s \in Seats : Book(s)

Spec == Init /\ [][Next]_vars
------------------------------------------------------------------------------
\* Two rooms have one name only if a call that wrote a room had read the rooms
\* before another call wrote one.
NamesUnique == <<"rooms", "rooms">> \notin races => NamesDiffer(room)

\* Two seats are at one place only if the calls that wrote seats came between
\* each other's reads and writes, or a patch was stored whose place nothing in
\* update had checked.  No race with a change of rooms does it.
PlacesUnique ==
    <<"seats", "seats">> \notin races /\ "place" \notin unchecked => PlacesDiffer(seat)

\* A seat lies outside its room, or has none, only if a seat was written by a
\* call that had read the room before it changed, or one of the two writes
\* that are never checked took place: a patch of a place, and a room that is
\* made smaller than its seats need.
SeatsInside ==
    <<"seats", "rooms">> \notin races /\ unchecked = {} => SeatsFit(room, seat)

\* Whatever is deleted, and in whatever order: a seat with a booking keeps its
\* row, and its room as well.
BookedSeatsStay ==
    \A s \in booked : seat[s] # Nothing /\ room[seat[s].room] # Nothing

\* A save changes what the request asked for and, unless the row was written in
\* the meantime, nothing else.
OnlyAskedChanges ==
    [][\A c \in Calls :
        pc[c] \in {"saveRoom", "saveSeat"} /\ pc'[c] = "done" /\ job[c].id # Nothing =>
          /\ pc[c] = "saveRoom" /\ "rooms" \notin stale[c] =>
                \A k \in {"name", "size", "isActive"} :
                    job[c].dto[k] = Nothing => room'[job[c].id][k] = room[job[c].id][k]
          /\ pc[c] = "saveSeat" /\ "seats" \notin stale[c] =>
                \A k \in {"room", "place", "isActive"} :
                    job[c].dto[k] = Nothing => seat'[job[c].id][k] = seat[job[c].id][k]]_vars
==============================================================================
