\* Three calls of administrators on a catalogue with one room and one seat.
SPECIFICATION Spec
CONSTANTS
    r1 = r1
    r2 = r2
    s1 = s1
    s2 = s2
    s3 = s3
    n1 = n1
    n2 = n2
    p1 = p1
    p2 = p2
    Nothing = Nothing
    Rooms = {r1, r2}
    Seats = {s1, s2, s3}
    Names = {n1, n2}
    Places = {p1, p2}
    FirstRooms <- TheFirstRooms
    FirstSeats <- TheFirstSeats
    NewRooms <- TheNewRooms
    RoomPatches <- TheRoomPatches
    NewSeats <- TheNewSeats
    SeatPatches <- TheSeatPatches
    Calls = {c1, c2, c3}
\* All calls may be over.
CHECK_DEADLOCK FALSE
SYMMETRY CatalogueSymmetry
INVARIANTS TypeOK NamesUnique PlacesUnique SeatsInside BookedSeatsStay
PROPERTIES OnlyAskedChanges
