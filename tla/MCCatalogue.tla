----------------------------- MODULE MCCatalogue ------------------------------
(***************************************************************************)
(* Catalogue on a small instance: one room with one seat at the start, and *)
(* what administrators may ask for.                                        *)
(***************************************************************************)
EXTENDS Catalogue, TLC

CONSTANTS r1, r2, s1, s2, s3, n1, n2, p1, p2

TheFirstRooms ==
    [r \in Rooms |-> IF r = r1 THEN [name |-> n1, size |-> {p1, p2}, isActive |-> TRUE]
                     ELSE Nothing]
TheFirstSeats ==
    [s \in Seats |-> IF s = s1 THEN [room |-> r1, place |-> p1, isActive |-> TRUE]
                     ELSE Nothing]

TheNewRooms ==
    {[name |-> n, size |-> {p1}, isActive |-> Nothing] : n \in {n1, n2}}
TheRoomPatches ==
    {[name |-> n, size |-> z, isActive |-> Nothing] :
        n \in {n1, n2, Nothing}, z \in {{p1}, Nothing}}
TheNewSeats ==
    {[room |-> r, place |-> p, isActive |-> Nothing] : r \in Rooms, p \in Places}
TheSeatPatches ==
    {[room |-> r, place |-> p, isActive |-> Nothing] :
        r \in {r1, r2, Nothing}, p \in {p1, p2, Nothing}}

\* The calls are interchangeable, and so are the ids of seats to come.
CatalogueSymmetry == Permutations(Calls) \cup Permutations({s2, s3})
==============================================================================
