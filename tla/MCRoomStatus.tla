---------------------------- MODULE MCRoomStatus ----------------------------
(***************************************************************************)
(* Values for model checking RoomStatus.                                   *)
(***************************************************************************)
EXTENDS RoomStatus, TLC

CONSTANTS r1, r2, c1, c2, att, sup, eng, desk, p1, a1

MCRoleOf == [u \in Users |->
               CASE u = att -> "room_attendant" [] u = sup -> "supervisor"
                 [] u = eng -> "engineering" [] OTHER -> "front_office"]

\* Race: the round of a room without its release, and one closed status that a
\* race can undo.
RaceTargets == {"IN_PROGRESS", "CLEAN", "PICKUP", "BLOCKED", "OUT_OF_ORDER"}

\* Release: what surrounds the announcement of a release.
ReleaseTargets == {"CLEAN", "INSPECTED", "DIRTY"}

Symmetry == Permutations(Calls)
SymmetryRooms == Permutations(Calls) \cup Permutations(Rooms)
=============================================================================
