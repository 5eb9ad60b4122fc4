----------------------------- MODULE RoomBoard ------------------------------
(***************************************************************************)
(* What the status board promises, with every change of a room taken as    *)
(* one indivisible step: a status only ever moves along the state machine, *)
(* by a role that may set it, and the hotel's PMS hears "INSPECTED" at most *)
(* once per release and only while the room is released.                   *)
(***************************************************************************)
EXTENDS StateMachine

CONSTANT Rooms

VARIABLES
  status,   \* status[r]: the room's status on the board
  heard     \* heard[r]: FALSE from a release of r until the PMS is told of it

vars == <<status, heard>>

Init ==
  /\ status \in [Rooms -> RoomStatuses]
  /\ heard = [r \in Rooms |-> TRUE]

Change(r) ==
  \E role \in Roles, to \in RoomStatuses :
    /\ CheckTransition(role, status[r], to) = "ok"
    /\ status' = [status EXCEPT ![r] = to]
    /\ heard' = [heard EXCEPT ![r] = IF to = "INSPECTED" THEN FALSE ELSE @]

TellPMS(r) ==
  /\ status[r] = "INSPECTED"
  /\ ~heard[r]
  /\ heard' = [heard EXCEPT ![r] = TRUE]
  /\ UNCHANGED status

Next == \E r \in Rooms : Change(r) \/ TellPMS(r)

Spec == Init /\ [][Next]_vars
=============================================================================
