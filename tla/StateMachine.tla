---------------------------- MODULE StateMachine ----------------------------
(***************************************************************************)
(* The room state machine and the role matrix of src/lib/stateMachine.ts:  *)
(* which status may follow which, which role may set which, and the        *)
(* verdict the server gives on a requested change.                         *)
(***************************************************************************)

Roles == {"room_attendant", "supervisor", "duty_manager", "engineering",
          "front_office", "concierge", "houseman"}

RoomStatuses == {"DIRTY", "IN_PROGRESS", "CLEAN", "INSPECTED", "PICKUP",
                 "BLOCKED", "DEFECT_REPORTED", "OUT_OF_ORDER",
                 "OUT_OF_SERVICE", "GREEN_OPT_OUT"}

\* Closing a room is possible from every open status.
Closed == {"OUT_OF_ORDER", "OUT_OF_SERVICE"}

LegalTargets(from) ==
  CASE from = "DIRTY" -> {"IN_PROGRESS", "BLOCKED", "DEFECT_REPORTED",
                          "GREEN_OPT_OUT"} \cup Closed
    [] from = "IN_PROGRESS" -> {"CLEAN", "BLOCKED", "DEFECT_REPORTED",
                                "DIRTY"} \cup Closed
    [] from = "CLEAN" -> {"INSPECTED", "PICKUP", "DEFECT_REPORTED"} \cup Closed
    [] from = "INSPECTED" -> {"DIRTY"} \cup Closed
    [] from = "PICKUP" -> {"IN_PROGRESS", "BLOCKED", "DEFECT_REPORTED"} \cup Closed
    [] from \in {"BLOCKED", "DEFECT_REPORTED", "GREEN_OPT_OUT"} ->
         {"DIRTY", "IN_PROGRESS"} \cup Closed
    [] from \in Closed -> {"DIRTY"} \cup (Closed \ {from})
    [] OTHER -> {}

AttendantTargets == {"IN_PROGRESS", "CLEAN", "BLOCKED", "DEFECT_REPORTED",
                     "DIRTY", "GREEN_OPT_OUT"}

\* The roles that may release a room as sellable.
Releasers == {"supervisor", "duty_manager"}

RoleAllowedTargets(role) ==
  CASE role = "room_attendant" -> AttendantTargets
    [] role \in Releasers -> RoomStatuses
    [] role = "engineering" -> {"DEFECT_REPORTED"}
    [] OTHER -> {}

\* Variants with a bug: one of the two checks is missing.
CheckRoleOnly(role, from, to) ==
  IF to \notin RoleAllowedTargets(role) THEN "forbidden" ELSE "ok"
\* The role is checked first (403), then the transition (409).  No status is
\* its own legal target, so the code's separate test for from = to only picks
\* another wording.
CheckTransition(role, from, to) ==
  IF to \notin RoleAllowedTargets(role) THEN "forbidden"
  ELSE IF to \notin LegalTargets(from) THEN "conflict"
  ELSE "ok"
=============================================================================
