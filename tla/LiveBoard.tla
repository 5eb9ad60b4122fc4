----------------------------- MODULE LiveBoard -----------------------------
(***************************************************************************)
(* One room on an open board (attendant/view.tsx, supervisor/view.tsx):    *)
(* the page patches the room from events and from answers to its own       *)
(* status changes, and loads it again now and then; events, answers and    *)
(* loads overtake each other.  A change of a room is announced as          *)
(* room:update, a whole plan only as assignments:applied.  The attendant's *)
(* board asks for a load after every room:update, has no handler for a     *)
(* plan, and shows only rooms that are hers; the supervisor's board loads  *)
(* again for a plan or a room it does not know, and shows them all.        *)
(***************************************************************************)
EXTENDS Integers, Sequences

CONSTANTS
  MaxWrites,   \* bound: changes of the room
  MaxMishaps   \* bound: broken connections and failed requests

ASSUME BoardBounds == MaxWrites \in Nat /\ MaxMishaps \in Nat

VARIABLES
  view,       \* "attendant" or "supervisor"
  row,        \* the room in the database: its version, whether it is hers, who wrote it
  unsent,     \* events of writes that are not broadcast yet
  wire,       \* events on the way to the page, in order
  online,     \* whether the page's socket is connected
  board,      \* what the page shows: a version, Absent or Unsaved
  timer,      \* whether a load is scheduled (useCoalescedRefetch)
  loads,      \* loads under way, oldest first: what each has read, or Unread
  tap,        \* the page's own change: NoTap, Posted or the version it made
  missed,     \* the page may have missed a version for good (observation)
  mishaps

boardVars == <<view, row, unsent, wire, online, board, timer, loads, tap, missed, mishaps>>

Absent == 0
Unsaved == -1  \* a status kept for later, see OfflineQueue
NoTap == 0
Posted == -1
Unread == [ver |-> -2, mine |-> FALSE, by |-> "room"]

Shown(x) == IF view = "supervisor" \/ x.mine THEN x.ver ELSE Absent

BoardInit ==
  /\ view \in {"attendant", "supervisor"}
  /\ row = [ver |-> 1, mine |-> TRUE, by |-> "room"]
  /\ unsent = {} /\ wire = <<>> /\ online = TRUE
  /\ board = Absent
  /\ timer = FALSE /\ loads = <<Unread>>
  /\ tap = NoTap
  /\ missed = FALSE /\ mishaps = 0

Mishap == mishaps < MaxMishaps /\ mishaps' = mishaps + 1

Event(x) == [ver |-> x.ver, by |-> x.by]

\* by = "room": announced as room:update; by = "plan": as assignments:applied.
Changed(mine, by) ==
  /\ row.ver <= MaxWrites
  /\ row' = [ver |-> row.ver + 1, mine |-> mine, by |-> by]
  /\ unsent' = unsent \cup {Event(row')}

\* Somebody else changes the room, or hands this one room over.
Write ==
  /\ \E mine \in BOOLEAN : Changed(mine, "room")
  /\ UNCHANGED <<view, wire, online, board, timer, loads, tap, missed, mishaps>>

\* A plan is applied or confirmed: the room changes hands with all the others.
ApplyPlan ==
  /\ \E mine \in BOOLEAN : Changed(mine, "plan")
  /\ UNCHANGED <<view, wire, online, board, timer, loads, tap, missed, mishaps>>

\* broadcast(): writes may be announced in another order; a page that is not connected
\* never hears of it.
Emit(e) ==
  /\ e \in unsent
  /\ unsent' = unsent \ {e}
  /\ IF online THEN wire' = Append(wire, e) /\ UNCHANGED missed
     ELSE UNCHANGED wire /\ missed' = TRUE
  /\ UNCHANGED <<view, row, online, board, timer, loads, tap, mishaps>>

Disconnect ==
  /\ online /\ Mishap
  /\ online' = FALSE /\ wire' = <<>>
  /\ missed' = (missed \/ wire # <<>>)
  /\ UNCHANGED <<view, row, unsent, board, timer, loads, tap>>

\* The socket connects again; nothing is loaded for it.
Reconnect ==
  /\ ~online /\ online' = TRUE
  /\ UNCHANGED <<view, row, unsent, wire, board, timer, loads, tap, missed, mishaps>>

\* Whether a room:update schedules a load.
\* Variant with a bug: only for a room the board does not know.
LoadsAgainUnknown == board = Absent

LoadsAgain == board = Absent \/ view = "attendant"

\* An older version put in place of a newer one stays on a board that does not load again.
Outdates(v) == view = "supervisor" /\ v < board

\* room:update patches a room the board knows.
Deliver ==
  /\ wire # <<>> /\ Head(wire).by = "room"
  /\ wire' = Tail(wire)
  /\ board' = IF board = Absent THEN Absent ELSE Head(wire).ver
  /\ timer' = (timer \/ LoadsAgain)
  /\ missed' = (missed \/ Outdates(Head(wire).ver))
  /\ UNCHANGED <<view, row, unsent, online, loads, tap, mishaps>>

\* assignments:applied only schedules a load, and only on the supervisor's board.
DeliverPlan ==
  /\ wire # <<>> /\ Head(wire).by = "plan"
  /\ wire' = Tail(wire)
  /\ timer' = (timer \/ view = "supervisor")
  /\ UNCHANGED <<view, row, unsent, online, board, loads, tap, missed, mishaps>>

\* The timer starts a load.
Load ==
  /\ timer /\ timer' = FALSE
  /\ loads' = Append(loads, Unread)
  /\ UNCHANGED <<view, row, unsent, wire, online, board, tap, missed, mishaps>>

\* GET /api/rooms reads the room.
ServeLoad(i) ==
  /\ i \in DOMAIN loads /\ loads[i] = Unread
  /\ loads' = [loads EXCEPT ![i] = row]
  /\ UNCHANGED <<view, row, unsent, wire, online, board, timer, tap, missed, mishaps>>

Others(i) == [j \in 1..Len(loads) - 1 |-> IF j < i THEN loads[j] ELSE loads[j + 1]]

\* The answer replaces the board; it may overtake that of an older load.
ShowLoad(i) ==
  /\ i \in DOMAIN loads /\ loads[i] # Unread
  /\ board' = Shown(loads[i])
  /\ loads' = Others(i)
  /\ missed' = (missed \/ i > 1 \/ Outdates(loads[i].ver))
  /\ UNCHANGED <<view, row, unsent, wire, online, timer, tap, mishaps>>

\* A load that fails is not repeated.
LoadFails(i) ==
  /\ i \in DOMAIN loads /\ Mishap
  /\ loads' = Others(i)
  /\ missed' = TRUE
  /\ UNCHANGED <<view, row, unsent, wire, online, board, timer, tap>>

\* setStatus and act: one tap at a time.
TapRoom ==
  /\ tap = NoTap /\ board # Absent
  /\ row.ver <= MaxWrites
  /\ tap' = Posted
  /\ UNCHANGED <<view, row, unsent, wire, online, board, timer, loads, missed, mishaps>>

ServeTap ==
  /\ tap = Posted
  /\ Changed(row.mine, "room")
  /\ tap' = row'.ver
  /\ UNCHANGED <<view, wire, online, board, timer, loads, missed, mishaps>>

Refused ==
  /\ tap = Posted /\ tap' = NoTap
  /\ UNCHANGED <<view, row, unsent, wire, online, board, timer, loads, missed, mishaps>>

\* The answer patches the room, whatever has been shown since.
Answered ==
  /\ tap > 0
  /\ board' = IF board = Absent THEN Absent ELSE tap
  /\ tap' = NoTap
  /\ missed' = (missed \/ tap < board)
  /\ UNCHANGED <<view, row, unsent, wire, online, timer, loads, mishaps>>

\* The request fails: the attendant's page shows the new status all the same.
TapFails ==
  /\ tap # NoTap /\ Mishap
  /\ tap' = NoTap
  /\ board' = IF view = "attendant" /\ board # Absent THEN Unsaved ELSE board
  /\ missed' = TRUE
  /\ UNCHANGED <<view, row, unsent, wire, online, timer, loads>>

BoardNext ==
  \/ \E e \in unsent : Emit(e)
  \/ Deliver \/ DeliverPlan \/ Load
  \/ \E i \in DOMAIN loads : ServeLoad(i) \/ ShowLoad(i) \/ LoadFails(i)
  \/ TapRoom \/ ServeTap \/ Refused \/ Answered \/ TapFails
  \/ Write \/ ApplyPlan \/ Disconnect \/ Reconnect

\* Timers fire, and server and network do their part in the end; nobody has to change
\* or to reconnect anything.
BoardFairness ==
  /\ WF_boardVars(\E e \in unsent : Emit(e))
  /\ WF_boardVars(Deliver \/ DeliverPlan) /\ WF_boardVars(Load)
  /\ WF_boardVars(\E i \in DOMAIN loads : ServeLoad(i) \/ ShowLoad(i))
  /\ WF_boardVars(ServeTap \/ Refused) /\ WF_boardVars(Answered)

BoardSpec == BoardInit /\ [][BoardNext]_boardVars /\ BoardFairness

-----------------------------------------------------------------------------
(***************************************************************************)
(* Properties.                                                             *)
(***************************************************************************)

\* "Every connected client sees status changes": in the end the board shows the room as
\* it is, unless an event, a load or an answer was lost or overtaken for good, or the
\* last to write the room was a plan and the board is an attendant's.  The attendant's
\* board gets over events in the wrong order, and over events that come between a load
\* and its answer.  Of a plan it hears only by the next change of a room, although
\* "boards refetch once" (assignments/apply/route.ts:103).
BoardCatchesUp ==
  <>[](board = Shown(row) \/ missed \/ (view = "attendant" /\ row.by = "plan"))
=============================================================================
