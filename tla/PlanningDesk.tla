---------------------------- MODULE PlanningDesk ----------------------------
(***************************************************************************)
(* The supervisor's planning page (supervisor/planning/view.tsx): who is   *)
(* on shift and the day's figures are inputs; a proposal is fetched after  *)
(* each change of them, at once or 250 ms later, its rooms are moved by    *)
(* hand, and the plan is applied.  A handler sees the inputs as they were  *)
(* drawn when it was set up: a timer fires with what was drawn then.       *)
(*                                                                         *)
(* The length of the shift goes with onShift: the two share one timer, and *)
(* each of their handlers takes both from one drawing.  The three figures  *)
(* are one value.                                                          *)
(***************************************************************************)
EXTENDS Integers

CONSTANTS
  Crew,        \* attendants
  NumRooms,    \* rooms a proposal is about
  Numbers,     \* what the day's figures may be
  Default,     \* the figures of the live data
  MaxInputs,   \* bound: inputs of the supervisor
  MaxErrors    \* bound: requests that fail

ASSUME DeskAssumption ==
  /\ Default \in Numbers /\ Numbers \subseteq Nat /\ 0 \notin Crew
  /\ {NumRooms, MaxInputs, MaxErrors} \subseteq Nat

VARIABLES
  onShift,   \* the attendants marked as on shift
  figures,   \* the figures shown, or Unset before the first answer
  wish,      \* the figures the supervisor has set last, or else those of the first answer (observation)
  timers,    \* recalculations waiting for their time, each with the inputs there were before it
  seq,       \* requestSeq
  pending,   \* requests for a proposal that are not answered
  plan,      \* the proposal shown, or NoPlan
  moving,    \* the dialog that moves a room, and the proposal it was opened on, or NoMove
  spins,     \* which of busy and refreshing are set
  applying,  \* requests to apply a plan that are not answered
  last,      \* how the last request went: "sound", "stale" or "failed" (observation)
  strayed,   \* a room was moved by a dialog older than the plan (observation)
  inputs, errors

shift == <<onShift, figures, wish, timers>>
query == <<seq, pending, last>>
deskVars == <<shift, query, plan, moving, spins, applying, strayed, inputs, errors>>

DeskRooms == 1..NumRooms
Unset == -1
NoPlan == [no |-> 0, who |-> {}, figs |-> Unset, of |-> <<>>, lists |-> [a \in {} |-> <<>>]]
NoMove == [room |-> 0, from |-> 0, no |-> 0]

\* The attendants are loaded, and the first proposal has been asked for.
DeskInit ==
  /\ onShift = Crew /\ figures = Unset /\ wish = Unset /\ timers = {}
  /\ seq = 1 /\ pending = {[seq |-> 1, who |-> Crew, figs |-> Unset]} /\ last = "sound"
  /\ plan = NoPlan /\ moving = NoMove /\ spins = {"busy"} /\ applying = 0
  /\ strayed = FALSE /\ inputs = 0 /\ errors = 0

-----------------------------------------------------------------------------
(***************************************************************************)
(* createPlan and its answers.                                             *)
(***************************************************************************)

\* stale: what the request takes from the drawing is not what is set.
Send(who, figs, kind, stale) ==
  /\ seq' = seq + 1
  /\ pending' = pending \cup {[seq |-> seq + 1, who |-> who, figs |-> figs]}
  /\ spins' = spins \cup {kind}
  /\ last' = IF stale THEN "stale" ELSE "sound"

\* Variant with a bug: whatever answers is shown.
NewestAny(q) == TRUE

Newest(q) == q.seq = seq

\* The route plans for everybody when nobody is named.
Planned(who) == IF who = {} THEN Crew ELSE who

\* A proposal says whose a room is; it may put one off.  A list says how often a room is
\* in it; its order is left out.
Proposed(q) ==
  \E f \in [DeskRooms -> Planned(q.who) \cup {0}] :
    plan' = [no |-> q.seq, who |-> q.who, of |-> f,
             figs |-> IF q.figs = Unset THEN Default ELSE q.figs,
             lists |-> [a \in Planned(q.who) |-> [r \in DeskRooms |-> IF f[r] = a THEN 1 ELSE 0]]]

Answer(q) ==
  /\ q \in pending /\ pending' = pending \ {q}
  /\ IF Newest(q)
     THEN /\ Proposed(q) /\ figures' = plan'.figs
          /\ wish' = IF wish = Unset THEN figures' ELSE wish
          /\ spins' = {} /\ strayed' = FALSE
     ELSE UNCHANGED <<plan, figures, wish, spins, strayed>>
  /\ UNCHANGED <<onShift, timers, seq, last, moving, applying, inputs, errors>>

AskFails(q) ==
  /\ q \in pending /\ pending' = pending \ {q}
  /\ errors < MaxErrors /\ errors' = errors + 1
  /\ IF Newest(q) THEN spins' = {} /\ last' = "failed" ELSE UNCHANGED <<spins, last>>
  /\ UNCHANGED <<shift, seq, plan, moving, applying, strayed, inputs>>

-----------------------------------------------------------------------------
(***************************************************************************)
(* The inputs; an open dialog covers them.  Each kind has a timer of its   *)
(* own, which a later input of the kind clears.                            *)
(***************************************************************************)

Input == moving = NoMove /\ inputs < MaxInputs /\ inputs' = inputs + 1

Cleared(kind) == {t \in timers : t.kind # kind}

Later(kind, who, figs) ==
  /\ timers' = Cleared(kind) \cup {[kind |-> kind, who |-> who, figs |-> figs, at |-> inputs]}
  /\ UNCHANGED <<query, spins>>

\* setFigure, reset: a tap, or leaving the field, recalculates at once, typing later.
EnterFigures(v, now) ==
  /\ Input /\ figures # Unset
  /\ figures' = v /\ wish' = v
  /\ IF now THEN timers' = Cleared("figures") /\ Send(onShift, v, "refreshing", FALSE)
     ELSE Later("figures", onShift, v)
  /\ UNCHANGED <<onShift, plan, moving, applying, strayed, errors>>

\* All, None and a length of shift recalculate at once, one attendant later; before
\* the first proposal is there nothing does.
ChooseCrew(c, now) ==
  /\ Input /\ onShift' = c
  /\ IF plan = NoPlan THEN last' = "stale" /\ UNCHANGED <<timers, seq, pending, spins>>
     ELSE IF now THEN timers' = Cleared("crew") /\ Send(c, figures, "refreshing", figures # wish)
     ELSE Later("crew", c, figures)
  /\ UNCHANGED <<figures, wish, plan, moving, applying, strayed, errors>>

\* What it takes from the drawing is the input of the other kind.
FireTimer(t) ==
  /\ t \in timers /\ \A u \in timers : t.at <= u.at
  /\ timers' = timers \ {t}
  /\ Send(t.who, t.figs, "refreshing",
          IF t.kind = "figures" THEN t.who # onShift ELSE t.figs # wish)
  /\ UNCHANGED <<onShift, figures, wish, plan, moving, applying, strayed, inputs, errors>>

\* The button that asks again.
Refresh ==
  /\ Input /\ "busy" \notin spins /\ onShift # {}
  /\ Send(onShift, figures, "busy", figures # wish)
  /\ UNCHANGED <<shift, plan, moving, applying, strayed, errors>>

-----------------------------------------------------------------------------
(***************************************************************************)
(* The plan shown.                                                         *)
(***************************************************************************)

OpenMove(a, r) ==
  /\ Input
  /\ plan.lists[a][r] > 0
  /\ moving' = [room |-> r, from |-> a, no |-> plan.no]
  /\ UNCHANGED <<shift, query, plan, spins, applying, strayed, errors>>

\* Variant with a bug: the room stays where it was.
WithoutNone(list, room) == list

Without(list, room) == [list EXCEPT ![room] = 0]

\* moveRoom: the dialog offers the attendants of the plan shown by now.
MoveRoom(b) ==
  /\ moving # NoMove /\ b # moving.from
  /\ plan' = [plan EXCEPT !.lists =
                [a \in DOMAIN plan.lists |->
                   IF a = moving.from THEN Without(plan.lists[a], moving.room)
                   ELSE IF a = b THEN [plan.lists[a] EXCEPT ![moving.room] = @ + 1]
                   ELSE plan.lists[a]]]
  /\ moving' = NoMove
  /\ strayed' = (strayed \/ moving.no # plan.no)
  /\ UNCHANGED <<shift, query, spins, applying, inputs, errors>>

CloseMove ==
  /\ moving # NoMove /\ moving' = NoMove
  /\ UNCHANGED <<shift, query, plan, spins, applying, strayed, inputs, errors>>

ApplyShown ==
  /\ Input /\ plan # NoPlan /\ "busy" \notin spins
  /\ applying' = applying + 1 /\ spins' = spins \cup {"busy"}
  /\ UNCHANGED <<shift, query, plan, moving, strayed, errors>>

\* Done or refused: the page shows the one or the other.
ApplyEnds ==
  /\ applying > 0 /\ applying' = applying - 1
  /\ spins' = spins \ {"busy"}
  /\ UNCHANGED <<shift, query, plan, moving, strayed, inputs, errors>>

DeskNext ==
  \/ \E v \in Numbers, now \in BOOLEAN : EnterFigures(v, now)
  \/ \E c \in SUBSET Crew, now \in BOOLEAN : ChooseCrew(c, now)
  \/ \E q \in pending : Answer(q) \/ AskFails(q)
  \/ \E t \in timers : FireTimer(t)
  \/ Refresh
  \/ \E a \in DOMAIN plan.lists : MoveRoom(a) \/ \E r \in DeskRooms : OpenMove(a, r)
  \/ CloseMove \/ ApplyShown \/ ApplyEnds

-----------------------------------------------------------------------------
(***************************************************************************)
(* Properties.                                                             *)
(***************************************************************************)

Settled == timers = {} /\ \A q \in pending : ~Newest(q)

\* "Guards against an out-of-order answer ... show figures the supervisor has already
\* moved past": when nothing is under way the proposal is one for the team and the
\* figures set last, unless the last request failed or was stale: set off with the other
\* kind of input as it was when a timer was started, with figures an answer had put back
\* meanwhile, or before the team was changed that has no proposal yet to change.
ShowsWhatIsSet ==
  Settled /\ plan # NoPlan /\ last = "sound" =>
    /\ plan.who = onShift /\ plan.figs = wish /\ figures = wish
    /\ onShift # {} => DOMAIN plan.lists = onShift

\* moveRoom: moving rooms by hand loses none and gives none to two, which the server
\* would refuse to apply, unless the dialog was older than the plan.
RoomsOnce ==
  plan # NoPlan /\ ~strayed =>
    \A r \in DeskRooms :
      IF plan.of[r] = 0 THEN \A a \in DOMAIN plan.lists : plan.lists[a][r] = 0
      ELSE \E a \in DOMAIN plan.lists :
             \A b \in DOMAIN plan.lists : plan.lists[b][r] = (IF b = a THEN 1 ELSE 0)

\* The page does not go on waiting when no answer it waits for is to come.
NothingSpins == applying = 0 /\ (\A q \in pending : ~Newest(q)) => spins = {}

\* What holds of the planning page.
DeskInv == ShowsWhatIsSet /\ RoomsOnce /\ NothingSpins
=============================================================================
