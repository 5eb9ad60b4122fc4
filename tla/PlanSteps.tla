----------------------------- MODULE PlanSteps -----------------------------
(***************************************************************************)
(* The steps "Team" and "Etagen" of the planning tool (planung/teamData.ts, *)
(* users/assignFloors.ts, usePlanungFlow.ts): a supervisor's page loads    *)
(* who is there, she chooses, and saves the team and then the floors.      *)
(* Both saves read the rows of the users and write them one by one; in     *)
(* between housekeepers call in sick and the duty manager gives floors.    *)
(*                                                                         *)
(* One day, and a team saved the day before.  Housemen are left out: they  *)
(* are chosen like housekeepers and written nowhere but in the team.       *)
(***************************************************************************)
EXTENDS Integers, FiniteSets

CONSTANTS
  Staff,       \* housekeepers
  Sups,        \* supervisors
  PlanFloors,  \* floors
  Nobody,      \* no supervisor
  Pages,       \* pages of the planning tool
  MaxSteps     \* bound: pages loaded, choices, saves, reports and gifts of floors

ASSUME StepsAssumption == Nobody \notin Sups \cup Pages /\ MaxSteps \in Nat

VARIABLES
  absent,   \* the housekeepers who are absent today (User.absentDate)
  floors,   \* floors[s]: the floors of supervisor s (User.assignedFloors)
  saved,    \* the team saved last (Setting planningTeam)
  page,     \* page[p]: what page p has loaded and what is chosen on it
  save,     \* save[p]: its save in service
  sick,     \* sick[p]: made absent by others since p was loaded (observation)
  over,     \* over[p]: rows its save has read, or is to write, were written by others (observation)
  steps

rows == <<absent, floors, saved>>
stepVars == <<rows, page, save, sick, over, steps>>

NoPage == [source |-> "none", hk |-> {}, sup |-> {}, floor |-> [f \in PlanFloors |-> Nobody],
           tapped |-> {}]
NoSave == [pc |-> "idle", todo |-> {}, hk |-> {}, sup |-> {}, floor |-> NoPage.floor]

\* The floors of the day before are those of a team that was saved.
StepsInit ==
  /\ absent = {}
  /\ \E f \in [PlanFloors -> Sups] : floors = [s \in Sups |-> {x \in PlanFloors : f[x] = s}]
  /\ saved = [day |-> "previous", hk |-> Staff, sup |-> Sups]
  /\ page = [p \in Pages |-> NoPage]
  /\ save = [p \in Pages |-> NoSave]
  /\ sick = [p \in Pages |-> {}] /\ over = [p \in Pages |-> FALSE]
  /\ steps = 0

Step == steps < MaxSteps /\ steps' = steps + 1

\* The calls of the others whose rows are written under them.
Overtakes(p) == over' = [q \in Pages |-> over[q] \/ (q # p /\ save[q].pc # "idle")]

-----------------------------------------------------------------------------
(***************************************************************************)
(* The page.                                                               *)
(***************************************************************************)

\* Variant with a bug: who is absent is chosen all the same.
PresetAll == saved.hk

\* pickDefaultTeam: the team saved today as it was, that of an earlier day without
\* those who are absent.
Preset == IF saved.day = "today" THEN saved.hk ELSE saved.hk \ absent

\* getTeamState; of two supervisors with one floor the one read last has it.
LoadPage(p) ==
  /\ Step /\ save[p].pc = "idle"
  /\ \E f \in [PlanFloors -> saved.sup \cup {Nobody}] :
       /\ \A x \in PlanFloors :
            LET of == {s \in saved.sup : x \in floors[s]}
            IN IF of = {} THEN f[x] = Nobody ELSE f[x] \in of
       /\ page' = [page EXCEPT ![p] = [source |-> saved.day, hk |-> Preset, sup |-> saved.sup,
                                       floor |-> f, tapped |-> {}]]
  /\ sick' = [sick EXCEPT ![p] = {}]
  /\ UNCHANGED <<rows, save, over>>

Flip(S, x) == IF x \in S THEN S \ {x} ELSE S \cup {x}

ToggleStaff(p, h) ==
  /\ Step /\ page[p].source # "none"
  /\ page' = [page EXCEPT ![p].hk = Flip(@, h), ![p].tapped = @ \cup {h}]
  /\ UNCHANGED <<rows, save, sick, over>>

\* "Wer abgewählt wird, behält keine Etage."
Freed(p, s) == [x \in PlanFloors |-> IF page[p].floor[x] = s THEN Nobody ELSE page[p].floor[x]]

ToggleSup(p, s) ==
  /\ Step /\ page[p].source # "none"
  /\ page' = [page EXCEPT ![p].sup = Flip(@, s), ![p].floor = Freed(p, s)]
  /\ UNCHANGED <<rows, save, sick, over>>

PickFloor(p, x, s) ==
  /\ Step /\ s \in page[p].sup
  /\ page' = [page EXCEPT ![p].floor[x] = s]
  /\ UNCHANGED <<rows, save, sick, over>>

-----------------------------------------------------------------------------
(***************************************************************************)
(* saveTeam.                                                               *)
(***************************************************************************)

\* The housekeepers whose row differs from the choice, as the rows are read.
ReadStaff(p) ==
  /\ Step /\ save[p].pc = "idle" /\ page[p].hk # {} /\ page[p].sup # {}
  /\ save' = [save EXCEPT ![p] =
       [NoSave EXCEPT !.pc = "team", !.hk = page[p].hk, !.sup = page[p].sup,
                      !.todo = {h \in Staff : h \in page[p].hk <=> h \in absent}]]
  /\ over' = [over EXCEPT ![p] = FALSE]
  /\ UNCHANGED <<rows, page, sick>>

WriteStaff(p, h) ==
  /\ save[p].pc = "team" /\ h \in save[p].todo
  /\ absent' = IF h \in save[p].hk THEN absent \ {h} ELSE absent \cup {h}
  /\ save' = [save EXCEPT ![p].todo = @ \ {h}]
  /\ sick' = [q \in Pages |-> IF q = p THEN sick[q] ELSE sick[q] \cup (absent' \ absent)]
  /\ Overtakes(p)
  /\ UNCHANGED <<floors, saved, page, steps>>

StoreTeam(p) ==
  /\ save[p].pc = "team" /\ save[p].todo = {}
  /\ saved' = [day |-> "today", hk |-> save[p].hk, sup |-> save[p].sup]
  /\ save' = [save EXCEPT ![p] = NoSave]
  /\ Overtakes(p)
  /\ UNCHANGED <<absent, floors, page, sick, steps>>

-----------------------------------------------------------------------------
(***************************************************************************)
(* saveFloors.                                                             *)
(***************************************************************************)

\* readSaved: every floor has a supervisor, of the team that was saved today.
CheckFloors(p) ==
  /\ Step /\ save[p].pc = "idle"
  /\ saved.day = "today" /\ \A x \in PlanFloors : page[p].floor[x] \in saved.sup
  /\ save' = [save EXCEPT ![p] = [NoSave EXCEPT !.pc = "sups", !.sup = saved.sup,
                                                !.floor = page[p].floor]]
  /\ over' = [over EXCEPT ![p] = FALSE]
  /\ UNCHANGED <<rows, page, sick>>

Given(p, s) == {x \in PlanFloors : save[p].floor[x] = s}

\* Variant with a bug: only those of the team are looked at.
WhoDiffersOfTeam(p) == {s \in save[p].sup : floors[s] # Given(p, s)}

\* Every supervisor, of the team or not, whose floors differ.
WhoDiffers(p) == {s \in Sups : floors[s] # Given(p, s)}

ReadSups(p) ==
  /\ save[p].pc = "sups"
  /\ save' = [save EXCEPT ![p].pc = "floors", ![p].todo = WhoDiffers(p)]
  /\ UNCHANGED <<rows, page, sick, over, steps>>

\* assignFloors
WriteFloors(p, s) ==
  /\ save[p].pc = "floors" /\ s \in save[p].todo
  /\ floors' = [floors EXCEPT ![s] = Given(p, s)]
  /\ save' = [save EXCEPT ![p].todo = @ \ {s}]
  /\ Overtakes(p)
  /\ UNCHANGED <<absent, saved, page, sick, steps>>

FloorsDone(p) ==
  /\ save[p].pc = "floors" /\ save[p].todo = {}
  /\ save' = [save EXCEPT ![p] = NoSave]
  /\ UNCHANGED <<rows, page, sick, over, steps>>

\* A save dies between two of its calls; what is written stays.
SaveFails(p) ==
  /\ Step /\ save[p].pc # "idle"
  /\ save' = [save EXCEPT ![p] = NoSave]
  /\ UNCHANGED <<rows, page, sick, over>>

-----------------------------------------------------------------------------
(***************************************************************************)
(* What others write.                                                      *)
(***************************************************************************)

\* setAbsent, from another page: sick, or back.
CallInSick(h) ==
  /\ Step
  /\ absent' = Flip(absent, h)
  /\ sick' = [p \in Pages |-> sick[p] \cup (absent' \ absent)]
  /\ Overtakes(Nobody)
  /\ UNCHANGED <<floors, saved, page, save>>

\* PATCH /api/users/[id]/floors of the duty manager.
GiveFloors(s, F) ==
  /\ Step /\ floors[s] # F
  /\ floors' = [floors EXCEPT ![s] = F]
  /\ Overtakes(Nobody)
  /\ UNCHANGED <<absent, saved, page, save, sick>>

StepsNext ==
  \/ \E p \in Pages :
       \/ LoadPage(p) \/ ReadStaff(p) \/ StoreTeam(p) \/ CheckFloors(p) \/ ReadSups(p)
       \/ FloorsDone(p) \/ SaveFails(p)
       \/ \E h \in Staff : ToggleStaff(p, h) \/ WriteStaff(p, h)
       \/ \E s \in Sups : \/ ToggleSup(p, s) \/ WriteFloors(p, s)
                          \/ \E x \in PlanFloors : PickFloor(p, x, s)
  \/ \E h \in Staff : CallInSick(h)
  \/ \E s \in Sups, F \in SUBSET PlanFloors : GiveFloors(s, F)

-----------------------------------------------------------------------------
(***************************************************************************)
(* Properties.                                                             *)
(***************************************************************************)

\* A save of the floors that ends leaves every floor with one supervisor, the one chosen,
\* who is of the team saved today.
FloorsAsChosen(p) ==
  FloorsDone(p) /\ ~over[p] =>
    \A x \in PlanFloors : /\ {s \in Sups : x \in floors[s]} = {save[p].floor[x]}
                          /\ save[p].floor[x] \in saved.sup

\* A save of the team that ends leaves those absent who were not chosen.
TeamAsChosen(p) == StoreTeam(p) /\ ~over[p] => absent = Staff \ save[p].hk

\* A save calls back who was tapped on the page, or called in sick after it was loaded,
\* or any who is absent when the team of today had been saved before.
CallsBack(p) ==
  \A h \in Staff : WriteStaff(p, h) /\ h \notin absent' =>
    h \in page[p].tapped \cup sick[p] \/ page[p].source = "today"

\* saveFloors, saveTeam: both saves leave what was chosen, unless somebody else has written
\* meanwhile: floors are taken from supervisors who are not of the team, and nobody is
\* called back whom the page left out, "nie vorgewaehlt", and nobody has chosen since.
SavesAsChosen ==
  [][\A p \in Pages : FloorsAsChosen(p) /\ TeamAsChosen(p) /\ CallsBack(p)]_stepVars
=============================================================================
