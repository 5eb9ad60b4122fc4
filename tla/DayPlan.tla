------------------------------ MODULE DayPlan ------------------------------
(***************************************************************************)
(* The day plan (dayplan/merge.ts): the applied lists are merged into one  *)
(* row per room, a supervisor overrides a cleaning type, the plan is       *)
(* brought to the board.  A merge reads lists and plan first and then      *)
(* writes row by row, by the id it has read; a row that is gone, or that   *)
(* somebody else has created, makes it fail half way.                      *)
(*                                                                         *)
(* One date.  Of a list only what the plan is made of is kept: who leaves, *)
(* who stays, who arrives, which of those are in the house already and     *)
(* which ask for a bed.  Of the stays only that of the guest who arrives   *)
(* is kept, and of it whether he is in the house.                          *)
(***************************************************************************)
EXTENDS ImportBatch

CONSTANTS
  Rooms,
  Assigned,  \* rooms that are assigned; an import leaves that alone
  Chosen,    \* the cleaning types a supervisor may choose
  None,      \* an absent value
  MaxAsked,  \* bound: merges, overrides and applications to the board
  MaxFails   \* bound: those that die half way

VARIABLES
  plan,      \* plan[r]: the DayRoomPlan row, or None
  ids,       \* rows created so far
  here,      \* rooms whose arriving guest has a stay that is IN_HOUSE
  told,      \* the DAY_PLAN_CHANGED notifications: <<room, type>>
  expected,  \* expected[r]: EXPECTED arrivals from the lists (2: two or more)
  checkout,  \* rooms with isCheckoutToday
  beds,      \* beds[r]: the trace that asks for a bed, or None
  asked, fails

Cleanings == {"DEPARTURE", "SAME_DAY_TURN", "STAYOVER", "ARRIVAL"}
\* arriving: the row names the stay of a guest who arrives (arrivingStayId).
PlanRows == [id : Nat, type : Cleanings \cup Chosen, overridden : BOOLEAN,
             derived : Cleanings \cup Chosen \cup {None}, arriving : BOOLEAN]
BedTraces == [tasks : 0..2, linked : BOOLEAN]

ASSUME NoneAssumption == None \notin Cleanings \cup Chosen \cup PlanRows \cup BedTraces
ASSUME RoomsAssumption == Assigned \subseteq Rooms

day == <<plan, ids, told, here, expected, checkout, beds, asked, fails>>
all == <<batches, job, day>>

Type(dep, arr, r) ==
  LET arrives == \E a \in arr : a.room = r
  IN IF [room |-> r, stays |-> FALSE] \in dep
     THEN IF arrives THEN "SAME_DAY_TURN" ELSE "DEPARTURE"
     ELSE IF [room |-> r, stays |-> TRUE] \in dep THEN "STAYOVER"
     ELSE IF arrives THEN "ARRIVAL" ELSE None

Leaves == {"DEPARTURE", "SAME_DAY_TURN"}

\* deriveDayPlan gives a stay that arrives to rooms of these types only.
Arrives == {"SAME_DAY_TURN", "ARRIVAL"}

Row(id, t) ==
  [id |-> id, type |-> t, overridden |-> FALSE, derived |-> None, arriving |-> t \in Arrives]

InHouse(arr) == {a.room : a \in {b \in arr : b.here}}

\* The day begins with lists that are applied, and merged or not.
DayInit ==
  /\ \E dep \in ContentOf["DEPARTURES"], arr \in ContentOf["ARRIVALS"] :
       /\ batches = <<[type |-> "DEPARTURES", rows |-> dep, critical |-> FALSE, status |-> "APPLIED"],
                      [type |-> "ARRIVALS", rows |-> arr, critical |-> FALSE, status |-> "APPLIED"]>>
       /\ \/ plan = [r \in Rooms |-> None] /\ here = {}
          \/ /\ plan = [r \in Rooms |-> IF Type(dep, arr, r) = None THEN None
                                        ELSE Row(0, Type(dep, arr, r))]
             /\ here = InHouse(arr)
  /\ job = [c \in Clerks |-> Idle]
  /\ ids = 0
  /\ told = {} /\ checkout = {}
  /\ expected = [r \in Rooms |-> 0]
  /\ beds = [r \in Rooms |-> None]
  /\ asked = 0 /\ fails = 0

Begin(c) == job[c].pc = "idle" /\ asked < MaxAsked /\ asked' = asked + 1

\* What a request at its step has read and somebody else writes is remembered in stale.
News ==
  (IF plan' # plan THEN {"plan"} ELSE {})
  \cup (IF expected' # expected \/ here' # here THEN {"board"} ELSE {})
  \cup (IF beds' # beds THEN {"beds"} ELSE {})

Reads(pc) ==
  CASE pc \in {"tell", "rows", "board", "clear"} -> {"plan"}
    [] pc \in {"expect", "arrive"} -> {"plan", "board"}
    [] pc \in {"task", "link"} -> {"beds"}
    [] OTHER -> {}

Notice(jobs) ==
  [d \in Clerks |-> IF jobs[d].pc \in {"idle", "apply"} THEN jobs[d]
                    ELSE [jobs[d] EXCEPT !.stale = @ \cup (News \cap Reads(jobs[d].pc))]]

\* Request c goes on as k.
Continue(c, k) == job' = [Notice(job) EXCEPT ![c] = k]

-----------------------------------------------------------------------------
(***************************************************************************)
(* mergeDay.                                                               *)
(***************************************************************************)

\* POST /api/dayplan/merge: only with all lists, and with the rows of the
\* departures not purged.
ReadDepartures(c) ==
  /\ Begin(c)
  /\ MissingLists = {}
  /\ \E i \in Applied("DEPARTURES") :
       /\ batches[i].rows # Purged
       /\ UNCHANGED <<batches, plan, ids, told, here, expected, checkout, beds, fails>>
       /\ Continue(c, [pc |-> "arrivals", dep |-> batches[i].rows, stale |-> {}])

\* Arrivals that are purged, or were rejected meanwhile, count as none.
ReadArrivals(c) ==
  LET k == job[c]
      is == {i \in Applied("ARRIVALS") : batches[i].rows # Purged}
      arr == IF is = {} THEN {} ELSE batches[CHOOSE i \in is : TRUE].rows
  IN /\ k.pc = "arrivals"
     /\ UNCHANGED <<batches, day>>
     /\ Continue(c, [pc |-> "stays", new |-> [r \in Rooms |-> Type(k.dep, arr, r)],
                     asks |-> {a.room : a \in {b \in arr : b.bed}},
                     house |-> InHouse(arr), rest |-> {a.room : a \in arr}, stale |-> {}])

\* The stay of the guest who arrives is created or updated.
WriteStay(c, r) ==
  LET k == job[c] IN
  /\ k.pc = "stays" /\ r \in k.rest
  /\ here' = IF r \in k.house THEN here \cup {r} ELSE here \ {r}
  /\ UNCHANGED <<batches, plan, ids, told, expected, checkout, beds, asked, fails>>
  /\ Continue(c, [k EXCEPT !.rest = @ \ {r}])

ReadPlan(c) ==
  /\ job[c].pc = "stays" /\ job[c].rest = {}
  /\ UNCHANGED <<batches, day>>
  /\ Continue(c, [pc |-> "tell", new |-> job[c].new, asks |-> job[c].asks, old |-> plan,
                  rest |-> Rooms, stale |-> {}])

Overridden(row) == row # None /\ row.overridden

\* Variant with a bug: only rooms that stay in the plan are told of.
ChangedStaying(k) ==
  {r \in Rooms : /\ k.old[r] # None /\ ~Overridden(k.old[r]) /\ k.new[r] # None
                 /\ k.new[r] # k.old[r].type}

Changed(k) ==
  {r \in Rooms : k.old[r] # None /\ ~Overridden(k.old[r]) /\ k.new[r] # k.old[r].type}

\* Rooms that are assigned are told of, once for every type they change to.
TellChanges(c) ==
  LET k == job[c] IN
  /\ k.pc = "tell"
  /\ told' = told \cup {<<r, k.new[r]>> : r \in Changed(k) \cap Assigned}
  /\ UNCHANGED <<batches, plan, ids, here, expected, checkout, beds, asked, fails>>
  /\ Continue(c, [k EXCEPT !.pc = "rows"])

SameRow(r, row) == plan[r] # None /\ plan[r].id = row.id

\* Variant with a bug: overridden rows are written like the others.
MergedAll(old, new, row) == [row EXCEPT !.type = new, !.arriving = new \in Arrives]

\* Variant with a bug: what the lists say now is lost under an override.
MergedKept(old, new, row) ==
  IF Overridden(old) THEN row ELSE [row EXCEPT !.type = new, !.arriving = new \in Arrives]

\* The row of a room after the merge that has read old and derived type new.
Merged(old, new, row) ==
  IF Overridden(old) THEN [row EXCEPT !.derived = new, !.arriving = new \in Arrives]
  ELSE [row EXCEPT !.type = new, !.arriving = new \in Arrives]

\* Room r: nothing to do, its row is deleted, updated or created.  The deletions
\* come first.
WriteRow(c, r) ==
  LET k == job[c]
      old == k.old[r]
      gone(q) == k.new[q] = None /\ k.old[q] # None /\ ~Overridden(k.old[q])
  IN /\ k.pc = "rows" /\ r \in k.rest
     /\ gone(r) \/ \A q \in k.rest : ~gone(q)
     /\ IF k.new[r] = None THEN (gone(r) => SameRow(r, old))
        ELSE IF old # None THEN SameRow(r, old) ELSE plan[r] = None
     /\ plan' = [plan EXCEPT ![r] =
                   IF k.new[r] = None THEN (IF gone(r) THEN None ELSE @)
                   ELSE IF old = None THEN Row(ids + 1, k.new[r])
                   ELSE Merged(old, k.new[r], @)]
     /\ ids' = IF k.new[r] # None /\ old = None THEN ids + 1 ELSE ids
     /\ UNCHANGED <<batches, told, here, expected, checkout, beds, asked, fails>>
     /\ Continue(c, [k EXCEPT !.rest = @ \ {r}])

\* The row is gone, or another merge has created it: the merge fails.
MergeFails(c, r) ==
  LET k == job[c]
      old == k.old[r]
  IN /\ k.pc = "rows" /\ r \in k.rest
     /\ \/ k.new[r] # None /\ old = None /\ plan[r] # None
        \/ old # None /\ (k.new[r] # None \/ ~Overridden(old)) /\ ~SameRow(r, old)
     /\ UNCHANGED <<batches, day>>
     /\ Continue(c, Idle)

\* New traces are stored; those that were stored before stay as they are.
StoreTraces(c) ==
  LET k == job[c] IN
  /\ k.pc = "rows" /\ k.rest = {}
  /\ beds' = [r \in Rooms |-> IF r \in k.asks /\ beds[r] = None
                              THEN [tasks |-> 0, linked |-> FALSE] ELSE beds[r]]
  /\ UNCHANGED <<batches, plan, ids, told, here, expected, checkout, asked, fails>>
  /\ Continue(c, [k EXCEPT !.pc = "pending"])

\* A task that another merge is about to link is not seen.
ReadPending(c) ==
  /\ job[c].pc = "pending"
  /\ UNCHANGED <<batches, day>>
  /\ Continue(c, [pc |-> "task",
                  stale |-> IF \E d \in Clerks : job[d].pc = "link" THEN {"beds"} ELSE {},
                  rest |-> {r \in Rooms : beds[r] # None /\ ~beds[r].linked}])

\* createRoomTask ...
CreateTask(c, r) ==
  /\ job[c].pc = "task" /\ r \in job[c].rest
  /\ beds' = [beds EXCEPT ![r].tasks = IF @ < 2 THEN @ + 1 ELSE 2]
  /\ UNCHANGED <<batches, plan, ids, told, here, expected, checkout, asked, fails>>
  /\ Continue(c, [pc |-> "link", stale |-> job[c].stale, rest |-> job[c].rest \ {r}, one |-> r])

\* Variant with a bug: the trace does not learn of its task.
LinkNothing(c) ==
  /\ job[c].pc = "link"
  /\ UNCHANGED <<batches, day>>
  /\ Continue(c, [pc |-> "task", stale |-> job[c].stale, rest |-> job[c].rest])

\* ... and the trace learns of its task.
LinkTask(c) ==
  /\ job[c].pc = "link"
  /\ beds' = [beds EXCEPT ![job[c].one].linked = TRUE]
  /\ UNCHANGED <<batches, plan, ids, told, here, expected, checkout, asked, fails>>
  /\ Continue(c, [pc |-> "task", stale |-> job[c].stale, rest |-> job[c].rest])

FinishMerge(c) ==
  /\ job[c].pc = "task" /\ job[c].rest = {}
  /\ UNCHANGED <<batches, day>>
  /\ Continue(c, Idle)

-----------------------------------------------------------------------------
(***************************************************************************)
(* overrideCleaningType: back to what the lists say lifts the override.    *)
(***************************************************************************)

ReadOverride(c, r, t) ==
  LET row == plan[r] IN
  /\ Begin(c)
  /\ row # None
  /\ UNCHANGED <<batches, plan, ids, told, here, expected, checkout, beds, fails>>
  /\ Continue(c, [pc |-> "override", room |-> r, id |-> row.id, type |-> t, stale |-> {},
                  derived |-> IF row.overridden THEN row.derived ELSE row.type])

WriteOverride(c) ==
  LET k == job[c]
      same == k.type = k.derived
  IN /\ k.pc = "override"
     /\ plan' = IF SameRow(k.room, k)
                THEN [plan EXCEPT ![k.room].type = k.type, ![k.room].overridden = ~same,
                                  ![k.room].derived = IF same THEN None ELSE k.derived]
                ELSE plan
     /\ UNCHANGED <<batches, ids, told, here, expected, checkout, beds, asked, fails>>
     /\ Continue(c, Idle)

-----------------------------------------------------------------------------
(***************************************************************************)
(* applyDayPlanToBoard.                                                    *)
(***************************************************************************)

Arriving == {r \in Rooms : plan[r] # None /\ plan[r].arriving}

Types == [r \in Rooms |-> IF plan[r] = None THEN None ELSE plan[r].type]

\* Variant with a bug: whether somebody arrives is told by the type, which may be overridden.
ReadBoardByType(c) ==
  /\ Begin(c)
  /\ \E r \in Rooms : plan[r] # None
  /\ UNCHANGED <<batches, plan, ids, told, here, expected, checkout, beds, fails>>
  /\ Continue(c, [pc |-> "board", types |-> Types, stale |-> {},
                  arriving |-> {r \in Rooms : Types[r] \in Arrives}])

ReadBoard(c) ==
  /\ Begin(c)
  /\ \E r \in Rooms : plan[r] # None
  /\ UNCHANGED <<batches, plan, ids, told, here, expected, checkout, beds, fails>>
  /\ Continue(c, [pc |-> "board", types |-> Types, arriving |-> Arriving, stale |-> {}])

\* complete: the departures reach far enough, so that a room without a row is empty.
WriteBoard(c, complete) ==
  LET k == job[c]
      planned == {r \in Rooms : k.types[r] # None}
  IN /\ k.pc = "board"
     /\ checkout' = {r \in planned : k.types[r] \in Leaves}
                    \cup IF complete THEN {} ELSE checkout \ planned
     /\ UNCHANGED <<batches, plan, ids, told, here, expected, beds, asked, fails>>
     /\ Continue(c, [pc |-> "clear", arriving |-> k.arriving, stale |-> k.stale])

\* An application that has room by room the arrivals rest before it.
Expecting(k, rest) == [pc |-> "expect", arriving |-> k.arriving, rest |-> rest, stale |-> k.stale]

\* Variant with a bug: what was expected before is left.
ClearNothing(c) ==
  /\ job[c].pc = "clear"
  /\ UNCHANGED <<batches, day>>
  /\ Continue(c, Expecting(job[c], job[c].arriving))

\* The arrivals expected from earlier lists go ...
ClearArrivals(c) ==
  /\ job[c].pc = "clear"
  /\ expected' = [r \in Rooms |-> 0]
  /\ UNCHANGED <<batches, plan, ids, told, here, checkout, beds, asked, fails>>
  /\ Continue(c, Expecting(job[c], job[c].arriving))

\* ... and those of the plan come, one by one: the guest is in the house already ...
SkipArrival(c, r) ==
  LET k == job[c] IN
  /\ k.pc = "expect" /\ r \in k.rest
  /\ r \in here
  /\ UNCHANGED <<batches, day>>
  /\ Continue(c, Expecting(k, k.rest \ {r}))

\* ... or he is not ...
ReadStay(c, r) ==
  LET k == job[c] IN
  /\ k.pc = "expect" /\ r \in k.rest
  /\ r \notin here
  /\ UNCHANGED <<batches, day>>
  /\ Continue(c, [pc |-> "arrive", arriving |-> k.arriving, rest |-> k.rest \ {r}, one |-> r,
                  stale |-> k.stale])

\* ... and is expected.
ExpectArrival(c) ==
  LET k == job[c] IN
  /\ k.pc = "arrive"
  /\ expected' = [expected EXCEPT ![k.one] = IF @ < 2 THEN @ + 1 ELSE 2]
  /\ UNCHANGED <<batches, plan, ids, told, here, checkout, beds, asked, fails>>
  /\ Continue(c, Expecting(k, k.rest))

FinishBoard(c) ==
  /\ job[c].pc = "expect" /\ job[c].rest = {}
  /\ UNCHANGED <<batches, day>>
  /\ Continue(c, Idle)

-----------------------------------------------------------------------------
\* A call to the database fails: what has been written stays.
Fail(c) ==
  /\ fails < MaxFails
  /\ job[c].pc \notin {"idle", "apply"}
  /\ fails' = fails + 1
  /\ UNCHANGED <<batches, plan, ids, told, here, expected, checkout, beds, asked>>
  /\ Continue(c, Idle)

Serve(c) ==
  \/ ReadDepartures(c) \/ ReadArrivals(c) \/ ReadPlan(c)
  \/ TellChanges(c)
  \/ \E r \in Rooms : WriteRow(c, r) \/ MergeFails(c, r) \/ CreateTask(c, r)
                      \/ WriteStay(c, r) \/ SkipArrival(c, r) \/ ReadStay(c, r)
  \/ StoreTraces(c) \/ ReadPending(c) \/ LinkTask(c) \/ FinishMerge(c)
  \/ \E r \in Rooms, t \in Chosen : ReadOverride(c, r, t)
  \/ WriteOverride(c)
  \/ ReadBoard(c) \/ \E complete \in BOOLEAN : WriteBoard(c, complete)
  \/ ClearArrivals(c) \/ ExpectArrival(c) \/ FinishBoard(c) \/ Fail(c)

DayNext == (ImportNext /\ UNCHANGED day) \/ \E c \in Clerks : Serve(c)

DaySpec == DayInit /\ [][DayNext]_all

-----------------------------------------------------------------------------
(***************************************************************************)
(* Properties.                                                             *)
(***************************************************************************)

\* A merge that nothing has overtaken leaves exactly what the lists say, and
\* under an override remembers it; overridden or not, the row names the stay that arrives
\* where the lists have one.
PlanFollowsLists ==
  [][\A c \in Clerks :
       job[c].pc = "rows" /\ job'[c].pc = "pending" /\ "plan" \notin job[c].stale =>
         \A r \in Rooms :
           LET t == job[c].new[r] IN
           IF plan[r] = None THEN t = None
           ELSE /\ IF plan[r].overridden THEN t \in {None, plan[r].derived} ELSE t = plan[r].type
                /\ t # None => plan[r].arriving = (t \in Arrives)]_all

\* mergeDay: what a supervisor has overridden stays, unless the merge had read the
\* plan before.
OverrideStays(r) ==
  Overridden(plan[r]) /\ ~(Overridden(plan'[r]) /\ plan'[r].type = plan[r].type)
  => \E c \in Clerks : \/ job[c].pc = "override"
                       \/ job[c].pc = "rows" /\ "plan" \in job[c].stale

\* "betroffene Zimmer bekommen nur einen Hinweis": a merge changes the type of an
\* assigned room, or takes it out of the plan, only after somebody was told.
AssignedTold(c, r) ==
  /\ job[c].pc = "rows" /\ "plan" \notin job[c].stale
  /\ plan[r] # None /\ ~Overridden(plan[r])
  /\ plan'[r] = None \/ plan'[r].type # plan[r].type
  /\ job'[c].pc = "rows" /\ job'[c].rest # job[c].rest
  => <<r, job[c].new[r]>> \in told

\* What a merge may not do to people: overrule a supervisor, or surprise an attendant.
MergeRespects ==
  [][/\ \A r \in Rooms : OverrideStays(r)
     /\ \A c \in Clerks, r \in Assigned : AssignedTold(c, r)]_all

\* A trace has one task.
OneBedTask(c) ==
  job[c].pc = "task" /\ job'[c].pc = "link" /\ "beds" \notin job[c].stale /\ fails = 0 =>
    beds'[job'[c].one].tasks = 1

\* An application to the board leaves one expected arrival where the plan names a stay that
\* arrives, whatever type a supervisor has chosen, and the guest is not in the house.
ArrivalsOnce(c) ==
  job[c].pc = "expect" /\ job'[c].pc = "idle" /\ fails' = fails =>
    /\ "board" \notin job[c].stale =>
         \A r \in Rooms : expected[r] = IF r \in job[c].arriving \ here THEN 1 ELSE 0
    /\ "plan" \notin job[c].stale => job[c].arriving = Arriving

\* mergeDay, "Idempotent": what merges and applications create is there once, however often they
\* are repeated, unless two of them overlapped or one died between.
CreatedOnce == [][\A c \in Clerks : OneBedTask(c) /\ ArrivalsOnce(c)]_all
=============================================================================
