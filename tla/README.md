# StayClean in TLA+

StayClean coordinates housekeeping in one hotel: attendants clean rooms, supervisors
inspect and release them, engineering handles defects, the front office waits for
rooms, and guests ask for things on a screen in the room. It is a Next.js server in one
process (`src/server.js`, `src/src/app/api`) over a relational database reached through
Prisma, with a browser client that goes on working while it is offline.

The server has no threads, but it is concurrent all the same: **every database call is
an `await`**, and between two of them the handlers of other requests run. Most handlers
read a row, decide on it, and write it later in another call. Almost everything that is
hard in this code comes from there, and the specifications are built around it: a
database call, or a transaction, is one step, and what a handler has read is kept in the
record of its call until it is used.

## 1. Inventory

Paths are under `src/src/`. The status is that of `PROJECT.json`; "partly" means that some
operation is left out, named in section 6.

| Component | Code | State | Operations | What is hard | Status |
|---|---|---|---|---|---|
| Room status | `lib/stateMachine.ts`, `lib/rooms/applyStatusChange.ts`, `api/rooms/[id]/status`, `api/rooms/bulk-status` | `Room.status` with reason, note, end; `AuditLog`; `User.currentRoomId` | change one room, change many | read-check-write over several awaits; announcements after the write | modelled, proved |
| PMS connector | `lib/pms/*` | none of its own | push "INSPECTED" | a push that is never made | partly: the push is a step of `RoomStatus` |
| Offline queue | `lib/offline/actionQueue.ts`, `components/useOfflineQueue.ts`, `app/attendant/view.tsx` | the stored list, the flushing flag, requests in flight | tap, flush, reload | storage written back after an await; retries; answers that get lost | partly (one tab), proved |
| Work orders | `lib/rooms/reportDefect.ts`, `api/workorders/[id]` | `Defect`, `WorkOrder` with status, assignee, stamps | report, advance | stale rows written back; announcements lost half-way | modelled, proved |
| Assignment and routes | `lib/rooms/moveRoomBetweenAttendants.ts`, `api/rooms/reorder`, `api/rooms/[id]/assign`, `api/assignments/*`, `lib/assignment/*`, `components/PlanningFloorPlanPanel.tsx`, `app/floor-plan/view.tsx` | `Room.assignedToId`, `Room.routeOrder` | move, assign, reorder, plan the morning, apply a plan; tap and select on the floor plan | lists read before the transaction that renumbers them; rooms that do not divide evenly; taps shown before they are answered, loads that overtake each other | partly, proved |
| Auto-planning | `lib/autoplan/*` | `AutoPlanProposal`, `RedistributionSuggestion`, `User.absentDate` | propose, confirm, check, decide, absent, back | check and write in different transactions; duplicates; decisions carried out room by room | partly, proved |
| Import | `lib/import/store.ts`, `components/planung/useImportSession.ts` | `ImportBatch`, `ImportRow`; the files on the page | store, apply, reject, purge; read, discard, apply all | apply against apply and against reject; a file hidden behind a newer one | partly, proved |
| Day plan | `lib/dayplan/merge.ts`, `derive.ts` | `DayRoomPlan`, `Arrival`, traces and tasks | merge, override, apply to the board | a merge over overrides, other merges and its own failure | partly, proved |
| Guest requests, DND | `lib/guestActions.ts`, `lib/guestStatusFeed.ts`, `components/guest/useGuestStatusFeed.ts`, `api/guest-requests/[id]` | `GuestRequest`; queue and tile of the phone | tap, lift, answer, poll, replay | several open requests; polls that overtake each other; replays | partly, proved but for liveness |
| Guest data purge | `lib/guestDataPurge.ts`, `server.js` | `PurgeRun`, the guest data in many tables | tick, manual run | overlap of runs, writes during a run, failures told and swallowed, crashes | partly, proved |
| Escalations | `lib/escalations.ts` | `Notification` keys | tick | check-then-create; keys that suppress a later warning | partly, proved |
| Rate limit | `lib/guestRateLimit.ts` | windows in memory | consume | the limit as a boundary; a time taken before an await | modelled, proved |
| Priority engine | `lib/priority/computePriority.ts` | none | compute | a sum that decides who is put off | partly, proved with the morning plan |
| Planning page | `app/supervisor/planning/view.tsx` | team, figures, the proposal shown | set, ask again, move a room, apply | two timers and answers that come late; a handler sees what was drawn | partly, proved |
| Team and floors | `lib/planung/teamData.ts`, `lib/users/assignFloors.ts`, `components/planung/usePlanungFlow.ts` | `Setting planningTeam`, `User.absentDate`, `User.assignedFloors` | load, choose, save | a page loaded long ago writes every row; rows one by one | partly, proved |
| Open boards | `app/attendant/view.tsx`, `app/supervisor/view.tsx` | what the page shows | load, event, tap | events, answers and loads that overtake each other | partly (one room) |
| Arrivals | `api/arrivals` | `Arrival` | create, change, remove | an arrival that comes or goes during a release | environment of three modules |
| Sessions and roles | `lib/auth.ts`, `lib/rbac.ts` | the cookie | log in, require a role | nothing stateful beyond the role | the role checks are guards |
| Tasks, notes, handover | `lib/handover`, `lib/rooms`, `api/roomtasks` | single rows | create, mark | no two of them decide on each other | the tasks of a merge only |
| Import parsers | `lib/import/parsers.ts`, `parseCommon.ts`, `dates.ts`, `readFile.ts` | the rows and findings of a list while it is read | read a line, end the list, confirm a reading of its dates | one format for all dates, settled at the end; lines that pass for others; pages that are missing | partly, proved |
| Lists, planning hub | `lib/lists`, `lib/planung/model.ts` | none | group, render | - | not modelled |

How they interact: the offline queue sends status changes, which read the DND requests and
tell arrivals and PMS and reach the open boards as events; a defect report makes a work
order, whose resolution tells the supervisor that the room may resume; morning plan, moves
and auto-planner all write `assignedToId` and `routeOrder`; an applied import feeds the day
plan, whose merge tells of changes in rooms already assigned; the purge takes the rows of
imports and what guests wrote; the escalations look at all of it.

What makes each component correct:

- *Room status*: only legal moves by roles that may make them; reason, note and end fit
  the status; DND respected; each release reaches PMS and front office; a bulk report is true.
- *Offline queue*: no tap lost, none sent again after an answer, order kept, the queue drains.
- *Work orders*: forward only; stamps tell the story of the status; no stolen claims;
  engineering hears of each report and the supervisor of each resolution, once.
- *Assignment*: no two rooms of a route in one place; a move keeps the order of the rest; a
  request touches no route but its own; those concerned are told; a morning plan drops no room;
  a floor plan comes to show with whom each room is.
- *Auto-planning*: one confirmed plan a day; rooms begun stay with who began them; what was
  rejected does not come back; an absence leaves no room without an answer that somebody may take; a proposal keeps
  the levels and the fixed rooms, and a search never ends worse than it began.
- *Import and day plan*: one applied list per type; the plan says what the lists say; an
  override survives a merge; who has a changed room is told; arrivals and bed tasks once.
- *Parsers*: a row is a line as it was printed; a line that is no row is accounted for; of two
  readings of the dates none is taken that the list was not printed in.
- *Guest requests*: no tap disappears silently; lifting DND lifts the one shown; the page
  comes to show what is active.
- *Purge*: an OK run has deleted what was there, but for what it has left without a word; runs do
  not overlap; each evening's data go in the end, whatever fails aloud.
- *Planning page, team, floors*: the proposal shown is one for the team and the figures shown;
  a room moved by hand is neither lost nor doubled; a save leaves what was chosen on the page
  and calls nobody back whom nobody has chosen; a list shown as applied is the one applied.
- *Escalations, limit, boards*: each thing told once and none forgotten; exactly the limit
  in any window; a board catches up with the room, also behind a plan.

## 2. Modules

| Module | Models | Extends / used by |
|---|---|---|
| `StateMachine` | roles, statuses, the legal transitions, the role matrix, `CheckTransition` | used by the next two |
| `RoomBoard` | *abstract*: the board with a change as one indivisible step, and a PMS that is told once per release | implemented by `RoomStatus` |
| `RoomStatus`, `MCRoomStatus` | `applyStatusChange` and its two routes, with guests, front office and plans around it | `RoomStatusProofs` |
| `OfflineQueue` | the client's queue | `OfflineQueueProofs` |
| `WorkOrder`, `MCWorkOrder` | reporting and advancing of defects' orders | `WorkOrderProofs` |
| `Assignment`, `MCAssignment` | routes under moves, assignments, reorders and plans | `AutoPlan`, `FloorPanel`, `AutoPlanProofs` |
| `FloorPanel` | the two pages that assign rooms on the floor plan, over the routes of `Assignment` | `MCAssignment`, `AutoPlanProofs` |
| `AutoPlan`, `MCAutoPlan` | the plan of the day and its redistribution, over the routes of `Assignment` | `AutoPlanProofs` |
| `Proposal` | the search for a proposal | `HouseProofs`, `MCHouse` |
| `PlanCost` | the costs it minimises | instantiated by `MCHouse` |
| `Priority`, `MorningPlan` | urgency of a room; the plan of the morning, which uses it | `HouseProofs`, `MCHouse` |
| `ImportBatch` | the lists of the import | `ImportProofs`, `DayPlan`, `ListSession` |
| `ListSession` | the page that reads files and applies their lists, over `ImportBatch` | `ImportProofs`, `MCHouse` |
| `PlanningDesk` | the planning page: inputs, timers, requests, moved rooms | `HouseProofs`, `MCHouse` |
| `PlanSteps` | the steps team and floors of the planning tool | `HouseProofs`, `MCHouse` |
| `DayPlan`, `MCDayPlan` | merge, override and application to the board, over the lists of `ImportBatch` | `ImportProofs` |
| `ListReader` | the reading of a printed list, line by line | `MCDayPlan`, `ImportProofs` |
| `GuestRequests` | requests of a room's guests, their phone, the supervisor's answers | `GuestProofs` |
| `Purge` | the nightly deletion | `PurgeProofs` |
| `LiveBoard` | a room on an open board | `MCClient` |
| `Escalations`, `RateLimit` | the escalation tick; the throttle | `HouseProofs`; `GuestProofs`; `MCHouse` |
| `MCClient` | the queue and an open board in one run | - |
| `MCHouse` | puts seven parts that share no state into one run | - |

Throughout, payloads (reasons, notes, times of day, texts) are identities, and some variables
are **observations**: they restrict nothing and are there for the properties to say *when*
something may happen. The most frequent is a mark on a call that somebody else has written
what it has read (`marks`, `stale`, `over`, `hasty`): "overtaken" below. A property of the form
"X, unless the call was overtaken" says that the code's own checks are right and that the gap
between check and write is the one way around them.

### RoomStatus

`board[r]` is the row of a room as far as a status change reads or writes it. `call[c]` is
a request in service; its `pc` says which database call comes next: `next` (`Read`, which
also does the transition check, lines 46-64), `dnd` (the query at 73), `deny` (the audit
entry of a refusal), `write` (the update at 109), `audit`, `locate` (`currentRoomId`),
`push` (PMS), `find` (waiting arrivals), `notify` (one after the other). A bulk request is
the same with more rooms in `todo`; the route removes duplicate ids, so a batch is a set.
`Abort` is an exception in any of these calls: what has been written stays written. `RaiseDnd`,
`CloseDnd`, `Expect`, `Withdraw` and `ApplyPlan` are what others write into the tables the
handler reads. `marks` and `owed` are observations: `"stale"` says another call wrote the room
after this one read it, `"dndLate"` that DND was raised after the handler looked.

### OfflineQueue

A tap is its number in the order of tapping. `store` is the list in localStorage, `flush` a
flush in progress with its copy of the list, `direct` the request of a tap sent at once.
A request is `out`, then `served` (the server has processed it), then answered; it can fail in
both phases, since a lost answer looks like a lost request. `flush` writes its copy back after
each answer: a tap enqueued while it waits is overwritten, which the variable `late` records;
`gone` records direct requests cut off by a reload.

### WorkOrder

`order[o]` is the row; `Report` creates defect and order, `AuditReport` and `Route` follow.
`ReadOrder` is the PATCH up to its checks and keeps the row and the time; `WriteOrder` writes
the new status with assignee and stamps computed from *that* row, as the code does;
`AuditOrder` and `TellResolved` follow.

### Assignment

`who` and `place` are the two columns. A move reads the room, then both routes (in either
order, they are queried in parallel), then writes all in one transaction; ties and absent
places leave the order of the list open, as in the database. A reorder checks the owner and
writes by id. An assignment reads the former attendant and writes; it keeps the place. A plan
is one transaction. `untidy` names routes in which places may clash through what is written,
`stale` the overtaken calls.

### AutoPlan

`proposals` and `suggestions` are the two tables, as sequences, so that a row keeps its
number; what a check has found is a set, stored in any order. A supervisor's request is `desk[c]`: `Propose`, `RetireDrafts`, `StoreDraft` is one
request; `ReadDraft`, `CommitConfirm`, and the moves of `MarkConfirmed` another; `CheckLoad`,
`CheckCompare`, `Supersede`, `Create` the check of the situation; `ReadSuggestion`, then
`Reject` or one move after the other (`Turn`) and the last `Decide`. A move made for a
suggestion is a call of `Assignment` under the same name, so that its own races are in it.
`Start(r)` is an attendant who begins a room at any time. Who may take which room is settled for
the day (`Eligible`: a `Demanding` room asks for somebody `Skilled`, `cost.ts:46`). A room nobody
present may take is open in a placement and left out of a suggestion, which the code notes as
`NO_ELIGIBLE`, and a suggestion that moves nothing is none (`Takeable`, `Placements`). What the
solver would prefer among legal placements is open: any of them may be proposed. `SetAbsent` and `SetBack` with
`Withdraw` are the absences; `Fail` is a request that dies between two of its calls.

### FloorPanel

`grid` is what a page shows, `posted` its requests on the way, `serving[c]` the one that call
`c` of `Assignment` serves; the calls that serve none are other people's. The panel of the planning
page (`page = "panel"`) shows a tap at once and posts it, with any number of taps under way, and
lists in `session` the rooms tapped for the attendant of the round; a failure leaves an error,
and nothing else is shown until the panel is opened again. The floor-plan page (`"map"`) posts a
selection room by room (`batch`), says whether all went well (`notice`) and loads without waiting
for it: a load is asked for (`Reload`), served (`ServeLoad`) and shown (`ShowRooms`) in steps of
its own, so that a second batch may come between, two loads may overtake each other and one may
fail (`LoadFails`), which leaves nothing but an error. Of the two fetches of a load the second, the
rooms, is what is read; the first is the drawing, which nothing changes, and either may fail.
Both pages begin with their first load shown. `unsure`, `late` and `outdated` are observations:
rooms that others wrote, or whose requests have crossed; loads that a later one has overtaken;
that the page shows an older answer than before.

### Proposal, PlanCost

The search state is that of `propose.ts`: a start that places rooms one by one, passes of
moves and swaps, a second start by blocks, rounds of disturbance. One iteration of a loop is
one step, and the deadline may come whenever the code looks at the clock. The pseudo-random
numbers, block sizes and the clock are open. Cost is a constant operator: the proofs are for any
cost, the run takes `PlanCost`, the function of `cost.ts` with its fractions multiplied out.

### MorningPlan, Priority

`Priority!Score` is the sum of signals of `computePriority.ts`. `Ask`, `Classify`, `Defer`,
`Cut` and `CutDone`, `Choose` and `HandOut` are the stages of `POST /api/assignments/plan` and
`planAssignments.ts`: which rooms are departures, which are put off, rounds of neighbouring rooms,
the round of each attendant by her usual section, who gets which of the rest. What is sorted is
a function from ranks (`Ordered`), without recursion.
The target of a round is the fraction the code computes, kept as a pair.

### ImportBatch, DayPlan

An application is `ReadApply`, which looks at status and issues, and `CommitApply`, the
transaction; `RejectBatch` and `PurgeRows` are single writes. A merge reads departures,
arrivals, the plan; tells of changes; writes row by row by the id it has read (`WriteRow`; a
row that is gone, or that somebody else has created, ends it: `MergeFails`); then stores the
traces and gives each a task, which it creates first and links second. Before the plan it writes
the stays (`WriteStay`), of which one thing is kept: whether the guest who arrives is in the house
already (`here`). `ReadOverride` and `WriteOverride` are the supervisor's; `ReadBoard`,
`WriteBoard`, `ClearArrivals` bring the plan to the board, then room by room `ReadStay` and
`ExpectArrival`, or `SkipArrival` for a guest in the house. Which rooms expect somebody is told by
`arriving` (`arrivingStayId`) and by the stay, and not by the cleaning type: an override changes the
type and leaves the arrival, and a merge writes `arriving` under an override as well. An
overridden row whose room is in no list any more is left as it is, so that its arrival
still comes to the board; the code does the same. Of a list who leaves, stays and
arrives, who of those is in the house and who wants a bed is kept: nothing else decides a
cleaning type or an arrival.

### ListReader

A list is made up while it is read: each step prints the next line and reads it as the loop of its
parser does. A line carries its kind, its dates and, as `harm`, which of its cells did not come
through (the room number, the dates, the counts, or a date that does not exist); where the lines
stand among characters is left out. `raws` are the rows with their dates not yet understood, `cur`
the row that the next detail belongs to, `sums` what the rows of a departures group add up to.
`TurnPage` ends a page; the second of a file may be missing. `EndOfList` is `parseList`:
`ResolveDateFormat` takes the format that all dates and the forecast's weekdays allow, the
print date deciding between two, and `Rows` and `Findings` are what is returned. `Confirm` is the
supervisor's answer to an ambiguous list, which is read once more. A date is a month and a day of
a small calendar, so that some are valid in both formats and some in one.

### ListSession

`items` are the files of a page: read, recognised, found critical or not, discarded, applied. The
page shows the newest file of a type (`Shown`); the older ones stay in the list, and `ApplyAll`
takes every list that was read, as `useImportSession.ts:129` does. `sending[c]` is one
`applyOne`: it stores a batch, and applies or rejects it through the actions of `ImportBatch`.
The server ends what it has begun although the page no longer waits (`EndApply`).

### PlanningDesk

`onShift` and `figures` are the inputs, `plan` the proposal shown, `pending` the requests not
answered; `seq` is `requestSeq`; `timers` are the recalculations that wait, each with the inputs
of before it was set. An action that sends takes from the drawing what it is not
given, and a timer keeps what was drawn when it was started (`who`, `figs`), as a closure does:
`last` records whether that was still what is set. `moving` is the open dialog, which knows the
proposal it was opened on only by the room and the attendant in it.

### PlanSteps

`page[p]` is a page with what it loaded and what is chosen on it; `save[p]` its save, which
reads the users once (`ReadStaff`, `ReadSups`) and writes the rows that differ one by one
(`WriteStaff`, `WriteFloors`). `CallInSick` (sick, or back) and `GiveFloors` are the other writers
of these rows; `sick` and `over` are observations.

### GuestRequests

`requests` is the table of one room, `call[p][s]` the request in flight of phone `p`, by a tap or
by the replay; `queue[p]` and `copy[p]` are those of the offline queue, which this page shares
with the attendant's. `Ask` is access, rate and insert; `ReadActive` and `Lift` are the two
calls of cancelling; `Patch` is any supervisor at any time. `Poll` reads what the feed shows,
`Deliver` may bring answers in any order. DND, one other kind and cancelling stand for the
actions; the others differ in wording.

### Purge

`data[p]` is the set of times at which the rows of part `p` were written. Parts stand for the
categories, deleted call by call, in any order of three among them: `Notes` of the guest account,
which stay when it is not found or looking for it fails (79); `Protocol`, whose texts go row by
row; and `Photos`, for the retention, which takes only what is older than its days (`Kept`; closed
requests and notes that are done go by the same rule). `Wake` is the ticker, `PressButton` the duty
manager; `Look` and `Create` are the two calls that are meant to keep runs apart. Three things may
become of a call that fails: the run ends as ERROR (`Fail`, also after an OK, when it is the audit
entry, which is inside the `try`); it stays RUNNING, when recording the error fails as well (118);
or nobody hears of it (`Swallow`, 56 and 99, and `MissAccount`): the part keeps what it has not
come to, the run goes on and ends OK. `skip` remembers which parts a run has left that way.

### LiveBoard, Escalations, RateLimit

`LiveBoard` has one room and one page; a version number stands for its row. A write is broadcast
some time later (`unsent`, `wire`): as `room:update`, or, if a plan wrote the room (`ApplyPlan`), as
`assignments:applied`, which the supervisor's board takes as a reason to load and the attendant's
does not hear (`DeliverPlan`). Loads read when served and show when answered, `timer` is
the coalescing of `useCoalescedRefetch`. `missed` records an event, load or answer lost or
overtaken for good. `Escalations` has two runs that may overlap; each finds its notes, and looks
for the key of one before it creates it; `told` is the table. `RateLimit` has one window (`hits`,
positions in the list of all that was accepted) and calls that have taken their time (`asked`) and
wait for the settings.

## 3. Runs

| Run | Shows | Instance |
|---|---|---|
| `room_status_race` | details fit the status; illegal moves, lost notes and starts under DND come from lost races and from nothing else | 1 room, 2 calls, attendant and supervisor, 5 target statuses, 1 DND |
| `room_status_bulk` | true reports, chained audit trail, refinement of `RoomBoard` | 2 rooms, 2 batches of up to 2, never on one room at once |
| `room_status_release` | every request answered, every release announced (liveness) | 1 room, 1 arrival, 1 handler that dies |
| `open_pages` | taps kept, ordered, not resent; every tap is settled, an open board catches up, an attendant's but for a plan that wrote last (liveness) | 4 taps, 2 reloads; 3 writes, 1 mishap |
| `offline_queue_lost` | **violation**: a tap stored during a flush is overwritten | 3 taps |
| `work_order_race` | stamps, claims, announcements, forward moves under races; reports routed (liveness) | 1 order, 2 calls, 4 users, 2 time steps, 1 dying handler |
| `assignment_race` | places, order, foreign routes and notices, up to the races named; the pages over the floor plan come to show what is, up to failures, overtaking loads and what they are not told | 3 rooms, 2 attendants, 2 calls, 4 operations; under the pages 2 of the rooms, 2 taps or loads on their way, 3 assignments (theirs and those of others together) on the panel, 2 on the map |
| `autoplan_day` | plans and redistributions disturb begun rooms, decisions and each other only when overtaken | 2 rooms, one of them for one attendant only, 2 attendants, 3 requests, two at a time, or 2 of which one dies |
| `purge_night` | OK means purged, but for what was swallowed; runs overlap only through the two gaps, evening's data go (liveness) | ticker and manager, 3 parts, one of each kind, 1 row at a time, 1 failure before the crash, 1 crash |
| `import_day` | plan follows lists, overrides stay, arrivals and bed tasks once, but for what was overtaken; a printed list is read as it was printed | 2 list types, 3 batches, 2 rooms (one assigned), 2 requests, 1 that dies; lists of all 5 types of up to 3 lines and 3 pages, 1 line of them harmed |
| `guest_day` | no tap disappears but behind a replay, lifting closes what was shown, the page catches up (liveness) | 1 phone, 3 taps, 4 events |
| `house_rules` | seven parts that share no state, in one run: search, morning plan, escalations, throttle, planning page, team and floors, applied lists | see below |

`house_rules` is one run for seven specifications, `open_pages`, `assignment_race` and `import_day`
for two: a behaviour is one of a single part, chosen in the initial state, and the others stand still. Nothing about their
interaction is claimed; there is none. The instances of `house_rules`: 4 rooms and 2 housekeepers
with every level, demanding and fixed room; 4 rooms for teams of 0 to 3; 2 ticks in 4 time steps;
2 callers at a limit of 2 in a window of 2; 2 attendants, 2 rooms, 3 inputs and 1 error on a planning
page; 2 pages over 2 housekeepers, 2 supervisors and a floor, in 6 steps; 3 files of 2 types with
2 presses, discards or failures.

Why the bounds suffice. Every race in these handlers is between one call that has read and one
that writes: two calls on one object show all of them, and a third only repeats what the second
does (the proofs do away with this bound for every property but those of section 4's last paragraph). `RaceTargets` has the working cycle, rework, and
statuses with a reason and an end, so each column has a status that sets it and several that clear
it; releases are in the other two runs. The queue needs three taps to lose one (one in the flush,
one behind, one direct), four leave room for a second flush. Three rooms make a route in which a
room in the middle can leave; four operations allow two requests, a plan that moves what they have
read, and one more. Two rooms let a plan or a suggestion be half carried out. Three requests about
the plan allow a draft, its confirmation and a check or a rival; one attendant and one room without
a match make every kind of placement: both rooms, one of them, none. In the purge, one evening after
an earlier run is what catching up is about, and the clock reaches the point at which a dead run
no longer holds others back; one row at a time is enough to be written before, during and after a
run, each part has the rows the others have not, and a failure after a crash meets a fresh server
as one before it does. The import begins with a plan or without one and a guest who has not come;
later lists may have him in the house. The
assignment of a second batch, between its load and that of the first, is what lets the map show an
older answer; a third assignment makes its states too many. Three batches are two of one list and one of the other, or a replaced
one twice. A feed of two with three taps has a request the page no longer sees. Three inputs are
one to start a timer, one of the other kind before it fires, and a move; six steps are two loaded
pages, two saves and what comes between them; three files have one hidden behind a newer one of
its type. Three lines are a guest, another whose line is harmed, and a detail, or a group's row, a
row that is lost and a total; two months of three days have a date that is another in the other
format, and one that is none. Two taps on their way cross on one room. Two full windows of the
throttle fit in its clock. Every bound is a constant and a guard
(`MaxBatch`, `MaxDnd`, `MaxAborts`, `MaxTaps`, `MaxReloads`, `MaxTime`, `MaxOps`, `MaxAsked`,
`MaxBatches`, `MaxEvents`, `MaxWrites`, `MaxMishaps`, `MaxTicks`, `MaxClock`, `MaxManual`,
`MaxFails`, `MaxCrashes`, `MaxStock`, `MaxInputs`, `MaxErrors`, `MaxSteps`, `MaxMoves`, `MaxPosts`, `MaxLines`,
`MaxHarms`). `Targets`, `ContentOf`, `Inputs`, `Houses`, `Numbers`, `Papers`, `PrintDates` and `Stays`
bound inputs; `Months`, `Days` and `Week` are the calendar.

`CHECK_DEADLOCK FALSE` is set where the bounded day really ends: all taps made, orders
resolved, operations used up, lists decided.

Symmetry is used only in runs without liveness, and in `autoplan_day` among requests only, since
rooms and attendants differ in who may take what; in `house_rules`, where one part moves, the pairs of
runs, requests, pages and callers are swapped together.

### Fairness

- *Handlers* (`RoomStatus`, `WorkOrder`): weak fairness of `HandlerStep(c)`. The event loop
  resumes a handler whose database call has returned. A call that fails is `Abort`, which is
  never assumed to happen.
- *Queue*: the interval in `useOfflineQueue` fires as long as something is stored (weak
  fairness of `StartFlush`); a request ends one way or the other (weak); the connection
  returns often enough that a replay tried again and again arrives and is answered (strong,
  since a failure in between disables it).
- *Guest page*: it polls as long as it is open, the answers and the replay come (weak). Lost calls
  are bounded.
- *Purge*: time passes, `setInterval` wakes the ticker, and a run goes on (weak). Failures and
  crashes are bounded, and a crash needs enough time left for the window to pass.
- *Open board*: an event written is broadcast and delivered, a scheduled load is made, served and
  shown, a tap is answered (weak). No new change, no reconnection is assumed.

## 4. Proofs

All proofs are for any number of rooms, calls, users, taps, orders, parts, batches,
housekeepers, phones, pages, files, runs and callers, for any list of lines on any number of
pages, and need only the named assumptions of the modules: roles of users are roles, the absent
value is no other value, intervals are at least one step, bounds are natural numbers. Every
invariant and every action property that a passing run checks is stated by a theorem.

**`RoomStatusProofs`.** `IInv` is `TypeOK`, `DetailsMatchStatus` and, for every call,
`CallInv`: what a call has established before it writes. It holds the room it works on, its
input is complete, the status it read admits the wanted one for its role, its note is the one
on the board unless it is stale, and DND was off unless marked late. `DetailsMatchStatus`
alone is not inductive: that a room becomes BLOCKED *with* a reason rests on the completeness
that the call checked two steps before. From `IInv` follow `TypeCorrect`, `DetailsFit`,
`RoomSafe`, `RolesEnforced`, `LegalMoves`, `NotesSurvive` and `DndHonoured`, the last four by
way of one lemma that says who writes a room (`WriterOfRoom`) and one that says what the writer
has checked (`WriterChecked`).

**Refinement**, in `RoomStatusProofs` as well. However many calls are on one room, every step of
`RoomStatus` is a step or a stutter of `RoomBoard` (`Refinement`), but for one kind: the `Write` or
`Push` of a call that was overtaken on its room since it read it. `Write` maps to `Change`, `Push`
to `TellPMS`, the rest stutters. It needs `ReleaseInv` on top: a call about to tell the PMS that
nobody has overtaken is on a room that is still released. The exception is the race itself: a
status written over a newer one is no change the abstract board can make. A corollary
(`RefinementAlone`) is that without it (`Exclusive`: two calls are never on one room) the handlers
implement the board, which is what `room_status_bulk` checks; its `Apart` says that nothing a call
has read goes stale then. The same module proves `BatchesTrue`: what a bulk request was asked splits at every step into what is to be
done, what has succeeded, what has failed and the room in hand (`RInv`, with and without
`Exclusive`), and, under `Exclusive` and if no handler dies, the last audit entry of a room names
the status it has (`TInv`, which rests on `Apart`).

**`OfflineQueueProofs`.** `IInv` joins six facts to the type: a waiting flush's copy is the front
of the store and what is behind it came late, the store is ascending, nothing stored is
answered, a tap in flight is newer than what is stored and replayed, every tap is accounted
for, and replay does not overtake. From it: `TypeCorrect`, `NoOtherLoss` (`TapsKept`, which is part of `QueueInv`),
`StoreOrdered`, `ReplayOrdered`, `NoResend`, `CopySafe`, and `QueueSafe`, which joins the last four.

**`WorkOrderProofs`.** `IInv` is `StampsMatchStatus`, that no stamp is in the future
(`StampedBy`), that an order that does not exist is nobody's, and for every call `Holds`: the row it
keeps was itself well stamped when read. That is why writing back a stale row still leaves a
coherent one, if an older. From it: `TypeCorrect`, `StampsSound`, `MovesForward`,
`ClaimsSafe`. `OrdersSound` adds the announcements: each resolution is told once and by the
call that made it, which needs to know which calls are resolving (`Resolving`).

**`PurgeProofs`.** The invariant says what a run has behind it: the parts it has passed and not
left out without a word hold nothing older than its start, and no photo that was past the retention
when the run was asked for (`Passed`), a run belongs to one call and is RUNNING until that call
ends it (`Own`), and a call about to create its run has seen every run under way but those
recorded after it looked or too old to count (`Seen`). `OkIsPurged` follows from the first,
`RunsApart` from the last. `Past` closes the gap between them: a run starts in the past, and a
call that is not active begins with the first part.

**`AutoPlanProofs`.** `OnePlan`: a confirmation does not look at its draft a second time, so what
the other requests do could matter; the proof shows that it does not, because only the confirming
transaction makes a plan CONFIRMED and it takes down whatever is confirmed by then. `RoutesSound`:
no route has a place twice, but those written in a way that leaves them `untidy`. Its invariant
`RInv` adds to the routes what a call knows of them (`Holds`): as long as nobody has overtaken it
(`Knows`), the list it will renumber is the route of the attendant without the room that leaves,
and the place it will give is above every place of the target. The latter needs that a finite set
of places has a largest one (`Largest`), which the proof takes from strict inclusion being
well-founded on finite sets: the place above which least is. A call that was overtaken marks the
routes it writes, so that nothing has to be known of it.

`MovesSound` (what a move keeps and whom it tells) follows from the same invariant.

`BegunSafe` and `DecisionsSafe` rest on what a request has read of the suggestions and
the board. Their invariant `DInv` says of every request that as long as nobody wrote the
suggestions since, what it read of them is true and what it has found equals none that is open or
was rejected (`Looks`); that what it has found differs from one another (`Differ`); and that the
room it is about to take had not begun when it looked (`Takes`). `AbsenceSafe` adds that a check
nobody has overtaken has every unbegun room of whoever is absent that somebody present may take in
what it has found, or in a suggestion that it leaves alone (`Answers`, in `CInv`).

`PanelSafe` is about the pages over the floor plan, joined with `RInv`. The page is right because
no two of its requests are under way for one room without its being marked (`Alone`), a
request served is one the page has sent (`ServesPost`), and what it will make of its room is what
the page shows (`PanelPart`, `MapPart`). For the map this has to be said of every load under way as well:
what the newest has read, or will read, is what the page comes to show.

**`ImportProofs`.** `OneListAtATime`: an application writes what it has checked some time ago. It
is saved by two things, that the issues of a batch never change after it was stored (`Checked`)
and that each application takes down whatever is applied by then.

`ShownSafe`: what the page shows as applied is what is applied. `SInv` ties a request of the page
to its batch (`StoredOK`) and to the server's work on it (`Linked`, `Fresh`); the heart is
`Latest`, that behind every file shown as applied stands a list that is applied, of it or of a
later one, and it needs `Alone`: of a type one file is on its way. Where that fails, and after
a failed request, it is false; hence the exceptions in the property.

`PlanFollows`, `MergesRespect` and `CreatesOnce` share `PInv`: for each job, what it has read is what
there is unless it was marked (`Fits`, by its kind of step), and a bed task that its trace does not
know of is one that a request is about to link (`TasksLinked`). That an application creates each
arrival once, though it asks for each stay and creates in calls of their own, rests on what it has
`Looked` at: of the rooms behind it those whose guest is not in the house expect one arrival, the
others none, as long as nobody wrote stays or arrivals meanwhile (`Expects`).

`ReadSound`: a list becomes what was printed. `ReaderInv` says, at every line: a row holds what its
line says, or that it did not come through (`RawsRead`); every line read is a row, or accounted for
as slipped, warned of or critical (`LinesRead`); the sum kept for a group is the number of its
lines read, so that a total that differs has been told (`TotalsTold`); and between a guest and a
detail that was given to him no other guest was read (`TracesPlaced`). The last step, from the
lines to one format for all dates, is a case distinction over `resolveDateFormat`; that the right
format always survives its sieves follows because every date that came through is printed in it.

**`HouseProofs`.** Of the search, `IInv` is the type, `Rules` (what is placed fits; what is open fits
nobody, as far as it has been placed) and `Searched` (a pass that has changed nothing so far has
shown that what it looked at cannot be improved). From it `RulesKept` and `Improves`, for any
cost function with integer values.

`DeskSound`: the proposal shown is that of the inputs shown, and no room is lost or doubled. `KInv`
needs to know that a timer will send what was set last of its kind (`TimersSend`), that
requests, plan and dialog have numbers of their own (`Numbering`), that the newest request asks
for what is set (`Sent`), what a plan looks like (`PlanShape`), and that a dialog is still about
the list it was opened on or will be turned away (`DialogHolds`).

`StepsSound`: a save leaves what was chosen. A page and its save are looked at one pair at a time
(`PageOK`), with a lemma (`Onlooker`) that other pages leave the pair alone or mark it.

`EscalationsSound`: what a run finds due is told when it ends, once. By `EscInv` what a run has
found is told or still to be told as long as it is due (`RunOK`), and what was told twice was told
first by a run that had another about to create the same (`ToldOK`).

`RoundsSound`: no room of the morning is dropped. `MInv` says at each stage which rooms were put
off (`PutOff`), that the rounds cut so far and the walk that is left hold the rest, in order
(`Walked`), and that nobody has two rounds and no round two attendants (`Chosen`); the lemma
behind it is that sorting by rank lists each element of a set once.

**`GuestProofs`.** `LimitSound`: a window keeps the calls of its span only, and a call that was
late may have dropped some that an earlier one would still count. `LInv` closes the gap with
`Enough`: of what a call that was not overtaken must count, either all is still kept, or there are
as many left as the limit allows.

`TapsSafe` and `LiftsShown`: every tap of the guest is accounted for. `GInv` says where each may
be (`Accounted`: under way, queued, a row, told to the guest, or late behind a replay) and what
calls, views and queues of a phone may hold (`CallsOK`, `ViewsOK`, `QueuesOK`).

**Only model-checked.** The six liveness properties (`AnsweredAndAnnounced`, `EveryTapSettled`,
`BoardCatchesUp`, `EveryReportRouted`, `EveningComes`, `TileCatchesUp`), which need fairness and
`ENABLED`, out of reach of the prover; `LiveBoard` has no other. `PlanCost` and `Priority` are functions
that TLC evaluates over bounded inputs: the search is proved for any cost, the morning plan
for any order of urgency.

## 5. Where the code and its words part

One has a run that shows it:

- *"stored locally and replayed once the connection returns"* (`actionQueue.ts:8`): `flush` writes
  back a copy taken before it waited; taps enqueued meanwhile are gone (`offline_queue_lost`).
The others are the exceptions that the properties name, and dropping the exception makes TLC show
each:

- *"One broadcast for the whole plan; boards refetch once instead of 145 times"*
  (`api/assignments/apply/route.ts:103`): the attendant's board has no handler for
  `assignments:applied` (`attendant/view.tsx:112`), and shows who had the rooms before until one of
  them changes (the exception of `BoardCatchesUp`). A confirmed proposal and an
  accepted suggestion are announced in the same way (`autoplan/service.ts:85`, `181`).
- *"AuditLog.meta: Freitext-Schlüssel → entfernt"* (`guestDataPurge.ts:22`): the `catch` at 56,
  whose comment speaks of rows that are no JSON, swallows a failed update as well, and the run is
  recorded as OK. A failed retention (99) is swallowed in the same way, and noted
  only in the counts; what is left waits for the next evening (the exceptions of `OkMeansPurged`
  and `EveningComes`).
- *"Illegal transitions are rejected with 409"* (`src/README.md:196`): the check is on the row
  read at `applyStatusChange.ts:46`, the update at 109 is unconditional.
- *"forward-only, enforced server-side"* (`workorders/[id]/route.ts:11`): same pattern, the row
  is read before and written at 39 and after.
- *"a stale client should not silently scramble someone else's assignment"*
  (`reorder/route.ts:18-20`): the owner is checked before the transaction and not in it.
- *"gleichzeitige Läufe werden übersprungen"* (`docs/datenschutz-loeschkonzept.md:10`): two
  requests that both look (`guestDataPurge.ts:108`) before either has created its run both run.

Further, read in the code and without a run of their own: a new tap is sent at once although
older ones are stored (`view.tsx:155`), so order is only kept within the store and within
replay; a purge that began before the evening and ended after it counts as the evening's
(`isPurgeDue` looks at the time of finishing), see `EveningComes`; a run whose error cannot be
recorded (`guestDataPurge.ts:118`) stays RUNNING for good and holds others back for ten minutes;
a room of an absent attendant that nobody present may take gets no suggestion if all of hers are
such (`service.ts:104` drops a suggestion without moves); the guard at
`planAssignments.ts:182` is stricter by one room than the comment above it; *"the supervisor's
figure never overrides a known checkout"* (`dayFigures.ts:49`) does not hold of a figure below the
number of known departures; *"a save can never leave the pair inverted"*
(`api/settings/route.ts:68`) compares with settings read before the save, so that two saves at once
can, and of a pair saved together the two are written one after the other; *"Eine neue Datei
desselben Typs ersetzt die vorherige Vorschau (die alte wird verworfen)"* (`useImportSession.ts:77`):
the older file stays behind the newer one and is sent by `applyAll` as well, and whichever is
applied last counts (the exceptions of `ShownIsApplied`); *"Explicit values, not the closured
state"* (`planning/view.tsx:146`) is true of the input that was changed, while the other one is
taken from the drawing, so that a timer may ask for a team or figures of before (the exceptions
of `DeskInv`); and a page of the planning tool that was loaded before somebody called in sick calls
them back by saving its team (`SavesAsChosen`). A tap on the floor plan is *"reverted from a fresh
fetch if the write fails"* (`PlanningFloorPlanPanel.tsx:190`), but
the error it sets is never cleared, and as long as there is one the page shows nothing but it:
what was fetched is seen when the page is opened again (`GridIsTrue` speaks of pages that have
seen no failure). *"es wird NICHT geraten"* (`dates.ts:64`): if a list names its print date and
the supervisor plans another day, the reading is chosen in which the two agree, whichever
it was printed in (the exception of `FormatIsPrinted`).

## 6. Not modelled

- *A second browser tab* with the same store: the house gives an attendant one phone with one page
  open. It is listed as a hazard of `actionQueue.ts`. Left as well: a localStorage that is full,
  which a queue of a few short actions does not make it.
- *Of the import parsers* `pdfText`, which turns the positions of characters on a page into
  columns, the detection of a list's type, names, times and duplicates in it: the difficulty is
  layout and wording, which a model would abstract away. What a line says is an input of
  `ListReader`, and what a list yields an input of `ImportBatch`.
- *The preview's findings* and corrections in it: a list is critical or not when it is stored.
- *Of `derive.ts`* hints and counts, and of the stays all but whether the guest who arrives is in the
  house: no operation decides on them. A manual stay, which an import leaves alone, occupancy and
  the date of the linen that the board is given are left.
- *Lists, planning hub, handover, translations, styles*: functions from rows to text
  and layout. They are most of the lines of this repository, and the reason why the part of it that
  is mapped here is small.
- *Views* but for what `OfflineQueue`, `GuestRequests`, `LiveBoard`, `FloorPanel`, `PlanningDesk`,
  `PlanSteps` and `ListSession` have of them: they render what they hold. Of the planning tool the last step,
  which calls merge and propose one after the other, and housemen, who are only listed.
- *Notes and tasks of the staff*: single inserts and updates by id.
- *In `Assignment`* the supervisors who are informed, daily numbers, `deferredSince`.
- *In `AutoPlan`* which placement a redistribution prefers, and the texts that explain it.
- *In `GuestRequests`* the kinds that differ in wording only, and the 24 hours after which the feed
  forgets (its limit of rows is there).
- *In `Escalations`* defects that wait, and marking as read.
- *In `Purge`* the deletion of a single stay, the hourly retention tick, key conversion, the file of a
  photo that cannot be removed from the disk (`guestDataRetention.ts:46` swallows that, and takes
  the reference away all the same).
- *Settings*: two constants of the modules that use them; the save itself has the gap named above.
- *Passwords, cookies, JWTs*: left to their libraries. The *OHIP connector* is a stub, and
  the inbound PMS handlers are registered nowhere.
- *Socket broadcasts* elsewhere than in `LiveBoard`: they carry no state, clients refetch.

## 7. What is left

1. The second tab in `OfflineQueue`: two flushes over one store.
2. The save of the settings, whose pairs of bounds may end inverted, and the shift handover.
3. The stays of `derive.ts`, compared with a reference definition over small lists.
