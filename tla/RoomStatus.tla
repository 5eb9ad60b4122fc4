----------------------------- MODULE RoomStatus -----------------------------
(***************************************************************************)
(* applyStatusChange and the two routes that call it.                      *)
(*                                                                         *)
(* The server is one process, but every database call of the handler is an *)
(* await: between two of them the handlers of other requests run.  A call  *)
(* is one request in service.  It works through its rooms one after the    *)
(* other (a single-room request has one, a bulk request several), and for  *)
(* each room reads the row, checks, writes, and then records and announces *)
(* the change, every database call being a step of its own.                *)
(***************************************************************************)
EXTENDS StateMachine, Integers, FiniteSets

CONSTANTS
  Rooms, Calls, Users, Arrivals,
  RoleOf,      \* RoleOf[u]: the role in u's session
  Payloads,    \* block reasons, rework notes and end times, by identity
  None,        \* an absent value
  Targets,     \* the statuses that requests ask for (a bound on the inputs)
  MaxBatch,    \* bound: rooms in one request
  MaxDnd,      \* bound: open "do not disturb" requests of a room
  MaxAborts,   \* bound: handlers that die half-way
  Exclusive    \* TRUE: no two calls ever work on the same room at once

ASSUME RoleAssumption == RoleOf \in [Users -> Roles]
ASSUME NoneAssumption == None \notin Payloads \cup Rooms /\ "pms" \notin Arrivals
ASSUME BoundAssumption == /\ MaxBatch \in Nat /\ MaxDnd \in Nat
                          /\ MaxAborts \in Nat /\ Exclusive \in BOOLEAN
                          /\ Targets \subseteq RoomStatuses

VARIABLES
  board,     \* the Room rows, as far as a status change reads or writes them
  deferred,  \* the rooms with deferredSince set: pushed to the next day
  dnd,       \* dnd[r]: how many guest DND requests of r are open
  waiting,   \* waiting[r]: expected arrivals of r to be announced on release
  call,      \* the requests in service
  location,  \* User.currentRoomId
  trail,     \* trail[r]: the last STATUS_CHANGE entry of the audit log for r
  owed,      \* announcements of a release not made yet (observation only)
  aborts     \* handlers that have died so far

vars == <<board, deferred, dnd, waiting, call, location, trail, owed, aborts>>

(***************************************************************************)
(* Requests.  A payload is whatever the wanted status requires: a reason   *)
(* for BLOCKED, a note for PICKUP, an end for OUT_OF_ORDER.                *)
(***************************************************************************)
NeedsPayload == {"BLOCKED", "PICKUP", "OUT_OF_ORDER"}

Inputs == {i \in [status : Targets, payload : Payloads \cup {None}] :
             i.status \notin NeedsPayload => i.payload = None}

Complete(i) == i.status \in NeedsPayload => i.payload # None

Batches == {b \in SUBSET Rooms : b # {} /\ Cardinality(b) <= MaxBatch}

NoInput == [status |-> None, payload |-> None]

\* Marks are observations: another call wrote the room ("stale"), or the guest
\* raised a DND ("dndLate"), after this call had looked.  asked and wrote are
\* kept to judge the report.
Marks == {"stale", "dndLate"}

Idle == [pc |-> "idle", user |-> None, input |-> NoInput, todo |-> {},
         cur |-> None, from |-> None, note |-> None, tell |-> {},
         succeeded |-> {}, failed |-> {}, asked |-> {}, wrote |-> {},
         marks |-> {}]

Steps == {"idle", "next", "dnd", "deny", "write", "audit", "locate", "push",
          "find", "notify"}

Role(c) == RoleOf[call[c].user]
IsAttendantStart(c) ==
  call[c].input.status = "IN_PROGRESS" /\ Role(c) = "room_attendant"

(***************************************************************************)
(* The initial board: any status, with the details that belong to it.      *)
(***************************************************************************)
Details(s, p) ==
  [status |-> s,
   blockReason |-> IF s = "BLOCKED" THEN p ELSE None,
   reworkNote |-> IF s = "PICKUP" THEN p ELSE None,
   oooUntil |-> IF s = "OUT_OF_ORDER" THEN p ELSE None]

NoEntry == [from |-> None, to |-> None]
Entry(c) == [from |-> call[c].from, to |-> call[c].input.status]

Init ==
  /\ \E s \in [Rooms -> Targets], p \in Payloads :
       board = [r \in Rooms |-> Details(s[r], p)]
  /\ deferred = {}
  /\ dnd = [r \in Rooms |-> 0]
  /\ waiting = [r \in Rooms |-> {}]
  /\ call = [c \in Calls |-> Idle]
  /\ location = [u \in Users |-> None]
  /\ trail = [r \in Rooms |-> NoEntry]
  /\ owed = {}
  /\ aborts = 0

-----------------------------------------------------------------------------
(***************************************************************************)
(* The guest, the front office and the morning plan.                       *)
(***************************************************************************)

\* handleDnd: another DND request, whatever is open already.
RaiseDnd(r) ==
  /\ dnd[r] < MaxDnd
  /\ dnd' = [dnd EXCEPT ![r] = @ + 1]
  /\ call' = [c \in Calls |->
                IF call[c].cur = r THEN [call[c] EXCEPT !.marks = @ \cup {"dndLate"}]
                ELSE call[c]]
  /\ UNCHANGED <<board, deferred, waiting, location, trail, owed, aborts>>

\* One open request is cancelled by the guest or closed by a supervisor.
CloseDnd(r) ==
  /\ dnd[r] > 0
  /\ dnd' = [dnd EXCEPT ![r] = @ - 1]
  /\ UNCHANGED <<board, deferred, waiting, call, location, trail, owed, aborts>>

\* An arrival is created (notifyOnRelease is its default) or set EXPECTED again.
Expect(r, a) ==
  /\ \A s \in Rooms : a \notin waiting[s]
  /\ waiting' = [waiting EXCEPT ![r] = @ \cup {a}]
  /\ UNCHANGED <<board, deferred, dnd, call, location, trail, owed, aborts>>

\* An arrival is checked in, cancelled or replaced: nobody waits for it now.
Withdraw(r, a) ==
  /\ a \in waiting[r]
  /\ waiting' = [waiting EXCEPT ![r] = @ \ {a}]
  /\ owed' = owed \ {<<r, a>>}
  /\ UNCHANGED <<board, deferred, dnd, call, location, trail, aborts>>

\* A day's plan is applied: one transaction assigns some rooms and pushes others
\* to the next day; a room in both lists counts as assigned.
ApplyPlan(assigned, pushed) ==
  /\ deferred' = (deferred \cup pushed) \ assigned
  /\ UNCHANGED <<board, dnd, waiting, call, location, trail, owed, aborts>>

-----------------------------------------------------------------------------
(***************************************************************************)
(* A request arrives.  The role is the one in the session.                 *)
(***************************************************************************)
Receive(c, u, i, b) ==
  /\ call[c].pc = "idle"
  /\ call' = [call EXCEPT ![c] =
                [Idle EXCEPT !.pc = "next", !.user = u, !.input = i,
                             !.todo = b, !.asked = b]]
  /\ UNCHANGED <<board, deferred, dnd, waiting, location, trail, owed, aborts>>

\* The call is done with its room, with the outcome reported for it.
Finished(k, ok) ==
  [k EXCEPT !.pc = "next", !.cur = None, !.from = None, !.note = None,
            !.tell = {}, !.marks = {},
            !.succeeded = IF ok THEN @ \cup {k.cur} ELSE @,
            !.failed = IF ok THEN @ ELSE @ \cup {k.cur}]

\* The payload check needs no await: it decides in the step that reaches it.
Validated(k) ==
  IF Complete(k.input) THEN [k EXCEPT !.pc = "write"]
  ELSE Finished(k, FALSE)

\* Variant with a bug: only the role is enforced, an illegal transition passes.
ReadRoleOnly(c, r) ==
  /\ call[c].pc = "next"
  /\ r \in call[c].todo
  /\ Exclusive => \A d \in Calls : call[d].cur # r
  /\ LET k == [call[c] EXCEPT !.todo = @ \ {r}, !.cur = r,
                              !.from = board[r].status,
                              !.note = board[r].reworkNote]
         verdict == CheckTransition(Role(c), board[r].status, k.input.status)
     IN call' = [call EXCEPT ![c] =
                   IF verdict = "forbidden" THEN [k EXCEPT !.pc = "deny"]
                   ELSE IF IsAttendantStart(c) THEN [k EXCEPT !.pc = "dnd"]
                   ELSE Validated(k)]
  /\ UNCHANGED <<board, deferred, dnd, waiting, location, trail, owed, aborts>>

\* findUnique, then checkTransition on what was read.
Read(c, r) ==
  /\ call[c].pc = "next"
  /\ r \in call[c].todo
  /\ Exclusive => \A d \in Calls : call[d].cur # r
  /\ LET k == [call[c] EXCEPT !.todo = @ \ {r}, !.cur = r,
                              !.from = board[r].status,
                              !.note = board[r].reworkNote]
         verdict == CheckTransition(Role(c), board[r].status, k.input.status)
     IN call' = [call EXCEPT ![c] =
                   IF verdict # "ok" THEN [k EXCEPT !.pc = "deny"]
                   ELSE IF IsAttendantStart(c) THEN [k EXCEPT !.pc = "dnd"]
                   ELSE Validated(k)]
  /\ UNCHANGED <<board, deferred, dnd, waiting, location, trail, owed, aborts>>

\* Variant with a bug: one open request does not hold the start back.
CheckDndOffByOne(c) ==
  /\ call[c].pc = "dnd"
  /\ LET looked == [call[c] EXCEPT !.marks = @ \ {"dndLate"}]
     IN call' = [call EXCEPT ![c] =
                   IF dnd[call[c].cur] > 1 THEN [@ EXCEPT !.pc = "deny"]
                   ELSE Validated(looked)]
  /\ UNCHANGED <<board, deferred, dnd, waiting, location, trail, owed, aborts>>

\* guestRequest.findFirst: only an attendant who starts a room is held back.
CheckDnd(c) ==
  /\ call[c].pc = "dnd"
  /\ LET looked == [call[c] EXCEPT !.marks = @ \ {"dndLate"}]
     IN call' = [call EXCEPT ![c] =
                   IF dnd[call[c].cur] > 0 THEN [@ EXCEPT !.pc = "deny"]
                   ELSE Validated(looked)]
  /\ UNCHANGED <<board, deferred, dnd, waiting, location, trail, owed, aborts>>

\* Variant with a bug: a refused room is reported as changed.
DenyAsSuccess(c) ==
  /\ call[c].pc = "deny"
  /\ call' = [call EXCEPT ![c] = Finished(@, TRUE)]
  /\ UNCHANGED <<board, deferred, dnd, waiting, location, trail, owed, aborts>>

\* The refusal is written to the audit log, then the room has failed.
Deny(c) ==
  /\ call[c].pc = "deny"
  /\ call' = [call EXCEPT ![c] = Finished(@, FALSE)]
  /\ UNCHANGED <<board, deferred, dnd, waiting, location, trail, owed, aborts>>

\* Variants with a bug: the note is dropped when the rework starts; the block
\* reason outlives the block.
UpdatedNoNote(c) ==
  LET to == call[c].input.status  p == call[c].input.payload IN
  [status |-> to,
   blockReason |-> IF to = "BLOCKED" THEN p ELSE None,
   reworkNote |-> IF to = "PICKUP" THEN p ELSE None,
   oooUntil |-> IF to = "OUT_OF_ORDER" THEN p ELSE None]

UpdatedKeepsReason(c) ==
  LET to == call[c].input.status  p == call[c].input.payload IN
  [status |-> to,
   blockReason |-> IF to = "BLOCKED" THEN p ELSE board[call[c].cur].blockReason,
   reworkNote |-> IF to = "PICKUP" THEN p
                  ELSE IF to = "IN_PROGRESS" THEN call[c].note ELSE None,
   oooUntil |-> IF to = "OUT_OF_ORDER" THEN p ELSE None]

\* The row as the update leaves it: unconditional, whatever it holds by now.
Updated(c) ==
  LET to == call[c].input.status  p == call[c].input.payload IN
  [status |-> to,
   blockReason |-> IF to = "BLOCKED" THEN p ELSE None,
   reworkNote |-> IF to = "PICKUP" THEN p
                  ELSE IF to = "IN_PROGRESS" THEN call[c].note ELSE None,
   oooUntil |-> IF to = "OUT_OF_ORDER" THEN p ELSE None]

Release(c) == call[c].input.status = "INSPECTED"

Write(c) ==
  LET r == call[c].cur IN
  /\ call[c].pc = "write"
  /\ board' = [board EXCEPT ![r] = Updated(c)]
  /\ call' = [d \in Calls |->
                IF d = c THEN [call[d] EXCEPT !.pc = "audit",
                                              !.wrote = @ \cup {r}]
                ELSE IF call[d].cur = r
                THEN [call[d] EXCEPT !.marks = @ \cup {"stale"}]
                ELSE call[d]]
  /\ deferred' = IF Release(c) THEN deferred \ {r} ELSE deferred
  /\ owed' = IF Release(c)
             THEN owed \cup {<<r, "pms">>} \cup ({r} \X waiting[r]) ELSE owed
  /\ UNCHANGED <<dnd, waiting, location, trail, aborts>>

\* Variant with a bug: a release ends with its audit entry.
AuditNoPush(c) ==
  /\ call[c].pc = "audit"
  /\ trail' = [trail EXCEPT ![call[c].cur] = Entry(c)]
  /\ call' = [call EXCEPT ![c] =
                IF IsAttendantStart(c) THEN [@ EXCEPT !.pc = "locate"]
                ELSE Finished(@, TRUE)]
  /\ UNCHANGED <<board, deferred, dnd, waiting, location, owed, aborts>>

\* The entry names the status the call read, not the one it replaced.
Audit(c) ==
  /\ call[c].pc = "audit"
  /\ trail' = [trail EXCEPT ![call[c].cur] = Entry(c)]
  /\ call' = [call EXCEPT ![c] =
                IF IsAttendantStart(c) THEN [@ EXCEPT !.pc = "locate"]
                ELSE IF Release(c) THEN [@ EXCEPT !.pc = "push"]
                ELSE Finished(@, TRUE)]
  /\ UNCHANGED <<board, deferred, dnd, waiting, location, owed, aborts>>

\* Starting a room records where the attendant is.
Locate(c) ==
  /\ call[c].pc = "locate"
  /\ location' = [location EXCEPT ![call[c].user] = call[c].cur]
  /\ call' = [call EXCEPT ![c] = Finished(@, TRUE)]
  /\ UNCHANGED <<board, deferred, dnd, waiting, trail, owed, aborts>>

Push(c) ==
  /\ call[c].pc = "push"
  /\ owed' = owed \ {<<call[c].cur, "pms">>}
  /\ call' = [call EXCEPT ![c].pc = "find"]
  /\ UNCHANGED <<board, deferred, dnd, waiting, location, trail, aborts>>

\* The arrivals to announce are those waiting now, not at the write.
FindWaiting(c) ==
  /\ call[c].pc = "find"
  /\ call' = [call EXCEPT ![c].pc = "notify", ![c].tell = waiting[call[c].cur]]
  /\ UNCHANGED <<board, deferred, dnd, waiting, location, trail, owed, aborts>>

\* One ROOM_RELEASED notification per arrival found.
Notify(c, a) ==
  /\ call[c].pc = "notify"
  /\ a \in call[c].tell
  /\ owed' = owed \ {<<call[c].cur, a>>}
  /\ call' = [call EXCEPT ![c].tell = @ \ {a}]
  /\ UNCHANGED <<board, deferred, dnd, waiting, location, trail, aborts>>

Announced(c) ==
  /\ call[c].pc = "notify"
  /\ call[c].tell = {}
  /\ call' = [call EXCEPT ![c] = Finished(@, TRUE)]
  /\ UNCHANGED <<board, deferred, dnd, waiting, location, trail, owed, aborts>>

\* Variant with a bug: a request of which a room failed gets no answer.
ReplyOnSuccess(c) ==
  /\ call[c].pc = "next"
  /\ call[c].todo = {}
  /\ call[c].failed = {}
  /\ call' = [call EXCEPT ![c] =
                [@ EXCEPT !.pc = "idle", !.user = None, !.input = NoInput]]
  /\ UNCHANGED <<board, deferred, dnd, waiting, location, trail, owed, aborts>>

\* All rooms done: the report goes out.  It stays in the record until the
\* slot takes its next request.
Reply(c) ==
  /\ call[c].pc = "next"
  /\ call[c].todo = {}
  /\ call' = [call EXCEPT ![c] =
                [@ EXCEPT !.pc = "idle", !.user = None, !.input = NoInput]]
  /\ UNCHANGED <<board, deferred, dnd, waiting, location, trail, owed, aborts>>

\* A database call fails or the process dies: what is written stays written,
\* the rest never happens, and nobody is told what was done.
Abort(c) ==
  /\ call[c].pc # "idle"
  /\ aborts < MaxAborts
  /\ aborts' = aborts + 1
  /\ call' = [call EXCEPT ![c] = Idle]
  /\ UNCHANGED <<board, deferred, dnd, waiting, location, trail, owed>>

HandlerStep(c) ==
  \/ \E r \in Rooms : Read(c, r)
  \/ CheckDnd(c)
  \/ Deny(c)
  \/ Write(c)
  \/ Audit(c)
  \/ Locate(c)
  \/ Push(c)
  \/ FindWaiting(c)
  \/ \E a \in Arrivals : Notify(c, a)
  \/ Announced(c)
  \/ Reply(c)

Environment ==
  \/ \E r \in Rooms : RaiseDnd(r) \/ CloseDnd(r)
  \/ \E assigned, pushed \in SUBSET Rooms : ApplyPlan(assigned, pushed)
  \/ \E r \in Rooms, a \in Arrivals : Expect(r, a) \/ Withdraw(r, a)
  \/ \E c \in Calls, u \in Users, i \in Inputs, b \in Batches : Receive(c, u, i, b)
  \/ \E c \in Calls : Abort(c)

Next == Environment \/ \E c \in Calls : HandlerStep(c)

Spec == Init /\ [][Next]_vars

\* The event loop resumes every handler whose database call has returned.
FairSpec == Spec /\ \A c \in Calls : WF_vars(HandlerStep(c))

-----------------------------------------------------------------------------
(***************************************************************************)
(* Properties.                                                             *)
(***************************************************************************)

Maybe(S) == S \cup {None}

CallType ==
  [pc : Steps, user : Maybe(Users),
   input : [status : Maybe(RoomStatuses), payload : Maybe(Payloads)],
   todo : SUBSET Rooms, cur : Maybe(Rooms), from : Maybe(RoomStatuses),
   note : Maybe(Payloads), tell : SUBSET Arrivals,
   succeeded : SUBSET Rooms, failed : SUBSET Rooms, asked : SUBSET Rooms,
   wrote : SUBSET Rooms, marks : SUBSET Marks]

\* The Room columns, the calls and the logs hold values of their kinds.
TypeOK ==
  /\ board \in [Rooms -> [status : RoomStatuses, blockReason : Maybe(Payloads),
                          reworkNote : Maybe(Payloads), oooUntil : Maybe(Payloads)]]
  /\ deferred \in SUBSET Rooms
  /\ dnd \in [Rooms -> Nat]
  /\ waiting \in [Rooms -> SUBSET Arrivals]
  /\ call \in [Calls -> CallType]
  /\ location \in [Users -> Maybe(Rooms)]
  /\ trail \in [Rooms -> [from : Maybe(RoomStatuses), to : Maybe(RoomStatuses)]]
  /\ owed \subseteq Rooms \X ({"pms"} \cup Arrivals)
  /\ aborts \in Nat

\* However requests interleave, the columns that explain a status fit it: a
\* block reason exactly on BLOCKED rooms, an end exactly on OUT_OF_ORDER ones,
\* a rework note on every PICKUP room and beyond that only while the rework is
\* being done (schema.prisma: "only when BLOCKED").
DetailsMatchStatus ==
  \A r \in Rooms :
    /\ (board[r].blockReason # None) <=> (board[r].status = "BLOCKED")
    /\ (board[r].oooUntil # None) <=> (board[r].status = "OUT_OF_ORDER")
    /\ board[r].status = "PICKUP" => board[r].reworkNote # None
    /\ board[r].reworkNote # None => board[r].status \in {"PICKUP", "IN_PROGRESS"}

\* What holds in every state, however requests interleave: the rows are well formed,
\* and their columns fit the status.
RoomInv == TypeOK /\ DetailsMatchStatus

\* No race lets a role set a status it may not set; in particular a room only
\* becomes INSPECTED by a call of a supervisor or duty manager.
RoleMatrixHolds ==
  [][\A r \in Rooms : board'[r].status # board[r].status =>
       \E c \in Calls : /\ call[c].pc = "write" /\ call[c].cur = r
                        /\ board'[r].status \in RoleAllowedTargets(Role(c))]_vars

\* The board moves along the state machine, except when a call writes a room
\* that another call has written since it was read: a lost race is the only way
\* to an illegal transition.
LegalUnlessOvertaken ==
  [][\A r \in Rooms : board'[r].status # board[r].status =>
       \/ board'[r].status \in LegalTargets(board[r].status)
       \/ \E c \in Calls : /\ call[c].pc = "write" /\ call[c].cur = r
                           /\ "stale" \in call[c].marks]_vars

\* A supervisor's rework note survives the start of the rework, unless the
\* call that starts it was overtaken (it then writes the note it had read).
ReworkNoteKept ==
  [][\A r \in Rooms :
       board[r].reworkNote # None /\ board'[r].status = "IN_PROGRESS" =>
         \/ board'[r].reworkNote = board[r].reworkNote
         \/ \E c \in Calls : /\ call[c].pc = "write" /\ call[c].cur = r
                           /\ "stale" \in call[c].marks]_vars

\* An attendant starts a room under "do not disturb" only if the guest asked
\* for it after the handler had looked.
DndRespected ==
  [][\A c \in Calls :
       /\ call[c].pc = "write" /\ call'[c].pc = "audit"
       /\ IsAttendantStart(c)
       => dnd[call[c].cur] = 0 \/ "dndLate" \in call[c].marks]_vars

\* The report of a bulk request is true: the rooms it names as changed are
\* those this request has written, the rest of what was asked has failed.
ReportIsTrue ==
  \A c \in Calls : call[c].pc = "idle" =>
    /\ call[c].succeeded = call[c].wrote
    /\ call[c].failed = call[c].asked \ call[c].wrote

\* When no two calls work on one room at a time and none dies, the last audit
\* entry of a room names the status the board shows, once it is written.
TrailNamesStatus ==
  Exclusive /\ aborts = 0 =>
    \A r \in Rooms :
      \/ \E c \in Calls : call[c].pc = "audit" /\ call[c].cur = r
      \/ trail[r] = NoEntry
      \/ trail[r].to = board[r].status

\* What a batch leaves behind is true: its report, and the audit trail of its rooms.
BatchInv == ReportIsTrue /\ TrailNamesStatus

\* When no two calls work on one room at a time, the handlers implement the
\* board of RoomBoard, in which a change is one step.
Board == INSTANCE RoomBoard WITH
           status <- [r \in Rooms |-> board[r].status],
           heard <- [r \in Rooms |-> <<r, "pms">> \notin owed]

ImplementsBoard == Board!Spec

\* Every request is answered, whatever the others do; and a release reaches the PMS and
\* the front office of every waiting arrival, unless a handler died.
AnsweredAndAnnounced ==
  /\ \A c \in Calls : call[c].pc # "idle" ~> call[c].pc = "idle"
  /\ \A r \in Rooms, x \in {"pms"} \cup Arrivals :
       <<r, x>> \in owed ~> (<<r, x>> \notin owed \/ aborts > 0)

=============================================================================
