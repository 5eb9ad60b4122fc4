-------------------------- MODULE RoomStatusProofs --------------------------
(***************************************************************************)
(* Proofs about RoomStatus, for any rooms, requests, users and bounds.     *)
(* The inductive invariant adds to the types what a call knows of its room *)
(* at each step: what it has read is still so, or it carries a mark.       *)
(***************************************************************************)
EXTENDS RoomStatus, TLAPS

RowType == [status : RoomStatuses, blockReason : Maybe(Payloads),
            reworkNote : Maybe(Payloads), oooUntil : Maybe(Payloads)]

\* What holds of a call k, given the rows b and the open DND requests n.
CallInv(k, b, n) ==
  /\ k.pc \in {"idle", "next"} =>
       k.cur = None /\ k.marks = {}
  /\ k.pc \notin {"idle", "next"} => k.cur \in Rooms
  /\ k.pc # "idle" => k.user \in Users /\ k.input \in Inputs
  /\ k.pc \in {"dnd", "write"} =>
       CheckTransition(RoleOf[k.user], k.from, k.input.status) = "ok"
  /\ k.pc \in {"dnd", "write"} /\ "stale" \notin k.marks =>
       k.from = b[k.cur].status /\ k.note = b[k.cur].reworkNote
  /\ k.pc = "write" => Complete(k.input)
  /\ /\ k.pc = "write" /\ "dndLate" \notin k.marks
     /\ k.input.status = "IN_PROGRESS" /\ RoleOf[k.user] = "room_attendant"
     => n[k.cur] = 0

IInv ==
  /\ TypeOK
  /\ \A c \in Calls : CallInv(call[c], board, dnd)
  /\ DetailsMatchStatus

-----------------------------------------------------------------------------
(***************************************************************************)
(* Types of the records the handlers build.                                *)
(***************************************************************************)

\* Ending the work on a room leaves a call of the right kind.
LEMMA FinishedType ==
  ASSUME NEW k \in CallType, k.cur \in Rooms, NEW ok \in BOOLEAN
  PROVE  Finished(k, ok) \in CallType
<1>1. /\ k.succeeded \cup {k.cur} \in SUBSET Rooms
      /\ k.failed \cup {k.cur} \in SUBSET Rooms
  BY DEF CallType
<1>2. /\ "next" \in Steps /\ None \in Maybe(Rooms)
      /\ None \in Maybe(RoomStatuses) /\ None \in Maybe(Payloads)
  BY DEF Steps, Maybe
<1>3. CASE ok
  BY <1>3, <1>1, <1>2 DEF Finished, CallType
<1>4. CASE ~ok
  BY <1>4, <1>1, <1>2 DEF Finished, CallType
<1> QED BY <1>3, <1>4

LEMMA ValidatedType ==
  ASSUME NEW k \in CallType, k.cur \in Rooms
  PROVE  Validated(k) \in CallType
<1>1. Finished(k, FALSE) \in CallType
  BY FinishedType
<1>2. [k EXCEPT !.pc = "write"] \in CallType
  BY DEF CallType, Steps
<1> QED BY <1>1, <1>2 DEF Validated

LEMMA IdleType == Idle \in CallType
BY DEF Idle, CallType, NoInput, Maybe, Steps

\* A new request is a call of the right kind.
LEMMA ReceivedType ==
  ASSUME NEW u \in Users, NEW i \in Inputs, NEW b \in Batches
  PROVE  [Idle EXCEPT !.pc = "next", !.user = u, !.input = i,
                      !.todo = b, !.asked = b] \in CallType
<1>1. /\ i \in [status : Maybe(RoomStatuses), payload : Maybe(Payloads)]
      /\ b \in SUBSET Rooms
      /\ u \in Maybe(Users)
  BY BoundAssumption DEF Inputs, Batches, Maybe
<1> QED BY <1>1, IdleType DEF CallType, Steps

-----------------------------------------------------------------------------
(***************************************************************************)
(* What holds of the calls the handlers build.                             *)
(***************************************************************************)

LEMMA FinishedInv ==
  ASSUME NEW k \in CallType, k.cur \in Rooms, NEW ok \in BOOLEAN, NEW b, NEW n,
         k.user \in Users, k.input \in Inputs
  PROVE  CallInv(Finished(k, ok), b, n)
<1>1. CASE ok
  BY <1>1 DEF Finished, CallType, CallInv
<1>2. CASE ~ok
  BY <1>2 DEF Finished, CallType, CallInv
<1> QED BY <1>1, <1>2

\* A checked call goes on to its write knowing what it has read.
LEMMA ValidatedInv ==
  ASSUME NEW k \in CallType, k.cur \in Rooms, NEW b, NEW n,
         k.user \in Users, k.input \in Inputs,
         CheckTransition(RoleOf[k.user], k.from, k.input.status) = "ok",
         "stale" \notin k.marks =>
           k.from = b[k.cur].status /\ k.note = b[k.cur].reworkNote,
         /\ "dndLate" \notin k.marks /\ k.input.status = "IN_PROGRESS"
         /\ RoleOf[k.user] = "room_attendant"
         => n[k.cur] = 0
  PROVE  CallInv(Validated(k), b, n)
<1>1. CASE Complete(k.input)
  BY <1>1 DEF Validated, CallType, CallInv
<1>2. CASE ~Complete(k.input)
  BY <1>2, FinishedInv DEF Validated
<1> QED BY <1>1, <1>2

LEMMA IdleInv == ASSUME NEW b, NEW n PROVE CallInv(Idle, b, n)
BY DEF CallInv, Idle

\* A step that changes one call only, and neither the rows nor the DND
\* requests, keeps the invariant if it keeps it for that call.
LEMMA OneCallStep ==
  ASSUME IInv, NEW c \in Calls, NEW k \in CallType,
         call' = [call EXCEPT ![c] = k], CallInv(k, board, dnd),
         UNCHANGED <<board, dnd, deferred, waiting, aborts>>,
         location' \in [Users -> Maybe(Rooms)],
         trail' \in [Rooms -> [from : Maybe(RoomStatuses), to : Maybe(RoomStatuses)]],
         owed' \subseteq Rooms \X ({"pms"} \cup Arrivals)
  PROVE  IInv'
<1>1. TypeOK'
  BY DEF IInv, TypeOK
<1>2. ASSUME NEW d \in Calls PROVE CallInv(call'[d], board', dnd')
  BY DEF IInv, TypeOK
<1>3. DetailsMatchStatus'
  BY DEF IInv, DetailsMatchStatus
<1> QED BY <1>1, <1>2, <1>3 DEF IInv

-----------------------------------------------------------------------------
(***************************************************************************)
(* The steps.                                                              *)
(***************************************************************************)

LEMMA InitInv == Init => IInv
<1> SUFFICES ASSUME Init PROVE IInv
  OBVIOUS
<1>1. PICK s \in [Rooms -> Targets], p \in Payloads :
        board = [r \in Rooms |-> Details(s[r], p)]
  BY DEF Init
<1>2. \A r \in Rooms : s[r] \in RoomStatuses
  BY BoundAssumption
<1>3. \A r \in Rooms : Details(s[r], p) \in RowType
  BY <1>2 DEF Details, RowType, Maybe
<1>4. TypeOK
  <2>1. call \in [Calls -> CallType]
    BY IdleType DEF Init
  <2>2. location \in [Users -> Maybe(Rooms)]
    BY DEF Init, Maybe
  <2>3. trail \in [Rooms -> [from : Maybe(RoomStatuses), to : Maybe(RoomStatuses)]]
    BY DEF Init, NoEntry, Maybe
  <2> QED BY <1>1, <1>3, <2>1, <2>2, <2>3 DEF Init, TypeOK, RowType
<1>5. \A c \in Calls : CallInv(call[c], board, dnd)
  BY IdleInv DEF Init
<1>6. DetailsMatchStatus
  BY <1>1, NoneAssumption DEF DetailsMatchStatus, Details
<1> QED BY <1>4, <1>5, <1>6 DEF IInv

LEMMA EnvironmentInv ==
  ASSUME IInv, NEW r \in Rooms, NEW a,
         \/ RaiseDnd(r) \/ CloseDnd(r)
         \/ a \in Arrivals /\ (Expect(r, a) \/ Withdraw(r, a))
  PROVE  IInv'
<1> USE DEF IInv, TypeOK
<1>1. CASE RaiseDnd(r)
  <2>1. ASSUME NEW k \in CallType
        PROVE  [k EXCEPT !.marks = @ \cup {"dndLate"}] \in CallType
    BY DEF CallType, Marks
  <2>2. TypeOK'
    BY <1>1, <2>1 DEF RaiseDnd
  <2>3. ASSUME NEW c \in Calls PROVE CallInv(call'[c], board', dnd')
    <3>1. CASE call[c].cur = r
      <4>1. call'[c] = [call[c] EXCEPT !.marks = @ \cup {"dndLate"}]
        BY <1>1, <3>1 DEF RaiseDnd
      <4>2. call[c].pc \notin {"idle", "next"}
        BY <3>1, NoneAssumption DEF CallInv
      <4> QED BY <1>1, <4>1, <4>2 DEF RaiseDnd, CallInv, CallType
    <3>2. CASE call[c].cur # r
      <4>1. call'[c] = call[c] /\ board' = board
        BY <1>1, <3>2 DEF RaiseDnd
      <4>2. call[c].cur \in Rooms => dnd'[call[c].cur] = dnd[call[c].cur]
        BY <1>1, <3>2 DEF RaiseDnd
      <4> QED BY <4>1, <4>2 DEF CallInv
    <3> QED BY <3>1, <3>2
  <2> QED BY <1>1, <2>2, <2>3 DEF RaiseDnd, DetailsMatchStatus
<1>2. CASE CloseDnd(r)
  <2>1. TypeOK'
    BY <1>2 DEF CloseDnd
  <2>2. ASSUME NEW c \in Calls PROVE CallInv(call'[c], board', dnd')
    <3>1. call[c].cur \in Rooms /\ dnd[call[c].cur] = 0 => dnd'[call[c].cur] = 0
      BY <1>2 DEF CloseDnd
    <3> QED BY <1>2, <3>1 DEF CloseDnd, CallInv
  <2> QED BY <1>2, <2>1, <2>2 DEF CloseDnd, DetailsMatchStatus
<1>3. CASE a \in Arrivals /\ Expect(r, a)
  BY <1>3 DEF Expect, DetailsMatchStatus
<1>4. CASE a \in Arrivals /\ Withdraw(r, a)
  BY <1>4 DEF Withdraw, DetailsMatchStatus
<1> QED BY <1>1, <1>2, <1>3, <1>4

LEMMA ApplyPlanInv ==
  ASSUME IInv, NEW assigned \in SUBSET Rooms, NEW pushed \in SUBSET Rooms,
         ApplyPlan(assigned, pushed)
  PROVE  IInv'
BY DEF ApplyPlan, IInv, TypeOK, DetailsMatchStatus

LEMMA ReceiveInv ==
  ASSUME IInv, NEW c \in Calls, NEW u \in Users, NEW i \in Inputs, NEW b \in Batches,
         Receive(c, u, i, b)
  PROVE  IInv'
<1> DEFINE k == [Idle EXCEPT !.pc = "next", !.user = u, !.input = i,
                             !.todo = b, !.asked = b]
<1>1. k \in CallType
  BY ReceivedType
<1>2. CallInv(k, board, dnd)
  BY DEF Idle, CallInv
<1>3. call' = [call EXCEPT ![c] = k]
  BY DEF Receive
<1> HIDE DEF k
<1> QED BY <1>1, <1>2, <1>3, OneCallStep DEF Receive, IInv, TypeOK

LEMMA ReadInv ==
  ASSUME IInv, NEW c \in Calls, NEW r \in Rooms, Read(c, r)
  PROVE  IInv'
<1> DEFINE k == [call[c] EXCEPT !.todo = @ \ {r}, !.cur = r,
                                !.from = board[r].status,
                                !.note = board[r].reworkNote]
           deny == [k EXCEPT !.pc = "deny"]
           gate == [k EXCEPT !.pc = "dnd"]
<1>1. call[c] \in CallType /\ call[c].pc = "next" /\ CallInv(call[c], board, dnd)
  BY DEF Read, IInv, TypeOK
<1>2. k \in CallType
  BY <1>1 DEF IInv, TypeOK, CallType, Maybe
<1>3. /\ k.cur = r /\ k.from = board[r].status /\ k.note = board[r].reworkNote
      /\ k.user = call[c].user /\ k.input = call[c].input /\ k.marks = call[c].marks
  BY <1>1 DEF CallType
<1>4. k.user \in Users /\ k.input \in Inputs /\ k.cur \in Rooms
  BY <1>1, <1>3 DEF CallInv
<1>5. CASE CheckTransition(Role(c), board[r].status, k.input.status) # "ok"
  <2>1. call' = [call EXCEPT ![c] = deny]
    BY <1>5 DEF Read
  <2>2. deny \in CallType
    BY <1>2 DEF CallType, Steps
  <2>3. CallInv(deny, board, dnd)
    <3>1. /\ deny.pc = "deny" /\ deny.cur = k.cur /\ deny.user = k.user
          /\ deny.input = k.input
      BY <1>2 DEF CallType
    <3> HIDE DEF deny, k
    <3> QED BY <3>1, <1>4 DEF CallInv
  <2> HIDE DEF deny
  <2> QED BY <2>1, <2>2, <2>3, OneCallStep DEF Read, IInv, TypeOK
<1>6. CASE /\ CheckTransition(Role(c), board[r].status, k.input.status) = "ok"
           /\ IsAttendantStart(c)
  <2>1. call' = [call EXCEPT ![c] = gate]
    BY <1>6 DEF Read
  <2>2. gate \in CallType
    BY <1>2 DEF CallType, Steps
  <2>3. CallInv(gate, board, dnd)
    <3>1. /\ gate.pc = "dnd" /\ gate.cur = k.cur /\ gate.user = k.user
          /\ gate.input = k.input /\ gate.from = k.from /\ gate.note = k.note
      BY <1>2 DEF CallType
    <3> HIDE DEF gate, k
    <3> QED BY <3>1, <1>3, <1>4, <1>6 DEF CallInv, Role
  <2> HIDE DEF gate
  <2> QED BY <2>1, <2>2, <2>3, OneCallStep DEF Read, IInv, TypeOK
<1>7. CASE /\ CheckTransition(Role(c), board[r].status, k.input.status) = "ok"
           /\ ~IsAttendantStart(c)
  <2>1. call' = [call EXCEPT ![c] = Validated(k)]
    BY <1>7 DEF Read
  <2>2. Validated(k) \in CallType
    BY <1>2, <1>4, ValidatedType
  <2>3. ~(k.input.status = "IN_PROGRESS" /\ RoleOf[k.user] = "room_attendant")
    BY <1>3, <1>7 DEF IsAttendantStart, Role
  <2>4. CheckTransition(RoleOf[k.user], k.from, k.input.status) = "ok"
    BY <1>3, <1>7 DEF Role
  <2>5. CallInv(Validated(k), board, dnd)
    <3> HIDE DEF k
    <3> QED BY <1>2, <1>3, <1>4, <2>3, <2>4, ValidatedInv
  <2> HIDE DEF k
  <2> QED BY <2>1, <2>2, <2>5, OneCallStep DEF Read, IInv, TypeOK
<1> QED BY <1>5, <1>6, <1>7

LEMMA CheckDndInv ==
  ASSUME IInv, NEW c \in Calls, CheckDnd(c)
  PROVE  IInv'
<1> DEFINE k == [call[c] EXCEPT !.marks = @ \ {"dndLate"}]
           deny == [call[c] EXCEPT !.pc = "deny"]
<1>1. call[c] \in CallType /\ call[c].pc = "dnd" /\ CallInv(call[c], board, dnd)
  BY DEF CheckDnd, IInv, TypeOK
<1>2. CASE dnd[call[c].cur] > 0
  <2>1. call' = [call EXCEPT ![c] = deny]
    BY <1>2 DEF CheckDnd, IInv, TypeOK
  <2>2. deny \in CallType
    BY <1>1 DEF CallType, Steps
  <2>3. CallInv(deny, board, dnd)
    BY <1>1 DEF CallInv, CallType
  <2> HIDE DEF deny
  <2> QED BY <2>1, <2>2, <2>3, OneCallStep DEF CheckDnd, IInv, TypeOK
<1>3. CASE ~(dnd[call[c].cur] > 0)
  <2>1. call' = [call EXCEPT ![c] = Validated(k)]
    BY <1>3 DEF CheckDnd
  <2>2. k \in CallType
    <3>1. call[c].marks \ {"dndLate"} \in SUBSET Marks
      BY <1>1 DEF CallType
    <3> QED BY <3>1, <1>1 DEF CallType
  <2>3. /\ k.cur = call[c].cur /\ k.user = call[c].user /\ k.input = call[c].input
        /\ k.from = call[c].from /\ k.note = call[c].note
        /\ "stale" \in call[c].marks => "stale" \in k.marks
    BY <1>1 DEF CallType
  <2>4. call[c].cur \in Rooms /\ dnd[call[c].cur] = 0
    BY <1>1, <1>3 DEF CallInv, IInv, TypeOK
  <2> HIDE DEF k
  <2>5. Validated(k) \in CallType
    BY <2>2, <2>3, <2>4, ValidatedType
  <2>6. CallInv(Validated(k), board, dnd)
    BY <1>1, <2>2, <2>3, <2>4, ValidatedInv DEF CallInv
  <2> QED BY <2>1, <2>5, <2>6, OneCallStep DEF CheckDnd, IInv, TypeOK
<1> QED BY <1>2, <1>3

\* What every call in service is, once it has a room.
LEMMA BusyCall ==
  ASSUME IInv, NEW c \in Calls, call[c].pc \notin {"idle", "next"}
  PROVE  /\ call[c] \in CallType /\ CallInv(call[c], board, dnd)
         /\ call[c].cur \in Rooms /\ call[c].user \in Users
         /\ call[c].input \in Inputs
BY DEF IInv, TypeOK, CallInv

\* Ending the work on a room keeps the invariant.
LEMMA FinishStep ==
  ASSUME IInv, NEW c \in Calls, call[c].pc \notin {"idle", "next"},
         NEW ok \in BOOLEAN,
         call' = [call EXCEPT ![c] = Finished(call[c], ok)],
         UNCHANGED <<board, dnd, deferred, waiting, aborts, owed>>,
         location' \in [Users -> Maybe(Rooms)],
         trail' \in [Rooms -> [from : Maybe(RoomStatuses), to : Maybe(RoomStatuses)]]
  PROVE  IInv'
<1>1. /\ call[c] \in CallType /\ call[c].cur \in Rooms /\ call[c].user \in Users
      /\ call[c].input \in Inputs
  BY BusyCall
<1>2. Finished(call[c], ok) \in CallType
  BY <1>1, FinishedType
<1>3. CallInv(Finished(call[c], ok), board, dnd)
  BY <1>1, FinishedInv
<1> QED BY <1>2, <1>3, OneCallStep DEF IInv, TypeOK

\* Going on to a step that needs nothing more keeps the invariant.
LEMMA GoOnStep ==
  ASSUME IInv, NEW c \in Calls, call[c].pc \notin {"idle", "next"},
         NEW p \in {"locate", "push", "find", "notify"}, NEW t \in SUBSET Arrivals,
         call' = [call EXCEPT ![c] = [call[c] EXCEPT !.pc = p, !.tell = t]],
         UNCHANGED <<board, dnd, deferred, waiting, aborts, location>>,
         trail' \in [Rooms -> [from : Maybe(RoomStatuses), to : Maybe(RoomStatuses)]],
         owed' \subseteq Rooms \X ({"pms"} \cup Arrivals)
  PROVE  IInv'
<1> DEFINE k == [call[c] EXCEPT !.pc = p, !.tell = t]
<1>1. /\ call[c] \in CallType /\ call[c].cur \in Rooms /\ call[c].user \in Users
      /\ call[c].input \in Inputs
  BY BusyCall
<1>2. k \in CallType
  BY <1>1 DEF CallType, Steps
<1>3. CallInv(k, board, dnd)
  <2>1. k.pc = p /\ k.cur = call[c].cur /\ k.user = call[c].user /\ k.input = call[c].input
    BY <1>1 DEF CallType
  <2> HIDE DEF k
  <2> QED BY <2>1, <1>1 DEF CallInv
<1> HIDE DEF k
<1> QED BY <1>2, <1>3, OneCallStep DEF IInv, TypeOK, k

LEMMA DenyInv == ASSUME IInv, NEW c \in Calls, Deny(c) PROVE IInv'
<1>1. call[c].pc \notin {"idle", "next"} /\ call' = [call EXCEPT ![c] = Finished(call[c], FALSE)]
  BY DEF Deny
<1> QED BY <1>1, FinishStep DEF Deny, IInv, TypeOK

LEMMA AuditInv == ASSUME IInv, NEW c \in Calls, Audit(c) PROVE IInv'
<1>1. call[c].pc \notin {"idle", "next"}
  BY DEF Audit
<1>2. call[c] \in CallType /\ call[c].cur \in Rooms
  BY <1>1, BusyCall
<1>3. trail' \in [Rooms -> [from : Maybe(RoomStatuses), to : Maybe(RoomStatuses)]]
  BY <1>2 DEF Audit, Entry, IInv, TypeOK, CallType
<1>4. [call[c] EXCEPT !.pc = "locate"] = [call[c] EXCEPT !.pc = "locate", !.tell = call[c].tell]
  BY <1>2 DEF CallType
<1>5. [call[c] EXCEPT !.pc = "push"] = [call[c] EXCEPT !.pc = "push", !.tell = call[c].tell]
  BY <1>2 DEF CallType
<1>6. call[c].tell \in SUBSET Arrivals
  BY <1>2 DEF CallType
<1>7. UNCHANGED <<board, dnd, deferred, waiting, aborts, location, owed>>
  BY DEF Audit
<1>8. owed' \subseteq Rooms \X ({"pms"} \cup Arrivals) /\ location' \in [Users -> Maybe(Rooms)]
  BY <1>7 DEF IInv, TypeOK
<1>9. CASE IsAttendantStart(c)
  <2>1. call' = [call EXCEPT ![c] = [call[c] EXCEPT !.pc = "locate", !.tell = call[c].tell]]
    BY <1>9, <1>4 DEF Audit
  <2> QED BY <2>1, <1>1, <1>3, <1>6, <1>7, <1>8, GoOnStep
<1>10. CASE ~IsAttendantStart(c) /\ Release(c)
  <2>1. call' = [call EXCEPT ![c] = [call[c] EXCEPT !.pc = "push", !.tell = call[c].tell]]
    BY <1>10, <1>5 DEF Audit
  <2> QED BY <2>1, <1>1, <1>3, <1>6, <1>7, <1>8, GoOnStep
<1>11. CASE ~IsAttendantStart(c) /\ ~Release(c)
  <2>1. call' = [call EXCEPT ![c] = Finished(call[c], TRUE)]
    BY <1>11 DEF Audit
  <2> QED BY <2>1, <1>1, <1>3, <1>7, <1>8, FinishStep
<1> QED BY <1>9, <1>10, <1>11

LEMMA LocateInv == ASSUME IInv, NEW c \in Calls, Locate(c) PROVE IInv'
<1>1. call[c].pc \notin {"idle", "next"} /\ call' = [call EXCEPT ![c] = Finished(call[c], TRUE)]
  BY DEF Locate
<1>2. call[c].cur \in Rooms
  BY <1>1, BusyCall
<1>3. location' \in [Users -> Maybe(Rooms)]
  BY <1>2 DEF Locate, IInv, TypeOK, Maybe
<1> QED BY <1>1, <1>3, FinishStep DEF Locate, IInv, TypeOK

LEMMA PushInv == ASSUME IInv, NEW c \in Calls, Push(c) PROVE IInv'
<1>1. call[c].pc \notin {"idle", "next"}
  BY DEF Push
<1>2. call[c] \in CallType
  BY <1>1, BusyCall
<1>3. call[c].tell \in SUBSET Arrivals
  BY <1>2 DEF CallType
<1>4. [call[c] EXCEPT !.pc = "find"] = [call[c] EXCEPT !.pc = "find", !.tell = call[c].tell]
  BY <1>2 DEF CallType
<1>5. call' = [call EXCEPT ![c] = [call[c] EXCEPT !.pc = "find", !.tell = call[c].tell]]
  BY <1>4 DEF Push
<1>6. owed' \subseteq Rooms \X ({"pms"} \cup Arrivals)
  BY DEF Push, IInv, TypeOK
<1> QED BY <1>1, <1>3, <1>5, <1>6, GoOnStep DEF Push, IInv, TypeOK

LEMMA FindWaitingInv == ASSUME IInv, NEW c \in Calls, FindWaiting(c) PROVE IInv'
<1>1. call[c].pc \notin {"idle", "next"}
  BY DEF FindWaiting
<1>2. call[c] \in CallType /\ call[c].cur \in Rooms
  BY <1>1, BusyCall
<1>3. waiting[call[c].cur] \in SUBSET Arrivals
  BY <1>2 DEF IInv, TypeOK
<1>4. call' = [call EXCEPT ![c] = [call[c] EXCEPT !.pc = "notify", !.tell = waiting[call[c].cur]]]
  BY DEF FindWaiting
<1>5. /\ UNCHANGED <<board, dnd, deferred, waiting, aborts, location>>
      /\ trail' \in [Rooms -> [from : Maybe(RoomStatuses), to : Maybe(RoomStatuses)]]
      /\ owed' \subseteq Rooms \X ({"pms"} \cup Arrivals)
  BY DEF FindWaiting, IInv, TypeOK
<1> QED BY <1>1, <1>3, <1>4, <1>5, GoOnStep

LEMMA NotifyInv == ASSUME IInv, NEW c \in Calls, NEW a \in Arrivals, Notify(c, a) PROVE IInv'
<1>1. call[c].pc \notin {"idle", "next"} /\ call[c].pc = "notify"
  BY DEF Notify
<1>2. call[c] \in CallType
  BY <1>1, BusyCall
<1>3. call[c].tell \ {a} \in SUBSET Arrivals
  BY <1>2 DEF CallType
<1>4. [call[c] EXCEPT !.tell = @ \ {a}] = [call[c] EXCEPT !.pc = "notify", !.tell = call[c].tell \ {a}]
  BY <1>1, <1>2 DEF CallType
<1>5. call' = [call EXCEPT ![c] = [call[c] EXCEPT !.pc = "notify", !.tell = call[c].tell \ {a}]]
  BY <1>4 DEF Notify
<1>6. owed' \subseteq Rooms \X ({"pms"} \cup Arrivals)
  BY DEF Notify, IInv, TypeOK
<1> QED BY <1>1, <1>3, <1>5, <1>6, GoOnStep DEF Notify, IInv, TypeOK

LEMMA AnnouncedInv == ASSUME IInv, NEW c \in Calls, Announced(c) PROVE IInv'
<1>1. call[c].pc \notin {"idle", "next"} /\ call' = [call EXCEPT ![c] = Finished(call[c], TRUE)]
  BY DEF Announced
<1> QED BY <1>1, FinishStep DEF Announced, IInv, TypeOK

LEMMA ReplyInv == ASSUME IInv, NEW c \in Calls, Reply(c) PROVE IInv'
<1> DEFINE k == [call[c] EXCEPT !.pc = "idle", !.user = None, !.input = NoInput]
<1>1. call[c] \in CallType /\ CallInv(call[c], board, dnd) /\ call[c].pc = "next"
  BY DEF Reply, IInv, TypeOK
<1>2. k \in CallType
  BY <1>1 DEF CallType, Steps, NoInput, Maybe
<1>3. CallInv(k, board, dnd)
  BY <1>1 DEF CallInv, CallType
<1>4. call' = [call EXCEPT ![c] = k]
  BY DEF Reply
<1> HIDE DEF k
<1> QED BY <1>2, <1>3, <1>4, OneCallStep DEF Reply, IInv, TypeOK

LEMMA AbortInv == ASSUME IInv, NEW c \in Calls, Abort(c) PROVE IInv'
<1>1. TypeOK'
  BY IdleType DEF Abort, IInv, TypeOK
<1>2. ASSUME NEW d \in Calls PROVE CallInv(call'[d], board', dnd')
  BY IdleInv DEF Abort, IInv, TypeOK
<1>3. DetailsMatchStatus'
  BY DEF Abort, IInv, DetailsMatchStatus
<1> QED BY <1>1, <1>2, <1>3 DEF IInv

\* A checked call writes a row of the right kind, with the details that fit.
LEMMA UpdatedRow ==
  ASSUME IInv, NEW c \in Calls, call[c].pc = "write"
  PROVE  /\ Updated(c) \in RowType
         /\ Updated(c).status = call[c].input.status
         /\ (Updated(c).blockReason # None) <=> (Updated(c).status = "BLOCKED")
         /\ (Updated(c).oooUntil # None) <=> (Updated(c).status = "OUT_OF_ORDER")
         /\ Updated(c).status = "PICKUP" => Updated(c).reworkNote # None
         /\ Updated(c).reworkNote # None => Updated(c).status \in {"PICKUP", "IN_PROGRESS"}
         /\ Updated(c).status = "IN_PROGRESS" => Updated(c).reworkNote = call[c].note
<1>1. call[c] \in CallType /\ CallInv(call[c], board, dnd) /\ call[c].input \in Inputs
  BY BusyCall
<1>2. /\ call[c].input.status \in RoomStatuses
      /\ call[c].input.payload \in Maybe(Payloads)
      /\ call[c].note \in Maybe(Payloads)
      /\ None \in Maybe(Payloads)
  BY <1>1, BoundAssumption DEF Inputs, CallType, Maybe
<1>3. /\ call[c].input.status \in NeedsPayload => call[c].input.payload # None
      /\ call[c].input.status \notin NeedsPayload => call[c].input.payload = None
  BY <1>1 DEF CallInv, Complete, Inputs
<1>4. Updated(c) \in RowType
  BY <1>2 DEF Updated, RowType
<1> QED BY <1>2, <1>3, <1>4 DEF Updated, NeedsPayload

LEMMA WriteInv == ASSUME IInv, NEW c \in Calls, Write(c) PROVE IInv'
<1> DEFINE r == call[c].cur
<1>1. call[c].pc = "write" /\ call[c].pc \notin {"idle", "next"}
  BY DEF Write
<1>2. /\ call[c] \in CallType /\ CallInv(call[c], board, dnd) /\ r \in Rooms
      /\ call[c].user \in Users /\ call[c].input \in Inputs
  BY <1>1, BusyCall
<1>3. Updated(c) \in RowType
  BY <1>1, UpdatedRow
<1>4. ASSUME NEW k \in CallType
      PROVE  [k EXCEPT !.marks = @ \cup {"stale"}] \in CallType
  BY DEF CallType, Marks
<1>5. [call[c] EXCEPT !.pc = "audit", !.wrote = @ \cup {r}] \in CallType
  <2>1. call[c].wrote \cup {r} \in SUBSET Rooms
    BY <1>2 DEF CallType
  <2> QED BY <1>2, <2>1 DEF CallType, Steps
<1>6. TypeOK'
  <2>1. board' \in [Rooms -> RowType]
    BY <1>2, <1>3 DEF Write, IInv, TypeOK, RowType
  <2>2. call' \in [Calls -> CallType]
    <3>1. \A d \in Calls : call[d] \in CallType
      BY DEF IInv, TypeOK
    <3> QED BY <1>4, <1>5, <3>1 DEF Write
  <2>3. deferred' \in SUBSET Rooms
    BY DEF Write, IInv, TypeOK
  <2>4. owed' \subseteq Rooms \X ({"pms"} \cup Arrivals)
    <3>1. waiting[r] \subseteq Arrivals
      BY <1>2 DEF IInv, TypeOK
    <3>2. /\ <<r, "pms">> \in Rooms \X ({"pms"} \cup Arrivals)
          /\ {r} \X waiting[r] \subseteq Rooms \X ({"pms"} \cup Arrivals)
      BY <1>2, <3>1
    <3>3. owed \subseteq Rooms \X ({"pms"} \cup Arrivals)
      BY DEF IInv, TypeOK
    <3>4. owed' = owed \/ owed' = owed \cup {<<r, "pms">>} \cup ({r} \X waiting[r])
      BY DEF Write
    <3> QED BY <3>2, <3>3, <3>4
  <2> QED BY <2>1, <2>2, <2>3, <2>4 DEF Write, IInv, TypeOK, RowType
<1>7. ASSUME NEW d \in Calls PROVE CallInv(call'[d], board', dnd')
  <2>1. call[d] \in CallType /\ CallInv(call[d], board, dnd)
    BY DEF IInv, TypeOK
  <2>2. CASE d = c
    <3>1. call'[d] = [call[c] EXCEPT !.pc = "audit", !.wrote = @ \cup {r}]
      BY <2>2 DEF Write
    <3>2. /\ call'[d].pc = "audit" /\ call'[d].cur = r
          /\ call'[d].user = call[c].user /\ call'[d].input = call[c].input
      BY <3>1, <1>2 DEF CallType
    <3> QED BY <3>2, <1>2 DEF CallInv
  <2>3. CASE d # c /\ call[d].cur = r
    <3>1. call'[d] = [call[d] EXCEPT !.marks = @ \cup {"stale"}]
      BY <2>3 DEF Write
    <3>2. call[d].pc \notin {"idle", "next"}
      BY <2>1, <2>3, <1>2, NoneAssumption DEF CallInv
    <3>3. dnd' = dnd
      BY DEF Write
    <3> QED BY <2>1, <3>1, <3>2, <3>3 DEF CallInv, CallType
  <2>4. CASE d # c /\ call[d].cur # r
    <3>1. call'[d] = call[d] /\ dnd' = dnd
      BY <2>4 DEF Write
    <3>2. call[d].cur \in Rooms => board'[call[d].cur] = board[call[d].cur]
      BY <2>4 DEF Write, IInv, TypeOK
    <3> QED BY <2>1, <3>1, <3>2 DEF CallInv
  <2> QED BY <2>2, <2>3, <2>4
<1>8. DetailsMatchStatus'
  <2> SUFFICES ASSUME NEW q \in Rooms
               PROVE  /\ (board'[q].blockReason # None) <=> (board'[q].status = "BLOCKED")
                      /\ (board'[q].oooUntil # None) <=> (board'[q].status = "OUT_OF_ORDER")
                      /\ board'[q].status = "PICKUP" => board'[q].reworkNote # None
                      /\ board'[q].reworkNote # None =>
                           board'[q].status \in {"PICKUP", "IN_PROGRESS"}
    BY DEF DetailsMatchStatus
  <2>1. CASE q = r
    <3>1. board'[q] = Updated(c)
      BY <2>1 DEF Write, IInv, TypeOK
    <3> QED BY <3>1, <1>1, UpdatedRow
  <2>2. CASE q # r
    <3>1. board'[q] = board[q]
      BY <2>2 DEF Write, IInv, TypeOK
    <3> QED BY <3>1 DEF IInv, DetailsMatchStatus
  <2> QED BY <2>1, <2>2
<1> QED BY <1>6, <1>7, <1>8 DEF IInv

LEMMA HandlerStepInv == ASSUME IInv, NEW c \in Calls, HandlerStep(c) PROVE IInv'
<1>1. CASE \E r \in Rooms : Read(c, r)
  BY <1>1, ReadInv
<1>2. CASE CheckDnd(c)
  BY <1>2, CheckDndInv
<1>3. CASE Deny(c)
  BY <1>3, DenyInv
<1>4. CASE Write(c)
  BY <1>4, WriteInv
<1>5. CASE Audit(c)
  BY <1>5, AuditInv
<1>6. CASE Locate(c)
  BY <1>6, LocateInv
<1>7. CASE Push(c)
  BY <1>7, PushInv
<1>8. CASE FindWaiting(c)
  BY <1>8, FindWaitingInv
<1>9. CASE \E a \in Arrivals : Notify(c, a)
  BY <1>9, NotifyInv
<1>10. CASE Announced(c)
  BY <1>10, AnnouncedInv
<1>11. CASE Reply(c)
  BY <1>11, ReplyInv
<1> QED BY <1>1, <1>2, <1>3, <1>4, <1>5, <1>6, <1>7, <1>8, <1>9, <1>10, <1>11 DEF HandlerStep

LEMMA NextInv == IInv /\ [Next]_vars => IInv'
<1> SUFFICES ASSUME IInv, [Next]_vars PROVE IInv'
  OBVIOUS
<1>1. CASE UNCHANGED vars
  BY <1>1 DEF vars, IInv, TypeOK, DetailsMatchStatus
<1>2. CASE \E c \in Calls : HandlerStep(c)
  BY <1>2, HandlerStepInv
<1>3. CASE Environment
  BY <1>3, EnvironmentInv, ApplyPlanInv, ReceiveInv, AbortInv DEF Environment
<1> QED BY <1>1, <1>2, <1>3 DEF Next

-----------------------------------------------------------------------------
(***************************************************************************)
(* The theorems.                                                           *)
(***************************************************************************)

\* The invariant holds in every reachable state of the handlers.
THEOREM Invariance == Spec => []IInv
BY InitInv, NextInv, PTL DEF Spec

\* The rows, calls and logs always hold values of their kinds.
THEOREM TypeCorrect == Spec => []TypeOK
<1>1. IInv => TypeOK
  BY DEF IInv
<1> QED BY <1>1, Invariance, PTL

\* The columns that explain a status always fit it, however status changes of
\* one room interleave.
THEOREM DetailsFit == Spec => []DetailsMatchStatus
<1>1. IInv => DetailsMatchStatus
  BY DEF IInv
<1> QED BY <1>1, Invariance, PTL

\* The rows are sound in every state: they hold values of their kinds, and their
\* details fit the status.
THEOREM RoomSafe == Spec => []RoomInv
<1>1. TypeOK /\ DetailsMatchStatus => RoomInv
  BY DEF RoomInv
<1> QED BY <1>1, TypeCorrect, DetailsFit, PTL

\* Only the write of a call that has the room changes the room's row.
LEMMA WriterOfRoom ==
  ASSUME IInv, [Next]_vars, NEW r \in Rooms, board'[r] # board[r]
  PROVE  \E c \in Calls : /\ call[c].pc = "write" /\ call[c].cur = r
                          /\ board'[r] = Updated(c)
<1>1. PICK c \in Calls : Write(c)
  <2>1. CASE UNCHANGED vars
    BY <2>1 DEF vars
  <2>2. CASE Environment
    BY <2>2 DEF Environment, RaiseDnd, CloseDnd, ApplyPlan, Expect, Withdraw, Receive, Abort
  <2>3. CASE \E c \in Calls : HandlerStep(c)
    BY <2>3 DEF HandlerStep, Read, CheckDnd, Deny, Audit, Locate, Push, FindWaiting,
                Notify, Announced, Reply
  <2> QED BY <2>1, <2>2, <2>3 DEF Next
<1>2. board' = [board EXCEPT ![call[c].cur] = Updated(c)] /\ call[c].pc = "write"
  BY <1>1 DEF Write
<1>3. board'[r] = IF r = call[c].cur THEN Updated(c) ELSE board[r]
  BY <1>2 DEF IInv, TypeOK
<1> QED BY <1>2, <1>3

\* What a call about to write has established.
LEMMA WriterChecked ==
  ASSUME IInv, NEW c \in Calls, call[c].pc = "write"
  PROVE  /\ call[c].input.status \in RoleAllowedTargets(Role(c))
         /\ call[c].input.status \in LegalTargets(call[c].from)
         /\ "stale" \notin call[c].marks =>
              /\ call[c].from = board[call[c].cur].status
              /\ call[c].note = board[call[c].cur].reworkNote
         /\ IsAttendantStart(c) /\ "dndLate" \notin call[c].marks =>
              dnd[call[c].cur] = 0
<1>1. CallInv(call[c], board, dnd)
  BY BusyCall
<1>2. CheckTransition(Role(c), call[c].from, call[c].input.status) = "ok"
  BY <1>1 DEF CallInv, Role
<1>3. /\ call[c].input.status \in RoleAllowedTargets(Role(c))
      /\ call[c].input.status \in LegalTargets(call[c].from)
  BY <1>2 DEF CheckTransition
<1> QED BY <1>1, <1>3 DEF CallInv, IsAttendantStart, Role

\* No interleaving lets a role set a status that the role matrix denies it.
THEOREM RolesEnforced == Spec => RoleMatrixHolds
<1>1. ASSUME IInv, [Next]_vars, NEW r \in Rooms, board'[r].status # board[r].status
      PROVE  \E c \in Calls : /\ call[c].pc = "write" /\ call[c].cur = r
                              /\ board'[r].status \in RoleAllowedTargets(Role(c))
  <2>1. PICK c \in Calls : /\ call[c].pc = "write" /\ call[c].cur = r
                           /\ board'[r] = Updated(c)
    BY <1>1, WriterOfRoom
  <2> QED BY <1>1, <2>1, UpdatedRow, WriterChecked
<1>2. IInv /\ [Next]_vars =>
        [\A r \in Rooms : board'[r].status # board[r].status =>
           \E c \in Calls : /\ call[c].pc = "write" /\ call[c].cur = r
                            /\ board'[r].status \in RoleAllowedTargets(Role(c))]_vars
  BY <1>1
<1> QED BY <1>2, Invariance, PTL DEF Spec, RoleMatrixHolds

\* The board leaves the state machine only by a write that was overtaken.
THEOREM LegalMoves == Spec => LegalUnlessOvertaken
<1>1. ASSUME IInv, [Next]_vars, NEW r \in Rooms, board'[r].status # board[r].status,
             board'[r].status \notin LegalTargets(board[r].status)
      PROVE  \E c \in Calls : /\ call[c].pc = "write" /\ call[c].cur = r
                              /\ "stale" \in call[c].marks
  <2>1. PICK c \in Calls : /\ call[c].pc = "write" /\ call[c].cur = r
                           /\ board'[r] = Updated(c)
    BY <1>1, WriterOfRoom
  <2> QED BY <1>1, <2>1, UpdatedRow, WriterChecked
<1>2. IInv /\ [Next]_vars =>
        [\A r \in Rooms : board'[r].status # board[r].status =>
           \/ board'[r].status \in LegalTargets(board[r].status)
           \/ \E c \in Calls : /\ call[c].pc = "write" /\ call[c].cur = r
                               /\ "stale" \in call[c].marks]_vars
  BY <1>1
<1> QED BY <1>2, Invariance, PTL DEF Spec, LegalUnlessOvertaken

\* A rework note survives the start of the rework, unless the start was overtaken.
THEOREM NotesSurvive == Spec => ReworkNoteKept
<1>1. ASSUME IInv, [Next]_vars, NEW r \in Rooms,
             board[r].reworkNote # None, board'[r].status = "IN_PROGRESS",
             board'[r].reworkNote # board[r].reworkNote
      PROVE  \E c \in Calls : /\ call[c].pc = "write" /\ call[c].cur = r
                              /\ "stale" \in call[c].marks
  <2>1. PICK c \in Calls : /\ call[c].pc = "write" /\ call[c].cur = r
                           /\ board'[r] = Updated(c)
    BY <1>1, WriterOfRoom
  <2> QED BY <1>1, <2>1, UpdatedRow, WriterChecked
<1>2. IInv /\ [Next]_vars =>
        [\A r \in Rooms :
           board[r].reworkNote # None /\ board'[r].status = "IN_PROGRESS" =>
             \/ board'[r].reworkNote = board[r].reworkNote
             \/ \E c \in Calls : /\ call[c].pc = "write" /\ call[c].cur = r
                               /\ "stale" \in call[c].marks]_vars
  BY <1>1
<1> QED BY <1>2, Invariance, PTL DEF Spec, ReworkNoteKept

\* An attendant's start meets an open DND only if the guest asked for it after
\* the handler had looked.
THEOREM DndHonoured == Spec => DndRespected
<1>1. IInv /\ [Next]_vars =>
        [\A c \in Calls :
           /\ call[c].pc = "write" /\ call'[c].pc = "audit"
           /\ IsAttendantStart(c)
           => dnd[call[c].cur] = 0 \/ "dndLate" \in call[c].marks]_vars
  BY WriterChecked
<1> QED BY <1>1, Invariance, PTL DEF Spec, DndRespected

-----------------------------------------------------------------------------
(***************************************************************************)
(* Every step of the handlers is one of RoomBoard, where a change of a     *)
(* room is one step, or is a step of a call that another call has          *)
(* overtaken on its room.  What this needs beyond the invariant IInv above *)
(* is that a room is still released when the PMS is told, unless the call  *)
(* was overtaken.  When no two calls work on one room at a time, none is   *)
(* ever overtaken.  The last part is about what a batch leaves behind: its *)
(* report and the audit trail.                                             *)
(***************************************************************************)
\* A call k that is to tell the PMS of a release, given the rows b.
StillReleased(k, b) ==
  /\ k.pc = "push" => k.input.status = "INSPECTED"
  /\ k.pc \in {"audit", "push"} /\ k.input.status = "INSPECTED" /\ "stale" \notin k.marks =>
       b[k.cur].status = "INSPECTED"

ReleaseInv == \A c \in Calls : StillReleased(call[c], board)

\* No two calls have one room, and none was overtaken.
Apart ==
  /\ \A c, d \in Calls : c # d /\ call[c].cur \in Rooms => call[d].cur # call[c].cur
  /\ \A c \in Calls : "stale" \notin call[c].marks

\* What every step keeps, and what it keeps when no two calls work on one room.
KeepsX == ReleaseInv' /\ (Exclusive /\ Apart => Apart')

\* A step of one call that writes no row and takes no room another call has.
LEMMA OneCallX ==
  ASSUME IInv, ReleaseInv, NEW c \in Calls, NEW k,
         call' = [call EXCEPT ![c] = k], board' = board, StillReleased(k, board),
         Exclusive /\ Apart =>
           /\ k.cur \in Rooms => \A d \in Calls : d # c => call[d].cur # k.cur
           /\ "stale" \notin k.marks
  PROVE  KeepsX
BY DEF KeepsX, ReleaseInv, Apart, IInv, TypeOK

LEMMA FinishedX ==
  ASSUME IInv, ReleaseInv, NEW c \in Calls, NEW k \in CallType, NEW ok \in BOOLEAN,
         call' = [call EXCEPT ![c] = Finished(k, ok)], board' = board
  PROVE  KeepsX
<1>1. /\ Finished(k, ok).cur = None /\ "stale" \notin Finished(k, ok).marks
      /\ Finished(k, ok).pc = "next"
  <2>1. CASE ok
    BY <2>1 DEF Finished, CallType
  <2>2. CASE ~ok
    BY <2>2 DEF Finished, CallType
  <2> QED BY <2>1, <2>2
<1> QED BY <1>1, NoneAssumption, OneCallX DEF StillReleased

\* The record a call continues with keeps its room and gets no stale mark.
LEMMA SameRoomX ==
  ASSUME IInv, ReleaseInv, NEW c \in Calls, NEW k,
         call' = [call EXCEPT ![c] = k], board' = board,
         k.cur = call[c].cur, k.marks \subseteq call[c].marks,
         StillReleased(k, board)
  PROVE  KeepsX
BY OneCallX DEF Apart

LEMMA ValidatedX ==
  ASSUME IInv, ReleaseInv, NEW c \in Calls, NEW k \in CallType,
         call' = [call EXCEPT ![c] = Validated(k)], board' = board,
         Exclusive /\ Apart =>
           /\ k.cur \in Rooms => \A d \in Calls : d # c => call[d].cur # k.cur
           /\ "stale" \notin k.marks
  PROVE  KeepsX
<1>1. CASE Complete(k.input)
  <2>1. Validated(k) = [k EXCEPT !.pc = "write"]
    BY <1>1 DEF Validated
  <2>2. /\ Validated(k).cur = k.cur /\ Validated(k).marks = k.marks
        /\ Validated(k).pc = "write"
    BY <2>1 DEF CallType
  <2> QED BY <2>2, OneCallX DEF StillReleased
<1>2. CASE ~Complete(k.input)
  <2>1. /\ Finished(k, FALSE).cur = None /\ Finished(k, FALSE).pc = "next"
        /\ "stale" \notin Finished(k, FALSE).marks
    BY DEF Finished, CallType
  <2>2. /\ Validated(k).cur = Finished(k, FALSE).cur
        /\ Validated(k).pc = Finished(k, FALSE).pc
        /\ Validated(k).marks = Finished(k, FALSE).marks
    BY <1>2 DEF Validated
  <2> QED BY <2>1, <2>2, NoneAssumption, OneCallX DEF StillReleased
<1> QED BY <1>1, <1>2

LEMMA InitX == Init => ReleaseInv /\ Apart
BY NoneAssumption DEF Init, Idle, ReleaseInv, Apart, StillReleased

\* The steps by which a call keeps its room or gives it up, and writes no row.
LEMMA QuietX ==
  ASSUME IInv, ReleaseInv, NEW c \in Calls,
         \/ Deny(c) \/ Audit(c) \/ Locate(c) \/ Push(c) \/ FindWaiting(c)
         \/ Announced(c) \/ Reply(c) \/ Abort(c)
         \/ \E a \in Arrivals : Notify(c, a)
  PROVE  KeepsX
<1>1. call[c] \in CallType /\ CallInv(call[c], board, dnd)
  BY DEF IInv, TypeOK
<1>2. StillReleased(call[c], board)
  BY DEF ReleaseInv
<1>3. CASE Deny(c)
  BY <1>1, <1>3, FinishedX DEF Deny
<1>4. CASE Audit(c)
  <2>1. board' = board
    BY <1>4 DEF Audit
  <2>2. CASE IsAttendantStart(c)
    <3>1. call' = [call EXCEPT ![c] = [call[c] EXCEPT !.pc = "locate"]]
      BY <1>4, <2>2 DEF Audit
    <3>2. StillReleased([call[c] EXCEPT !.pc = "locate"], board)
      BY <1>1 DEF StillReleased, CallType
    <3> QED BY <1>1, <2>1, <3>1, <3>2, SameRoomX DEF CallType
  <2>3. CASE ~IsAttendantStart(c) /\ Release(c)
    <3>1. call' = [call EXCEPT ![c] = [call[c] EXCEPT !.pc = "push"]]
      BY <1>4, <2>3 DEF Audit
    <3>2. StillReleased([call[c] EXCEPT !.pc = "push"], board)
      BY <1>1, <1>2, <1>4, <2>3 DEF Audit, StillReleased, CallType, Release
    <3> QED BY <1>1, <2>1, <3>1, <3>2, SameRoomX DEF CallType
  <2>4. CASE ~IsAttendantStart(c) /\ ~Release(c)
    <3>1. call' = [call EXCEPT ![c] = Finished(call[c], TRUE)]
      BY <1>4, <2>4 DEF Audit
    <3> QED BY <1>1, <2>1, <3>1, FinishedX
  <2> QED BY <2>2, <2>3, <2>4
<1>5. CASE Locate(c)
  BY <1>1, <1>5, FinishedX DEF Locate
<1>6. CASE Push(c)
  <2>1. StillReleased([call[c] EXCEPT !.pc = "find"], board)
    BY <1>1 DEF StillReleased, CallType
  <2> QED BY <1>1, <1>6, <2>1, SameRoomX DEF Push, CallType
<1>7. CASE FindWaiting(c)
  <2> DEFINE k == [call[c] EXCEPT !.pc = "notify", !.tell = waiting[call[c].cur]]
  <2>1. call' = [call EXCEPT ![c] = k] /\ board' = board
    BY <1>7 DEF FindWaiting
  <2>2. k.pc = "notify" /\ k.cur = call[c].cur /\ k.marks = call[c].marks
    BY <1>1 DEF CallType
  <2> HIDE DEF k
  <2> QED BY <2>1, <2>2, SameRoomX DEF StillReleased
<1>8. CASE \E a \in Arrivals : Notify(c, a)
  <2>1. PICK a \in Arrivals : Notify(c, a)
    BY <1>8
  <2> DEFINE k == [call[c] EXCEPT !.tell = @ \ {a}]
  <2>2. call' = [call EXCEPT ![c] = k] /\ board' = board /\ call[c].pc = "notify"
    BY <2>1 DEF Notify
  <2>3. k.pc = "notify" /\ k.cur = call[c].cur /\ k.marks = call[c].marks
    BY <1>1, <2>2 DEF CallType
  <2> HIDE DEF k
  <2> QED BY <2>2, <2>3, SameRoomX DEF StillReleased
<1>9. CASE Announced(c)
  BY <1>1, <1>9, FinishedX DEF Announced
<1>10. CASE Reply(c)
  <2> DEFINE k == [call[c] EXCEPT !.pc = "idle", !.user = None, !.input = NoInput]
  <2>1. call' = [call EXCEPT ![c] = k] /\ board' = board
    BY <1>10 DEF Reply
  <2>2. k.pc = "idle" /\ k.cur = call[c].cur /\ k.marks = call[c].marks
    BY <1>1 DEF CallType
  <2> HIDE DEF k
  <2> QED BY <2>1, <2>2, SameRoomX DEF StillReleased
<1>11. CASE Abort(c)
  <2>1. Idle.cur = None /\ Idle.marks = {} /\ Idle.pc = "idle"
    BY DEF Idle
  <2> QED BY <1>11, <2>1, NoneAssumption, OneCallX DEF Abort, StillReleased
<1> QED BY <1>3, <1>4, <1>5, <1>6, <1>7, <1>8, <1>9, <1>10, <1>11

\* Taking a room is where Exclusive matters: no other call has it.
LEMMA ReadX ==
  ASSUME IInv, ReleaseInv, NEW c \in Calls, NEW r \in Rooms, Read(c, r)
  PROVE  KeepsX
<1> DEFINE k == [call[c] EXCEPT !.todo = @ \ {r}, !.cur = r,
                                !.from = board[r].status,
                                !.note = board[r].reworkNote]
<1>1. /\ call[c] \in CallType
      /\ Exclusive /\ Apart => "stale" \notin call[c].marks /\ \A d \in Calls : call[d].cur # r
  BY DEF Read, IInv, TypeOK, Apart
<1>2. k \in CallType
  BY <1>1 DEF IInv, TypeOK, CallType, Maybe
<1>3. k.cur = r /\ k.marks = call[c].marks
  BY <1>1 DEF CallType
<1>4. board' = board
  BY DEF Read
<1>5. CASE CheckTransition(Role(c), board[r].status, k.input.status) # "ok"
  <2>1. call' = [call EXCEPT ![c] = [k EXCEPT !.pc = "deny"]]
    BY <1>5 DEF Read
  <2>2. /\ [k EXCEPT !.pc = "deny"].cur = r /\ [k EXCEPT !.pc = "deny"].pc = "deny"
        /\ [k EXCEPT !.pc = "deny"].marks = call[c].marks
    BY <1>2, <1>3 DEF CallType
  <2> HIDE DEF k
  <2> QED BY <1>1, <1>4, <2>1, <2>2, OneCallX DEF StillReleased
<1>6. CASE /\ CheckTransition(Role(c), board[r].status, k.input.status) = "ok"
           /\ IsAttendantStart(c)
  <2>1. call' = [call EXCEPT ![c] = [k EXCEPT !.pc = "dnd"]]
    BY <1>6 DEF Read
  <2>2. /\ [k EXCEPT !.pc = "dnd"].cur = r /\ [k EXCEPT !.pc = "dnd"].pc = "dnd"
        /\ [k EXCEPT !.pc = "dnd"].marks = call[c].marks
    BY <1>2, <1>3 DEF CallType
  <2> HIDE DEF k
  <2> QED BY <1>1, <1>4, <2>1, <2>2, OneCallX DEF StillReleased
<1>7. CASE /\ CheckTransition(Role(c), board[r].status, k.input.status) = "ok"
           /\ ~IsAttendantStart(c)
  <2>1. call' = [call EXCEPT ![c] = Validated(k)]
    BY <1>7 DEF Read
  <2> HIDE DEF k
  <2> QED BY <1>1, <1>2, <1>3, <1>4, <2>1, ValidatedX
<1> QED BY <1>5, <1>6, <1>7

LEMMA CheckDndX ==
  ASSUME IInv, ReleaseInv, NEW c \in Calls, CheckDnd(c)
  PROVE  KeepsX
<1> DEFINE k == [call[c] EXCEPT !.marks = @ \ {"dndLate"}]
           deny == [call[c] EXCEPT !.pc = "deny"]
<1>1. /\ call[c] \in CallType /\ call[c].cur \in Rooms
      /\ Apart => /\ "stale" \notin call[c].marks
                  /\ \A d \in Calls : d # c => call[d].cur # call[c].cur
  BY BusyCall DEF CheckDnd, Apart
<1>2. CASE dnd[call[c].cur] > 0
  <2>1. call' = [call EXCEPT ![c] = deny] /\ board' = board
    BY <1>2 DEF CheckDnd
  <2>2. deny.pc = "deny" /\ deny.cur = call[c].cur /\ deny.marks = call[c].marks
    BY <1>1 DEF CallType
  <2> HIDE DEF deny
  <2> QED BY <2>1, <2>2, SameRoomX DEF StillReleased
<1>3. CASE ~(dnd[call[c].cur] > 0)
  <2>1. call' = [call EXCEPT ![c] = Validated(k)] /\ board' = board
    BY <1>3 DEF CheckDnd
  <2>2. k \in CallType
    <3>1. call[c].marks \ {"dndLate"} \in SUBSET Marks
      BY <1>1 DEF CallType
    <3> QED BY <3>1, <1>1 DEF CallType
  <2>3. k.cur = call[c].cur /\ k.marks \subseteq call[c].marks
    BY <1>1 DEF CallType
  <2> HIDE DEF k
  <2> QED BY <1>1, <2>1, <2>2, <2>3, ValidatedX
<1> QED BY <1>2, <1>3

LEMMA WriteX ==
  ASSUME IInv, ReleaseInv, NEW c \in Calls, Write(c)
  PROVE  KeepsX
<1> DEFINE r == call[c].cur
           k == [call[c] EXCEPT !.pc = "audit", !.wrote = @ \cup {r}]
           late(d) == [call[d] EXCEPT !.marks = @ \cup {"stale"}]
<1>1. call[c] \in CallType /\ r \in Rooms /\ call[c].pc = "write"
  BY BusyCall DEF Write
<1>2. \A d \in Calls : call'[d] = IF d = c THEN k ELSE IF call[d].cur = r THEN late(d) ELSE call[d]
  BY DEF Write
<1>3. /\ k.cur = r /\ k.marks = call[c].marks /\ k.pc = "audit"
      /\ k.input = call[c].input
  BY <1>1 DEF CallType
<1>4. \A d \in Calls : /\ late(d).cur = call[d].cur /\ late(d).pc = call[d].pc
                       /\ late(d).input = call[d].input /\ "stale" \in late(d).marks
  BY DEF IInv, TypeOK, CallType
<1>5. board' = [board EXCEPT ![r] = Updated(c)] /\ board \in [Rooms -> RowType]
  BY DEF Write, IInv, TypeOK, RowType
<1>6. Updated(c).status = call[c].input.status
  BY <1>1, UpdatedRow
<1> HIDE DEF k, late
<1>7. ASSUME NEW d \in Calls PROVE StillReleased(call'[d], board')
  <2>1. CASE d = c
    <3>1. call'[d] = k /\ board'[r].status = k.input.status
      BY <2>1, <1>1, <1>2, <1>3, <1>5, <1>6
    <3> QED BY <3>1, <1>3 DEF StillReleased
  <2>2. CASE d # c /\ call[d].cur = r
    BY <2>2, <1>2, <1>4 DEF ReleaseInv, StillReleased
  <2>3. CASE d # c /\ call[d].cur # r
    <3>1. call'[d] = call[d] /\ board'[call[d].cur] = board[call[d].cur]
      BY <2>3, <1>2, <1>5
    <3> QED BY <3>1 DEF ReleaseInv, StillReleased
  <2> QED BY <2>1, <2>2, <2>3
<1>8. ASSUME Apart PROVE Apart'
  <2>1. \A d \in Calls : d # c => call'[d] = call[d]
    BY <1>1, <1>2, <1>8 DEF Apart
  <2>2. call'[c].cur = call[c].cur /\ call'[c].marks = call[c].marks
    BY <1>2, <1>3
  <2> QED BY <1>8, <2>1, <2>2 DEF Apart
<1> QED BY <1>7, <1>8 DEF KeepsX, ReleaseInv

LEMMA EnvironmentX ==
  ASSUME IInv, ReleaseInv, NEW r \in Rooms, NEW a,
         \/ RaiseDnd(r) \/ CloseDnd(r) \/ Expect(r, a) \/ Withdraw(r, a)
  PROVE  KeepsX
<1>1. CASE RaiseDnd(r)
  <2>1. \A c \in Calls : /\ call'[c].cur = call[c].cur /\ call'[c].pc = call[c].pc
                         /\ call'[c].input = call[c].input
                         /\ ("stale" \in call'[c].marks <=> "stale" \in call[c].marks)
    <3> SUFFICES ASSUME NEW c \in Calls
                 PROVE  /\ call'[c].cur = call[c].cur /\ call'[c].pc = call[c].pc
                        /\ call'[c].input = call[c].input
                        /\ ("stale" \in call'[c].marks <=> "stale" \in call[c].marks)
      OBVIOUS
    <3>1. call[c] \in CallType
      BY DEF IInv, TypeOK
    <3>2. CASE call[c].cur = r
      <4>1. call'[c] = [call[c] EXCEPT !.marks = @ \cup {"dndLate"}]
        BY <1>1, <3>2 DEF RaiseDnd
      <4> QED BY <3>1, <4>1 DEF CallType
    <3>3. CASE call[c].cur # r
      <4>1. call'[c] = call[c]
        BY <1>1, <3>3 DEF RaiseDnd
      <4> QED BY <4>1
    <3> QED BY <3>2, <3>3
  <2>2. board' = board
    BY <1>1 DEF RaiseDnd
  <2>3. ReleaseInv'
    BY <2>1, <2>2 DEF ReleaseInv, StillReleased
  <2>4. Apart => Apart'
    BY <2>1 DEF Apart
  <2> QED BY <2>3, <2>4 DEF KeepsX
<1>2. CASE CloseDnd(r) \/ Expect(r, a) \/ Withdraw(r, a)
  BY <1>2 DEF CloseDnd, Expect, Withdraw, KeepsX, ReleaseInv, Apart, StillReleased
<1> QED BY <1>1, <1>2

LEMMA ApplyPlanX ==
  ASSUME ReleaseInv, NEW assigned, NEW pushed, ApplyPlan(assigned, pushed) PROVE KeepsX
BY DEF ApplyPlan, KeepsX, ReleaseInv, Apart, StillReleased

LEMMA ReceiveX ==
  ASSUME IInv, ReleaseInv, NEW c \in Calls, NEW u, NEW i, NEW b, Receive(c, u, i, b)
  PROVE  KeepsX
<1> DEFINE k == [Idle EXCEPT !.pc = "next", !.user = u, !.input = i,
                             !.todo = b, !.asked = b]
<1>1. k.pc = "next" /\ k.cur = None /\ k.marks = {}
  BY DEF Idle
<1>2. call' = [call EXCEPT ![c] = k] /\ board' = board
  BY DEF Receive
<1> HIDE DEF k
<1> QED BY <1>1, <1>2, NoneAssumption, OneCallX DEF StillReleased

LEMMA NextX == IInv /\ ReleaseInv /\ [Next]_vars => KeepsX
<1> SUFFICES ASSUME IInv, ReleaseInv, [Next]_vars PROVE KeepsX
  OBVIOUS
<1>1. CASE UNCHANGED vars
  BY <1>1 DEF vars, KeepsX, ReleaseInv, Apart, StillReleased
<1>2. CASE Environment
  BY <1>2, EnvironmentX, ApplyPlanX, ReceiveX, QuietX DEF Environment
<1>3. CASE \E c \in Calls : HandlerStep(c)
  BY <1>3, ReadX, CheckDndX, WriteX, QuietX DEF HandlerStep
<1> QED BY <1>1, <1>2, <1>3 DEF Next

LEMMA StaysReleased == Spec => []ReleaseInv
BY InitX, NextX, Invariance, PTL DEF Spec, KeepsX

LEMMA StaysApart == ASSUME Exclusive PROVE Spec => []Apart
BY InitX, NextX, StaysReleased, Invariance, PTL DEF Spec, KeepsX

-----------------------------------------------------------------------------
(***************************************************************************)
(* The simulation: unless the call was overtaken, a write is a Change and  *)
(* a push is TellPMS (or a stutter, when the room had been announced       *)
(* already); all else is a stutter.                                        *)
(***************************************************************************)

\* The abstract variables, as RoomStatus maps them.
BoardStatus == [r \in Rooms |-> board[r].status]
BoardHeard == [r \in Rooms |-> <<r, "pms">> \notin owed]

\* RoomBoard has the state machine of StateMachine.
LEMMA SameStateMachine ==
  /\ Board!Roles = Roles /\ Board!RoomStatuses = RoomStatuses
  /\ \A role, from, to :
       Board!CheckTransition(role, from, to) = CheckTransition(role, from, to)
<1>1. Board!Roles = Roles
  BY DEF Board!Roles, Roles
<1>2. Board!RoomStatuses = RoomStatuses
  BY DEF Board!RoomStatuses, RoomStatuses
<1>3. \A role : Board!RoleAllowedTargets(role) = RoleAllowedTargets(role)
  BY <1>2 DEF Board!RoleAllowedTargets, RoleAllowedTargets, Board!AttendantTargets,
              AttendantTargets, Board!Releasers, Releasers
<1>4. \A from : Board!LegalTargets(from) = LegalTargets(from)
  BY DEF Board!LegalTargets, LegalTargets, Board!Closed, Closed
<1> QED BY <1>1, <1>2, <1>3, <1>4 DEF Board!CheckTransition, CheckTransition

LEMMA WriteChanges ==
  ASSUME IInv, NEW c \in Calls, Write(c), "stale" \notin call[c].marks, NEW r \in Rooms, r = call[c].cur
  PROVE  Board!Change(r)
<1> DEFINE to == call[c].input.status
<1>1. /\ call[c] \in CallType /\ r \in Rooms /\ call[c].pc = "write"
      /\ CallInv(call[c], board, dnd) /\ call[c].user \in Users
      /\ call[c].input \in Inputs
  BY BusyCall DEF Write
<1>2. call[c].from = board[r].status
  BY <1>1 DEF CallInv
<1>3. Role(c) \in Roles /\ to \in RoomStatuses
  BY <1>1, RoleAssumption, BoundAssumption DEF Role, Inputs
<1>4. CheckTransition(Role(c), BoardStatus[r], to) = "ok"
  BY <1>1, <1>2 DEF CallInv, Role, BoardStatus
<1>5. BoardStatus' = [BoardStatus EXCEPT ![r] = to]
  <2>1. board' = [board EXCEPT ![r] = Updated(c)] /\ board \in [Rooms -> RowType]
    BY DEF Write, IInv, TypeOK, RowType
  <2>2. Updated(c).status = to
    BY <1>1, UpdatedRow
  <2> QED BY <2>1, <2>2, <1>1 DEF BoardStatus
<1>6. BoardHeard' = [BoardHeard EXCEPT ![r] = IF to = "INSPECTED" THEN FALSE ELSE @]
  <2>1. CASE to = "INSPECTED"
    <3>1. owed' = owed \cup {<<r, "pms">>} \cup ({r} \X waiting[r])
      BY <2>1 DEF Write, Release
    <3>2. "pms" \notin waiting[r]
      BY <1>1, NoneAssumption DEF IInv, TypeOK
    <3>3. \A q \in Rooms : <<q, "pms">> \in owed' <=> (<<q, "pms">> \in owed \/ q = r)
      BY <3>1, <3>2
    <3> QED BY <2>1, <3>3, <1>1 DEF BoardHeard
  <2>2. CASE to # "INSPECTED"
    <3>1. owed' = owed
      BY <2>2 DEF Write, Release
    <3> QED BY <2>2, <3>1, <1>1 DEF BoardHeard
  <2> QED BY <2>1, <2>2
<1>7. Board!CheckTransition(Role(c), BoardStatus[r], to) = "ok"
  BY <1>4, SameStateMachine
<1>8. Role(c) \in Board!Roles /\ to \in Board!RoomStatuses
  BY <1>3, SameStateMachine
<1> HIDE DEF to
<1> QED BY <1>5, <1>6, <1>7, <1>8 DEF Board!Change, BoardStatus, BoardHeard

LEMMA PushTells ==
  ASSUME IInv, ReleaseInv, NEW c \in Calls, Push(c), "stale" \notin call[c].marks, NEW r \in Rooms, r = call[c].cur
  PROVE  Board!TellPMS(r) \/ UNCHANGED Board!vars
<1>1. r \in Rooms /\ board[r].status = "INSPECTED"
  BY BusyCall DEF Push, ReleaseInv, StillReleased
<1>2. BoardStatus' = BoardStatus
  BY DEF Push, BoardStatus
<1>3. \A q \in Rooms : <<q, "pms">> \in owed' <=> <<q, "pms">> \in owed /\ q # r
  BY DEF Push
<1>4. BoardHeard' = [BoardHeard EXCEPT ![r] = TRUE]
  BY <1>1, <1>3 DEF BoardHeard
<1>5. CASE BoardHeard[r]
  <2>1. BoardHeard' = BoardHeard
    BY <1>4, <1>5 DEF BoardHeard
  <2> QED BY <1>2, <2>1 DEF Board!vars, BoardStatus, BoardHeard
<1>6. CASE ~BoardHeard[r]
  BY <1>1, <1>2, <1>4, <1>6 DEF Board!TellPMS, BoardStatus, BoardHeard
<1> QED BY <1>5, <1>6

\* Every other step leaves the statuses and the PMS's claims as they are.
LEMMA OthersStutter ==
  ASSUME IInv, [Next]_vars, \A c \in Calls : ~Write(c) /\ ~Push(c)
  PROVE  UNCHANGED Board!vars
<1>1. board' = board
  BY DEF Next, Environment, HandlerStep, vars, RaiseDnd, CloseDnd, ApplyPlan, Expect,
         Withdraw, Receive, Abort, Read, CheckDnd, Deny, Audit, Locate, FindWaiting,
         Notify, Announced, Reply
<1>2. \A q \in Rooms : <<q, "pms">> \in owed' <=> <<q, "pms">> \in owed
  <2>1. CASE owed' = owed
    BY <2>1
  <2>2. CASE \E q \in Rooms, a \in Arrivals : owed' = owed \ {<<q, a>>}
    BY <2>2, NoneAssumption
  <2>3. CASE \E c \in Calls, a \in Arrivals : Notify(c, a)
    BY <2>3, NoneAssumption DEF Notify
  <2> QED
    BY <2>1, <2>2, <2>3
    DEF Next, Environment, HandlerStep, vars, RaiseDnd, CloseDnd, ApplyPlan, Expect,
        Withdraw, Receive, Abort, Read, CheckDnd, Deny, Audit, Locate, FindWaiting,
        Announced, Reply
<1> QED BY <1>1, <1>2 DEF Board!vars

\* Call c writes a room, or tells the PMS of its release, that another call has written since c
\* read it.
Overtaken(c) == "stale" \in call[c].marks /\ (Write(c) \/ Push(c))

LEMMA StartsBoard == Init => Board!Init
<1> SUFFICES ASSUME Init PROVE Board!Init
  OBVIOUS
<1>1. BoardStatus \in [Rooms -> RoomStatuses]
  BY InitInv DEF IInv, TypeOK, BoardStatus
<1>2. BoardHeard = [r \in Rooms |-> TRUE]
  BY DEF Init, BoardHeard
<1> QED BY <1>1, <1>2, SameStateMachine DEF Board!Init, BoardStatus, BoardHeard

LEMMA MovesBoard ==
  ASSUME IInv, ReleaseInv, [Next]_vars
  PROVE  Board!Next \/ UNCHANGED Board!vars \/ \E c \in Calls : Overtaken(c)
<1> SUFFICES ASSUME \A c \in Calls : ~Overtaken(c)
             PROVE  Board!Next \/ UNCHANGED Board!vars
  OBVIOUS
<1>1. CASE \E c \in Calls : Write(c)
  <2>1. PICK c \in Calls : Write(c)
    BY <1>1
  <2>2. PICK r \in Rooms : r = call[c].cur
    BY <2>1, BusyCall DEF Write
  <2> QED BY <2>1, <2>2, WriteChanges DEF Board!Next, Overtaken
<1>2. CASE \E c \in Calls : Push(c)
  <2>1. PICK c \in Calls : Push(c)
    BY <1>2
  <2>2. PICK r \in Rooms : r = call[c].cur
    BY <2>1, BusyCall DEF Push
  <2> QED BY <2>1, <2>2, PushTells DEF Board!Next, Overtaken
<1>3. CASE \A c \in Calls : ~Write(c) /\ ~Push(c)
  BY <1>3, OthersStutter
<1> QED BY <1>1, <1>2, <1>3

\* However many calls work on one room, every step of the handlers, which work in many interleaved
\* steps, is one of the board whose changes are indivisible, or leaves that board alone, unless it
\* is the write or the announcement of a call that was overtaken on its room.
THEOREM Refinement ==
  Spec => /\ Board!Init
          /\ [][Board!Next \/ UNCHANGED Board!vars \/ \E c \in Calls : Overtaken(c)]_vars
BY StartsBoard, MovesBoard, StaysReleased, Invariance, PTL DEF Spec

\* In particular, without two calls on one room the handlers implement the board.
COROLLARY RefinementAlone == ASSUME Exclusive PROVE Spec => ImplementsBoard
<1>1. ASSUME IInv, ReleaseInv, Apart, [Next]_vars
      PROVE  Board!Next \/ UNCHANGED Board!vars
  BY <1>1, MovesBoard DEF Apart, Overtaken
<1> QED BY <1>1, StartsBoard, StaysReleased, StaysApart, Invariance, PTL
        DEF Spec, ImplementsBoard, Board!Spec

-----------------------------------------------------------------------------
(***************************************************************************)
(* What a batch leaves behind: its report, and the audit trail.            *)
(***************************************************************************)

\* What request k was asked for is yet to do, done, failed, or in S.
Split(k, S) ==
  /\ k.asked = k.todo \cup k.succeeded \cup k.failed \cup S
  /\ \A r \in k.todo : r \notin k.succeeded \cup k.failed \cup S
  /\ \A r \in k.succeeded : r \notin k.failed \cup S
  /\ \A r \in k.failed : r \notin S

\* Which of it the request has written, before it has the room in hand written ...
Unwritten(k) == Split(k, {k.cur}) /\ k.wrote = k.succeeded

\* ... and after.
Written(k) == Split(k, {k.cur}) /\ k.wrote = k.succeeded \cup {k.cur}

ReportInv(k) ==
  /\ k.pc \in {"idle", "next"} => Split(k, {}) /\ k.wrote = k.succeeded
  /\ k.pc \in {"dnd", "deny", "write"} => Unwritten(k)
  /\ k.pc \in {"audit", "locate", "push", "find", "notify"} => Written(k)
  /\ k.pc = "idle" => k.todo = {}

RInv == \A c \in Calls : ReportInv(call[c])

LEMMA OneCallR ==
  ASSUME IInv, RInv, NEW c \in Calls, NEW k, call' = [call EXCEPT ![c] = k], ReportInv(k)
  PROVE  RInv'
BY DEF RInv, IInv, TypeOK

\* Two records that differ in neither room nor report.
Alike(k, m) ==
  /\ m.cur = k.cur /\ m.todo = k.todo /\ m.asked = k.asked
  /\ m.succeeded = k.succeeded /\ m.failed = k.failed /\ m.wrote = k.wrote

LEMMA AlikeSplit ==
  ASSUME NEW k, NEW m, Alike(k, m)
  PROVE  (Unwritten(k) => Unwritten(m)) /\ (Written(k) => Written(m))
BY DEF Alike, Unwritten, Written, Split

\* A room is done with: what becomes of it is reported.
LEMMA FinishedR ==
  ASSUME NEW k \in CallType, k.cur \in Rooms, NEW ok \in BOOLEAN,
         IF ok THEN Written(k) ELSE Unwritten(k)
  PROVE  ReportInv(Finished(k, ok))
<1> DEFINE f == Finished(k, ok)
<1>1. CASE ok
  <2>1. /\ f.pc = "next" /\ f.todo = k.todo /\ f.asked = k.asked /\ f.wrote = k.wrote
        /\ f.succeeded = k.succeeded \cup {k.cur} /\ f.failed = k.failed
    BY <1>1 DEF Finished, CallType
  <2>2. Written(k)
    BY <1>1
  <2> HIDE DEF f
  <2>3. Split(f, {})
    BY <2>1, <2>2 DEF Written, Split
  <2>4. f.wrote = f.succeeded
    BY <2>1, <2>2 DEF Written
  <2>5. ReportInv(f)
    BY <2>1, <2>3, <2>4 DEF ReportInv
  <2> QED BY <2>5 DEF f
<1>2. CASE ~ok
  <2>1. /\ f.pc = "next" /\ f.todo = k.todo /\ f.asked = k.asked /\ f.wrote = k.wrote
        /\ f.succeeded = k.succeeded /\ f.failed = k.failed \cup {k.cur}
    BY <1>2 DEF Finished, CallType
  <2>2. Unwritten(k)
    BY <1>2
  <2> HIDE DEF f
  <2>3. Split(f, {})
    BY <2>1, <2>2 DEF Unwritten, Split
  <2>4. f.wrote = f.succeeded
    BY <2>1, <2>2 DEF Unwritten
  <2>5. ReportInv(f)
    BY <2>1, <2>3, <2>4 DEF ReportInv
  <2> QED BY <2>5 DEF f
<1> QED BY <1>1, <1>2

LEMMA ValidatedR ==
  ASSUME NEW k \in CallType, k.cur \in Rooms, Unwritten(k)
  PROVE  ReportInv(Validated(k))
<1>1. CASE Complete(k.input)
  <2> DEFINE m == [k EXCEPT !.pc = "write"]
  <2>1. Validated(k) = m
    BY <1>1 DEF Validated
  <2>2. Alike(k, m) /\ m.pc = "write"
    BY DEF Alike, CallType
  <2> HIDE DEF m
  <2>3. Unwritten(m)
    BY <2>2, AlikeSplit
  <2> QED BY <2>1, <2>2, <2>3 DEF ReportInv
<1>2. CASE ~Complete(k.input)
  <2>1. Validated(k) = Finished(k, FALSE)
    BY <1>2 DEF Validated
  <2> QED BY <2>1, FinishedR
<1> QED BY <1>1, <1>2

LEMMA InitR == Init => RInv
<1>1. /\ Idle.pc = "idle" /\ Idle.todo = {} /\ Idle.asked = {} /\ Idle.wrote = {}
      /\ Idle.succeeded = {} /\ Idle.failed = {}
  BY DEF Idle
<1>2. ReportInv(Idle)
  BY <1>1 DEF ReportInv, Split
<1> QED BY <1>2 DEF Init, RInv

LEMMA ReadR ==
  ASSUME IInv, RInv, NEW c \in Calls, NEW r \in Rooms, Read(c, r)
  PROVE  RInv'
<1> DEFINE k == [call[c] EXCEPT !.todo = @ \ {r}, !.cur = r,
                                !.from = board[r].status,
                                !.note = board[r].reworkNote]
<1>1. call[c] \in CallType /\ ReportInv(call[c]) /\ call[c].pc = "next" /\ r \in call[c].todo
  BY DEF Read, IInv, TypeOK, RInv
<1>2. k \in CallType
  BY <1>1 DEF IInv, TypeOK, CallType, Maybe
<1>3. /\ k.cur = r /\ k.todo = call[c].todo \ {r} /\ k.asked = call[c].asked
      /\ k.succeeded = call[c].succeeded /\ k.failed = call[c].failed /\ k.wrote = call[c].wrote
  BY <1>1 DEF CallType
<1> DEFINE verdict == CheckTransition(Role(c), board[r].status, k.input.status)
<1>4. call' = [call EXCEPT ![c] =
                 IF verdict # "ok" THEN [k EXCEPT !.pc = "deny"]
                 ELSE IF IsAttendantStart(c) THEN [k EXCEPT !.pc = "dnd"]
                 ELSE Validated(k)]
  BY DEF Read
<1> HIDE DEF k, verdict
<1>5. Unwritten(k)
  <2>1. Split(call[c], {}) /\ call[c].wrote = call[c].succeeded
    BY <1>1 DEF ReportInv
  <2>2. Split(k, {r})
    BY <1>1, <1>3, <2>1 DEF Split
  <2> QED BY <1>3, <2>1, <2>2 DEF Unwritten
<1>6. ASSUME NEW p \in {"deny", "dnd"} PROVE ReportInv([k EXCEPT !.pc = p])
  <2>1. Alike(k, [k EXCEPT !.pc = p]) /\ [k EXCEPT !.pc = p].pc = p
    BY <1>2 DEF Alike, CallType
  <2>2. Unwritten([k EXCEPT !.pc = p])
    BY <1>5, <2>1, AlikeSplit
  <2> QED BY <2>1, <2>2 DEF ReportInv
<1>7. ReportInv(Validated(k))
  BY <1>2, <1>3, <1>5, ValidatedR
<1>8. CASE verdict # "ok"
  BY <1>4, <1>6, <1>8, OneCallR
<1>9. CASE verdict = "ok" /\ IsAttendantStart(c)
  BY <1>4, <1>6, <1>9, OneCallR
<1>10. CASE verdict = "ok" /\ ~IsAttendantStart(c)
  BY <1>4, <1>7, <1>10, OneCallR
<1> QED BY <1>8, <1>9, <1>10

LEMMA CheckDndR == ASSUME IInv, RInv, NEW c \in Calls, CheckDnd(c) PROVE RInv'
<1> DEFINE k == [call[c] EXCEPT !.marks = @ \ {"dndLate"}]
           deny == [call[c] EXCEPT !.pc = "deny"]
<1>1. /\ call[c] \in CallType /\ call[c].cur \in Rooms /\ Unwritten(call[c])
  BY BusyCall DEF CheckDnd, RInv, ReportInv
<1>2. call' = [call EXCEPT ![c] = IF dnd[call[c].cur] > 0 THEN deny ELSE Validated(k)]
  BY DEF CheckDnd
<1>3. k \in CallType
  <2>1. call[c].marks \ {"dndLate"} \in SUBSET Marks
    BY <1>1 DEF CallType
  <2> QED BY <2>1, <1>1 DEF CallType
<1>4. Alike(call[c], k) /\ Alike(call[c], deny) /\ deny.pc = "deny" /\ k.cur = call[c].cur
  BY <1>1 DEF Alike, CallType
<1> HIDE DEF k, deny
<1>5. ReportInv(deny) /\ Unwritten(k)
  BY <1>1, <1>4, AlikeSplit DEF ReportInv
<1>6. ReportInv(Validated(k))
  BY <1>1, <1>3, <1>4, <1>5, ValidatedR
<1> QED BY <1>2, <1>5, <1>6, OneCallR

LEMMA WriteR == ASSUME IInv, RInv, NEW c \in Calls, Write(c) PROVE RInv'
<1> DEFINE r == call[c].cur
           k == [call[c] EXCEPT !.pc = "audit", !.wrote = @ \cup {r}]
<1>1. call[c] \in CallType /\ Unwritten(call[c])
  BY BusyCall DEF Write, RInv, ReportInv
<1>2. k.pc = "audit" /\ k.wrote = call[c].wrote \cup {r} /\ k.cur = r
      /\ k.todo = call[c].todo /\ k.asked = call[c].asked
      /\ k.succeeded = call[c].succeeded /\ k.failed = call[c].failed
  BY <1>1 DEF CallType
<1>3. \A d \in Calls :
        call'[d] = IF d = c THEN k
                   ELSE IF call[d].cur = r THEN [call[d] EXCEPT !.marks = @ \cup {"stale"}]
                   ELSE call[d]
  BY DEF Write
<1> HIDE DEF k
<1>4. ReportInv(k)
  BY <1>1, <1>2 DEF ReportInv, Unwritten, Written, Split
<1>5. ASSUME NEW d \in Calls, d # c PROVE ReportInv(call'[d])
  <2>1. call[d] \in CallType /\ ReportInv(call[d])
    BY DEF IInv, TypeOK, RInv
  <2>2. Alike(call[d], call'[d]) /\ call'[d].pc = call[d].pc
    BY <1>3, <1>5, <2>1 DEF Alike, CallType
  <2> QED BY <2>1, <2>2 DEF ReportInv, Alike, Unwritten, Written, Split
<1> QED BY <1>3, <1>4, <1>5 DEF RInv

\* The steps by which a call keeps its room or gives it up.
LEMMA QuietR ==
  ASSUME IInv, RInv, NEW c \in Calls,
         \/ Deny(c) \/ Audit(c) \/ Locate(c) \/ Push(c) \/ FindWaiting(c)
         \/ Announced(c) \/ Reply(c) \/ Abort(c)
         \/ \E a \in Arrivals : Notify(c, a)
  PROVE  RInv'
<1>1. call[c] \in CallType /\ ReportInv(call[c])
  BY DEF IInv, TypeOK, RInv
<1>2. CASE Deny(c)
  BY <1>1, <1>2, BusyCall, FinishedR, OneCallR DEF Deny, ReportInv
<1>3. CASE Locate(c) \/ Announced(c)
  <2>1. /\ call' = [call EXCEPT ![c] = Finished(call[c], TRUE)]
        /\ call[c].pc \in {"locate", "notify"}
    BY <1>3 DEF Locate, Announced
  <2>2. call[c].cur \in Rooms /\ Written(call[c])
    BY <1>1, <2>1, BusyCall DEF ReportInv
  <2> QED BY <1>1, <2>1, <2>2, FinishedR, OneCallR
\* A written room stays in hand.
<1>4. ASSUME Written(call[c]), NEW k, call' = [call EXCEPT ![c] = k], Alike(call[c], k),
             k.pc \in {"locate", "push", "find", "notify"}
      PROVE  RInv'
  <2>1. Written(k)
    BY <1>4, AlikeSplit
  <2>2. ReportInv(k)
    BY <1>4, <2>1 DEF ReportInv
  <2> QED BY <1>4, <2>2, OneCallR
<1>5. CASE Audit(c)
  <2>1. call[c].cur \in Rooms /\ Written(call[c])
    BY <1>1, <1>5, BusyCall DEF Audit, ReportInv
  <2>2. ASSUME NEW p \in {"locate", "push"}, call' = [call EXCEPT ![c] = [call[c] EXCEPT !.pc = p]]
        PROVE  RInv'
    <3>1. Alike(call[c], [call[c] EXCEPT !.pc = p]) /\ [call[c] EXCEPT !.pc = p].pc = p
      BY <1>1 DEF Alike, CallType
    <3> QED BY <1>4, <2>1, <2>2, <3>1
  <2>3. ASSUME call' = [call EXCEPT ![c] = Finished(call[c], TRUE)] PROVE RInv'
    BY <1>1, <2>1, <2>3, FinishedR, OneCallR
  <2> QED BY <1>5, <2>2, <2>3 DEF Audit
<1>6. CASE Push(c)
  <2> DEFINE k == [call[c] EXCEPT !.pc = "find"]
  <2>1. call' = [call EXCEPT ![c] = k] /\ Written(call[c])
    BY <1>1, <1>6 DEF Push, ReportInv
  <2>2. Alike(call[c], k) /\ k.pc = "find"
    BY <1>1 DEF Alike, CallType
  <2> HIDE DEF k
  <2> QED BY <1>4, <2>1, <2>2
<1>7. CASE FindWaiting(c)
  <2> DEFINE k == [call[c] EXCEPT !.pc = "notify", !.tell = waiting[call[c].cur]]
  <2>1. call' = [call EXCEPT ![c] = k] /\ Written(call[c])
    BY <1>1, <1>7 DEF FindWaiting, ReportInv
  <2>2. Alike(call[c], k) /\ k.pc = "notify"
    BY <1>1 DEF Alike, CallType
  <2> HIDE DEF k
  <2> QED BY <1>4, <2>1, <2>2
<1>8. CASE \E a \in Arrivals : Notify(c, a)
  <2>1. PICK a \in Arrivals : Notify(c, a)
    BY <1>8
  <2> DEFINE k == [call[c] EXCEPT !.tell = @ \ {a}]
  <2>2. call' = [call EXCEPT ![c] = k] /\ Written(call[c]) /\ call[c].pc = "notify"
    BY <1>1, <2>1 DEF Notify, ReportInv
  <2>3. Alike(call[c], k) /\ k.pc = "notify"
    BY <1>1, <2>2 DEF Alike, CallType
  <2> HIDE DEF k
  <2> QED BY <1>4, <2>2, <2>3
<1>9. CASE Reply(c)
  <2> DEFINE k == [call[c] EXCEPT !.pc = "idle", !.user = None, !.input = NoInput]
  <2>1. /\ call' = [call EXCEPT ![c] = k] /\ call[c].pc = "next" /\ call[c].todo = {}
    BY <1>9 DEF Reply
  <2>2. Alike(call[c], k) /\ k.pc = "idle"
    BY <1>1 DEF Alike, CallType
  <2> HIDE DEF k
  <2>3. ReportInv(k)
    BY <1>1, <2>1, <2>2 DEF ReportInv, Alike, Split
  <2> QED BY <2>1, <2>3, OneCallR
<1>10. CASE Abort(c)
  <2>1. ReportInv(Idle)
    BY DEF ReportInv, Idle, Split
  <2> QED BY <1>10, <2>1, OneCallR DEF Abort
<1> QED BY <1>2, <1>3, <1>5, <1>6, <1>7, <1>8, <1>9, <1>10

LEMMA EnvironmentR ==
  ASSUME IInv, RInv, Environment PROVE RInv'
<1>1. CASE \E r \in Rooms : RaiseDnd(r)
  <2>1. PICK r \in Rooms : RaiseDnd(r)
    BY <1>1
  <2> SUFFICES ASSUME NEW c \in Calls PROVE ReportInv(call'[c])
    BY DEF RInv
  <2>2. call[c] \in CallType /\ ReportInv(call[c])
    BY DEF IInv, TypeOK, RInv
  <2>3. call'[c] = IF call[c].cur = r THEN [call[c] EXCEPT !.marks = @ \cup {"dndLate"}]
                   ELSE call[c]
    BY <2>1 DEF RaiseDnd
  <2>4. Alike(call[c], call'[c]) /\ call'[c].pc = call[c].pc
    BY <2>2, <2>3 DEF Alike, CallType
  <2> QED BY <2>2, <2>4 DEF ReportInv, Alike, Unwritten, Written, Split
<1>2. CASE \/ \E r \in Rooms : CloseDnd(r)
           \/ \E assigned, pushed \in SUBSET Rooms : ApplyPlan(assigned, pushed)
           \/ \E r \in Rooms, a \in Arrivals : Expect(r, a) \/ Withdraw(r, a)
  BY <1>2 DEF CloseDnd, ApplyPlan, Expect, Withdraw, RInv
<1>3. ASSUME NEW c \in Calls, NEW u \in Users, NEW i \in Inputs, NEW b \in Batches,
             Receive(c, u, i, b)
      PROVE  RInv'
  <2> DEFINE k == [Idle EXCEPT !.pc = "next", !.user = u, !.input = i,
                               !.todo = b, !.asked = b]
  <2>1. /\ k.pc = "next" /\ k.todo = b /\ k.asked = b /\ k.wrote = {}
        /\ k.succeeded = {} /\ k.failed = {}
    BY DEF Idle
  <2>2. call' = [call EXCEPT ![c] = k]
    BY <1>3 DEF Receive
  <2> HIDE DEF k
  <2>3. ReportInv(k)
    BY <2>1 DEF ReportInv, Split
  <2> QED BY <2>2, <2>3, OneCallR
<1>4. CASE \E c \in Calls : Abort(c)
  BY <1>4, QuietR
<1> QED BY <1>1, <1>2, <1>3, <1>4 DEF Environment

LEMMA NextR == IInv /\ RInv /\ [Next]_vars => RInv'
<1> SUFFICES ASSUME IInv, RInv, [Next]_vars PROVE RInv'
  OBVIOUS
<1>1. CASE UNCHANGED vars
  BY <1>1 DEF vars, RInv
<1>2. CASE Environment
  BY <1>2, EnvironmentR
<1>3. CASE \E c \in Calls : HandlerStep(c)
  BY <1>3, ReadR, CheckDndR, WriteR, QuietR DEF HandlerStep
<1> QED BY <1>1, <1>2, <1>3 DEF Next

\* Whatever the interleaving, the report of a request is true.
LEMMA ReportSound == RInv => ReportIsTrue
<1> SUFFICES ASSUME RInv, NEW c \in Calls, call[c].pc = "idle"
             PROVE  /\ call[c].succeeded = call[c].wrote
                    /\ call[c].failed = call[c].asked \ call[c].wrote
  BY DEF ReportIsTrue
<1>1. /\ Split(call[c], {}) /\ call[c].wrote = call[c].succeeded /\ call[c].todo = {}
  BY DEF RInv, ReportInv
<1> QED BY <1>1 DEF Split

\* A call about to write its audit entry finds the room as it has written it; and
\* until a call dies, every other entry names the status of its room.
TInv ==
  /\ \A c \in Calls : call[c].pc = "audit" => board[call[c].cur].status = call[c].input.status
  /\ aborts = 0 =>
       \A r \in Rooms :
         \/ \E c \in Calls : call[c].pc = "audit" /\ call[c].cur = r
         \/ trail[r] = NoEntry
         \/ trail[r].to = board[r].status

LEMMA OneCallT ==
  ASSUME IInv, TInv, NEW c \in Calls, NEW k, call' = [call EXCEPT ![c] = k],
         UNCHANGED <<board, trail, aborts>>, call[c].pc # "audit", k.pc # "audit"
  PROVE  TInv'
<1>1. \A d \in Calls : call'[d] = IF d = c THEN k ELSE call[d]
  BY DEF IInv, TypeOK
<1> QED BY <1>1 DEF TInv

LEMMA FinishedT ==
  ASSUME NEW k \in CallType, NEW ok \in BOOLEAN
  PROVE  Finished(k, ok).pc = "next" /\ Validated(k).pc # "audit"
<1>1. \A o \in BOOLEAN : Finished(k, o).pc = "next"
  <2> SUFFICES ASSUME NEW o \in BOOLEAN PROVE Finished(k, o).pc = "next"
    OBVIOUS
  <2>1. CASE o
    BY <2>1 DEF Finished, CallType
  <2>2. CASE ~o
    BY <2>2 DEF Finished, CallType
  <2> QED BY <2>1, <2>2
<1>2. [k EXCEPT !.pc = "write"].pc = "write"
  BY DEF CallType
<1> QED BY <1>1, <1>2 DEF Validated

LEMMA InitT == Init => TInv
BY DEF Init, Idle, TInv

LEMMA ReadT ==
  ASSUME IInv, TInv, NEW c \in Calls, NEW r \in Rooms, Read(c, r)
  PROVE  TInv'
<1> DEFINE k == [call[c] EXCEPT !.todo = @ \ {r}, !.cur = r,
                                !.from = board[r].status,
                                !.note = board[r].reworkNote]
           verdict == CheckTransition(Role(c), board[r].status, k.input.status)
           m == IF verdict # "ok" THEN [k EXCEPT !.pc = "deny"]
                ELSE IF IsAttendantStart(c) THEN [k EXCEPT !.pc = "dnd"]
                ELSE Validated(k)
<1>1. /\ call[c] \in CallType /\ call[c].pc = "next" /\ UNCHANGED <<board, trail, aborts>>
      /\ call' = [call EXCEPT ![c] = m]
  BY DEF Read, IInv, TypeOK
<1>2. k \in CallType
  BY <1>1 DEF Read, IInv, TypeOK, CallType, Maybe
<1> HIDE DEF k, verdict
<1>3. [k EXCEPT !.pc = "deny"].pc = "deny" /\ [k EXCEPT !.pc = "dnd"].pc = "dnd"
  BY <1>2 DEF CallType
<1>4. m.pc # "audit"
  BY <1>2, <1>3, FinishedT
<1> HIDE DEF m
<1> QED BY <1>1, <1>4, OneCallT

LEMMA CheckDndT == ASSUME IInv, TInv, NEW c \in Calls, CheckDnd(c) PROVE TInv'
<1> DEFINE k == [call[c] EXCEPT !.marks = @ \ {"dndLate"}]
           m == IF dnd[call[c].cur] > 0 THEN [call[c] EXCEPT !.pc = "deny"] ELSE Validated(k)
<1>1. /\ call[c] \in CallType /\ call[c].pc = "dnd" /\ UNCHANGED <<board, trail, aborts>>
      /\ call' = [call EXCEPT ![c] = m]
  BY DEF CheckDnd, IInv, TypeOK
<1>2. k \in CallType
  <2>1. call[c].marks \ {"dndLate"} \in SUBSET Marks
    BY <1>1 DEF CallType
  <2> QED BY <2>1, <1>1 DEF CallType
<1>3. [call[c] EXCEPT !.pc = "deny"].pc = "deny"
  BY <1>1 DEF CallType
<1> HIDE DEF k
<1>4. m.pc # "audit"
  BY <1>2, <1>3, FinishedT
<1> HIDE DEF m
<1> QED BY <1>1, <1>4, OneCallT

LEMMA WriteT == ASSUME IInv, Apart, TInv, NEW c \in Calls, Write(c) PROVE TInv'
<1> DEFINE r == call[c].cur
           k == [call[c] EXCEPT !.pc = "audit", !.wrote = @ \cup {r}]
<1>1. /\ call[c] \in CallType /\ r \in Rooms /\ call[c].pc = "write"
      /\ \A d \in Calls : d # c => call[d].cur # r
  BY BusyCall DEF Write, Apart
<1>2. \A d \in Calls : call'[d] = IF d = c THEN k ELSE call[d]
  BY <1>1 DEF Write
<1>3. k.cur = r /\ k.pc = "audit" /\ k.input = call[c].input
  BY <1>1 DEF CallType
<1>4. board' = [board EXCEPT ![r] = Updated(c)] /\ board \in [Rooms -> RowType]
  BY DEF Write, IInv, TypeOK, RowType
<1>5. Updated(c).status = call[c].input.status
  BY <1>1, UpdatedRow
<1>6. UNCHANGED <<trail, aborts>>
  BY DEF Write
<1> HIDE DEF k, r
<1>7. board'[r].status = call[c].input.status /\ \A q \in Rooms : q # r => board'[q] = board[q]
  BY <1>1, <1>4, <1>5
<1>8. \A d \in Calls : d # c => call'[d] = call[d] /\ call[d].cur # r
  BY <1>1, <1>2
<1>9. call'[c].pc = "audit" /\ call'[c].cur = r /\ call'[c].input = call[c].input
  BY <1>2, <1>3
<1>10. ASSUME NEW d \in Calls, call'[d].pc = "audit"
       PROVE  board'[call'[d].cur].status = call'[d].input.status
  <2>1. CASE d = c
    BY <1>7, <1>9, <2>1
  <2>2. CASE d # c
    <3>1. call'[d] = call[d] /\ call[d].cur # r /\ call[d].pc = "audit"
      BY <1>8, <1>10, <2>2
    <3>2. call[d].cur \in Rooms
      BY <3>1, BusyCall
    <3> QED BY <1>7, <3>1, <3>2 DEF TInv
  <2> QED BY <2>1, <2>2
<1>11. ASSUME aborts' = 0, NEW q \in Rooms
       PROVE  \/ \E d \in Calls : call'[d].pc = "audit" /\ call'[d].cur = q
              \/ trail'[q] = NoEntry
              \/ trail'[q].to = board'[q].status
  <2>1. CASE q = r
    BY <1>9, <2>1
  <2>2. CASE q # r
    <3>1. CASE \E d \in Calls : call[d].pc = "audit" /\ call[d].cur = q
      <4>1. PICK d \in Calls : call[d].pc = "audit" /\ call[d].cur = q
        BY <3>1
      <4>2. d # c
        BY <1>1, <4>1
      <4> QED BY <1>8, <4>1, <4>2
    <3>2. CASE trail[q] = NoEntry \/ trail[q].to = board[q].status
      BY <1>6, <1>7, <2>2, <3>2
    <3> QED BY <1>6, <1>11, <3>1, <3>2 DEF TInv
  <2> QED BY <2>1, <2>2
<1> QED BY <1>10, <1>11 DEF TInv

LEMMA AuditT == ASSUME IInv, TInv, NEW c \in Calls, Audit(c) PROVE TInv'
<1> DEFINE r == call[c].cur
           k == IF IsAttendantStart(c) THEN [call[c] EXCEPT !.pc = "locate"]
                ELSE IF Release(c) THEN [call[c] EXCEPT !.pc = "push"]
                ELSE Finished(call[c], TRUE)
<1>1. /\ call[c] \in CallType /\ r \in Rooms /\ call[c].pc = "audit"
      /\ UNCHANGED <<board, aborts>>
      /\ call' = [call EXCEPT ![c] = k] /\ trail' = [trail EXCEPT ![r] = Entry(c)]
  BY BusyCall DEF Audit
<1>2. k.pc # "audit"
  <2>1. [call[c] EXCEPT !.pc = "locate"].pc = "locate" /\ [call[c] EXCEPT !.pc = "push"].pc = "push"
    BY <1>1 DEF CallType
  <2> QED BY <1>1, <2>1, FinishedT
<1>3. Entry(c).to = call[c].input.status
  BY DEF Entry
<1>4. board[r].status = call[c].input.status
  BY <1>1 DEF TInv
<1> HIDE DEF k, r
<1>5. \A d \in Calls : call'[d] = IF d = c THEN k ELSE call[d]
  BY <1>1 DEF IInv, TypeOK
<1>6. trail'[r] = Entry(c) /\ \A q \in Rooms : q # r => trail'[q] = trail[q]
  BY <1>1 DEF IInv, TypeOK
<1>7. ASSUME aborts' = 0, NEW q \in Rooms
      PROVE  \/ \E d \in Calls : call'[d].pc = "audit" /\ call'[d].cur = q
             \/ trail'[q] = NoEntry
             \/ trail'[q].to = board'[q].status
  <2>1. CASE q = r
    BY <1>1, <1>3, <1>4, <1>6, <2>1
  <2>2. CASE q # r
    <3>1. \A d \in Calls : call[d].pc = "audit" /\ call[d].cur = q => call'[d] = call[d]
      BY <1>5, <2>2 DEF r
    <3> QED BY <1>1, <1>6, <1>7, <2>2, <3>1 DEF TInv
  <2> QED BY <2>1, <2>2
<1>8. \A d \in Calls : call'[d].pc = "audit" =>
        board'[call'[d].cur].status = call'[d].input.status
  BY <1>1, <1>2, <1>5 DEF TInv
<1> QED BY <1>7, <1>8 DEF TInv

LEMMA QuietT ==
  ASSUME IInv, TInv, NEW c \in Calls,
         \/ Deny(c) \/ Locate(c) \/ Push(c) \/ FindWaiting(c) \/ Announced(c) \/ Reply(c)
         \/ \E a \in Arrivals : Notify(c, a)
  PROVE  TInv'
<1>1. call[c] \in CallType
  BY DEF IInv, TypeOK
<1>2. UNCHANGED <<board, trail, aborts>> /\ call[c].pc # "audit"
  BY DEF Deny, Locate, Push, FindWaiting, Announced, Reply, Notify
<1>3. CASE Deny(c) \/ Locate(c) \/ Announced(c)
  BY <1>1, <1>2, <1>3, FinishedT, OneCallT DEF Deny, Locate, Announced
<1>4. CASE Push(c)
  <2>1. [call[c] EXCEPT !.pc = "find"].pc = "find"
    BY <1>1 DEF CallType
  <2> QED BY <1>2, <1>4, <2>1, OneCallT DEF Push
<1>5. CASE FindWaiting(c)
  <2> DEFINE k == [call[c] EXCEPT !.pc = "notify", !.tell = waiting[call[c].cur]]
  <2>1. call' = [call EXCEPT ![c] = k] /\ k.pc = "notify"
    BY <1>1, <1>5 DEF FindWaiting, CallType
  <2> HIDE DEF k
  <2> QED BY <1>2, <2>1, OneCallT
<1>6. CASE \E a \in Arrivals : Notify(c, a)
  <2>1. PICK a \in Arrivals : Notify(c, a)
    BY <1>6
  <2> DEFINE k == [call[c] EXCEPT !.tell = @ \ {a}]
  <2>2. call' = [call EXCEPT ![c] = k] /\ k.pc = call[c].pc
    BY <1>1, <2>1 DEF Notify, CallType
  <2> HIDE DEF k
  <2> QED BY <1>2, <2>2, OneCallT
<1>7. CASE Reply(c)
  <2> DEFINE k == [call[c] EXCEPT !.pc = "idle", !.user = None, !.input = NoInput]
  <2>1. call' = [call EXCEPT ![c] = k] /\ k.pc = "idle"
    BY <1>1, <1>7 DEF Reply, CallType
  <2> HIDE DEF k
  <2> QED BY <1>2, <2>1, OneCallT
<1> QED BY <1>3, <1>4, <1>5, <1>6, <1>7

LEMMA EnvironmentT == ASSUME IInv, TInv, Environment PROVE TInv'
<1>1. CASE \E r \in Rooms : RaiseDnd(r)
  <2>1. PICK r \in Rooms : RaiseDnd(r)
    BY <1>1
  <2>2. ASSUME NEW c \in Calls
        PROVE  /\ call'[c].pc = call[c].pc /\ call'[c].cur = call[c].cur
               /\ call'[c].input = call[c].input
    <3>1. call[c] \in CallType
      BY DEF IInv, TypeOK
    <3>2. call'[c] = IF call[c].cur = r THEN [call[c] EXCEPT !.marks = @ \cup {"dndLate"}]
                     ELSE call[c]
      BY <2>1 DEF RaiseDnd
    <3> QED BY <3>1, <3>2 DEF CallType
  <2>3. UNCHANGED <<board, trail, aborts>>
    BY <2>1 DEF RaiseDnd
  <2> QED BY <2>2, <2>3 DEF TInv
<1>2. CASE \/ \E r \in Rooms : CloseDnd(r)
           \/ \E assigned, pushed \in SUBSET Rooms : ApplyPlan(assigned, pushed)
           \/ \E r \in Rooms, a \in Arrivals : Expect(r, a) \/ Withdraw(r, a)
  BY <1>2 DEF CloseDnd, ApplyPlan, Expect, Withdraw, TInv
<1>3. ASSUME NEW c \in Calls, NEW u \in Users, NEW i \in Inputs, NEW b \in Batches,
             Receive(c, u, i, b)
      PROVE  TInv'
  <2> DEFINE k == [Idle EXCEPT !.pc = "next", !.user = u, !.input = i,
                               !.todo = b, !.asked = b]
  <2>1. k.pc = "next"
    BY DEF Idle
  <2>2. call' = [call EXCEPT ![c] = k] /\ UNCHANGED <<board, trail, aborts>> /\ call[c].pc = "idle"
    BY <1>3 DEF Receive
  <2> HIDE DEF k
  <2> QED BY <2>1, <2>2, OneCallT
<1>4. CASE \E c \in Calls : Abort(c)
  <2>1. PICK c \in Calls : Abort(c)
    BY <1>4
  <2>2. aborts \in Nat /\ aborts' = aborts + 1 /\ board' = board
    BY <2>1 DEF Abort, IInv, TypeOK
  <2>3. \A d \in Calls : call'[d] = IF d = c THEN Idle ELSE call[d]
    BY <2>1 DEF Abort, IInv, TypeOK
  <2>4. Idle.pc = "idle"
    BY DEF Idle
  <2> QED BY <2>2, <2>3, <2>4 DEF TInv
<1> QED BY <1>1, <1>2, <1>3, <1>4 DEF Environment

LEMMA NextT == IInv /\ Apart /\ TInv /\ [Next]_vars => TInv'
<1> SUFFICES ASSUME IInv, Apart, TInv, [Next]_vars PROVE TInv'
  OBVIOUS
<1>1. CASE UNCHANGED vars
  BY <1>1 DEF vars, TInv
<1>2. CASE Environment
  BY <1>2, EnvironmentT
<1>3. CASE \E c \in Calls : HandlerStep(c)
  BY <1>3, ReadT, CheckDndT, WriteT, AuditT, QuietT DEF HandlerStep
<1> QED BY <1>1, <1>2, <1>3 DEF Next

\* What a batch leaves behind is true: its report names exactly the rooms it has
\* written, and, if calls do not meet on a room and none dies, the last audit entry
\* of every room names its status.
THEOREM BatchesTrue == Spec => []BatchInv
<1>1. Spec => []ReportIsTrue
  BY InitR, NextR, ReportSound, Invariance, PTL DEF Spec
<1>2. ASSUME Exclusive PROVE Spec => []TrailNamesStatus
  <2>1. TInv => TrailNamesStatus
    BY DEF TInv, TrailNamesStatus
  <2>2. Spec => []Apart
    BY <1>2, StaysApart
  <2> QED BY <2>1, <2>2, InitT, NextT, Invariance, PTL DEF Spec
<1>3. ASSUME ~Exclusive PROVE Spec => []TrailNamesStatus
  <2>1. TrailNamesStatus
    BY <1>3 DEF TrailNamesStatus
  <2> QED BY <2>1, PTL
<1>4. Spec => []TrailNamesStatus
  BY <1>2, <1>3
<1>5. ReportIsTrue /\ TrailNamesStatus => BatchInv
  BY DEF BatchInv
<1> QED BY <1>1, <1>4, <1>5, PTL
=============================================================================
