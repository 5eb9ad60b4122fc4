-------------------------- MODULE WorkOrderProofs ---------------------------
(***************************************************************************)
(* Proofs about WorkOrder, for any orders, requests and users.  The point  *)
(* of the invariant: what a call has read was a well stamped row, even if  *)
(* it is one no longer, and every write replaces the row as a whole, so    *)
(* that no race can mix the stamps of two rows.                            *)
(***************************************************************************)
EXTENDS WorkOrder, TLAPS

CallSet == [pc : {"idle", "reported", "route", "write", "audit", "tell"},
            user : Users \cup {None}, order : Orders \cup {None},
            to : Steps \cup {None}, read : RowType, now : Nat,
            stale : SUBSET {"stale"}]

\* No stamp of the row lies after time t.
StampedBy(row, t) == \A s \in Steps : row.stamp[s] # None => row.stamp[s] <= t

\* An order that does not exist is nobody's.
Unclaimed(row) == row.status = None => row.assignee = None

\* What holds of a call k that has read an order, given the rows r and time t.
Holds(k, r, t) ==
  /\ k.pc # "idle" => k.order \in Orders
  /\ k.pc = "write" =>
       /\ k.user \in Users /\ k.to \in Steps /\ k.read.status \in Statuses
       /\ NextStatus(k.read.status, k.to)
       /\ Stamped(k.read) /\ StampedBy(k.read, k.now) /\ k.now <= t
       /\ k.stale = {} => k.read = r[k.order]

IInv ==
  /\ TypeOK
  /\ StampsMatchStatus
  /\ \A o \in Orders : StampedBy(order[o], clock) /\ Unclaimed(order[o])
  /\ \A c \in Calls : Holds(call[c], order, clock)

-----------------------------------------------------------------------------
LEMMA LevelFacts ==
  /\ Level["OPEN"] = 0 /\ Level["ACK"] = 1 /\ Level["IN_PROGRESS"] = 2
  /\ Level["RESOLVED"] = 3
BY DEF Level, Statuses, Steps

\* Stamping a row with the time at which it reaches its next status, a time no
\* earlier than its stamps, leaves it well stamped.
LEMMA StampNext ==
  ASSUME NEW row \in RowType, NEW to \in Steps, NEW t \in Nat, NEW new,
         row.status \in Statuses, Stamped(row), StampedBy(row, t),
         NextStatus(row.status, to),
         new.status = to, new.stamp = [row.stamp EXCEPT ![to] = t]
  PROVE  Stamped(new) /\ StampedBy(new, t)
<1>1. /\ row.stamp \in [Steps -> Nat \cup {None}]
      /\ None \notin Statuses
  BY NoneIsNobody DEF RowType
<1>2. \A s \in Steps : new.stamp[s] = IF s = to THEN t ELSE row.stamp[s]
  BY <1>1
<1>3. /\ \A s \in Steps : Level[s] \in Nat
      /\ Level[row.status] \in Nat /\ Level[to] = Level[row.status] + 1
      /\ \A s, u \in Steps : Level[s] = Level[u] => s = u
  BY LevelFacts DEF NextStatus, Statuses, Steps
<1>4. StampedBy(new, t)
  BY <1>1, <1>2 DEF StampedBy
<1>5. \A s \in Steps : new.stamp[s] # None <=> new.status # None /\ Level[s] <= Level[new.status]
  <2> SUFFICES ASSUME NEW s \in Steps
               PROVE  new.stamp[s] # None <=> Level[s] <= Level[to]
    BY <1>1 DEF Statuses
  <2>1. CASE s = to
    BY <2>1, <1>2, <1>3, NoneIsNobody
  <2>2. CASE s # to
    BY <2>2, <1>1, <1>2, <1>3 DEF Stamped
  <2> QED BY <2>1, <2>2
<1>6. \A s, u \in Steps : Level[s] < Level[u] /\ new.stamp[u] # None =>
        new.stamp[s] <= new.stamp[u]
  <2> SUFFICES ASSUME NEW s \in Steps, NEW u \in Steps,
                      Level[s] < Level[u], new.stamp[u] # None
               PROVE  new.stamp[s] <= new.stamp[u]
    OBVIOUS
  <2>1. s # to
    BY <1>3, <1>5, <1>1 DEF Statuses
  <2>2. new.stamp[s] = row.stamp[s]
    BY <2>1, <1>2
  <2>3. CASE u = to
    <3>1. row.stamp[s] # None
      BY <2>3, <1>1, <1>3 DEF Stamped
    <3> QED BY <2>2, <2>3, <3>1, <1>2 DEF StampedBy
  <2>4. CASE u # to
    BY <2>2, <2>4, <1>2 DEF Stamped
  <2> QED BY <2>3, <2>4
<1> QED BY <1>4, <1>5, <1>6, <1>1 DEF Stamped

LEMMA InitInv == Init => IInv
<1> SUFFICES ASSUME Init PROVE IInv
  OBVIOUS
<1>1. NoOrder \in RowType /\ Stamped(NoOrder)
  BY DEF NoOrder, RowType, Unstamped, Stamped
<1>2. Idle \in CallSet
  BY <1>1 DEF Idle, CallSet
<1>3. TypeOK
  BY <1>1, <1>2 DEF Init, TypeOK, CallSet
<1>4. \A o \in Orders : StampedBy(order[o], clock) /\ Unclaimed(order[o])
  BY DEF Init, StampedBy, NoOrder, Unstamped, Unclaimed
<1>5. \A c \in Calls : Holds(call[c], order, clock)
  BY DEF Init, Holds, Idle
<1> QED BY <1>1, <1>3, <1>4, <1>5 DEF IInv, Init, StampsMatchStatus

\* A step of one call that leaves the rows and the clock alone keeps the
\* invariant if it keeps it for that call.
LEMMA OneCallStep ==
  ASSUME IInv, NEW c \in Calls, NEW k \in CallSet,
         call' = [call EXCEPT ![c] = k], Holds(k, order, clock),
         UNCHANGED <<order, clock>>,
         routed' \subseteq Orders, told' \subseteq Orders, retold' \subseteq Orders,
         overtaken' \subseteq Orders, aborts' \in Nat
  PROVE  IInv'
<1>1. TypeOK'
  BY DEF IInv, TypeOK, CallSet
<1>2. \A d \in Calls : Holds(call'[d], order', clock')
  BY DEF IInv, TypeOK
<1>3. /\ StampsMatchStatus'
      /\ \A o \in Orders : StampedBy(order'[o], clock') /\ Unclaimed(order'[o])
  BY DEF IInv, StampsMatchStatus
<1> QED BY <1>1, <1>2, <1>3 DEF IInv

LEMMA IdleFacts == Idle \in CallSet /\ \A r, t : Holds(Idle, r, t)
<1>1. NoOrder \in RowType
  BY DEF NoOrder, RowType, Unstamped
<1> QED BY <1>1 DEF Idle, CallSet, Holds

LEMMA TickInv == ASSUME IInv, Tick PROVE IInv'
<1>1. clock \in Nat /\ clock' = clock + 1
  BY DEF Tick, IInv, TypeOK
<1>2. TypeOK' /\ StampsMatchStatus'
  BY <1>1 DEF Tick, IInv, TypeOK, StampsMatchStatus
<1>3. ASSUME NEW o \in Orders PROVE StampedBy(order'[o], clock') /\ Unclaimed(order'[o])
  BY <1>1 DEF Tick, IInv, TypeOK, StampedBy, RowType
<1>4. ASSUME NEW c \in Calls PROVE Holds(call'[c], order', clock')
  <2>1. call[c].now \in Nat
    BY DEF IInv, TypeOK
  <2> QED BY <2>1, <1>1 DEF Tick, IInv, Holds
<1> QED BY <1>2, <1>3, <1>4 DEF IInv

LEMMA ReportInv == ASSUME IInv, NEW c \in Calls, NEW o \in Orders, Report(c, o) PROVE IInv'
<1> DEFINE k == [Idle EXCEPT !.pc = "reported", !.order = o]
<1>1. /\ NewOrder \in RowType /\ Stamped(NewOrder) /\ Unclaimed(NewOrder)
      /\ \A t : StampedBy(NewOrder, t)
  <2>1. \A s \in Steps : Level[s] > Level["OPEN"]
    BY LevelFacts DEF Steps
  <2>2. /\ NewOrder.status = "OPEN" /\ NewOrder.stamp = Unstamped
        /\ NewOrder.assignee = None
    BY DEF NewOrder, NoOrder
  <2>3. NewOrder \in RowType
    BY DEF NewOrder, NoOrder, RowType, Unstamped, Statuses
  <2> QED BY <2>1, <2>2, <2>3, LevelFacts DEF Unstamped, Stamped, StampedBy, Steps, Unclaimed
<1>2. order' = [order EXCEPT ![o] = NewOrder] /\ call' = [call EXCEPT ![c] = k]
  BY DEF Report
<1>3. k \in CallSet
  BY IdleFacts DEF CallSet
<1>4. k.pc = "reported" /\ k.order = o
  BY DEF Idle
<1> HIDE DEF k
<1>5. TypeOK'
  <2>1. order' \in [Orders -> RowType]
    BY <1>1, <1>2 DEF IInv, TypeOK
  <2>2. call' \in [Calls -> CallSet]
    BY <1>2, <1>3 DEF IInv, TypeOK, CallSet
  <2> QED BY <2>1, <2>2 DEF Report, IInv, TypeOK, CallSet
<1>6. ASSUME NEW q \in Orders
      PROVE  /\ Stamped(order'[q]) /\ StampedBy(order'[q], clock')
             /\ Unclaimed(order'[q])
  BY <1>1, <1>2 DEF Report, IInv, TypeOK, StampsMatchStatus
<1>7. ASSUME NEW d \in Calls PROVE Holds(call'[d], order', clock')
  <2>1. CASE d = c
    BY <2>1, <1>2, <1>4 DEF Holds, IInv, TypeOK
  <2>2. CASE d # c
    <3>1. call'[d] = call[d] /\ Holds(call[d], order, clock) /\ clock' = clock
      BY <2>2, <1>2 DEF Report, IInv
    <3>2. CASE call[d].pc = "write" /\ call[d].stale = {} /\ call[d].order = o
      <4>1. call[d].read = order[o] /\ call[d].read.status \in Statuses
        BY <3>1, <3>2 DEF Holds
      <4> QED BY <4>1, NoneIsNobody DEF Report
    <3>3. CASE ~(call[d].pc = "write" /\ call[d].stale = {} /\ call[d].order = o)
      BY <3>1, <3>3, <1>2 DEF Holds, IInv, TypeOK
    <3> QED BY <3>2, <3>3
  <2> QED BY <2>1, <2>2
<1> QED BY <1>5, <1>6, <1>7 DEF IInv, StampsMatchStatus

LEMMA ReadOrderInv ==
  ASSUME IInv, NEW c \in Calls, NEW u \in Users, NEW o \in Orders, NEW to \in Steps,
         ReadOrder(c, u, o, to)
  PROVE  IInv'
<1> DEFINE k == [pc |-> "write", user |-> u, order |-> o, to |-> to,
                 read |-> order[o], now |-> clock, stale |-> {}]
<1>1. call' = [call EXCEPT ![c] = k]
  BY DEF ReadOrder
<1>2. order[o] \in RowType /\ clock \in Nat
  BY DEF IInv, TypeOK
<1>3. k \in CallSet
  BY <1>2 DEF CallSet
<1>4. Holds(k, order, clock)
  <2>1. order[o].status \in Statuses
    BY <1>2 DEF ReadOrder, RowType
  <2> QED BY <2>1, <1>2 DEF Holds, ReadOrder, IInv, StampsMatchStatus
<1> HIDE DEF k
<1> QED BY <1>1, <1>3, <1>4, OneCallStep DEF ReadOrder, IInv, TypeOK

LEMMA WriteOrderInv == ASSUME IInv, NEW c \in Calls, WriteOrder(c) PROVE IInv'
<1> DEFINE o == call[c].order
           k == [call[c] EXCEPT !.pc = "audit"]
<1>1. /\ call[c] \in CallSet /\ call[c].pc = "write" /\ o \in Orders
      /\ call[c].user \in Users /\ call[c].to \in Steps
      /\ call[c].read.status \in Statuses /\ call[c].read \in RowType
      /\ NextStatus(call[c].read.status, call[c].to)
      /\ Stamped(call[c].read) /\ StampedBy(call[c].read, call[c].now)
      /\ call[c].now <= clock /\ call[c].now \in Nat /\ clock \in Nat
  BY DEF WriteOrder, IInv, TypeOK, Holds, CallSet
<1>2. /\ Advanced(c).status = call[c].to
      /\ Advanced(c).stamp = [call[c].read.stamp EXCEPT ![call[c].to] = call[c].now]
  BY DEF Advanced
<1>3. Stamped(Advanced(c)) /\ StampedBy(Advanced(c), call[c].now)
  BY <1>1, <1>2, StampNext
<1>4. Advanced(c) \in RowType
  <2>1. Advanced(c).stamp \in [Steps -> Nat \cup {None}]
    BY <1>1, <1>2 DEF RowType
  <2>2. Advanced(c).assignee \in Users \cup {None}
    BY <1>1 DEF Advanced, RowType
  <2> QED BY <1>1, <2>1, <2>2 DEF Advanced, RowType, Statuses
<1>5. order' = [order EXCEPT ![o] = Advanced(c)] /\ clock' = clock
  BY DEF WriteOrder
<1>6. order' \in [Orders -> RowType]
  BY <1>4, <1>5 DEF IInv, TypeOK
<1>7. k \in CallSet
  BY <1>1 DEF CallSet
<1>8. ASSUME NEW d \in Calls
      PROVE  /\ call'[d] \in CallSet
             /\ Holds(call'[d], order', clock')
  <2>1. call[d] \in CallSet /\ Holds(call[d], order, clock)
    BY DEF IInv, TypeOK, CallSet
  <2>2. CASE d = c
    <3>1. call'[d] = k
      BY <2>2 DEF WriteOrder
    <3>2. k.pc = "audit" /\ k.order = o
      BY <1>1 DEF CallSet
    <3> HIDE DEF k
    <3> QED BY <1>1, <1>7, <3>1, <3>2 DEF Holds
  <2>3. CASE d # c /\ call[d].pc = "write" /\ call[d].order = o
    <3> DEFINE j == [call[d] EXCEPT !.stale = {"stale"}]
    <3>1. call'[d] = j
      BY <2>3 DEF WriteOrder
    <3>2. /\ j \in CallSet /\ j.stale # {} /\ j.pc = call[d].pc /\ j.user = call[d].user
          /\ j.order = call[d].order /\ j.to = call[d].to /\ j.read = call[d].read
          /\ j.now = call[d].now
      BY <2>1 DEF CallSet
    <3> HIDE DEF j
    <3> QED BY <2>1, <3>1, <3>2, <1>5 DEF Holds
  <2>4. CASE d # c /\ ~(call[d].pc = "write" /\ call[d].order = o)
    <3>1. call'[d] = call[d]
      BY <2>4 DEF WriteOrder
    <3> QED BY <2>1, <2>4, <3>1, <1>5 DEF Holds, IInv, TypeOK
  <2> QED BY <2>2, <2>3, <2>4
<1>9. TypeOK'
  <2>1. call' \in [Calls -> CallSet]
    <3>1. call' = [d \in Calls |-> call'[d]]
      BY DEF WriteOrder
    <3> QED BY <3>1, <1>8
  <2>2. overtaken' \subseteq Orders
    BY <1>1 DEF WriteOrder, IInv, TypeOK
  <2> QED BY <1>6, <2>1, <2>2 DEF WriteOrder, IInv, TypeOK, CallSet
<1>10. ASSUME NEW q \in Orders
       PROVE  /\ Stamped(order'[q]) /\ StampedBy(order'[q], clock')
              /\ Unclaimed(order'[q])
  <2>1. CASE q = o
    <3>1. order'[q] = Advanced(c)
      BY <2>1, <1>5 DEF IInv, TypeOK
    <3>2. StampedBy(Advanced(c), clock)
      BY <1>1, <1>3, <1>4, NoneIsNobody DEF StampedBy, RowType
    <3>3. Unclaimed(Advanced(c))
      BY <1>1, <1>2, NoneIsNobody DEF Unclaimed, Statuses
    <3> QED BY <1>3, <1>5, <3>1, <3>2, <3>3
  <2>2. CASE q # o
    BY <2>2, <1>5 DEF IInv, TypeOK, StampsMatchStatus
  <2> QED BY <2>1, <2>2
<1> QED BY <1>8, <1>9, <1>10 DEF IInv, StampsMatchStatus

LEMMA QuietInv ==
  ASSUME IInv, NEW c \in Calls,
         AuditReport(c) \/ Route(c) \/ AuditOrder(c) \/ TellResolved(c) \/ Abort(c)
  PROVE  IInv'
<1>1. call[c] \in CallSet /\ Holds(call[c], order, clock)
  BY DEF IInv, TypeOK, CallSet
<1>2. ASSUME NEW p \in {"route", "tell"}, call[c].pc # "idle"
      PROVE  /\ [call[c] EXCEPT !.pc = p] \in CallSet
             /\ Holds([call[c] EXCEPT !.pc = p], order, clock)
  BY <1>1, <1>2 DEF CallSet, Holds
<1>3. CASE AuditReport(c)
  BY <1>2, <1>3, OneCallStep DEF AuditReport, IInv, TypeOK
<1>4. CASE Route(c)
  <2>1. call[c].order \in Orders
    BY <1>1, <1>4 DEF Route, Holds
  <2> QED BY <2>1, <1>4, IdleFacts, OneCallStep DEF Route, IInv, TypeOK
<1>5. CASE AuditOrder(c) /\ call[c].to = "RESOLVED"
  <2>1. call' = [call EXCEPT ![c] = [call[c] EXCEPT !.pc = "tell"]]
    BY <1>5 DEF AuditOrder
  <2> QED BY <2>1, <1>2, <1>5, OneCallStep DEF AuditOrder, IInv, TypeOK
<1>6. CASE AuditOrder(c) /\ call[c].to # "RESOLVED"
  <2>1. call' = [call EXCEPT ![c] = Idle]
    BY <1>6 DEF AuditOrder
  <2> QED BY <2>1, <1>6, IdleFacts, OneCallStep DEF AuditOrder, IInv, TypeOK
<1>7. CASE TellResolved(c)
  <2>1. call[c].order \in Orders
    BY <1>1, <1>7 DEF TellResolved, Holds
  <2>2. told' \subseteq Orders /\ retold' \subseteq Orders
    BY <2>1, <1>7 DEF TellResolved, IInv, TypeOK
  <2> QED BY <2>2, <1>7, IdleFacts, OneCallStep DEF TellResolved, IInv, TypeOK
<1>8. CASE Abort(c)
  <2>1. aborts' \in Nat
    BY <1>8 DEF Abort, IInv, TypeOK
  <2>2. call' = [call EXCEPT ![c] = Idle] /\ UNCHANGED <<order, clock, routed, told, retold, overtaken>>
    BY <1>8 DEF Abort
  <2> QED BY <2>1, <2>2, IdleFacts, OneCallStep DEF IInv, TypeOK
<1> QED BY <1>3, <1>4, <1>5, <1>6, <1>7, <1>8

LEMMA NextInv == IInv /\ [Next]_vars => IInv'
<1> SUFFICES ASSUME IInv, [Next]_vars PROVE IInv'
  OBVIOUS
<1>1. CASE UNCHANGED vars
  BY <1>1 DEF vars, IInv, TypeOK, StampsMatchStatus
<1>2. CASE Next
  BY <1>2, TickInv, ReportInv, ReadOrderInv, WriteOrderInv, QuietInv DEF Next, HandlerStep
<1> QED BY <1>1, <1>2

-----------------------------------------------------------------------------
\* The invariant holds in every reachable state.
THEOREM Invariance == Spec => []IInv
BY InitInv, NextInv, PTL DEF Spec

\* Rows, requests and logs always hold values of their kinds.
THEOREM TypeCorrect == Spec => []TypeOK
<1>1. IInv => TypeOK
  BY DEF IInv
<1> QED BY <1>1, Invariance, PTL

\* However the PATCH requests of an order race, its stamps are those of the
\* statuses it has passed, in their order.
THEOREM StampsSound == Spec => []StampsMatchStatus
<1>1. IInv => StampsMatchStatus
  BY DEF IInv
<1> QED BY <1>1, Invariance, PTL

\* A row that changes is either new or written by a call that has read it.
LEMMA WriterOfOrder ==
  ASSUME IInv, [Next]_vars, NEW o \in Orders, order'[o] # order[o]
  PROVE  \/ order[o].status = None /\ order'[o] = NewOrder
         \/ \E c \in Calls : /\ call[c].pc = "write" /\ call[c].order = o
                             /\ order'[o] = Advanced(c)
<1>1. CASE UNCHANGED vars
  BY <1>1 DEF vars
<1>2. CASE \E c \in Calls, q \in Orders : Report(c, q)
  BY <1>2 DEF Report, IInv, TypeOK
<1>3. CASE \E c \in Calls : WriteOrder(c)
  BY <1>3 DEF WriteOrder, IInv, TypeOK
<1> QED
  BY <1>1, <1>2, <1>3 DEF Next, Tick, ReadOrder, HandlerStep, AuditReport, Route,
     AuditOrder, TellResolved, Abort

\* A status only ever moves one step forward, but for overtaken writes.
THEOREM MovesForward == Spec => ForwardUnlessOvertaken
<1>1. ASSUME IInv, [Next]_vars, NEW o \in Orders,
             order[o].status # None, order'[o].status # order[o].status,
             ~NextStatus(order[o].status, order'[o].status)
      PROVE  \E c \in Calls : /\ call[c].pc = "write" /\ call[c].order = o
                              /\ call[c].stale # {}
  <2>1. PICK c \in Calls : /\ call[c].pc = "write" /\ call[c].order = o
                           /\ order'[o] = Advanced(c)
    BY <1>1, WriterOfOrder
  <2> QED BY <2>1, <1>1 DEF IInv, Holds, Advanced
<1>2. IInv /\ [Next]_vars =>
        [\A o \in Orders :
           order[o].status # None /\ order'[o].status # order[o].status =>
             \/ NextStatus(order[o].status, order'[o].status)
             \/ \E c \in Calls : /\ call[c].pc = "write" /\ call[c].order = o
                                 /\ call[c].stale # {}]_vars
  BY <1>1
<1> QED BY <1>2, Invariance, PTL DEF Spec, ForwardUnlessOvertaken

\* An order changes hands only to an engineer who advances it, but for
\* overtaken writes.
THEOREM ClaimsSafe == Spec => ClaimKept
<1>1. ASSUME IInv, [Next]_vars, NEW o \in Orders,
             order'[o].assignee # order[o].assignee
      PROVE  \E c \in Calls : /\ call[c].pc = "write" /\ call[c].order = o
                              /\ \/ Role(c) = "engineering" /\ order'[o].assignee = call[c].user
                                 \/ call[c].stale # {}
  <2>1. CASE \E c \in Calls : /\ call[c].pc = "write" /\ call[c].order = o
                              /\ order'[o] = Advanced(c)
    BY <2>1, <1>1 DEF IInv, Holds, Advanced
  <2>2. CASE order[o].status = None /\ order'[o] = NewOrder
    <3>1. order[o].assignee = None
      BY <1>1, <2>2 DEF IInv, Unclaimed
    <3> QED BY <3>1, <2>2, <1>1 DEF NewOrder, NoOrder
  <2> QED BY <1>1, <2>1, <2>2, WriterOfOrder
<1>2. IInv /\ [Next]_vars =>
        [\A o \in Orders :
           order'[o].assignee # order[o].assignee =>
             \E c \in Calls : /\ call[c].pc = "write" /\ call[c].order = o
                              /\ \/ Role(c) = "engineering" /\ order'[o].assignee = call[c].user
                                 \/ call[c].stale # {}]_vars
  BY <1>1
<1> QED BY <1>2, Invariance, PTL DEF Spec, ClaimKept

-----------------------------------------------------------------------------
(***************************************************************************)
(* Resolutions.  An order no overtaken call has written is resolved by one *)
(* call only, and told by it.                                              *)
(***************************************************************************)

\* Call k has resolved order o and has still to say so.
Resolving(k, o) == k.pc \in {"audit", "tell"} /\ k.order = o /\ k.to = "RESOLVED"

RInv ==
  /\ ResolutionAnnounced
  /\ \A c \in Calls : call[c].pc = "tell" => call[c].to = "RESOLVED"
  /\ \A o \in Orders \ overtaken :
       /\ o \notin retold
       /\ o \in told => /\ order[o].status = "RESOLVED"
                       /\ \A c \in Calls : ~Resolving(call[c], o)
       /\ \A c \in Calls : Resolving(call[c], o) =>
            /\ order[o].status = "RESOLVED"
            /\ \A d \in Calls : Resolving(call[d], o) => d = c

LEMMA InitResolved == Init => RInv
<1> SUFFICES ASSUME Init PROVE RInv
  OBVIOUS
<1>1. None # "RESOLVED"
  BY NoneIsNobody DEF Statuses, Steps
<1>2. /\ \A c \in Calls : call[c].pc = "idle"
      /\ \A o \in Orders : order[o].status = None
      /\ retold = {} /\ told = {}
  BY DEF Init, Idle, NoOrder
<1> QED BY <1>1, <1>2 DEF RInv, Resolving, ResolutionAnnounced

\* A step of one call that neither writes an order nor tells of one.
LEMMA QuietResolved ==
  ASSUME IInv, RInv, NEW c \in Calls,
         \A d \in Calls \ {c} : call'[d] = call[d],
         \A o \in Orders : Resolving(call'[c], o) <=> Resolving(call[c], o),
         call'[c].pc = "tell" => call'[c].to = "RESOLVED",
         UNCHANGED <<order, overtaken, told, retold, aborts>>
  PROVE  RInv'
<1>1. \A d \in Calls, o \in Orders : Resolving(call'[d], o) <=> Resolving(call[d], o)
  OBVIOUS
<1>2. ResolutionAnnounced'
  BY <1>1 DEF RInv, ResolutionAnnounced, Resolving
<1>3. \A d \in Calls : call'[d].pc = "tell" => call'[d].to = "RESOLVED"
  BY DEF RInv
<1> QED BY <1>1, <1>2, <1>3 DEF RInv

LEMMA ReportResolved ==
  ASSUME IInv, RInv, NEW c \in Calls, NEW o \in Orders, Report(c, o) PROVE RInv'
<1>1. /\ order[o].status = None /\ call[c].pc = "idle"
      /\ UNCHANGED <<overtaken, told, retold, aborts>>
  BY DEF Report
<1>2. /\ call'[c].pc = "reported"
      /\ \A d \in Calls \ {c} : call'[d] = call[d]
  BY DEF Report, IInv, TypeOK, Idle
<1>3. \A q \in Orders : order'[q] = IF q = o THEN NewOrder ELSE order[q]
  BY DEF Report, IInv, TypeOK
<1>4. NewOrder.status # "RESOLVED" /\ None # "RESOLVED"
  BY NoneIsNobody DEF NewOrder, NoOrder, Statuses, Steps
<1>5. \A d \in Calls, q \in Orders : Resolving(call'[d], q) <=> Resolving(call[d], q)
  BY <1>1, <1>2 DEF Resolving
<1>6. ResolutionAnnounced'
  BY <1>1, <1>3, <1>4, <1>5 DEF RInv, ResolutionAnnounced, Resolving
<1>7. \A d \in Calls : call'[d].pc = "tell" => call'[d].to = "RESOLVED"
  BY <1>2 DEF RInv
<1> QED BY <1>1, <1>3, <1>4, <1>5, <1>6, <1>7 DEF RInv

\* Whoever resolves an order without having been overtaken is the first to do so.
LEMMA WriteResolved == ASSUME IInv, RInv, NEW c \in Calls, WriteOrder(c) PROVE RInv'
<1> DEFINE o == call[c].order
<1>1. /\ call[c].pc = "write" /\ o \in Orders /\ call[c].to \in Steps
      /\ call[c].read.status \in Statuses
      /\ NextStatus(call[c].read.status, call[c].to)
      /\ call[c].stale = {} => call[c].read = order[o]
      /\ UNCHANGED <<told, retold, aborts>>
  BY DEF WriteOrder, IInv, Holds
<1>2. \A q \in Orders : order'[q] = IF q = o THEN Advanced(c) ELSE order[q]
  BY DEF WriteOrder, IInv, TypeOK
<1>3. Advanced(c).status = call[c].to
  BY DEF Advanced
<1>4. /\ call'[c].pc = "audit" /\ call'[c].order = o /\ call'[c].to = call[c].to
      /\ \A d \in Calls \ {c} : /\ call'[d].pc = call[d].pc
                               /\ call'[d].order = call[d].order /\ call'[d].to = call[d].to
  BY DEF WriteOrder, IInv, TypeOK
<1>5. /\ \A d \in Calls \ {c}, q \in Orders : Resolving(call'[d], q) <=> Resolving(call[d], q)
      /\ \A q \in Orders : Resolving(call'[c], q) <=> q = o /\ call[c].to = "RESOLVED"
      /\ \A q \in Orders : ~Resolving(call[c], q)
  BY <1>1, <1>4 DEF Resolving
<1>6. ResolutionAnnounced'
  <2> SUFFICES ASSUME aborts = 0, NEW q \in Orders, order'[q].status = "RESOLVED", q \notin told
               PROVE  \E d \in Calls : Resolving(call'[d], q)
    BY <1>1 DEF ResolutionAnnounced, Resolving
  <2>1. CASE q = o
    BY <2>1, <1>2, <1>3, <1>5
  <2>2. CASE q # o
    <3>1. PICK d \in Calls : Resolving(call[d], q)
      BY <2>2, <1>2 DEF RInv, ResolutionAnnounced, Resolving
    <3> QED BY <3>1, <1>5
  <2> QED BY <2>1, <2>2
<1>7. \A d \in Calls : call'[d].pc = "tell" => call'[d].to = "RESOLVED"
  BY <1>4 DEF RInv
<1>8. ASSUME NEW q \in Orders \ overtaken'
      PROVE  /\ q \notin retold'
             /\ q \in told' => /\ order'[q].status = "RESOLVED"
                              /\ \A d \in Calls : ~Resolving(call'[d], q)
             /\ \A d \in Calls : Resolving(call'[d], q) =>
                  /\ order'[q].status = "RESOLVED"
                  /\ \A e \in Calls : Resolving(call'[e], q) => e = d
  <2>1. q \in Orders \ overtaken /\ (q = o => call[c].stale = {})
    BY <1>8 DEF WriteOrder
  <2>2. CASE q = o
    <3>1. order[o].status # "RESOLVED"
      <4>1. Level[call[c].to] <= 3 /\ NextStatus(order[o].status, call[c].to)
        BY <2>1, <2>2, <1>1, LevelFacts DEF Steps
      <4> QED BY <4>1, LevelFacts DEF NextStatus
    <3>2. o \notin told /\ o \notin retold /\ \A d \in Calls : ~Resolving(call[d], o)
      BY <3>1, <2>1, <2>2 DEF RInv
    <3>3. \A d \in Calls : Resolving(call'[d], o) => d = c /\ call[c].to = "RESOLVED"
      BY <3>2, <1>5, <1>1
    <3> QED BY <2>2, <3>2, <3>3, <1>1, <1>2, <1>3
  <2>3. CASE q # o
    BY <2>1, <2>3, <1>1, <1>2, <1>5 DEF RInv
  <2> QED BY <2>2, <2>3
<1> QED BY <1>6, <1>7, <1>8 DEF RInv

LEMMA TellResolvedOnce == ASSUME IInv, RInv, NEW c \in Calls, TellResolved(c) PROVE RInv'
<1> DEFINE o == call[c].order
<1>1. /\ call[c].pc = "tell" /\ o \in Orders /\ Resolving(call[c], o)
      /\ told' = told \cup {o}
      /\ retold' = IF o \in told THEN retold \cup {o} ELSE retold
      /\ UNCHANGED <<order, overtaken, aborts>>
  BY DEF TellResolved, IInv, Holds, RInv, Resolving
<1>2. /\ call'[c].pc = "idle"
      /\ \A d \in Calls \ {c} : call'[d] = call[d]
  BY DEF TellResolved, IInv, TypeOK, Idle
<1>3. /\ \A d \in Calls, q \in Orders :
           Resolving(call'[d], q) <=> d # c /\ Resolving(call[d], q)
      /\ \A q \in Orders : Resolving(call[c], q) => q = o
  BY <1>1, <1>2 DEF Resolving
<1>4. ResolutionAnnounced'
  BY <1>1, <1>3 DEF RInv, ResolutionAnnounced, Resolving
<1>5. \A d \in Calls : call'[d].pc = "tell" => call'[d].to = "RESOLVED"
  BY <1>2 DEF RInv
<1> HIDE DEF o
<1> QED BY <1>1, <1>3, <1>4, <1>5 DEF RInv

LEMMA AbortResolved == ASSUME IInv, RInv, NEW c \in Calls, Abort(c) PROVE RInv'
<1>1. aborts' # 0 /\ UNCHANGED <<order, overtaken, told, retold>>
  BY DEF Abort, IInv, TypeOK
<1>2. /\ call'[c].pc = "idle"
      /\ \A d \in Calls \ {c} : call'[d] = call[d]
  BY DEF Abort, IInv, TypeOK, Idle
<1>3. \A d \in Calls, q \in Orders : Resolving(call'[d], q) => Resolving(call[d], q)
  BY <1>2 DEF Resolving
<1>4. \A d \in Calls : call'[d].pc = "tell" => call'[d].to = "RESOLVED"
  BY <1>2 DEF RInv
<1> QED BY <1>1, <1>3, <1>4 DEF RInv, ResolutionAnnounced

LEMMA NextResolved == IInv /\ RInv /\ [Next]_vars => RInv'
<1> SUFFICES ASSUME IInv, RInv, [Next]_vars PROVE RInv'
  OBVIOUS
<1>1. CASE UNCHANGED vars \/ Tick
  BY <1>1 DEF vars, Tick, RInv, ResolutionAnnounced
<1>2. ASSUME NEW c \in Calls, NEW u \in Users, NEW o \in Orders, NEW to \in Steps,
             ReadOrder(c, u, o, to)
      PROVE  RInv'
  <2>1. call'[c].pc = "write" /\ call[c].pc = "idle" /\ \A d \in Calls \ {c} : call'[d] = call[d]
    BY <1>2 DEF ReadOrder, IInv, TypeOK
  <2> QED BY <2>1, <1>2, QuietResolved DEF ReadOrder, Resolving
<1>3. ASSUME NEW c \in Calls, AuditReport(c) \/ Route(c) PROVE RInv'
  <2>1. /\ call'[c].pc \in {"route", "idle"} /\ call[c].pc \in {"reported", "route"}
        /\ \A d \in Calls \ {c} : call'[d] = call[d]
    BY <1>3 DEF AuditReport, Route, IInv, TypeOK, Idle
  <2> QED BY <2>1, <1>3, QuietResolved DEF AuditReport, Route, Resolving
<1>4. ASSUME NEW c \in Calls, AuditOrder(c) PROVE RInv'
  <2>1. /\ call[c].pc = "audit"
        /\ call'[c] = IF call[c].to = "RESOLVED" THEN [call[c] EXCEPT !.pc = "tell"] ELSE Idle
        /\ \A d \in Calls \ {c} : call'[d] = call[d]
    BY <1>4 DEF AuditOrder, IInv, TypeOK
  <2>2. call[c] \in CallSet
    BY DEF IInv, TypeOK, CallSet
  <2>3. /\ call[c].to = "RESOLVED" => /\ call'[c].pc = "tell" /\ call'[c].to = "RESOLVED"
                                     /\ call'[c].order = call[c].order
        /\ call[c].to # "RESOLVED" => call'[c].pc = "idle"
    BY <2>1, <2>2 DEF CallSet, Idle
  <2> QED BY <2>1, <2>3, <1>4, QuietResolved DEF AuditOrder, Resolving
<1> QED BY <1>1, <1>2, <1>3, <1>4, ReportResolved, WriteResolved, TellResolvedOnce, AbortResolved
        DEF Next, HandlerStep

\* However requests race, a resolution is announced, and announced once unless an
\* overtaken call has written the order; rows hold values of their kinds and stamps
\* that tell the story of their status.
THEOREM OrdersSound == Spec => []OrderInv
<1>1. Spec => [](IInv /\ RInv)
  BY InitInv, NextInv, InitResolved, NextResolved, PTL DEF Spec
<1>2. IInv /\ RInv => OrderInv
  <2> SUFFICES ASSUME IInv, RInv PROVE retold \subseteq overtaken
    BY DEF IInv, RInv, OrderInv, ResolvedToldOnce
  <2> QED BY DEF IInv, TypeOK, RInv
<1> QED BY <1>1, <1>2, PTL
=============================================================================
