----------------------------- MODULE WorkOrder ------------------------------
(***************************************************************************)
(* Defects and the work orders they become: reportDefect, which creates a  *)
(* defect with its order and tells engineering, and the PATCH route, by    *)
(* which an order advances OPEN -> ACK -> IN_PROGRESS -> RESOLVED.  The     *)
(* route checks the status it has read and then writes the whole row, with *)
(* the other handlers running in between.                                  *)
(***************************************************************************)
EXTENDS Integers, FiniteSets

CONSTANTS
  Orders, Calls, Users,
  RoleOf,      \* RoleOf[u]: the role in u's session
  None,        \* an absent value
  MaxTime,     \* bound: the clock
  MaxAborts    \* bound: handlers that die half-way

Steps == {"ACK", "IN_PROGRESS", "RESOLVED"}
Statuses == {"OPEN"} \cup Steps

\* requireRole: the roles the route names, and the duty manager always.
Advancers == {"engineering", "supervisor", "duty_manager"}

ASSUME NoneIsNobody == None \notin Users \cup Orders \cup Statuses \cup Nat
ASSUME OrderBounds == MaxTime \in Nat /\ MaxAborts \in Nat

VARIABLES
  order,      \* order[o]: the WorkOrder row
  call,       \* the requests in service
  clock,      \* the server's time
  routed,     \* orders engineering has been told of
  told,       \* orders the supervisor was told are resolved
  retold,     \* those of which the supervisor was told again
  overtaken,  \* orders written by a call that had read an older row (observation)
  aborts

vars == <<order, call, clock, routed, told, retold, overtaken, aborts>>

\* ORDER.indexOf.
Level == [s \in Statuses |->
            CASE s = "OPEN" -> 0 [] s = "ACK" -> 1
              [] s = "IN_PROGRESS" -> 2 [] OTHER -> 3]

\* The stamps ackAt, startedAt and resolvedAt, by the status they belong to.
Unstamped == [s \in Steps |-> None]
NoOrder == [status |-> None, assignee |-> None, stamp |-> Unstamped]
NewOrder == [NoOrder EXCEPT !.status = "OPEN"]

Idle == [pc |-> "idle", user |-> None, order |-> None, to |-> None,
         read |-> NoOrder, now |-> 0, stale |-> {}]

Role(c) == RoleOf[call[c].user]

Init ==
  /\ order = [o \in Orders |-> NoOrder]
  /\ call = [c \in Calls |-> Idle]
  /\ clock = 1
  /\ routed = {}
  /\ told = {}
  /\ retold = {}
  /\ overtaken = {}
  /\ aborts = 0

Tick ==
  /\ clock < MaxTime
  /\ clock' = clock + 1
  /\ UNCHANGED <<order, call, routed, told, retold, overtaken, aborts>>

-----------------------------------------------------------------------------
(***************************************************************************)
(* reportDefect, for staff and guests alike: the defect and its order are  *)
(* one nested create.                                                      *)
(***************************************************************************)

Report(c, o) ==
  /\ call[c].pc = "idle"
  /\ order[o].status = None
  /\ order' = [order EXCEPT ![o] = NewOrder]
  /\ call' = [call EXCEPT ![c] = [Idle EXCEPT !.pc = "reported", !.order = o]]
  /\ UNCHANGED <<clock, routed, told, retold, overtaken, aborts>>

\* Variant with a bug: the handler ends with its audit entry.
AuditReportOnly(c) ==
  /\ call[c].pc = "reported"
  /\ call' = [call EXCEPT ![c] = Idle]
  /\ UNCHANGED <<order, clock, routed, told, retold, overtaken, aborts>>

\* After the audit entry, the notification for engineering.
AuditReport(c) ==
  /\ call[c].pc = "reported"
  /\ call' = [call EXCEPT ![c].pc = "route"]
  /\ UNCHANGED <<order, clock, routed, told, retold, overtaken, aborts>>

Route(c) ==
  /\ call[c].pc = "route"
  /\ routed' = routed \cup {call[c].order}
  /\ call' = [call EXCEPT ![c] = Idle]
  /\ UNCHANGED <<order, clock, told, retold, overtaken, aborts>>

-----------------------------------------------------------------------------
(***************************************************************************)
(* The PATCH route.                                                        *)
(***************************************************************************)

NextStatus(from, to) == Level[to] = Level[from] + 1

\* Variant with a bug: any status may follow any other.
ReadOrderUnchecked(c, u, o, to) ==
  /\ call[c].pc = "idle"
  /\ RoleOf[u] \in Advancers
  /\ order[o].status # None
  /\ call' = [call EXCEPT ![c] =
                [pc |-> "write", user |-> u, order |-> o, to |-> to,
                 read |-> order[o], now |-> clock, stale |-> {}]]
  /\ UNCHANGED <<order, clock, routed, told, retold, overtaken, aborts>>

\* The role, findUnique, and the check on what it returned; a refusal changes nothing.
ReadOrder(c, u, o, to) ==
  /\ call[c].pc = "idle"
  /\ RoleOf[u] \in Advancers
  /\ order[o].status # None
  /\ NextStatus(order[o].status, to)
  /\ call' = [call EXCEPT ![c] =
                [pc |-> "write", user |-> u, order |-> o, to |-> to,
                 read |-> order[o], now |-> clock, stale |-> {}]]
  /\ UNCHANGED <<order, clock, routed, told, retold, overtaken, aborts>>

\* Variant with a bug: whoever advances the order takes it over.
AdvancedTakesOver(c) ==
  [status |-> call[c].to, assignee |-> call[c].user,
   stamp |-> [call[c].read.stamp EXCEPT ![call[c].to] = call[c].now]]

\* The row the update writes: an engineer takes the order over, a supervisor
\* leaves it with whom it was read, and every stamp is written again.
Advanced(c) ==
  [status |-> call[c].to,
   assignee |-> IF Role(c) = "engineering" THEN call[c].user
                ELSE call[c].read.assignee,
   stamp |-> [call[c].read.stamp EXCEPT ![call[c].to] = call[c].now]]

WriteOrder(c) ==
  LET o == call[c].order IN
  /\ call[c].pc = "write"
  /\ order' = [order EXCEPT ![o] = Advanced(c)]
  /\ call' = [d \in Calls |->
                IF d = c THEN [call[d] EXCEPT !.pc = "audit"]
                ELSE IF call[d].pc = "write" /\ call[d].order = o
                THEN [call[d] EXCEPT !.stale = {"stale"}]
                ELSE call[d]]
  /\ overtaken' = IF call[c].stale = {} THEN overtaken ELSE overtaken \cup {o}
  /\ UNCHANGED <<clock, routed, told, retold, aborts>>

AuditOrder(c) ==
  /\ call[c].pc = "audit"
  /\ call' = [call EXCEPT ![c] =
                IF call[c].to = "RESOLVED" THEN [@ EXCEPT !.pc = "tell"] ELSE Idle]
  /\ UNCHANGED <<order, clock, routed, told, retold, overtaken, aborts>>

\* WORK_ORDER_RESOLVED: "Room may resume cleaning."
TellResolved(c) ==
  /\ call[c].pc = "tell"
  /\ told' = told \cup {call[c].order}
  /\ retold' = IF call[c].order \in told THEN retold \cup {call[c].order} ELSE retold
  /\ call' = [call EXCEPT ![c] = Idle]
  /\ UNCHANGED <<order, clock, routed, overtaken, aborts>>

Abort(c) ==
  /\ call[c].pc # "idle"
  /\ aborts < MaxAborts
  /\ aborts' = aborts + 1
  /\ call' = [call EXCEPT ![c] = Idle]
  /\ UNCHANGED <<order, clock, routed, told, retold, overtaken>>

HandlerStep(c) ==
  AuditReport(c) \/ Route(c) \/ WriteOrder(c) \/ AuditOrder(c) \/ TellResolved(c)

Next ==
  \/ Tick
  \/ \E c \in Calls, o \in Orders : Report(c, o)
  \/ \E c \in Calls, u \in Users, o \in Orders, to \in Steps : ReadOrder(c, u, o, to)
  \/ \E c \in Calls : HandlerStep(c) \/ Abort(c)

Spec == Init /\ [][Next]_vars

FairSpec == Spec /\ \A c \in Calls : WF_vars(HandlerStep(c))

-----------------------------------------------------------------------------
(***************************************************************************)
(* Properties.                                                             *)
(***************************************************************************)

RowType == [status : Statuses \cup {None}, assignee : Users \cup {None},
            stamp : [Steps -> Nat \cup {None}]]

TypeOK ==
  /\ order \in [Orders -> RowType]
  /\ call \in [Calls -> [pc : {"idle", "reported", "route", "write", "audit", "tell"},
                         user : Users \cup {None}, order : Orders \cup {None},
                         to : Steps \cup {None}, read : RowType, now : Nat,
                         stale : SUBSET {"stale"}]]
  /\ clock \in Nat
  /\ routed \subseteq Orders
  /\ told \subseteq Orders /\ retold \subseteq Orders
  /\ overtaken \subseteq Orders
  /\ aborts \in Nat

\* Whatever races, an order carries the stamps of exactly the statuses it has
\* passed, in the order it passed them: no time is missing, none left over from
\* a status that a race has undone.
Stamped(row) ==
  /\ \A s \in Steps : row.stamp[s] # None <=> row.status # None /\ Level[s] <= Level[row.status]
  /\ \A s, t \in Steps : Level[s] < Level[t] /\ row.stamp[t] # None =>
       row.stamp[s] <= row.stamp[t]

StampsMatchStatus == \A o \in Orders : Stamped(order[o])

\* An order advances by one status at a time, unless the call that writes it was
\* overtaken since it read the order.
ForwardUnlessOvertaken ==
  [][\A o \in Orders :
       order[o].status # None /\ order'[o].status # order[o].status =>
         \/ NextStatus(order[o].status, order'[o].status)
         \/ \E c \in Calls : /\ call[c].pc = "write" /\ call[c].order = o
                             /\ call[c].stale # {}]_vars

\* Only an engineer takes an order from the engineer who has it, unless the call
\* that writes it was overtaken (it then writes back the assignee it had read).
ClaimKept ==
  [][\A o \in Orders :
       order'[o].assignee # order[o].assignee =>
         \E c \in Calls : /\ call[c].pc = "write" /\ call[c].order = o
                          /\ \/ Role(c) = "engineering" /\ order'[o].assignee = call[c].user
                             \/ call[c].stale # {}]_vars

\* A resolved order is announced, or a handler still has it to do, or one died.
ResolutionAnnounced ==
  aborts = 0 =>
    \A o \in Orders : order[o].status = "RESOLVED" =>
      \/ o \in told
      \/ \E c \in Calls : call[c].pc \in {"audit", "tell"} /\ call[c].order = o
                          /\ call[c].to = "RESOLVED"

\* "Room may resume cleaning" is said once, unless a race let an order be
\* resolved twice.
ResolvedToldOnce == retold \subseteq overtaken

\* What holds in every state of an order: its stamps tell the story of its status,
\* and its resolution is told, once, however requests race.
OrderInv == TypeOK /\ StampsMatchStatus /\ ResolutionAnnounced /\ ResolvedToldOnce

\* Every defect reaches the queue of engineering with a notification, unless
\* the handler died after the report was stored.
EveryReportRouted ==
  \A o \in Orders : order[o].status # None ~> (o \in routed \/ aborts > 0)

=============================================================================
