----------------------------- MODULE Assignment -----------------------------
(***************************************************************************)
(* Who cleans which room, and in which order: the route ("Laufplan") of    *)
(* every attendant, as the four operations on it write it.  A move and an  *)
(* assignment read, and write later what follows from what they have read; *)
(* a reorder checks first and writes later; a plan is one transaction.     *)
(***************************************************************************)
EXTENDS Integers, Sequences, FiniteSets

CONSTANTS
  Rooms, Attendants, Calls,
  None,     \* an absent value
  MaxOps    \* bound: requests and plans in a day

ASSUME NobodyAssumption == None \notin Rooms \cup Attendants \cup Int
ASSUME DayBound == MaxOps \in Nat /\ IsFiniteSet(Rooms)

VARIABLES
  who,      \* who[r]: Room.assignedToId
  place,    \* place[r]: Room.routeOrder
  call,     \* the requests in service
  untidy,   \* attendants whose route may have two rooms in one place (observation)
  ops       \* requests and plans so far

vars == <<who, place, call, untidy, ops>>

Items(s) == {s[i] : i \in DOMAIN s}
Arrangements(S) ==
  {s \in [1..Cardinality(S) -> S] : \A i, j \in 1..Cardinality(S) : i # j => s[i] # s[j]}

Route(a) == {r \in Rooms : who[r] = a}

\* knows: the routes a request has read; stale: one of them, or its room, has
\* been written since.
Idle == [pc |-> "idle", room |-> None, from |-> None, to |-> None, knows |-> {},
         next |-> 0, list |-> <<>>, tell |-> <<>>, stale |-> {}]

Init ==
  /\ who = [r \in Rooms |-> None]
  /\ place = [r \in Rooms |-> None]
  /\ call = [c \in Calls |-> Idle]
  /\ untidy = {}
  /\ ops = 0

Begin == ops < MaxOps /\ ops' = ops + 1

\* The rooms s get the places 0, 1, 2, ... in turn.
Numbered(s) ==
  [r \in Rooms |-> IF r \in Items(s) THEN (CHOOSE i \in DOMAIN s : s[i] = r) - 1
                   ELSE place[r]]

\* What a request relies on is written by another one.
Disturbs(k) ==
  \E r \in Rooms :
    /\ who'[r] # who[r] \/ place'[r] # place[r]
    /\ \/ r = k.room
       \/ "to" \in k.knows /\ k.to \in {who[r], who'[r]}
       \/ "from" \in k.knows /\ k.from \in {who[r], who'[r]}

\* The calls after this step: a disturbed one notices nothing.
Overtaken ==
  [d \in Calls |-> IF call[d].pc \in {"move", "reorder", "assign"} /\ Disturbs(call[d])
                   THEN [call[d] EXCEPT !.stale = {"stale"}] ELSE call[d]]

\* Call c goes on as k.
Proceed(c, k) == call' = [Overtaken EXCEPT ![c] = k]

\* An attendant whose rooms with a place are all in S, numbered afresh, has a
\* tidy route.
TidyOrNot(a, S) ==
  IF \A r \in Rooms : who'[r] = a /\ place'[r] # None => r \in S
  THEN untidy \ {a} ELSE untidy \cup {a}

-----------------------------------------------------------------------------
(***************************************************************************)
(* notifyReassignment: the new attendant is told, then the former one.     *)
(***************************************************************************)

Heirs(from, to) ==
  IF from = to THEN <<>>
  ELSE (IF to = None THEN <<>> ELSE <<to>>) \o (IF from = None THEN <<>> ELSE <<from>>)

Informing(k) ==
  LET t == Heirs(k.from, k.to) IN
  IF t = <<>> THEN Idle ELSE [Idle EXCEPT !.pc = "tell", !.room = k.room, !.tell = t]

Tell(c) ==
  LET k == call[c] IN
  /\ k.pc = "tell"
  /\ call' = [call EXCEPT ![c] =
                IF Len(k.tell) = 1 THEN Idle ELSE [k EXCEPT !.tell = Tail(k.tell)]]
  /\ UNCHANGED <<who, place, untidy, ops>>

-----------------------------------------------------------------------------
(***************************************************************************)
(* moveRoomBetweenAttendants.                                              *)
(***************************************************************************)

StartMove(c, r, to) ==
  /\ call[c].pc = "idle"
  /\ who[r] \notin {None, to}
  /\ call' = [call EXCEPT ![c] = [Idle EXCEPT !.pc = "move", !.room = r,
                                              !.from = who[r], !.to = to]]
  /\ UNCHANGED <<who, place, untidy>>

ReadMove(c, r, to) == StartMove(c, r, to) /\ Begin

\* Variant with a bug: the next place is the number of rooms.
NextPlaceCounted(a) == Cardinality(Route(a))

\* One more than the largest place, 0 if there is none.
NextPlace(a) ==
  LET taken == {-1} \cup ({place[r] : r \in Route(a)} \ {None})
  IN 1 + CHOOSE m \in taken : \A n \in taken : n <= m

ReadTarget(c) ==
  /\ call[c].pc = "move"
  /\ "to" \notin call[c].knows
  /\ call' = [call EXCEPT ![c].next = NextPlace(call[c].to), ![c].knows = @ \cup {"to"}]
  /\ UNCHANGED <<who, place, untidy, ops>>

\* Ordered by place, rooms without one first, ties in any order.
InOrder(S) ==
  {s \in Arrangements(S) :
     \A i, j \in DOMAIN s : i < j /\ place[s[i]] # None =>
       place[s[j]] # None /\ place[s[i]] <= place[s[j]]}

\* Variant with a bug: the room that leaves is kept in the list.
ReadSourceWithRoom(c) ==
  /\ call[c].pc = "move"
  /\ "from" \notin call[c].knows
  /\ \E s \in InOrder(Route(call[c].from)) :
       call' = [call EXCEPT ![c].list = s, ![c].knows = @ \cup {"from"}]
  /\ UNCHANGED <<who, place, untidy, ops>>

ReadSource(c) ==
  /\ call[c].pc = "move"
  /\ "from" \notin call[c].knows
  /\ \E s \in InOrder(Route(call[c].from) \ {call[c].room}) :
       call' = [call EXCEPT ![c].list = s, ![c].knows = @ \cup {"from"}]
  /\ UNCHANGED <<who, place, untidy, ops>>

CommitMove(c) ==
  LET k == call[c] IN
  /\ k.pc = "move"
  /\ k.knows = {"to", "from"}
  /\ who' = [who EXCEPT ![k.room] = k.to]
  /\ place' = [Numbered(k.list) EXCEPT ![k.room] = k.next]
  /\ Proceed(c, Informing(k))
  /\ untidy' = IF k.stale = {} THEN untidy \ {k.from}
               ELSE untidy \cup ({who'[r] : r \in Items(k.list) \cup {k.room}} \ {None})
  /\ UNCHANGED ops

-----------------------------------------------------------------------------
(***************************************************************************)
(* PATCH /api/rooms/reorder.                                               *)
(***************************************************************************)

\* Every room must be the attendant's; that the list is complete is not asked.
ReadReorder(c, a, s) ==
  /\ call[c].pc = "idle"
  /\ Items(s) \subseteq Route(a)
  /\ Begin
  /\ call' = [call EXCEPT ![c] = [Idle EXCEPT !.pc = "reorder", !.from = a,
                                              !.knows = {"from"}, !.list = s]]
  /\ UNCHANGED <<who, place, untidy>>

CommitReorder(c) ==
  LET k == call[c] IN
  /\ k.pc = "reorder"
  /\ place' = Numbered(k.list)
  /\ UNCHANGED <<who, ops>>
  /\ Proceed(c, Idle)
  /\ untidy' = IF k.stale = {} THEN TidyOrNot(k.from, Items(k.list))
               ELSE untidy \cup ({who[r] : r \in Items(k.list)} \ {None})

-----------------------------------------------------------------------------
(***************************************************************************)
(* POST /api/rooms/[id]/assign: the room keeps its place.                  *)
(***************************************************************************)

ReadAssign(c, r, to) ==
  /\ call[c].pc = "idle"
  /\ Begin
  /\ call' = [call EXCEPT ![c] = [Idle EXCEPT !.pc = "assign", !.room = r,
                                              !.from = who[r], !.to = to]]
  /\ UNCHANGED <<who, place, untidy>>

CommitAssign(c) ==
  LET k == call[c] IN
  /\ k.pc = "assign"
  /\ who' = [who EXCEPT ![k.room] = k.to]
  /\ UNCHANGED <<place, ops>>
  /\ Proceed(c, Informing(k))
  /\ untidy' = IF k.to = None \/ place[k.room] = None THEN untidy
               ELSE untidy \cup {k.to}

-----------------------------------------------------------------------------
(***************************************************************************)
(* POST /api/assignments/apply: every attendant of the plan gets a list.   *)
(***************************************************************************)

Lists == UNION {Arrangements(S) : S \in SUBSET Rooms}

\* A room may only be assigned to one attendant.
Plans == {p \in [Attendants -> Lists] :
            \A a, b \in Attendants : a # b => Items(p[a]) \cap Items(p[b]) = {}}

Planned(p, a) == Items(p[a])

ApplyPlan(p) ==
  LET heir(r) == {a \in Attendants : r \in Planned(p, a)} IN
  /\ Begin
  /\ who' = [r \in Rooms |-> IF heir(r) = {} THEN who[r] ELSE CHOOSE a \in heir(r) : TRUE]
  /\ place' = [r \in Rooms |->
                 IF heir(r) = {} THEN place[r]
                 ELSE LET s == p[CHOOSE a \in heir(r) : TRUE]
                      IN (CHOOSE i \in DOMAIN s : s[i] = r) - 1]
  /\ untidy' = {a \in Attendants :
                  \/ a \in untidy /\ \E r \in Rooms : who'[r] = a /\ place'[r] # None
                                                      /\ r \notin Planned(p, a)
                  \/ p[a] # <<>> /\ \E r \in Rooms : who'[r] = a /\ place'[r] # None
                                                     /\ r \notin Planned(p, a)}
  /\ call' = Overtaken

Request(c) ==
  \/ \E r \in Rooms, to \in Attendants : ReadMove(c, r, to)
  \/ \E r \in Rooms, to \in Attendants \cup {None} : ReadAssign(c, r, to)
  \/ \E a \in Attendants, s \in Lists \ {<<>>} : ReadReorder(c, a, s)

Serve(c) ==
  \/ ReadTarget(c) \/ ReadSource(c) \/ CommitMove(c)
  \/ CommitReorder(c) \/ CommitAssign(c) \/ Tell(c)

Next ==
  \/ \E c \in Calls : Request(c) \/ Serve(c)
  \/ \E p \in Plans : ApplyPlan(p)

Spec == Init /\ [][Next]_vars

-----------------------------------------------------------------------------
(***************************************************************************)
(* Properties.                                                             *)
(***************************************************************************)

TypeOK ==
  /\ who \in [Rooms -> Attendants \cup {None}]
  /\ place \in [Rooms -> Nat \cup {None}]
  /\ call \in [Calls -> [pc : {"idle", "move", "reorder", "assign", "tell"},
                         room : Rooms \cup {None}, from : Attendants \cup {None},
                         to : Attendants \cup {None}, knows : SUBSET {"to", "from"},
                         next : Nat, list : Seq(Rooms), tell : Seq(Attendants),
                         stale : SUBSET {"stale"}]]
  /\ untidy \subseteq Attendants
  /\ ops \in Nat

\* No two rooms of a route have the same place, unless an assignment has carried
\* a place into it, a partial list was numbered over it or a request that wrote
\* it was overtaken, and it was not numbered as a whole since.
RoutesInOrder ==
  \A a \in Attendants \ untidy : \A q, r \in Route(a) :
    q # r /\ place[q] # None => place[q] # place[r]

Moves(c) == call[c].pc = "move" /\ call'[c].pc # "move"

\* What holds in every state of the routes.
RouteInv == TypeOK /\ RoutesInOrder

\* A room that is moved comes last in the route it joins, and the route it
\* leaves closes the gap and keeps its order, unless the move was overtaken.
MovesInOrder ==
  \A c \in Calls : Moves(c) /\ call[c].stale = {} =>
       LET k == call[c]
           rest == Route(k.from) \ {k.room}
       IN /\ \A r \in Route(k.to) : place[r] # None => place'[r] < place'[k.room]
          /\ {place'[r] : r \in rest} = 0..(Cardinality(rest) - 1)
          /\ \A q, r \in rest :
               place[q] # None /\ place[r] # None /\ place[q] < place[r] =>
                 place'[q] < place'[r]

\* A request writes rooms of the routes it is about and no others, unless it was
\* overtaken.
OwnRoutesOnly ==
  \A c \in Calls :
       call[c].pc \in {"move", "reorder", "assign"} /\ call'[c].pc \in {"idle", "tell"} =>
         \/ call[c].stale # {}
         \/ \A r \in Rooms :
              place'[r] # place[r] => who[r] = call[c].from

\* Who gets a room and who loses it are both told, unless the request was
\* overtaken: then the former attendant it names may not be the one who had it.
BothTold ==
  \A c \in Calls :
       call[c].pc \in {"move", "assign"} /\ call'[c].pc \in {"idle", "tell"} =>
         LET r == call[c].room IN
         \/ call[c].stale # {}
         \/ who'[r] = who[r]
         \/ Items(call'[c].tell) = {who[r], who'[r]} \ {None}

\* Only a request that was overtaken scrambles a route, writes a foreign one or
\* leaves one of the two attendants untold.
OnlyOvertakenScrambles == [][MovesInOrder /\ OwnRoutesOnly /\ BothTold]_vars

=============================================================================
