---------------------------- MODULE MorningPlan ----------------------------
(***************************************************************************)
(* The morning plan (POST /api/assignments/plan): which rooms are planned  *)
(* as departures, which of them the team can do today, and a round of      *)
(* neighbouring rooms for everybody, the urgent ones first in it.          *)
(*                                                                         *)
(* Rooms are numbered in walking order (floor, section, number) and        *)
(* attendants by name.                                                     *)
(***************************************************************************)
EXTENDS Integers, Sequences, FiniteSets, Priority

CONSTANTS
  Houses,        \* what may be known of the rooms: functions to records, see Priority,
                 \* that also say whether the room is occupied
  SectionOf, BaseMinutes,  \* of every room
  Teams,         \* the attendants of a plan: sets of numbers
  Prefers,       \* Prefers[a]: the section a usually works in, or "none"
  Figures,       \* what the supervisor may enter for departures
  PoolMax, RoomsMin, RoomsMax  \* the size of a team, and of a round

Keys == DOMAIN SectionOf

ASSUME PoolAssumption == PoolMax \in Nat /\ RoomsMin \in Nat /\ RoomsMax \in Nat \ {0}
ASSUME NumbersAssumption ==
  /\ Keys \subseteq Nat /\ IsFiniteSet(Keys)
  /\ \A t \in Teams : t \subseteq Nat /\ IsFiniteSet(t)
  /\ \A h \in Houses, r \in Keys : Score(h[r]) \in Int

VARIABLES
  house, team, figure,
  stage,       \* what comes next: "ask", "classify", "defer", "cut", "hand out" or "told"
  departures,  \* rooms planned as departures
  deferred,    \* rooms put off to tomorrow
  cuts,        \* the rounds so far
  walk,        \* rooms not in a round yet, in walking order
  target,      \* <<n, d>>: the round aims at n/d minutes, counted from the first room
  asking,      \* attendants whose usual section has not been looked at yet
  roundFor,    \* pairs of an attendant and the round chosen for her
  lists        \* lists[a]: the rooms of a, in the order to be done

morning == <<house, team, figure, stage, departures, deferred, cuts, walk, target, asking,
             roundFor, lists>>

\* S in the order of before, a strict order.
Ordered(S, before(_, _)) ==
  [i \in 1..Cardinality(S) |->
     CHOOSE r \in S : Cardinality({q \in S : before(q, r)}) = i - 1]

\* The first n of S.
FirstOf(n, S, before(_, _)) == {r \in S : Cardinality({q \in S : before(q, r)}) < n}

MoreUrgent(q, r) ==
  Score(house[q]) > Score(house[r]) \/ (Score(house[q]) = Score(house[r]) /\ q < r)

\* isHousekeepingRelevant, and the rooms among them to be cleaned.
Relevant == {r \in Keys : house[r].occupied \/ house[r].checkout}
Workable == {r \in Relevant : house[r].status \in {"DIRTY", "PICKUP", "BLOCKED", "IN_PROGRESS"}}

Due == {r \in Keys : house[r].checkout}

\* Rooms that are due out come first, then the urgent ones.
LeavesBefore(q, r) ==
  \/ q \in Due /\ r \notin Due
  \/ (q \in Due <=> r \in Due) /\ MoreUrgent(q, r)

UrgentTurnover(r) == r \in departures /\ house[r].arrivals # {}

\* A turnover somebody arrives for is put off last.
KeptBefore(q, r) ==
  \/ UrgentTurnover(q) /\ ~UrgentTurnover(r)
  \/ (UrgentTurnover(q) <=> UrgentTurnover(r)) /\ MoreUrgent(q, r)

\* predictCleaningMinutes, for the two nights the route assumes.
Minutes(r) == (BaseMinutes[r] * (IF r \in departures THEN 13 ELSE 7) * 104 + 500) \div 1000

MinutesOf(S) == MapThenSumSet(Minutes, S)

MorningInit ==
  /\ house = [r \in Keys |-> [status |-> "INSPECTED"]]
  /\ team = {} /\ figure = 0
  /\ stage = "ask"
  /\ departures = {} /\ deferred = {}
  /\ cuts = <<>> /\ walk = <<>> /\ target = <<0, 1>>
  /\ asking = {} /\ roundFor = {}
  /\ lists = [a \in {} |-> <<>>]

Ask ==
  /\ stage = "ask" /\ stage' = "classify"
  /\ house' \in Houses /\ team' \in Teams /\ figure' \in Figures \cup {-1}  \* -1: the live figure
  /\ UNCHANGED <<departures, deferred, cuts, walk, target, asking, roundFor, lists>>

\* classifyDepartures, by the figure entered or by the live one.
Classify ==
  /\ stage = "classify" /\ stage' = "defer"
  /\ departures' = FirstOf(IF figure = -1 THEN Cardinality(Due) ELSE figure, Relevant, LeavesBefore)
  /\ UNCHANGED <<house, team, figure, deferred, cuts, walk, target, asking, roundFor, lists>>

\* Variant with a bug: the rooms to be cleaned are not looked at.
WorkloadAll == Relevant \ deferred

\* What planAssignments plans.
Workload == Workable \ deferred

\* computeStaffingNeed and splitForCapacity.
Defer ==
  /\ stage = "defer" /\ stage' = "cut"
  /\ UNCHANGED <<house, team, figure, departures, asking, roundFor, lists>>
  /\ deferred' = Workable \ FirstOf(PoolMax * RoomsMin, Workable, KeptBefore)
  /\ LET work == Workload'
     IN /\ walk' = IF team = {} THEN <<>> ELSE Ordered(work, <)
        /\ target' = <<MinutesOf(work), IF team = {} THEN 1 ELSE Cardinality(team)>>
  /\ cuts' = <<<<>>>>

Dist(m) == IF m >= 0 THEN m ELSE -m

RoomsIn(c) == UNION {{c[i][j] : j \in DOMAIN c[i]} : i \in DOMAIN c}

\* The round is cut before a room of m minutes: it is nearer its target so, or full.
NewRound(m) ==
  /\ Len(cuts) < Cardinality(team)
  /\ cuts[Len(cuts)] # <<>>
  /\ Len(walk) >= Cardinality(team) - Len(cuts) + 1
  /\ LET spent == MinutesOf(RoomsIn(cuts))
         off(n) == Dist(n * target[2] - target[1])
     IN off(spent) < off(spent + m) \/ Len(cuts[Len(cuts)]) >= RoomsMax

\* The next room goes to the round at hand, or opens the next one, which aims at an
\* equal share of what is left.
Cut ==
  LET spent == MinutesOf(RoomsIn(cuts))
      left == Cardinality(team) - Len(cuts)
  IN /\ stage = "cut" /\ walk # <<>>
     /\ walk' = Tail(walk)
     /\ IF NewRound(Minutes(Head(walk)))
        THEN /\ cuts' = Append(cuts, <<Head(walk)>>)
             /\ target' = <<spent * left + MinutesOf(Workload) - spent, left>>
        ELSE /\ cuts' = [cuts EXCEPT ![Len(cuts)] = Append(@, Head(walk))]
             /\ UNCHANGED target
     /\ UNCHANGED <<house, team, figure, stage, departures, deferred, asking, roundFor, lists>>

CutDone ==
  /\ stage = "cut" /\ walk = <<>> /\ stage' = "hand out" /\ asking' = team
  /\ UNCHANGED <<house, team, figure, departures, deferred, cuts, walk, target, roundFor, lists>>

\* The rounds there are, with those nothing was left for.
Rounds == [i \in 1..Cardinality(team) |-> IF i <= Len(cuts) THEN cuts[i] ELSE <<>>]

InSection(i, s) == Cardinality({j \in DOMAIN Rounds[i] : SectionOf[Rounds[i][j]] = s})

Served == {p[1] : p \in roundFor}
FreeRounds == DOMAIN Rounds \ {p[2] : p \in roundFor}

\* The free round with most of the section s, the first of several.
BestRound(s) ==
  {i \in FreeRounds :
     /\ s # "none" /\ InSection(i, s) > 0
     /\ \A j \in FreeRounds : InSection(j, s) <= InSection(i, s)
     /\ \A j \in FreeRounds : InSection(j, s) = InSection(i, s) => i <= j}

\* Who has a usual section takes, in turn, the round with most of it.
Choose ==
  /\ stage = "hand out"
  /\ \E a \in asking :
       /\ \A b \in asking : a <= b
       /\ asking' = asking \ {a}
       /\ roundFor' = roundFor \cup ({a} \X BestRound(Prefers[a]))
  /\ UNCHANGED <<house, team, figure, stage, departures, deferred, cuts, walk, target, lists>>

\* The others take what is left from the top.
RoundOf(a) ==
  IF a \in Served THEN CHOOSE i \in DOMAIN Rounds : <<a, i>> \in roundFor
  ELSE CHOOSE i \in FreeRounds : Cardinality({j \in FreeRounds : j < i})
                                 = Cardinality({b \in team \ Served : b < a})

HandOut ==
  /\ stage = "hand out" /\ asking = {} /\ stage' = "told"
  /\ lists' = [a \in team |-> Ordered(RoomsIn(<<Rounds[RoundOf(a)]>>), MoreUrgent)]
  /\ UNCHANGED <<house, team, figure, departures, deferred, cuts, walk, target, asking, roundFor>>

MorningNext == Ask \/ Classify \/ Defer \/ Cut \/ CutDone \/ Choose \/ HandOut

-----------------------------------------------------------------------------
(***************************************************************************)
(* Properties.                                                             *)
(***************************************************************************)

Listed(a) == {lists[a][i] : i \in DOMAIN lists[a]}

\* "It never drops a room", "contiguous rounds": of a plan with a team every room to be
\* cleaned is put off or stands once in one list, no other room does, and between
\* two rooms of one list there is none of another.
OnceInOneList ==
  /\ UNION {Listed(a) : a \in team} = Workable \ deferred
  /\ \A a \in team : Len(lists[a]) = Cardinality(Listed(a))
  /\ \A a, b \in team : a # b =>
       /\ Listed(a) \cap Listed(b) = {}
       /\ \A q, s \in Listed(a), r \in Listed(b) : ~(q < r /\ r < s)

\* "The incoming guest is waiting on it": rooms are put off only beyond what the team
\* can do; no departure somebody arrives for is put off while a room of another
\* kind is not, and no room while a less urgent one of its kind is not.
UrgentFirst ==
  /\ deferred # {} => Cardinality(Workable \ deferred) = PoolMax * RoomsMin
  /\ \A r \in deferred, q \in Workable \ deferred :
       /\ UrgentTurnover(r) => UrgentTurnover(q)
       /\ (UrgentTurnover(q) <=> UrgentTurnover(r)) => Score(house[q]) >= Score(house[r])

\* What a finished plan promises: both.
RoundsComplete == stage = "told" => UrgentFirst /\ (team # {} => OnceInOneList)
=============================================================================
