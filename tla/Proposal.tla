------------------------------ MODULE Proposal ------------------------------
(***************************************************************************)
(* The search for an assignment proposal (autoplan/propose.ts): every free *)
(* room is placed with the cheapest housekeeper it fits, once greedily and *)
(* once after a sweep in blocks, each improved by moving and swapping      *)
(* rooms until nothing gets cheaper; the cheaper of the two is disturbed   *)
(* and improved for some rounds.  A room somebody has fixed never moves.   *)
(*                                                                         *)
(* Rooms and housekeepers are numbered as the plan sorts them; the         *)
(* pseudo-random numbers of the disturbance, the sizes of the blocks and   *)
(* the clock are left open.                                                *)
(***************************************************************************)
EXTENDS Integers, FiniteSets

CONSTANTS
  PlanRooms, Hks,  \* numbers; 0 is nobody
  Cost(_, _),      \* Cost(in, a): what the assignment a of the input costs
  Inputs,          \* what is planned: levels, demanding rooms, fixed rooms
  MaxPasses, PerturbRounds

ASSUME PlanAssumption == PlanRooms \subseteq Nat /\ Hks \subseteq Nat \ {0}
ASSUME InputsAssumption ==
  \A in \in Inputs : /\ in.level \in [Hks -> 1..3]
                     /\ in.fixedTo \in [PlanRooms -> Hks \cup {0}]
ASSUME CostAssumption ==
  \A in \in Inputs, a \in [PlanRooms -> Hks \cup {0}] : Cost(in, a) \in Int

VARIABLES
  input,     \* the PlanInput
  assign,    \* assign[r]: the housekeeper, or 0
  best,      \* the cheapest assignment kept so far
  phase,     \* which start is being improved: "greedy", "sweep" or "round"
  rounds,    \* rounds of disturbance so far
  pc,        \* where the search stands: "place", "move", "swap", "keep", "next" or "done"
  rest,      \* the rooms still to be placed or moved
  pairs,     \* the pairs still to be swapped
  pass, improved,
  timedOut

search == <<input, assign, best, phase, rounds, pc, rest, pairs, pass, improved, timedOut>>

Free == {r \in PlanRooms : input.fixedTo[r] = 0}

\* eligible: level 1 never gets demanding rooms.
Eligible(r, h) == input.level[h] >= 2 \/ r \notin input.demanding

Placed(a, r, h) == [a EXCEPT ![r] = h]

\* The first of the cheapest among hs for room r.
Cheapest(a, r, hs) ==
  {h \in hs : \A g \in hs :
     LET there == Cost(input, Placed(a, r, h))
         here == Cost(input, Placed(a, r, g))
     IN there < here \/ (there = here /\ h <= g)}

ProposeInit ==
  /\ input \in Inputs
  /\ assign = input.fixedTo /\ best = input.fixedTo
  /\ phase = "greedy" /\ rounds = 0
  /\ pc = "place" /\ rest = Free /\ pairs = {}
  /\ pass = 0 /\ improved = FALSE /\ timedOut = FALSE

\* greedyPlace, one room; demanding rooms come first.
Place(r) ==
  LET hs == {h \in Hks : Eligible(r, h)}
      before(q) == \/ q \in input.demanding /\ r \notin input.demanding
                   \/ (q \in input.demanding <=> r \in input.demanding) /\ q < r
  IN /\ pc = "place" /\ r \in rest /\ \A q \in rest : ~before(q)
     /\ IF hs = {} THEN assign' = Placed(assign, r, 0)
        ELSE \E h \in Cheapest(assign, r, hs) : assign' = Placed(assign, r, h)
     /\ rest' = rest \ {r}
     /\ UNCHANGED <<input, best, phase, rounds, pc, pairs, pass, improved, timedOut>>

Optimize ==
  /\ pc = "place" /\ rest = {}
  /\ pc' = "move" /\ rest' = Free
  /\ pass' = 1 /\ improved' = FALSE
  /\ UNCHANGED <<input, assign, best, phase, rounds, pairs, timedOut>>

\* One room is moved to where it is cheapest, if that is cheaper.
Move(r) ==
  LET hs == {h \in Hks \ {assign[r]} : /\ Eligible(r, h)
                                       /\ Cost(input, Placed(assign, r, h)) < Cost(input, assign)}
  IN /\ pc = "move" /\ r \in rest /\ \A q \in rest : r <= q
     /\ IF hs = {} THEN UNCHANGED <<assign, improved>>
        ELSE /\ \E h \in Cheapest(assign, r, hs) : assign' = Placed(assign, r, h)
             /\ improved' = TRUE
     /\ rest' = rest \ {r}
     /\ UNCHANGED <<input, best, phase, rounds, pc, pairs, pass, timedOut>>

Pairs == {p \in Free \X Free : p[1] < p[2]}

StartSwaps ==
  /\ pc = "move" /\ rest = {}
  /\ pc' = "swap" /\ pairs' = Pairs
  /\ UNCHANGED <<input, assign, best, phase, rounds, rest, pass, improved, timedOut>>

Swapped(a, i, j) == [a EXCEPT ![i] = a[j], ![j] = a[i]]

\* Variant with a bug: whether the rooms fit is not looked at.
MaySwapAny(i, j) == assign[i] # assign[j] /\ assign[i] # 0 /\ assign[j] # 0

MaySwap(i, j) ==
  /\ assign[i] # assign[j] /\ assign[i] # 0 /\ assign[j] # 0
  /\ Eligible(i, assign[j]) /\ Eligible(j, assign[i])

Swap(p) ==
  LET after == Swapped(assign, p[1], p[2])
  IN /\ pc = "swap" /\ p \in pairs
     /\ \A q \in pairs : p[1] < q[1] \/ (p[1] = q[1] /\ p[2] <= q[2])
     /\ IF MaySwap(p[1], p[2]) /\ Cost(input, after) < Cost(input, assign)
        THEN assign' = after /\ improved' = TRUE
        ELSE UNCHANGED <<assign, improved>>
     /\ pairs' = pairs \ {p}
     /\ UNCHANGED <<input, best, phase, rounds, pc, rest, pass, timedOut>>

\* The deadline is looked at before the pairs of a room.
TimeOut ==
  /\ pc = "swap" /\ \E r \in Free : pairs = {p \in Pairs : p[1] >= r}
  /\ pc' = "keep" /\ pairs' = {} /\ timedOut' = TRUE
  /\ UNCHANGED <<input, assign, best, phase, rounds, rest, pass, improved>>

\* Another pass follows one that has found something.
Again == improved /\ pass < MaxPasses

EndPass ==
  /\ pc = "swap" /\ pairs = {}
  /\ IF Again THEN pc' = "move" /\ rest' = Free /\ pass' = pass + 1 /\ improved' = FALSE
     ELSE pc' = "keep" /\ UNCHANGED <<rest, pass, improved>>
  /\ UNCHANGED <<input, assign, best, phase, rounds, pairs, timedOut>>

\* A block of free rooms in a row for everybody.
Sweeps ==
  {a \in [PlanRooms -> Hks \cup {0}] :
     /\ \A r \in PlanRooms \ Free : a[r] = input.fixedTo[r]
     /\ \A r \in Free : a[r] # 0
     /\ \A q, r, s \in Free : q < r /\ r < s /\ a[q] = a[s] => a[r] = a[q]}

Bad(a) == {r \in Free : ~Eligible(r, a[r])}

\* sweepPlace; the rooms that do not fit are placed again.
SecondStart ==
  /\ pc = "keep" /\ phase = "greedy"
  /\ best' = assign
  /\ phase' = "sweep"
  /\ IF Hks = {} THEN assign' = input.fixedTo /\ rest' = {}
     ELSE \E a \in Sweeps :
            /\ assign' = [r \in PlanRooms |-> IF r \in Bad(a) THEN 0 ELSE a[r]]
            /\ rest' = Bad(a)
  /\ pc' = "place"
  /\ UNCHANGED <<input, rounds, pairs, pass, improved, timedOut>>

\* Variant with a bug: the last one is kept.
KeptLast == assign

Kept == IF Cost(input, assign) < Cost(input, best) THEN assign ELSE best

Keep ==
  /\ pc = "keep" /\ phase # "greedy"
  /\ best' = Kept
  /\ pc' = "next"
  /\ UNCHANGED <<input, assign, phase, rounds, rest, pairs, pass, improved, timedOut>>

\* Rooms are moved at random to where they fit, whatever it costs.
Disturb ==
  /\ pc = "next" /\ rounds < PerturbRounds
  /\ Cardinality(Free) > 1 /\ Cardinality(Hks) > 1
  /\ \E moved \in SUBSET Free : \E to \in [moved -> Hks] :
       /\ \A r \in moved : Eligible(r, to[r])
       /\ assign' = [r \in PlanRooms |-> IF r \in moved THEN to[r] ELSE best[r]]
  /\ phase' = "round" /\ rounds' = rounds + 1
  /\ pc' = "move" /\ rest' = Free
  /\ pass' = 1 /\ improved' = FALSE
  /\ UNCHANGED <<input, best, pairs, timedOut>>

\* After the rounds, or at the deadline.
Finish ==
  /\ pc = "next"
  /\ pc' = "done"
  /\ timedOut' \in (IF rounds < PerturbRounds /\ Cardinality(Free) > 1 /\ Cardinality(Hks) > 1
                    THEN {TRUE} ELSE {timedOut})
  /\ UNCHANGED <<input, assign, best, phase, rounds, rest, pairs, pass, improved>>

ProposeNext ==
  \/ \E r \in PlanRooms : Place(r) \/ Move(r)
  \/ Optimize \/ StartSwaps
  \/ \E p \in Pairs : Swap(p)
  \/ TimeOut \/ EndPass \/ SecondStart \/ Keep \/ Disturb \/ Finish

ProposeSpec == ProposeInit /\ [][ProposeNext]_search

-----------------------------------------------------------------------------
(***************************************************************************)
(* Properties.                                                             *)
(***************************************************************************)

\* "Stufe 1 bekommt nie anspruchsvolle Zimmer", "der Vorschlag verschiebt das Zimmer
\* nie": at every step of the search, and in what it keeps.
Respected(a) ==
  \A r \in PlanRooms : IF r \in Free THEN a[r] # 0 => Eligible(r, a[r])
                       ELSE a[r] = input.fixedTo[r]

\* "-1 = niemand geeignet -> bleibt offen": nothing else stays open.
OpenForNobody(a) == \A r \in Free : a[r] = 0 => \A h \in Hks : ~Eligible(r, h)

SearchKeepsRules ==
  /\ Respected(assign) /\ Respected(best)
  /\ pc # "place" => OpenForNobody(assign)
  /\ pc \in {"next", "done"} => OpenForNobody(best)

\* "bis die Kosten nicht mehr sinken": no step of an improvement costs more, nothing
\* kept is given up for something that is not cheaper, and an improvement that was
\* not cut short ends where no move and no swap is cheaper.
CannotImprove ==
  /\ \A r \in Free, h \in Hks :
       Eligible(r, h) => Cost(input, assign) <= Cost(input, Placed(assign, r, h))
  /\ \A p \in Pairs :
       MaySwap(p[1], p[2]) => Cost(input, assign) <= Cost(input, Swapped(assign, p[1], p[2]))

SearchImproves ==
  [][/\ pc \in {"move", "swap"} => Cost(input, assign') <= Cost(input, assign)
     /\ phase # "greedy" => Cost(input, best') <= Cost(input, best)
     /\ pc = "swap" /\ pc' = "keep" /\ ~timedOut' /\ pass < MaxPasses => CannotImprove]_search
=============================================================================
