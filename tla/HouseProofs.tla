----------------------------- MODULE HouseProofs -----------------------------
(***************************************************************************)
(* Proofs about planning and escalating, for any number of people, rooms,  *)
(* pages and runs: what the search for a proposal gives and improves, that *)
(* the planning page shows and applies what is set, that a save in the     *)
(* planning tool loses nothing silently, that what an escalation run finds *)
(* due is told, and that a morning plan drops no room.                     *)
(***************************************************************************)
EXTENDS Proposal, PlanningDesk, PlanSteps, Escalations, MorningPlan, FiniteSetTheorems,
        SequenceTheorems, TLAPS

-----------------------------------------------------------------------------
(***************************************************************************)
(* The search: what is free is given only to somebody it fits, and an      *)
(* improvement really improves.                                            *)
(***************************************************************************)

Anybody == Hks \cup {0}
Plans == [PlanRooms -> Anybody]

TypeOK ==
  /\ input \in Inputs
  /\ assign \in Plans /\ best \in Plans
  /\ phase \in {"greedy", "sweep", "round"}
  /\ pc \in {"place", "move", "swap", "keep", "next", "done"}
  /\ rest \subseteq Free /\ pairs \subseteq Pairs
  /\ improved \in BOOLEAN

\* Room r is open only if it fits nobody.
Closed(a, r) == a[r] = 0 => \A h \in Hks : ~Eligible(r, h)

\* No other housekeeper, and no exchange, makes the assignment cheaper.
NoBetterPlace(a, r) ==
  \A h \in Hks : Eligible(r, h) => Cost(input, a) <= Cost(input, Placed(a, r, h))

NoBetterSwap(p) ==
  MaySwap(p[1], p[2]) => Cost(input, assign) <= Cost(input, Swapped(assign, p[1], p[2]))

\* What a placement that has come to rest, and what is kept, are like.
Rules ==
  /\ Respected(assign) /\ Respected(best)
  /\ pc = "place" => \A r \in Free \ rest : Closed(assign, r)
  /\ pc # "place" => \A r \in Free : Closed(assign, r)
  /\ phase # "greedy" => \A r \in Free : Closed(best, r)
  /\ pc \in {"next", "done"} => phase # "greedy"

\* A pass that has changed nothing has shown that what it looked at cannot be improved.
Searched ==
  /\ pc = "move" /\ ~improved => \A r \in Free \ rest : NoBetterPlace(assign, r)
  /\ pc = "swap" /\ ~improved => /\ \A r \in Free : NoBetterPlace(assign, r)
                                 /\ \A p \in Pairs \ pairs : NoBetterSwap(p)

IInv == TypeOK /\ Rules /\ Searched

-----------------------------------------------------------------------------
(***************************************************************************)
(* What the helpers return.                                                *)
(***************************************************************************)

LEMMA Typed ==
  ASSUME TypeOK
  PROVE  /\ assign \in [PlanRooms -> Hks \cup {0}] /\ best \in [PlanRooms -> Hks \cup {0}]
         /\ input.fixedTo \in [PlanRooms -> Hks \cup {0}]
         /\ Free \subseteq PlanRooms
         /\ 0 \notin Hks
BY InputsAssumption, PlanAssumption DEF TypeOK, Plans, Anybody, Free

\* One room given to one housekeeper.
LEMMA PlacedOne ==
  ASSUME NEW a \in Plans, NEW r \in PlanRooms, NEW h \in Anybody
  PROVE  /\ Placed(a, r, h) \in Plans
         /\ \A q \in PlanRooms : Placed(a, r, h)[q] = IF q = r THEN h ELSE a[q]
         /\ h = a[r] => Placed(a, r, h) = a
BY DEF Placed, Plans, Anybody

\* Two rooms exchanged.
LEMMA SwappedTwo ==
  ASSUME NEW a \in Plans, NEW i \in PlanRooms, NEW j \in PlanRooms
  PROVE  /\ Swapped(a, i, j) \in Plans
         /\ \A q \in PlanRooms :
              Swapped(a, i, j)[q] = IF q = j THEN a[i] ELSE IF q = i THEN a[j] ELSE a[q]
BY DEF Swapped, Plans, Anybody

LEMMA CostIsInt == ASSUME TypeOK, NEW a \in Plans PROVE Cost(input, a) \in Int
BY CostAssumption DEF TypeOK, Plans, Anybody

\* As long as the input stays, so does what is free and what fits.
LEMMA SameInput ==
  ASSUME input' = input
  PROVE  /\ Free' = Free /\ Pairs' = Pairs
         /\ \A r, h : Eligible(r, h)' <=> Eligible(r, h)
BY DEF Free, Pairs, Eligible

-----------------------------------------------------------------------------
(***************************************************************************)
(* The types, and the rules of the plan.                                   *)
(***************************************************************************)

LEMMA InitInv == ProposeInit => IInv
<1> SUFFICES ASSUME ProposeInit PROVE IInv
  OBVIOUS
<1> USE DEF ProposeInit
<1>1. TypeOK
  BY InputsAssumption DEF TypeOK, Plans, Anybody
<1>2. Rules
  BY DEF Rules, Respected, Free
<1>3. Searched
  BY DEF Searched
<1> QED BY <1>1, <1>2, <1>3 DEF IInv

LEMMA PlaceInv == ASSUME IInv, NEW r \in PlanRooms, Place(r) PROVE IInv'
<1> DEFINE hs == {h \in Hks : Eligible(r, h)}
<1>1. /\ pc = "place" /\ r \in rest /\ r \in Free
      /\ rest' = rest \ {r}
      /\ UNCHANGED <<input, best, phase, pc, pairs, improved>>
  BY DEF Place, IInv, TypeOK
<1>2. PICK h \in Anybody : /\ assign' = Placed(assign, r, h)
                           /\ h # 0 => Eligible(r, h)
                           /\ h = 0 => hs = {}
  <2>1. CASE hs = {}
    BY <2>1 DEF Place, Anybody
  <2>2. CASE hs # {}
    <3>1. PICK h \in Cheapest(assign, r, hs) : assign' = Placed(assign, r, h)
      BY <2>2 DEF Place
    <3> QED BY <3>1, PlanAssumption DEF Cheapest, Anybody
  <2> QED BY <2>1, <2>2
<1>3. /\ Free' = Free /\ Pairs' = Pairs
      /\ \A q, g : Eligible(q, g)' <=> Eligible(q, g)
  BY <1>1, SameInput
<1>4. /\ assign' \in Plans
      /\ \A q \in PlanRooms : assign'[q] = IF q = r THEN h ELSE assign[q]
  BY <1>2, PlacedOne DEF IInv, TypeOK
<1>5. TypeOK'
  BY <1>1, <1>3, <1>4 DEF IInv, TypeOK
<1>6. Rules'
  <2>1. Respected(assign)'
    BY <1>1, <1>2, <1>3, <1>4, Typed DEF IInv, Rules, Respected, Free, Eligible
  <2>2. Respected(best)'
    BY <1>1, <1>3 DEF IInv, Rules, Respected, Eligible
  <2>3. \A q \in Free' \ rest' : Closed(assign, q)'
    BY <1>1, <1>2, <1>3, <1>4, Typed DEF IInv, Rules, Closed, Eligible
  <2>4. (phase # "greedy" => \A q \in Free : Closed(best, q))'
    BY <1>1, <1>3 DEF IInv, Rules, Closed, Eligible
  <2> QED BY <1>1, <2>1, <2>2, <2>3, <2>4 DEF Rules, IInv
<1>7. Searched'
  BY <1>1 DEF Searched
<1> QED BY <1>5, <1>6, <1>7 DEF IInv

LEMMA OptimizeInv == ASSUME IInv, Optimize PROVE IInv'
<1>1. /\ pc = "place" /\ rest = {} /\ pc' = "move" /\ rest' = Free
      /\ UNCHANGED <<input, assign, best, phase, pairs>> /\ improved' = FALSE
  BY DEF Optimize
<1>2. /\ Free' = Free /\ Pairs' = Pairs
      /\ \A q, g : Eligible(q, g)' <=> Eligible(q, g)
  BY <1>1, SameInput
<1>3. TypeOK'
  BY <1>1, <1>2 DEF IInv, TypeOK
<1>4. Rules'
  BY <1>1, <1>2 DEF IInv, Rules, Respected, Closed, Eligible
<1>5. Searched'
  BY <1>1, <1>2 DEF Searched
<1> QED BY <1>3, <1>4, <1>5 DEF IInv

\* What a move does: it finds nothing cheaper and leaves the plan alone, or gives the
\* room to somebody it fits for less.
LEMMA MoveCases ==
  ASSUME IInv, NEW r \in PlanRooms, Move(r)
  PROVE  \/ /\ UNCHANGED <<assign, improved>>
            /\ NoBetterPlace(assign, r)
         \/ /\ improved'
            /\ \E h \in Hks : /\ Eligible(r, h)
                              /\ assign' = Placed(assign, r, h)
                              /\ Cost(input, assign') < Cost(input, assign)
<1> DEFINE hs == {h \in Hks \ {assign[r]} : /\ Eligible(r, h)
                                            /\ Cost(input, Placed(assign, r, h)) < Cost(input, assign)}
<1>1. CASE hs = {}
  <2>1. UNCHANGED <<assign, improved>>
    BY <1>1 DEF Move
  <2>2. ASSUME NEW h \in Hks, Eligible(r, h)
        PROVE  Cost(input, assign) <= Cost(input, Placed(assign, r, h))
    <3>1. Cost(input, assign) \in Int
      BY CostIsInt DEF IInv, TypeOK
    <3>2. Cost(input, Placed(assign, r, h)) \in Int
      BY PlacedOne, CostIsInt DEF IInv, TypeOK, Anybody
    <3>3. CASE h = assign[r]
      <4>1. Placed(assign, r, h) = assign
        BY <3>3, PlacedOne DEF IInv, TypeOK, Anybody
      <4> QED BY <4>1, <3>1
    <3>4. CASE h # assign[r]
      <4>1. ~(Cost(input, Placed(assign, r, h)) < Cost(input, assign))
        BY <1>1, <2>2, <3>4
      <4> QED BY <4>1, <3>1, <3>2
    <3> QED BY <3>3, <3>4
  <2> QED BY <2>1, <2>2 DEF NoBetterPlace
<1>2. CASE hs # {}
  <2>1. improved' /\ \E h \in Cheapest(assign, r, hs) : assign' = Placed(assign, r, h)
    BY <1>2 DEF Move
  <2>2. PICK h \in Cheapest(assign, r, hs) : assign' = Placed(assign, r, h)
    BY <2>1
  <2>3. h \in hs
    BY DEF Cheapest
  <2> QED BY <2>1, <2>2, <2>3
<1> QED BY <1>1, <1>2

LEMMA MoveInv == ASSUME IInv, NEW r \in PlanRooms, Move(r) PROVE IInv'
<1>1. /\ pc = "move" /\ r \in rest /\ r \in Free
      /\ rest' = rest \ {r}
      /\ UNCHANGED <<input, best, phase, pc, pairs>>
  BY DEF Move, IInv, TypeOK
<1>2. /\ Free' = Free /\ Pairs' = Pairs
      /\ \A q, g : Eligible(q, g)' <=> Eligible(q, g)
  BY <1>1, SameInput
<1>3. CASE UNCHANGED <<assign, improved>> /\ NoBetterPlace(assign, r)
  <2>1. TypeOK'
    BY <1>1, <1>2, <1>3 DEF IInv, TypeOK
  <2>2. Rules'
    BY <1>1, <1>2, <1>3 DEF IInv, Rules, Respected, Closed, Eligible
  <2>3. Searched'
    <3>1. ASSUME ~improved', NEW q \in Free' \ rest' PROVE NoBetterPlace(assign, q)'
      <4>1. NoBetterPlace(assign, q)
        BY <1>1, <1>2, <1>3, <3>1 DEF IInv, Searched
      <4> QED BY <4>1, <1>1, <1>2, <1>3 DEF NoBetterPlace, Placed, Eligible
    <3> QED BY <3>1, <1>1 DEF Searched
  <2> QED BY <2>1, <2>2, <2>3 DEF IInv
<1>4. CASE improved' /\ \E h \in Hks : /\ Eligible(r, h)
                                       /\ assign' = Placed(assign, r, h)
                                       /\ Cost(input, assign') < Cost(input, assign)
  <2>1. PICK h \in Hks : Eligible(r, h) /\ assign' = Placed(assign, r, h)
    BY <1>4
  <2>2. /\ assign' \in Plans
        /\ \A q \in PlanRooms : assign'[q] = IF q = r THEN h ELSE assign[q]
    BY <2>1, PlacedOne DEF IInv, TypeOK, Anybody
  <2>3. TypeOK'
    BY <1>1, <1>2, <1>4, <2>2 DEF IInv, TypeOK, Move
  <2>4. Respected(assign)'
    BY <1>1, <1>2, <2>1, <2>2, Typed DEF IInv, Rules, Respected, Free, Eligible
  <2>5. Respected(best)'
    BY <1>1, <1>2 DEF IInv, Rules, Respected, Eligible
  <2>6. \A q \in Free' : Closed(assign, q)'
    BY <1>1, <1>2, <2>1, <2>2, Typed DEF IInv, Rules, Closed, Eligible
  <2>7. (phase # "greedy" => \A q \in Free : Closed(best, q))'
    BY <1>1, <1>2 DEF IInv, Rules, Closed, Eligible
  <2>8. Rules'
    BY <1>1, <2>4, <2>5, <2>6, <2>7 DEF Rules, IInv
  <2>9. Searched'
    BY <1>1, <1>4 DEF Searched
  <2> QED BY <2>3, <2>8, <2>9 DEF IInv
<1> QED BY <1>3, <1>4, MoveCases

LEMMA StartSwapsInv == ASSUME IInv, StartSwaps PROVE IInv'
<1>1. /\ pc = "move" /\ rest = {} /\ pc' = "swap" /\ pairs' = Pairs
      /\ UNCHANGED <<input, assign, best, phase, rest, improved>>
  BY DEF StartSwaps
<1>2. /\ Free' = Free /\ Pairs' = Pairs
      /\ \A q, g : Eligible(q, g)' <=> Eligible(q, g)
  BY <1>1, SameInput
<1>3. TypeOK'
  BY <1>1, <1>2 DEF IInv, TypeOK
<1>4. Rules'
  BY <1>1, <1>2 DEF IInv, Rules, Respected, Closed, Eligible
<1>5. Searched'
  <2>1. ASSUME ~improved', NEW q \in Free' PROVE NoBetterPlace(assign, q)'
    <3>1. NoBetterPlace(assign, q)
      BY <1>1, <1>2, <2>1 DEF IInv, Searched
    <3> QED BY <3>1, <1>1, <1>2 DEF NoBetterPlace, Placed, Eligible
  <2> QED BY <2>1, <1>1, <1>2 DEF Searched
<1> QED BY <1>3, <1>4, <1>5 DEF IInv

\* What a swap does: nothing, if it is not allowed or not cheaper.
LEMMA SwapCases ==
  ASSUME IInv, NEW p \in Pairs, Swap(p)
  PROVE  \/ /\ UNCHANGED <<assign, improved>>
            /\ NoBetterSwap(p)
         \/ /\ improved' /\ MaySwap(p[1], p[2])
            /\ assign' = Swapped(assign, p[1], p[2])
            /\ Cost(input, assign') < Cost(input, assign)
<1> DEFINE after == Swapped(assign, p[1], p[2])
<1>1. p[1] \in PlanRooms /\ p[2] \in PlanRooms
  BY DEF Pairs, Free
<1>2. Cost(input, assign) \in Int /\ Cost(input, after) \in Int
  BY <1>1, SwappedTwo, CostIsInt DEF IInv, TypeOK
<1>3. CASE MaySwap(p[1], p[2]) /\ Cost(input, after) < Cost(input, assign)
  BY <1>3 DEF Swap
<1>4. CASE ~(MaySwap(p[1], p[2]) /\ Cost(input, after) < Cost(input, assign))
  BY <1>2, <1>4 DEF Swap, NoBetterSwap
<1> QED BY <1>3, <1>4

LEMMA SwapInv == ASSUME IInv, NEW p \in Pairs, Swap(p) PROVE IInv'
<1>1. /\ pc = "swap" /\ p \in pairs /\ pairs' = pairs \ {p}
      /\ UNCHANGED <<input, best, phase, pc, rest>>
  BY DEF Swap
<1>2. /\ Free' = Free /\ Pairs' = Pairs
      /\ \A q, g : Eligible(q, g)' <=> Eligible(q, g)
  BY <1>1, SameInput
<1>3. CASE UNCHANGED <<assign, improved>> /\ NoBetterSwap(p)
  <2>1. TypeOK'
    BY <1>1, <1>2, <1>3 DEF IInv, TypeOK
  <2>2. Rules'
    BY <1>1, <1>2, <1>3 DEF IInv, Rules, Respected, Closed, Eligible
  <2>3. ASSUME ~improved', NEW q \in Free' PROVE NoBetterPlace(assign, q)'
    <3>1. NoBetterPlace(assign, q)
      BY <1>1, <1>2, <1>3, <2>3 DEF IInv, Searched
    <3> QED BY <3>1, <1>1, <1>2, <1>3 DEF NoBetterPlace, Placed, Eligible
  <2>4. ASSUME ~improved', NEW q \in Pairs' \ pairs' PROVE NoBetterSwap(q)'
    <3>1. NoBetterSwap(q)
      BY <1>1, <1>2, <1>3, <2>4 DEF IInv, Searched
    <3> QED BY <3>1, <1>1, <1>2, <1>3 DEF NoBetterSwap, Swapped, MaySwap, Eligible
  <2>5. Searched'
    BY <2>3, <2>4, <1>1 DEF Searched
  <2> QED BY <2>1, <2>2, <2>5 DEF IInv
<1>4. CASE /\ improved' /\ MaySwap(p[1], p[2])
           /\ assign' = Swapped(assign, p[1], p[2])
  <2> DEFINE i == p[1]
             j == p[2]
  <2>1. i \in Free /\ j \in Free /\ i \in PlanRooms /\ j \in PlanRooms
    BY DEF Pairs, Free
  <2>2. /\ assign' \in Plans
        /\ \A q \in PlanRooms :
             assign'[q] = IF q = j THEN assign[i] ELSE IF q = i THEN assign[j] ELSE assign[q]
    <3>1. assign \in Plans
      BY DEF IInv, TypeOK
    <3>2. assign' = Swapped(assign, i, j)
      BY <1>4
    <3> HIDE DEF i, j
    <3> QED BY <2>1, <3>1, <3>2 DEF Swapped, Plans, Anybody
  <2>3. /\ assign[i] # 0 /\ assign[j] # 0
        /\ Eligible(i, assign[j]) /\ Eligible(j, assign[i])
    BY <1>4 DEF MaySwap
  <2> HIDE DEF i, j
  <2>4. TypeOK'
    BY <1>1, <1>2, <1>4, <2>2 DEF IInv, TypeOK
  <2>5. Respected(assign)'
    BY <1>1, <1>2, <2>1, <2>2, <2>3, Typed DEF IInv, Rules, Respected, Free, Eligible
  <2>6. Respected(best)'
    BY <1>1, <1>2 DEF IInv, Rules, Respected, Eligible
  <2>7. \A q \in Free' : Closed(assign, q)'
    BY <1>1, <1>2, <2>1, <2>2, <2>3, Typed DEF IInv, Rules, Closed, Eligible
  <2>8. (phase # "greedy" => \A q \in Free : Closed(best, q))'
    BY <1>1, <1>2 DEF IInv, Rules, Closed, Eligible
  <2>9. Rules'
    BY <1>1, <2>5, <2>6, <2>7, <2>8 DEF Rules, IInv
  <2>10. Searched'
    BY <1>1, <1>4 DEF Searched
  <2> QED BY <2>4, <2>9, <2>10 DEF IInv
<1> QED BY <1>3, <1>4, SwapCases

LEMMA TimeOutInv == ASSUME IInv, TimeOut PROVE IInv'
<1>1. /\ pc = "swap" /\ pc' = "keep" /\ pairs' = {}
      /\ UNCHANGED <<input, assign, best, phase, rest, improved>>
  BY DEF TimeOut
<1>2. /\ Free' = Free /\ Pairs' = Pairs
      /\ \A q, g : Eligible(q, g)' <=> Eligible(q, g)
  BY <1>1, SameInput
<1>3. TypeOK'
  BY <1>1, <1>2 DEF IInv, TypeOK
<1>4. Rules'
  BY <1>1, <1>2 DEF IInv, Rules, Respected, Closed, Eligible
<1> QED BY <1>1, <1>3, <1>4 DEF IInv, Searched

LEMMA EndPassInv == ASSUME IInv, EndPass PROVE IInv'
<1>1. /\ pc = "swap" /\ pc' \in {"move", "keep"}
      /\ pc' = "move" => rest' = Free
      /\ rest' \in {Free, rest} /\ improved' \in {improved, FALSE}
      /\ UNCHANGED <<input, assign, best, phase, pairs>>
  BY DEF EndPass
<1>2. /\ Free' = Free /\ Pairs' = Pairs
      /\ \A q, g : Eligible(q, g)' <=> Eligible(q, g)
  BY <1>1, SameInput
<1>3. TypeOK'
  BY <1>1, <1>2 DEF IInv, TypeOK
<1>4. Rules'
  BY <1>1, <1>2 DEF IInv, Rules, Respected, Closed, Eligible
<1>5. Searched'
  BY <1>1, <1>2 DEF Searched
<1> QED BY <1>3, <1>4, <1>5 DEF IInv

LEMMA SecondStartInv == ASSUME IInv, SecondStart PROVE IInv'
<1>1. /\ pc = "keep" /\ pc' = "place" /\ phase' = "sweep" /\ best' = assign
      /\ UNCHANGED <<input, pairs, improved>>
  BY DEF SecondStart
<1>2. /\ Free' = Free /\ Pairs' = Pairs
      /\ \A q, g : Eligible(q, g)' <=> Eligible(q, g)
  BY <1>1, SameInput
<1>3. /\ assign' \in Plans /\ rest' \subseteq Free
      /\ \A r \in PlanRooms \ Free : assign'[r] = input.fixedTo[r]
      /\ \A r \in Free : assign'[r] # 0 => Eligible(r, assign'[r])
      /\ \A r \in Free \ rest' : Closed(assign', r)
  <2>1. CASE Hks = {}
    <3>1. assign' = input.fixedTo /\ rest' = {}
      BY <2>1 DEF SecondStart
    <3> QED BY <2>1, <3>1, Typed DEF IInv, Free, Closed, Plans, Anybody
  <2>2. CASE Hks # {}
    <3>1. PICK a \in Sweeps :
            /\ assign' = [r \in PlanRooms |-> IF r \in Bad(a) THEN 0 ELSE a[r]]
            /\ rest' = Bad(a)
      BY <2>2 DEF SecondStart
    <3>2. /\ a \in [PlanRooms -> Hks \cup {0}]
          /\ \A r \in PlanRooms \ Free : a[r] = input.fixedTo[r]
          /\ \A r \in Free : a[r] # 0
      BY DEF Sweeps
    <3>3. \A r \in PlanRooms : assign'[r] = IF r \in Bad(a) THEN 0 ELSE a[r]
      BY <3>1
    <3>4. assign' \in Plans
      BY <3>1, <3>2 DEF Plans, Anybody
    <3>5. Bad(a) \subseteq Free /\ \A r \in Free \ Bad(a) : Eligible(r, a[r])
      BY DEF Bad
    <3> QED BY <3>1, <3>2, <3>3, <3>4, <3>5, Typed DEF IInv, Closed
  <2> QED BY <2>1, <2>2
<1>4. TypeOK'
  BY <1>1, <1>2, <1>3 DEF IInv, TypeOK
<1>5. Rules'
  <2>1. Respected(assign)'
    BY <1>1, <1>2, <1>3, Typed DEF IInv, Respected, Eligible
  <2>2. Respected(best)'
    BY <1>1, <1>2 DEF IInv, Rules, Respected, Eligible
  <2>3. \A q \in Free' \ rest' : Closed(assign, q)'
    BY <1>1, <1>2, <1>3 DEF Closed, Eligible
  <2>4. \A q \in Free' : Closed(best, q)'
    BY <1>1, <1>2 DEF IInv, Rules, Closed, Eligible
  <2> QED BY <1>1, <2>1, <2>2, <2>3, <2>4 DEF Rules
<1>6. Searched'
  BY <1>1 DEF Searched
<1> QED BY <1>4, <1>5, <1>6 DEF IInv

LEMMA KeepInv == ASSUME IInv, Keep PROVE IInv'
<1>1. /\ pc = "keep" /\ phase # "greedy" /\ pc' = "next" /\ best' \in {assign, best}
      /\ UNCHANGED <<input, assign, phase, rest, pairs, improved>>
  BY DEF Keep, Kept
<1>2. /\ Free' = Free /\ Pairs' = Pairs
      /\ \A q, g : Eligible(q, g)' <=> Eligible(q, g)
  BY <1>1, SameInput
<1>3. TypeOK'
  BY <1>1, <1>2 DEF IInv, TypeOK
<1>4. Rules'
  BY <1>1, <1>2 DEF IInv, Rules, Respected, Closed, Eligible
<1> QED BY <1>1, <1>3, <1>4 DEF IInv, Searched

LEMMA DisturbInv == ASSUME IInv, Disturb PROVE IInv'
<1>1. /\ pc = "next" /\ pc' = "move" /\ phase' = "round" /\ rest' = Free /\ ~improved'
      /\ improved' = FALSE /\ UNCHANGED <<input, best, pairs>>
  BY DEF Disturb
<1>2. /\ Free' = Free /\ Pairs' = Pairs
      /\ \A q, g : Eligible(q, g)' <=> Eligible(q, g)
  BY <1>1, SameInput
<1>3. PICK moved \in SUBSET Free : \E to \in [moved -> Hks] :
        /\ \A r \in moved : Eligible(r, to[r])
        /\ assign' = [r \in PlanRooms |-> IF r \in moved THEN to[r] ELSE best[r]]
  BY DEF Disturb
<1>4. PICK to \in [moved -> Hks] :
        /\ \A r \in moved : Eligible(r, to[r])
        /\ assign' = [r \in PlanRooms |-> IF r \in moved THEN to[r] ELSE best[r]]
  BY <1>3
<1>5. /\ \A r \in PlanRooms : assign'[r] = IF r \in moved THEN to[r] ELSE best[r]
      /\ assign' \in Plans
  BY <1>4, Typed DEF IInv, Plans, Anybody
<1>6. TypeOK'
  BY <1>1, <1>2, <1>5 DEF IInv, TypeOK
<1>7. Respected(assign)'
  BY <1>1, <1>2, <1>4, <1>5, Typed DEF IInv, Rules, Respected, Eligible
<1>8. Respected(best)'
  BY <1>1, <1>2 DEF IInv, Rules, Respected, Eligible
<1>9. \A q \in Free' : Closed(assign, q)'
  BY <1>1, <1>2, <1>4, <1>5, Typed DEF IInv, Rules, Closed, Eligible
<1>10. \A q \in Free' : Closed(best, q)'
  BY <1>1, <1>2 DEF IInv, Rules, Closed, Eligible
<1>11. Rules'
  BY <1>1, <1>7, <1>8, <1>9, <1>10 DEF Rules
<1>12. Searched'
  BY <1>1, <1>2 DEF Searched
<1> QED BY <1>6, <1>11, <1>12 DEF IInv

LEMMA FinishInv == ASSUME IInv, Finish PROVE IInv'
<1>1. /\ pc = "next" /\ pc' = "done"
      /\ UNCHANGED <<input, assign, best, phase, rest, pairs, improved>>
  BY DEF Finish
<1>2. /\ Free' = Free /\ Pairs' = Pairs
      /\ \A q, g : Eligible(q, g)' <=> Eligible(q, g)
  BY <1>1, SameInput
<1>3. TypeOK'
  BY <1>1, <1>2 DEF IInv, TypeOK
<1>4. Rules'
  BY <1>1, <1>2 DEF IInv, Rules, Respected, Closed, Eligible
<1> QED BY <1>1, <1>3, <1>4 DEF IInv, Searched

LEMMA NextInv == IInv /\ [ProposeNext]_search => IInv'
<1> SUFFICES ASSUME IInv, [ProposeNext]_search PROVE IInv'
  OBVIOUS
<1>1. CASE UNCHANGED search
  BY <1>1 DEF search, IInv, TypeOK, Rules, Searched, Free, Pairs, Respected, Closed, Eligible,
              NoBetterPlace, NoBetterSwap, MaySwap, Placed, Swapped
<1>2. CASE ProposeNext
  BY <1>2, PlaceInv, MoveInv, OptimizeInv, StartSwapsInv, SwapInv, TimeOutInv, EndPassInv,
     SecondStartInv, KeepInv, DisturbInv, FinishInv DEF ProposeNext
<1> QED BY <1>1, <1>2

-----------------------------------------------------------------------------
(***************************************************************************)
(* The theorems.                                                           *)
(***************************************************************************)

\* The invariant holds at every step of the search.
THEOREM Invariance == ProposeSpec => []IInv
BY InitInv, NextInv, PTL DEF ProposeSpec

\* A room is only ever with somebody it fits or who has it fixed, and only what fits
\* nobody is left open.
THEOREM RulesKept == ProposeSpec => []SearchKeepsRules
<1>1. IInv => SearchKeepsRules
  BY DEF IInv, Rules, Closed, OpenForNobody, SearchKeepsRules
<1> QED BY <1>1, Invariance, PTL

\* Whoever ends a pass in which nothing was found has found nothing.
LEMMA EndedSearched ==
  ASSUME IInv, EndPass, pc' = "keep", pass < MaxPasses PROVE CannotImprove
<1>1. pc = "swap" /\ pairs = {} /\ ~improved
  BY DEF EndPass, Again
<1> QED BY <1>1 DEF IInv, Searched, NoBetterPlace, NoBetterSwap, CannotImprove

\* No step of an improvement costs more, nothing kept is given up for anything dearer,
\* and an improvement that runs to its end leaves nothing to improve.
THEOREM Improves == ProposeSpec => SearchImproves
<1> DEFINE Better ==
      /\ pc \in {"move", "swap"} => Cost(input, assign') <= Cost(input, assign)
      /\ phase # "greedy" => Cost(input, best') <= Cost(input, best)
      /\ pc = "swap" /\ pc' = "keep" /\ ~timedOut' /\ pass < MaxPasses => CannotImprove
<1>1. ASSUME IInv, [ProposeNext]_search PROVE [Better]_search
  <2> SUFFICES ASSUME ProposeNext PROVE Better
    BY <1>1
  <2>1. /\ Cost(input, assign) \in Int /\ Cost(input, best) \in Int
    BY <1>1, CostIsInt DEF IInv, TypeOK
  <2>2. pc \in {"move", "swap"} => Cost(input, assign') <= Cost(input, assign)
    <3> SUFFICES ASSUME pc \in {"move", "swap"}
                 PROVE  Cost(input, assign') <= Cost(input, assign)
      OBVIOUS
    <3>1. \/ \E r \in PlanRooms : Move(r)
          \/ \E p \in Pairs : Swap(p)
          \/ StartSwaps \/ TimeOut \/ EndPass
      BY DEF ProposeNext, Place, Optimize, SecondStart, Keep, Disturb, Finish
    <3>2. assign' \in Plans
      BY <1>1, NextInv DEF IInv, TypeOK
    <3>3. Cost(input, assign') \in Int
      BY <1>1, <3>2, CostIsInt DEF IInv
    <3>4. CASE UNCHANGED assign
      BY <3>4, <2>1
    <3>5. CASE Cost(input, assign') < Cost(input, assign)
      BY <3>5, <3>3, <2>1
    <3>6. ASSUME NEW r \in PlanRooms, Move(r)
          PROVE  UNCHANGED assign \/ Cost(input, assign') < Cost(input, assign)
      BY <1>1, <3>6, MoveCases
    <3>7. ASSUME NEW p \in Pairs, Swap(p)
          PROVE  UNCHANGED assign \/ Cost(input, assign') < Cost(input, assign)
      BY <1>1, <3>7, SwapCases
    <3>8. StartSwaps \/ TimeOut \/ EndPass => UNCHANGED assign
      BY DEF StartSwaps, TimeOut, EndPass
    <3> QED BY <3>1, <3>4, <3>5, <3>6, <3>7, <3>8
  <2>3. phase # "greedy" => Cost(input, best') <= Cost(input, best)
    <3> SUFFICES ASSUME phase # "greedy" PROVE Cost(input, best') <= Cost(input, best)
      OBVIOUS
    <3>1. CASE Keep
      <4>1. \/ Cost(input, assign) < Cost(input, best) /\ best' = assign
            \/ best' = best
        BY <3>1 DEF Keep, Kept
      <4> QED BY <4>1, <2>1
    <3>2. CASE ~Keep
      <4>1. UNCHANGED best
        BY <3>2 DEF ProposeNext, Place, Move, Optimize, StartSwaps, Swap, TimeOut, EndPass,
                    SecondStart, Disturb, Finish
      <4> QED BY <4>1, <2>1
    <3> QED BY <3>1, <3>2
  <2>4. pc = "swap" /\ pc' = "keep" /\ ~timedOut' /\ pass < MaxPasses => CannotImprove
    <3> SUFFICES ASSUME pc = "swap", pc' = "keep", ~timedOut', pass < MaxPasses
                 PROVE  CannotImprove
      OBVIOUS
    <3>1. EndPass
      BY DEF ProposeNext, Place, Move, Optimize, StartSwaps, Swap, TimeOut,
             SecondStart, Keep, Disturb, Finish
    <3> QED BY <1>1, <3>1, EndedSearched
  <2> QED BY <2>2, <2>3, <2>4
<1>2. ProposeSpec => [][Better]_search
  BY <1>1, Invariance, PTL DEF ProposeSpec
<1> QED BY <1>2 DEF SearchImproves

-----------------------------------------------------------------------------
(***************************************************************************)
(* The planning page.  The request sent last carries what is set, unless   *)
(* it was stale when it was sent, or a timer runs that will send another;  *)
(* a plan and a dialog have the number of a request that is answered.      *)
(***************************************************************************)

Figs == Numbers \cup {Unset}

DeskType ==
  /\ onShift \subseteq Crew /\ figures \in Figs /\ wish \in Figs
  /\ seq \in Nat \ {0} /\ applying \in Nat /\ strayed \in BOOLEAN
  /\ timers \subseteq [kind : {"figures", "crew"}, who : SUBSET Crew, figs : Figs, at : Nat]
  /\ pending \subseteq [seq : Nat \ {0}, who : SUBSET Crew, figs : Figs]
  /\ spins \subseteq {"busy", "refreshing"}
  /\ last \in {"sound", "stale", "failed"}
  /\ inputs \in Nat
  /\ (figures = Unset <=> wish = Unset)

\* A timer sends what was set last of its kind.
TimersSend ==
  \A t \in timers : IF t.kind = "figures" THEN t.figs = wish /\ wish # Unset
                    ELSE t.who = onShift /\ plan # NoPlan

Waits == \E q \in pending : Newest(q)

\* No two requests have one number, and none has that of the plan or the dialog.
Numbering ==
  /\ \A p, q \in pending : p.seq = q.seq => p = q
  /\ \A q \in pending : q.seq <= seq /\ q.seq # plan.no /\ q.seq # moving.no
  /\ plan.no \in Nat /\ moving.no \in Nat /\ moving.no <= seq /\ plan.no <= seq

Sent ==
  last = "sound" /\ timers = {} =>
    /\ \A q \in pending : Newest(q) => /\ q.who = onShift
                                       /\ q.figs = wish
    /\ ~Waits => /\ plan # NoPlan
                 /\ plan.who = onShift /\ plan.figs = wish /\ figures = wish

PlanShape ==
  \/ plan = NoPlan
  \/ /\ plan.no # 0 /\ DOMAIN plan = {"no", "who", "figs", "of", "lists"}
     /\ plan.who \subseteq Crew /\ plan.figs \in Numbers /\ figures # Unset
     /\ DOMAIN plan.lists = Planned(plan.who)
     /\ plan.of \in [DeskRooms -> Planned(plan.who) \cup {0}]
     /\ plan.lists \in [Planned(plan.who) -> [DeskRooms -> Nat]]

\* The dialog is about a room of the list it was opened on.
DialogHolds ==
  moving # NoMove =>
    /\ moving.room \in DeskRooms /\ moving.from \in Crew
    /\ plan # NoPlan
    /\ ~strayed /\ moving.no = plan.no =>
         /\ moving.from \in DOMAIN plan.lists
         /\ plan.lists[moving.from][moving.room] > 0

SpinsEnd == /\ ~Waits => spins \subseteq {"busy"}
            /\ NothingSpins

KInv == DeskType /\ TimersSend /\ Numbering /\ Sent /\ PlanShape /\ DialogHolds /\ RoomsOnce /\ SpinsEnd

-----------------------------------------------------------------------------
LEMMA DeskTyped ==
  ASSUME DeskType
  PROVE  /\ \A q \in pending : q.seq \in Nat \ {0} /\ q.who \subseteq Crew /\ q.figs \in Figs
         /\ \A t \in timers : /\ t.kind \in {"figures", "crew"} /\ t.who \subseteq Crew
                              /\ t.figs \in Figs /\ t.at \in Nat
         /\ seq + 1 \in Nat \ {0} /\ inputs + 1 \in Nat
BY DEF DeskType

\* What is sent is the newest, and nothing has its number.
LEMMA SendEffect ==
  ASSUME NEW w \in SUBSET Crew, NEW v \in Figs, NEW k \in {"busy", "refreshing"},
         NEW stale \in BOOLEAN, DeskType, Numbering, Send(w, v, k, stale),
         plan' = plan, moving' = moving
  PROVE  /\ seq' = seq + 1 /\ seq' \in Nat \ {0}
         /\ pending' \subseteq [seq : Nat \ {0}, who : SUBSET Crew, figs : Figs]
         /\ spins' \subseteq {"busy", "refreshing"} /\ last' \in {"sound", "stale", "failed"}
         /\ last' = "sound" <=> ~stale
         /\ Numbering' /\ Waits' /\ SpinsEnd'
         /\ \A q \in pending' : q.seq = seq' => q.who = w /\ q.figs = v
<1> DEFINE new == [seq |-> seq + 1, who |-> w, figs |-> v]
<1>1. /\ seq' = seq + 1 /\ pending' = pending \cup {new} /\ spins' = spins \cup {k}
      /\ last' = IF stale THEN "stale" ELSE "sound"
  BY DEF Send
<1>2. seq \in Nat /\ seq + 1 \in Nat \ {0} /\ \A q \in pending : q.seq \in Nat
  BY DeskTyped DEF DeskType
<1>3. new \in [seq : Nat \ {0}, who : SUBSET Crew, figs : Figs] /\ new.seq = seq + 1
      /\ new.who = w /\ new.figs = v
  BY <1>2
<1> HIDE DEF new
<1>4. Numbering'
  <2>1. /\ \A p, q \in pending : p.seq = q.seq => p = q
        /\ \A q \in pending : q.seq <= seq /\ q.seq # plan.no /\ q.seq # moving.no
        /\ plan.no \in Nat /\ moving.no \in Nat /\ moving.no <= seq /\ plan.no <= seq
    BY DEF Numbering
  <2>2. \A q \in pending : q.seq # seq + 1
    BY <1>2, <2>1
  <2>3. \A p, q \in pending' : p.seq = q.seq => p = q
    BY <1>1, <1>3, <2>1, <2>2
  <2>4. \A q \in pending' : q.seq <= seq' /\ q.seq # plan.no /\ q.seq # moving.no
    <3> SUFFICES ASSUME NEW q \in pending' PROVE q.seq <= seq + 1 /\ q.seq # plan.no /\ q.seq # moving.no
      BY <1>1
    <3>1. CASE q = new
      BY <1>2, <1>3, <2>1, <3>1
    <3>2. CASE q \in pending
      BY <1>2, <2>1, <3>2
    <3> QED BY <1>1, <3>1, <3>2
  <2>5. moving.no <= seq' /\ plan.no <= seq'
    BY <1>1, <1>2, <2>1
  <2> QED BY <2>1, <2>3, <2>4, <2>5 DEF Numbering
<1>5. Waits'
  BY <1>1, <1>3 DEF Waits, Newest
<1>6. SpinsEnd'
  BY <1>5 DEF SpinsEnd, NothingSpins, Waits
<1>7. \A q \in pending' : q.seq = seq' => q.who = w /\ q.figs = v
  <2>1. \A q \in pending : q.seq # seq + 1
    BY <1>2 DEF Numbering
  <2> QED BY <1>1, <1>3, <2>1
<1>8. pending' \subseteq [seq : Nat \ {0}, who : SUBSET Crew, figs : Figs]
  BY <1>1, <1>3 DEF DeskType
<1> QED BY <1>1, <1>2, <1>4, <1>5, <1>6, <1>7, <1>8 DEF DeskType

\* What is shown is as before.
LEMMA SameShown ==
  ASSUME PlanShape, DialogHolds, RoomsOnce, plan' = plan, moving' = moving, strayed' = strayed,
         figures # Unset => figures' # Unset
  PROVE  PlanShape' /\ DialogHolds' /\ RoomsOnce'
<1>1. PlanShape'
  BY DEF PlanShape
<1>2. DialogHolds'
  BY DEF DialogHolds
<1>3. RoomsOnce'
  BY DEF RoomsOnce
<1> QED BY <1>1, <1>2, <1>3

LEMMA EnterFiguresInv ==
  ASSUME KInv, NEW v \in Numbers, NEW now \in BOOLEAN, EnterFigures(v, now)
  PROVE  KInv'
<1>1. /\ inputs' = inputs + 1 /\ figures # Unset /\ figures' = v /\ wish' = v
      /\ UNCHANGED <<onShift, plan, moving, applying, strayed, errors>>
      /\ IF now THEN timers' = Cleared("figures") /\ Send(onShift, v, "refreshing", FALSE)
         ELSE Later("figures", onShift, v)
  BY DEF EnterFigures, Input
<1>2. v \in Figs /\ v # Unset /\ onShift \in SUBSET Crew /\ "refreshing" \in {"busy", "refreshing"}
  BY DeskAssumption DEF Figs, Unset, KInv, DeskType
<1>3. PlanShape' /\ DialogHolds' /\ RoomsOnce'
  BY <1>1, <1>2, SameShown DEF KInv
<1>4. CASE now
  <2>1. timers' = Cleared("figures") /\ Send(onShift, v, "refreshing", FALSE)
    BY <1>1, <1>4
  <2>2. /\ seq' = seq + 1 /\ seq' \in Nat \ {0}
        /\ pending' \subseteq [seq : Nat \ {0}, who : SUBSET Crew, figs : Figs]
        /\ spins' \subseteq {"busy", "refreshing"} /\ last' \in {"sound", "stale", "failed"}
        /\ Numbering' /\ Waits' /\ SpinsEnd'
        /\ \A q \in pending' : q.seq = seq' => q.who = onShift /\ q.figs = v
    BY <1>1, <1>2, <2>1, SendEffect DEF KInv
  <2>3. DeskType'
    BY <1>1, <1>2, <2>1, <2>2, DeskTyped DEF DeskType, Cleared, KInv
  <2>4. TimersSend'
    BY <1>1, <1>2, <2>1 DEF TimersSend, Cleared, KInv
  <2>5. Sent'
    BY <1>1, <2>2 DEF Sent, Newest
  <2> QED BY <1>3, <2>2, <2>3, <2>4, <2>5 DEF KInv
<1>5. CASE ~now
  <2>1. /\ timers' = Cleared("figures") \cup
                      {[kind |-> "figures", who |-> onShift, figs |-> v, at |-> inputs]}
        /\ UNCHANGED <<seq, pending, last, spins>>
    BY <1>1, <1>5 DEF Later, query
  <2>2. DeskType'
    BY <1>1, <1>2, <2>1, DeskTyped DEF DeskType, Cleared, KInv
  <2>3. TimersSend'
    BY <1>1, <1>2, <2>1 DEF TimersSend, Cleared, KInv
  <2>4. Numbering'
    BY <1>1, <2>1 DEF Numbering, KInv
  <2>5. Sent'
    BY <2>1 DEF Sent
  <2>6. SpinsEnd'
    BY <1>1, <2>1 DEF SpinsEnd, NothingSpins, Waits, Newest, KInv
  <2> QED BY <1>3, <2>2, <2>3, <2>4, <2>5, <2>6 DEF KInv
<1> QED BY <1>4, <1>5

LEMMA ChooseCrewInv ==
  ASSUME KInv, NEW c \in SUBSET Crew, NEW now \in BOOLEAN, ChooseCrew(c, now)
  PROVE  KInv'
<1>1. /\ inputs' = inputs + 1 /\ onShift' = c
      /\ UNCHANGED <<figures, wish, plan, moving, applying, strayed, errors>>
      /\ IF plan = NoPlan THEN last' = "stale" /\ UNCHANGED <<timers, seq, pending, spins>>
         ELSE IF now
         THEN timers' = Cleared("crew") /\ Send(c, figures, "refreshing", figures # wish)
         ELSE Later("crew", c, figures)
  BY DEF ChooseCrew, Input
<1>2. figures \in Figs /\ "refreshing" \in {"busy", "refreshing"}
  BY DEF KInv, DeskType
<1>3. PlanShape' /\ DialogHolds' /\ RoomsOnce'
  BY <1>1, SameShown DEF KInv
<1>4. CASE plan = NoPlan
  <2>1. last' = "stale" /\ UNCHANGED <<timers, seq, pending, spins>>
    BY <1>1, <1>4
  <2>2. DeskType'
    BY <1>1, <2>1, DeskTyped DEF DeskType, KInv
  <2>3. TimersSend'
    BY <1>1, <1>4, <2>1 DEF TimersSend, KInv
  <2>4. Numbering'
    BY <1>1, <2>1 DEF Numbering, KInv
  <2>5. Sent'
    BY <2>1 DEF Sent
  <2>6. SpinsEnd'
    BY <1>1, <2>1 DEF SpinsEnd, NothingSpins, Waits, Newest, KInv
  <2> QED BY <1>3, <2>2, <2>3, <2>4, <2>5, <2>6 DEF KInv
<1>5. CASE plan # NoPlan /\ now
  <2>1. timers' = Cleared("crew") /\ Send(c, figures, "refreshing", figures # wish)
    BY <1>1, <1>5
  <2>2. /\ seq' = seq + 1 /\ seq' \in Nat \ {0}
        /\ pending' \subseteq [seq : Nat \ {0}, who : SUBSET Crew, figs : Figs]
        /\ spins' \subseteq {"busy", "refreshing"} /\ last' \in {"sound", "stale", "failed"}
        /\ last' = "sound" <=> figures = wish
        /\ Numbering' /\ Waits' /\ SpinsEnd'
        /\ \A q \in pending' : q.seq = seq' => q.who = c /\ q.figs = figures
    BY <1>1, <1>2, <2>1, SendEffect DEF KInv
  <2>3. DeskType'
    BY <1>1, <1>2, <2>1, <2>2, DeskTyped DEF DeskType, Cleared, KInv
  <2>4. TimersSend'
    BY <1>1, <2>1, DeskTyped DEF TimersSend, Cleared, KInv
  <2>5. Sent'
    BY <1>1, <2>2 DEF Sent, Newest
  <2> QED BY <1>3, <2>2, <2>3, <2>4, <2>5 DEF KInv
<1>6. CASE plan # NoPlan /\ ~now
  <2>1. /\ timers' = Cleared("crew") \cup
                      {[kind |-> "crew", who |-> c, figs |-> figures, at |-> inputs]}
        /\ UNCHANGED <<seq, pending, last, spins>>
    BY <1>1, <1>6 DEF Later, query
  <2>2. DeskType'
    BY <1>1, <1>2, <2>1, DeskTyped DEF DeskType, Cleared, KInv
  <2>3. TimersSend'
    BY <1>1, <2>1, DeskTyped DEF TimersSend, Cleared, KInv
  <2>4. Numbering'
    BY <1>1, <2>1 DEF Numbering, KInv
  <2>5. Sent'
    BY <2>1 DEF Sent
  <2>6. SpinsEnd'
    BY <1>1, <2>1 DEF SpinsEnd, NothingSpins, Waits, Newest, KInv
  <2> QED BY <1>3, <2>2, <2>3, <2>4, <2>5, <2>6 DEF KInv
<1> QED BY <1>4, <1>5, <1>6

LEMMA FireTimerInv ==
  ASSUME KInv, NEW t \in timers, FireTimer(t)
  PROVE  KInv'
<1> DEFINE stale == IF t.kind = "figures" THEN t.who # onShift ELSE t.figs # wish
<1>1. /\ timers' = timers \ {t} /\ Send(t.who, t.figs, "refreshing", stale)
      /\ UNCHANGED <<onShift, figures, wish, plan, moving, applying, strayed, inputs, errors>>
  BY DEF FireTimer
<1>2. /\ t.who \in SUBSET Crew /\ t.figs \in Figs /\ stale \in BOOLEAN
      /\ "refreshing" \in {"busy", "refreshing"}
  BY DeskTyped DEF KInv
<1>3. PlanShape' /\ DialogHolds' /\ RoomsOnce'
  BY <1>1, SameShown DEF KInv
<1>4. ~stale => t.who = onShift /\ t.figs = wish
  BY DEF KInv, TimersSend
<1>5. /\ seq' = seq + 1 /\ seq' \in Nat \ {0}
      /\ pending' \subseteq [seq : Nat \ {0}, who : SUBSET Crew, figs : Figs]
      /\ spins' \subseteq {"busy", "refreshing"} /\ last' \in {"sound", "stale", "failed"}
      /\ last' = "sound" <=> ~stale
      /\ Numbering' /\ Waits' /\ SpinsEnd'
      /\ \A q \in pending' : q.seq = seq' => q.who = t.who /\ q.figs = t.figs
  BY <1>1, <1>2, SendEffect DEF KInv
<1> HIDE DEF stale
<1>6. DeskType'
  BY <1>1, <1>5 DEF DeskType, KInv
<1>7. TimersSend'
  BY <1>1 DEF TimersSend, KInv
<1>8. Sent'
  BY <1>1, <1>4, <1>5 DEF Sent, Newest
<1> QED BY <1>3, <1>5, <1>6, <1>7, <1>8 DEF KInv

LEMMA RefreshInv == ASSUME KInv, Refresh PROVE KInv'
<1>1. /\ inputs' = inputs + 1 /\ Send(onShift, figures, "busy", figures # wish)
      /\ UNCHANGED <<onShift, figures, wish, timers, plan, moving, applying, strayed, errors>>
  BY DEF Refresh, Input, shift
<1>2. onShift \in SUBSET Crew /\ figures \in Figs /\ "busy" \in {"busy", "refreshing"}
  BY DEF KInv, DeskType
<1>3. PlanShape' /\ DialogHolds' /\ RoomsOnce'
  BY <1>1, SameShown DEF KInv
<1>4. /\ seq' = seq + 1 /\ seq' \in Nat \ {0}
      /\ pending' \subseteq [seq : Nat \ {0}, who : SUBSET Crew, figs : Figs]
      /\ spins' \subseteq {"busy", "refreshing"} /\ last' \in {"sound", "stale", "failed"}
      /\ last' = "sound" <=> figures = wish
      /\ Numbering' /\ Waits' /\ SpinsEnd'
      /\ \A q \in pending' : q.seq = seq' => q.who = onShift /\ q.figs = figures
  BY <1>1, <1>2, SendEffect DEF KInv
<1>5. DeskType'
  BY <1>1, <1>4, DeskTyped DEF DeskType, KInv
<1>6. TimersSend'
  BY <1>1 DEF TimersSend, KInv
<1>7. Sent'
  BY <1>1, <1>4 DEF Sent, Newest
<1> QED BY <1>3, <1>4, <1>5, <1>6, <1>7 DEF KInv

-----------------------------------------------------------------------------
\* A proposal gives a room to one attendant of the team, or to nobody.
LEMMA ProposedShape ==
  ASSUME NEW q, q.who \subseteq Crew, q.figs \in Figs, q.seq \in Nat \ {0}, Proposed(q)
  PROVE  /\ DOMAIN plan' = {"no", "who", "figs", "of", "lists"}
         /\ plan'.no = q.seq /\ plan'.who = q.who /\ plan' # NoPlan
         /\ plan'.figs = (IF q.figs = Unset THEN Default ELSE q.figs) /\ plan'.figs \in Numbers
         /\ DOMAIN plan'.lists = Planned(q.who)
         /\ plan'.of \in [DeskRooms -> Planned(q.who) \cup {0}]
         /\ plan'.lists \in [Planned(q.who) -> [DeskRooms -> Nat]]
         /\ \A r \in DeskRooms :
              IF plan'.of[r] = 0 THEN \A a \in DOMAIN plan'.lists : plan'.lists[a][r] = 0
              ELSE \E a \in DOMAIN plan'.lists :
                     \A b \in DOMAIN plan'.lists : plan'.lists[b][r] = (IF b = a THEN 1 ELSE 0)
<1>1. PICK f \in [DeskRooms -> Planned(q.who) \cup {0}] :
        plan' = [no |-> q.seq, who |-> q.who, of |-> f,
                 figs |-> IF q.figs = Unset THEN Default ELSE q.figs,
                 lists |-> [a \in Planned(q.who) |-> [r \in DeskRooms |-> IF f[r] = a THEN 1 ELSE 0]]]
  BY DEF Proposed
<1> DEFINE l == [a \in Planned(q.who) |-> [r \in DeskRooms |-> IF f[r] = a THEN 1 ELSE 0]]
<1>2. /\ plan'.no = q.seq /\ plan'.who = q.who /\ plan'.of = f /\ plan'.lists = l
      /\ plan'.figs = IF q.figs = Unset THEN Default ELSE q.figs
      /\ DOMAIN plan' = {"no", "who", "figs", "of", "lists"}
  BY <1>1
<1>3. plan' # NoPlan
  BY <1>2 DEF NoPlan
<1>4. Default \in Numbers /\ 0 \notin Planned(q.who)
  BY DeskAssumption DEF Planned
<1>5. DOMAIN l = Planned(q.who) /\ l \in [Planned(q.who) -> [DeskRooms -> Nat]]
  OBVIOUS
<1>6. \A r \in DeskRooms :
        IF f[r] = 0 THEN \A a \in Planned(q.who) : l[a][r] = 0
        ELSE \E a \in Planned(q.who) :
               \A b \in Planned(q.who) : l[b][r] = (IF b = a THEN 1 ELSE 0)
  <2> SUFFICES ASSUME NEW r \in DeskRooms
               PROVE  IF f[r] = 0 THEN \A a \in Planned(q.who) : l[a][r] = 0
                      ELSE \E a \in Planned(q.who) :
                             \A b \in Planned(q.who) : l[b][r] = (IF b = a THEN 1 ELSE 0)
    OBVIOUS
  <2>1. \A b \in Planned(q.who) : l[b][r] = IF f[r] = b THEN 1 ELSE 0
    OBVIOUS
  <2>2. f[r] \in Planned(q.who) \cup {0}
    OBVIOUS
  <2> HIDE DEF l
  <2> QED BY <1>4, <2>1, <2>2
<1> HIDE DEF l
<1>7. plan'.figs \in Numbers
  BY <1>2, <1>4 DEF Figs
<1> QED BY <1>2, <1>3, <1>5, <1>6, <1>7

LEMMA AnswerInv ==
  ASSUME KInv, NEW q \in pending, Answer(q)
  PROVE  KInv'
<1>1. /\ pending' = pending \ {q}
      /\ UNCHANGED <<onShift, timers, seq, last, moving, applying, inputs, errors>>
  BY DEF Answer
<1>2. /\ q.seq \in Nat \ {0} /\ q.who \subseteq Crew /\ q.figs \in Figs /\ q.seq <= seq
      /\ q.seq # moving.no /\ \A p \in pending' : p.seq # q.seq
  BY <1>1, DeskTyped DEF KInv, Numbering
<1>3. CASE Newest(q)
  <2>1. /\ Proposed(q) /\ figures' = plan'.figs /\ wish' = (IF wish = Unset THEN figures' ELSE wish)
        /\ spins' = {} /\ strayed' = FALSE
    BY <1>3 DEF Answer
  <2>2. /\ DOMAIN plan' = {"no", "who", "figs", "of", "lists"}
        /\ plan'.no = q.seq /\ plan'.who = q.who /\ plan' # NoPlan
        /\ plan'.figs = (IF q.figs = Unset THEN Default ELSE q.figs) /\ plan'.figs \in Numbers
        /\ DOMAIN plan'.lists = Planned(q.who)
        /\ plan'.of \in [DeskRooms -> Planned(q.who) \cup {0}]
        /\ plan'.lists \in [Planned(q.who) -> [DeskRooms -> Nat]]
        /\ \A r \in DeskRooms :
             IF plan'.of[r] = 0 THEN \A a \in DOMAIN plan'.lists : plan'.lists[a][r] = 0
             ELSE \E a \in DOMAIN plan'.lists :
                    \A b \in DOMAIN plan'.lists : plan'.lists[b][r] = (IF b = a THEN 1 ELSE 0)
    BY <1>2, <2>1, ProposedShape
  <2>3. figures' \in Figs /\ figures' # Unset /\ wish' \in Figs /\ wish' # Unset
    BY <2>1, <2>2, DeskAssumption DEF Figs, Unset, KInv, DeskType
  <2>4. DeskType'
    BY <1>1, <2>1, <2>3 DEF DeskType, KInv
  <2>5. TimersSend'
    BY <1>1, <2>1, <2>2 DEF TimersSend, KInv
  <2>6. Numbering'
    BY <1>1, <1>2, <2>2 DEF Numbering, KInv
  <2>7. ~Waits'
    BY <1>1, <1>2, <1>3 DEF Waits, Newest
  <2>8. Sent'
    <3> SUFFICES ASSUME last' = "sound", timers' = {} PROVE Sent'
      BY DEF Sent
    <3>1. q.who = onShift /\ q.figs = wish
      BY <1>1, <1>3 DEF KInv, Sent
    <3>2. plan'.who = onShift' /\ plan'.figs = wish' /\ figures' = wish' /\ plan' # NoPlan
      BY <1>1, <2>1, <2>2, <3>1
    <3>3. \A p \in pending' : ~Newest(p)'
      BY <1>1, <1>2, <1>3 DEF Newest
    <3> QED BY <3>2, <3>3 DEF Sent
  <2>9. PlanShape'
    BY <1>2, <2>1, <2>2, <2>3 DEF PlanShape
  <2>10. DialogHolds'
    BY <1>1, <1>2, <2>2 DEF DialogHolds, KInv
  <2>11. RoomsOnce'
    BY <2>2 DEF RoomsOnce
  <2>12. SpinsEnd'
    BY <2>1 DEF SpinsEnd, NothingSpins
  <2> QED BY <2>4, <2>5, <2>6, <2>8, <2>9, <2>10, <2>11, <2>12 DEF KInv
<1>4. CASE ~Newest(q)
  <2>1. UNCHANGED <<plan, figures, wish, spins, strayed>>
    BY <1>4 DEF Answer
  <2>2. PlanShape' /\ DialogHolds' /\ RoomsOnce'
    BY <1>1, <2>1, SameShown DEF KInv
  <2>3. DeskType'
    BY <1>1, <2>1 DEF DeskType, KInv
  <2>4. TimersSend'
    BY <1>1, <2>1 DEF TimersSend, KInv
  <2>5. Numbering'
    BY <1>1, <2>1 DEF Numbering, KInv
  <2>6. Waits' <=> Waits
    BY <1>1, <1>4 DEF Waits, Newest
  <2>7. Sent'
    BY <1>1, <2>1, <2>6 DEF Sent, KInv, Newest
  <2>8. SpinsEnd'
    BY <1>1, <2>1, <2>6 DEF SpinsEnd, NothingSpins, Waits, KInv
  <2> QED BY <2>2, <2>3, <2>4, <2>5, <2>7, <2>8 DEF KInv
<1> QED BY <1>3, <1>4

LEMMA AskFailsInv ==
  ASSUME KInv, NEW q \in pending, AskFails(q)
  PROVE  KInv'
<1>1. /\ pending' = pending \ {q}
      /\ IF Newest(q) THEN spins' = {} /\ last' = "failed" ELSE UNCHANGED <<spins, last>>
      /\ UNCHANGED <<onShift, figures, wish, timers, seq, plan, moving, applying, strayed, inputs>>
  BY DEF AskFails, shift
<1>2. PlanShape' /\ DialogHolds' /\ RoomsOnce'
  BY <1>1, SameShown DEF KInv
<1>3. DeskType'
  BY <1>1 DEF DeskType, KInv
<1>4. TimersSend'
  BY <1>1 DEF TimersSend, KInv
<1>5. Numbering'
  BY <1>1 DEF Numbering, KInv
<1>6. CASE Newest(q)
  <2>1. Sent'
    BY <1>1, <1>6 DEF Sent
  <2>2. SpinsEnd'
    BY <1>1, <1>6 DEF SpinsEnd, NothingSpins
  <2> QED BY <1>2, <1>3, <1>4, <1>5, <2>1, <2>2 DEF KInv
<1>7. CASE ~Newest(q)
  <2>1. Waits' <=> Waits
    BY <1>1, <1>7 DEF Waits, Newest
  <2>2. Sent'
    BY <1>1, <1>7, <2>1 DEF Sent, KInv, Newest
  <2>3. SpinsEnd'
    BY <1>1, <1>7, <2>1 DEF SpinsEnd, NothingSpins, Waits, KInv
  <2> QED BY <1>2, <1>3, <1>4, <1>5, <2>2, <2>3 DEF KInv
<1> QED BY <1>6, <1>7

\* What is asked, and with what, is as before.
LEMMA SameAsked ==
  ASSUME KInv, UNCHANGED <<onShift, figures, wish, timers, seq, pending, last>>,
         plan' # NoPlan <=> plan # NoPlan, plan'.no = plan.no, plan'.who = plan.who,
         plan'.figs = plan.figs, moving'.no \in {0, plan.no, moving.no}
  PROVE  TimersSend' /\ Numbering' /\ Sent' /\ (Waits' <=> Waits)
<1>1. TimersSend'
  BY DEF TimersSend, KInv
<1>2. Waits' <=> Waits
  BY DEF Waits, Newest
<1>3. Sent'
  BY <1>2 DEF Sent, KInv, Newest
<1>4. Numbering'
  BY DeskTyped DEF Numbering, KInv, DeskType
<1> QED BY <1>1, <1>2, <1>3, <1>4

LEMMA OpenMoveInv ==
  ASSUME KInv, NEW a \in DOMAIN plan.lists, NEW r \in DeskRooms, OpenMove(a, r)
  PROVE  KInv'
<1>1. /\ inputs' = inputs + 1 /\ plan.lists[a][r] > 0
      /\ moving' = [room |-> r, from |-> a, no |-> plan.no]
      /\ UNCHANGED <<onShift, figures, wish, timers, seq, pending, last, plan, spins, applying,
                     strayed, errors>>
  BY DEF OpenMove, Input, shift, query
<1>2. TimersSend' /\ Numbering' /\ Sent' /\ (Waits' <=> Waits)
  BY <1>1, SameAsked
<1>3. DeskType'
  BY <1>1, DeskTyped DEF DeskType, KInv
<1>4. plan # NoPlan /\ a \in Crew
  BY DEF KInv, PlanShape, Planned, NoPlan
<1>5. PlanShape' /\ RoomsOnce'
  BY <1>1 DEF PlanShape, RoomsOnce, KInv
<1>6. DialogHolds'
  BY <1>1, <1>4 DEF DialogHolds
<1>7. SpinsEnd'
  BY <1>1, <1>2 DEF SpinsEnd, NothingSpins, Waits, KInv
<1> QED BY <1>2, <1>3, <1>5, <1>6, <1>7 DEF KInv

\* A room leaves the list it was in for another.
LEMMA MoveRoomInv ==
  ASSUME KInv, NEW b \in DOMAIN plan.lists, MoveRoom(b)
  PROVE  KInv'
<1> DEFINE m == moving.room
           l == [a \in DOMAIN plan.lists |->
                   IF a = moving.from THEN Without(plan.lists[a], m)
                   ELSE IF a = b THEN [plan.lists[a] EXCEPT ![m] = @ + 1]
                   ELSE plan.lists[a]]
<1>1. /\ moving # NoMove /\ b # moving.from
      /\ plan' = [plan EXCEPT !.lists = l]
      /\ moving' = NoMove /\ strayed' = (strayed \/ moving.no # plan.no)
      /\ UNCHANGED <<onShift, figures, wish, timers, seq, pending, last, spins, applying, inputs,
                     errors>>
  BY DEF MoveRoom, shift, query
<1>2. /\ m \in DeskRooms /\ moving.from \in Crew /\ plan # NoPlan
      /\ ~strayed /\ moving.no = plan.no =>
           moving.from \in DOMAIN plan.lists /\ plan.lists[moving.from][m] > 0
  BY <1>1 DEF KInv, DialogHolds
<1>3. /\ plan.no # 0 /\ plan.who \subseteq Crew /\ plan.figs \in Numbers /\ figures # Unset
      /\ DOMAIN plan.lists = Planned(plan.who)
      /\ plan.of \in [DeskRooms -> Planned(plan.who) \cup {0}]
      /\ plan.lists \in [Planned(plan.who) -> [DeskRooms -> Nat]]
  BY <1>2 DEF KInv, PlanShape
<1>31. DOMAIN plan = {"no", "who", "figs", "of", "lists"}
  BY <1>2 DEF KInv, PlanShape
<1>4. /\ plan'.no = plan.no /\ plan'.who = plan.who /\ plan'.of = plan.of
      /\ plan'.figs = plan.figs /\ plan'.lists = l /\ DOMAIN plan' = DOMAIN plan
  <2> HIDE DEF l
  <2> QED BY <1>1, <1>31
<1>5. plan' # NoPlan
  BY <1>3, <1>4 DEF NoPlan
<1>6. /\ DOMAIN l = Planned(plan.who)
      /\ l \in [Planned(plan.who) -> [DeskRooms -> Nat]]
      /\ moving.from \in DOMAIN l => l[moving.from] = [plan.lists[moving.from] EXCEPT ![m] = 0]
      /\ l[b] = [plan.lists[b] EXCEPT ![m] = @ + 1]
      /\ \A a \in DOMAIN l : a \notin {moving.from, b} => l[a] = plan.lists[a]
  <2>1. \A a \in Planned(plan.who) : plan.lists[a] \in [DeskRooms -> Nat]
    BY <1>3
  <2>2. \A a \in Planned(plan.who) : Without(plan.lists[a], m) \in [DeskRooms -> Nat]
    BY <1>2, <2>1 DEF Without
  <2>3. [plan.lists[b] EXCEPT ![m] = @ + 1] \in [DeskRooms -> Nat]
    BY <1>2, <1>3, <2>1
  <2>4. l \in [Planned(plan.who) -> [DeskRooms -> Nat]]
    BY <1>3, <2>1, <2>2, <2>3
  <2> QED BY <1>1, <1>3, <2>4 DEF Without
<1> HIDE DEF l
<1>7. TimersSend' /\ Numbering' /\ Sent' /\ (Waits' <=> Waits)
  <2>1. moving'.no = 0
    BY <1>1 DEF NoMove
  <2> QED BY <1>1, <1>2, <1>4, <1>5, <2>1, SameAsked
<1>8. DeskType'
  BY <1>1 DEF DeskType, KInv
<1>9. PlanShape'
  BY <1>1, <1>3, <1>31, <1>4, <1>6 DEF PlanShape
<1>10. DialogHolds'
  BY <1>1 DEF DialogHolds
<1>11. RoomsOnce'
  <2> SUFFICES ASSUME ~strayed', NEW r \in DeskRooms
               PROVE  IF plan.of[r] = 0 THEN \A a \in DOMAIN l : l[a][r] = 0
                      ELSE \E a \in DOMAIN l :
                             \A c \in DOMAIN l : l[c][r] = (IF c = a THEN 1 ELSE 0)
    BY <1>4 DEF RoomsOnce
  <2>1. ~strayed /\ moving.no = plan.no
    BY <1>1 DEF KInv, DeskType
  <2>2. moving.from \in DOMAIN plan.lists /\ plan.lists[moving.from][m] > 0
    BY <1>2, <2>1
  <2>3. IF plan.of[r] = 0 THEN \A a \in DOMAIN plan.lists : plan.lists[a][r] = 0
        ELSE \E a \in DOMAIN plan.lists :
               \A c \in DOMAIN plan.lists : plan.lists[c][r] = (IF c = a THEN 1 ELSE 0)
    BY <1>2, <2>1 DEF KInv, RoomsOnce
  <2>4. DOMAIN l = DOMAIN plan.lists /\ \A a \in DOMAIN l : plan.lists[a] \in [DeskRooms -> Nat]
    BY <1>3, <1>6
  <2>5. CASE r # m
    <3>1. \A a \in DOMAIN l : l[a][r] = plan.lists[a][r]
      BY <1>2, <1>6, <2>4, <2>5
    <3> QED BY <2>3, <2>4, <3>1
  <2>6. CASE r = m
    <3>1. plan.of[r] # 0 /\ \A c \in DOMAIN plan.lists : c # moving.from => plan.lists[c][r] = 0
      BY <2>2, <2>3, <2>6
    <3>2. l[moving.from][r] = 0 /\ l[b][r] = 1
      BY <1>1, <1>2, <1>6, <2>2, <2>4, <2>6, <3>1
    <3>3. \A c \in DOMAIN l : c # b => l[c][r] = 0
      BY <1>6, <2>4, <3>1, <3>2
    <3> QED BY <2>4, <3>1, <3>2, <3>3
  <2> QED BY <2>5, <2>6
<1>12. SpinsEnd'
  BY <1>1, <1>7 DEF SpinsEnd, NothingSpins, Waits, KInv
<1> QED BY <1>7, <1>8, <1>9, <1>10, <1>11, <1>12 DEF KInv

LEMMA CloseMoveInv == ASSUME KInv, CloseMove PROVE KInv'
<1>1. /\ moving' = NoMove /\ moving'.no = 0
      /\ UNCHANGED <<onShift, figures, wish, timers, seq, pending, last, plan, spins, applying,
                     strayed, inputs, errors>>
  BY DEF CloseMove, shift, query, NoMove
<1>2. TimersSend' /\ Numbering' /\ Sent' /\ (Waits' <=> Waits)
  BY <1>1, SameAsked
<1>3. DeskType'
  BY <1>1 DEF DeskType, KInv
<1>4. PlanShape' /\ RoomsOnce'
  BY <1>1 DEF PlanShape, RoomsOnce, KInv
<1>5. DialogHolds'
  BY <1>1 DEF DialogHolds
<1>6. SpinsEnd'
  BY <1>1, <1>2 DEF SpinsEnd, NothingSpins, Waits, KInv
<1> QED BY <1>2, <1>3, <1>4, <1>5, <1>6 DEF KInv

\* Applying the plan leaves the page waiting, and no longer.
LEMMA ApplyInv == ASSUME KInv, ApplyShown \/ ApplyEnds PROVE KInv'
<1>1. UNCHANGED <<onShift, figures, wish, timers, seq, pending, last, plan, moving, strayed>>
  BY DEF ApplyShown, ApplyEnds, shift, query
<1>2. TimersSend' /\ Numbering' /\ Sent' /\ (Waits' <=> Waits)
  BY <1>1, SameAsked
<1>3. PlanShape' /\ DialogHolds' /\ RoomsOnce'
  BY <1>1, SameShown DEF KInv
<1>4. applying \in Nat /\ inputs \in Nat
  BY DEF KInv, DeskType
<1>5. CASE ApplyShown
  <2>1. applying' = applying + 1 /\ spins' = spins \cup {"busy"} /\ inputs' = inputs + 1
    BY <1>5 DEF ApplyShown, Input
  <2>2. DeskType'
    BY <1>1, <1>4, <2>1 DEF DeskType, KInv
  <2>3. SpinsEnd'
    BY <1>2, <1>4, <2>1 DEF SpinsEnd, NothingSpins, Waits, KInv
  <2> QED BY <1>2, <1>3, <2>2, <2>3 DEF KInv
<1>6. CASE ApplyEnds
  <2>1. applying > 0 /\ applying' = applying - 1 /\ spins' = spins \ {"busy"} /\ inputs' = inputs
    BY <1>6 DEF ApplyEnds
  <2>2. DeskType'
    BY <1>1, <1>4, <2>1 DEF DeskType, KInv
  <2>3. SpinsEnd'
    BY <1>2, <1>4, <2>1 DEF SpinsEnd, NothingSpins, Waits, KInv
  <2> QED BY <1>2, <1>3, <2>2, <2>3 DEF KInv
<1> QED BY <1>5, <1>6

LEMMA DeskInitInv == DeskInit => KInv
<1> SUFFICES ASSUME DeskInit PROVE KInv
  OBVIOUS
<1> DEFINE first == [seq |-> 1, who |-> Crew, figs |-> Unset]
<1>1. /\ onShift = Crew /\ figures = Unset /\ wish = Unset /\ timers = {}
      /\ seq = 1 /\ pending = {first} /\ last = "sound"
      /\ plan = NoPlan /\ moving = NoMove /\ spins = {"busy"} /\ applying = 0
      /\ strayed = FALSE /\ inputs = 0
  BY DEF DeskInit
<1>2. first.seq = 1 /\ first.who = Crew /\ first.figs = Unset /\ Unset \in Figs
      /\ first \in [seq : Nat \ {0}, who : SUBSET Crew, figs : Figs]
  BY DEF Figs
<1> HIDE DEF first
<1>3. DeskType
  BY <1>1, <1>2 DEF DeskType
<1>4. TimersSend
  BY <1>1 DEF TimersSend
<1>5. Numbering
  BY <1>1, <1>2 DEF Numbering, NoPlan, NoMove
<1>6. Waits
  BY <1>1, <1>2 DEF Waits, Newest
<1>7. Sent
  BY <1>1, <1>2, <1>6 DEF Sent
<1>8. PlanShape /\ RoomsOnce /\ DialogHolds
  BY <1>1 DEF PlanShape, RoomsOnce, DialogHolds
<1>9. SpinsEnd
  BY <1>6 DEF SpinsEnd, NothingSpins, Waits
<1> QED BY <1>3, <1>4, <1>5, <1>7, <1>8, <1>9 DEF KInv

LEMMA DeskNextInv == KInv /\ [DeskNext]_deskVars => KInv'
<1> SUFFICES ASSUME KInv, [DeskNext]_deskVars PROVE KInv'
  OBVIOUS
<1>1. ASSUME NEW v \in Numbers, NEW now \in BOOLEAN, EnterFigures(v, now) PROVE KInv'
  BY <1>1, EnterFiguresInv
<1>2. ASSUME NEW c \in SUBSET Crew, NEW now \in BOOLEAN, ChooseCrew(c, now) PROVE KInv'
  BY <1>2, ChooseCrewInv
<1>3. ASSUME NEW q \in pending, Answer(q) \/ AskFails(q) PROVE KInv'
  BY <1>3, AnswerInv, AskFailsInv
<1>4. ASSUME NEW t \in timers, FireTimer(t) PROVE KInv'
  BY <1>4, FireTimerInv
<1>5. CASE Refresh
  BY <1>5, RefreshInv
<1>6. ASSUME NEW a \in DOMAIN plan.lists, MoveRoom(a) PROVE KInv'
  BY <1>6, MoveRoomInv
<1>7. ASSUME NEW a \in DOMAIN plan.lists, NEW r \in DeskRooms, OpenMove(a, r) PROVE KInv'
  BY <1>7, OpenMoveInv
<1>8. CASE CloseMove
  BY <1>8, CloseMoveInv
<1>9. CASE ApplyShown \/ ApplyEnds
  BY <1>9, ApplyInv
<1>10. CASE UNCHANGED deskVars
  <2>1. UNCHANGED <<onShift, figures, wish, timers, seq, pending, last, plan, moving, spins,
                    applying, strayed, inputs>>
    BY <1>10 DEF deskVars, shift, query
  <2>2. TimersSend' /\ Numbering' /\ Sent' /\ (Waits' <=> Waits)
    BY <2>1, SameAsked
  <2>3. PlanShape' /\ DialogHolds' /\ RoomsOnce'
    BY <2>1, SameShown DEF KInv
  <2>4. DeskType' /\ SpinsEnd'
    BY <2>1, <2>2 DEF DeskType, SpinsEnd, NothingSpins, Waits, KInv
  <2> QED BY <2>2, <2>3, <2>4 DEF KInv
<1> QED BY <1>1, <1>2, <1>3, <1>4, <1>5, <1>6, <1>7, <1>8, <1>9, <1>10 DEF DeskNext

\* The planning page shows a proposal for what is set once nothing is under way, loses no
\* room by hand and does not wait in vain, whatever the team, the rooms and the figures.
THEOREM DeskSound == DeskInit /\ [][DeskNext]_deskVars => []DeskInv
<1>1. KInv => DeskInv
  <2> SUFFICES ASSUME KInv PROVE DeskInv
    OBVIOUS
  <2>1. ShowsWhatIsSet
    <3> SUFFICES ASSUME Settled, plan # NoPlan, last = "sound"
                 PROVE  /\ plan.who = onShift /\ plan.figs = wish /\ figures = wish
                        /\ onShift # {} => DOMAIN plan.lists = onShift
      BY DEF ShowsWhatIsSet
    <3>1. plan.who = onShift /\ plan.figs = wish /\ figures = wish
      BY DEF KInv, Sent, Settled, Waits
    <3>2. DOMAIN plan.lists = Planned(plan.who)
      BY DEF KInv, PlanShape
    <3> QED BY <3>1, <3>2 DEF Planned
  <2> QED BY <2>1 DEF DeskInv, KInv, SpinsEnd
<1> QED BY <1>1, DeskInitInv, DeskNextInv, PTL

-----------------------------------------------------------------------------
(***************************************************************************)
(* The steps "Team" and "Etagen".  Of a save that nobody has overtaken the *)
(* rows it does not have to write are as they were chosen; and whoever a   *)
(* page of an earlier day's team chooses though absent has been tapped, or *)
(* called in sick since the page was loaded.                               *)
(***************************************************************************)

PageFields == [source : {"none", "previous", "today"}, hk : SUBSET Staff, sup : SUBSET Sups,
               floor : [PlanFloors -> Sups \cup {Nobody}], tapped : SUBSET Staff]
SaveFields == [pc : {"idle", "team", "sups", "floors"}, todo : SUBSET (Staff \cup Sups),
               hk : SUBSET Staff, sup : SUBSET Sups, floor : [PlanFloors -> Sups \cup {Nobody}]]

StepsType ==
  /\ absent \subseteq Staff
  /\ floors \in [Sups -> SUBSET PlanFloors]
  /\ saved \in [day : {"previous", "today"}, hk : SUBSET Staff, sup : SUBSET Sups]
  /\ page \in [Pages -> PageFields]
  /\ save \in [Pages -> SaveFields]
  /\ sick \in [Pages -> SUBSET Staff]
  /\ over \in [Pages -> BOOLEAN]

\* Who is chosen though absent.
ChosenAnew(g, k, s) ==
  g.source # "today" => \A h \in g.hk \cap absent : h \in g.tapped \cup s

\* What a save in service has still to write, and what it relies on.
TeamSave(g, k, s, o) ==
  k.pc = "team" =>
    /\ g.source # "none"
    /\ \A h \in Staff : (h \in k.hk /\ h \notin g.hk) \/ (h \in g.hk /\ h \notin k.hk) => h \in g.tapped
    /\ g.source # "today" => \A h \in k.todo \cap k.hk : h \in g.tapped \cup s
    /\ ~o => \A h \in Staff \ k.todo : h \in absent <=> h \notin k.hk

FloorsSave(k, o) ==
  k.pc \in {"sups", "floors"} /\ ~o =>
    /\ \A x \in PlanFloors : k.floor[x] \in saved.sup
    /\ k.pc = "floors" => \A s \in Sups \ k.todo : floors[s] = {x \in PlanFloors : k.floor[x] = s}

PageOK(g, k, s, o) ==
  /\ g.source = "none" => g.hk = {}
  /\ ChosenAnew(g, k, s) /\ TeamSave(g, k, s, o) /\ FloorsSave(k, o)

StepsInv == StepsType /\ \A p \in Pages : PageOK(page[p], save[p], sick[p], over[p])

-----------------------------------------------------------------------------
\* A page and a save that others leave alone.
LEMMA Onlooker ==
  ASSUME StepsInv, NEW q \in Pages, page'[q] = page[q], save'[q] = save[q],
         sick[q] \subseteq sick'[q], absent' \ absent \subseteq sick'[q], over[q] => over'[q],
         ~over'[q] /\ save[q].pc # "idle" => UNCHANGED rows
  PROVE  PageOK(page[q], save[q], sick[q], over[q])'
<1> DEFINE g == page[q]
           k == save[q]
<1>1. PageOK(g, k, sick[q], over[q]) /\ g' = g /\ k' = k
  BY DEF StepsInv
<1>2. g.source \in {"none", "previous", "today"}
  BY DEF StepsInv, StepsType, PageFields
<1> HIDE DEF g, k
<1>3. (g.source = "none" => g.hk = {})'
  BY <1>1 DEF PageOK
<1>4. ChosenAnew(g, k, sick[q])'
  BY <1>1 DEF PageOK, ChosenAnew
<1>5. CASE ~over'[q] /\ k.pc # "idle"
  <2>1. absent' = absent /\ floors' = floors /\ saved' = saved
    BY <1>5 DEF rows, k
  <2>2. TeamSave(g, k, sick[q], over[q])'
    BY <1>1, <1>5, <2>1 DEF PageOK, TeamSave
  <2>3. FloorsSave(k, over[q])'
    BY <1>1, <1>5, <2>1 DEF PageOK, FloorsSave
  <2> QED BY <1>3, <1>4, <2>2, <2>3 DEF PageOK, g, k
<1>6. CASE over'[q] \/ k.pc = "idle"
  <2>1. TeamSave(g, k, sick[q], over[q])'
    BY <1>1, <1>6 DEF PageOK, TeamSave
  <2>2. FloorsSave(k, over[q])'
    BY <1>1, <1>6 DEF PageOK, FloorsSave
  <2> QED BY <1>3, <1>4, <2>1, <2>2 DEF PageOK, g, k
<1> QED BY <1>5, <1>6

\* All pages but one, in a step that writes no row.
LEMMA Undisturbing ==
  ASSUME StepsInv, NEW p \in Pages, UNCHANGED rows,
         \A q \in Pages \ {p} : /\ page'[q] = page[q] /\ save'[q] = save[q]
                                /\ sick'[q] = sick[q] /\ over'[q] = over[q],
         PageOK(page[p], save[p], sick[p], over[p])'
  PROVE  \A q \in Pages : PageOK(page[q], save[q], sick[q], over[q])'
<1>1. ASSUME NEW q \in Pages \ {p} PROVE PageOK(page[q], save[q], sick[q], over[q])'
  BY Onlooker DEF rows
<1> QED BY <1>1

LEMMA StepsTyped ==
  ASSUME StepsInv, NEW p \in Pages
  PROVE  /\ page[p] \in PageFields /\ save[p] \in SaveFields /\ sick[p] \subseteq Staff
         /\ over[p] \in BOOLEAN /\ PageOK(page[p], save[p], sick[p], over[p])
         /\ absent \subseteq Staff /\ floors \in [Sups -> SUBSET PlanFloors]
         /\ saved.day \in {"previous", "today"} /\ saved.hk \subseteq Staff /\ saved.sup \subseteq Sups
         /\ p # Nobody
BY StepsAssumption DEF StepsInv, StepsType

LEMMA LoadPageInv == ASSUME StepsInv, NEW p \in Pages, LoadPage(p) PROVE StepsInv'
<1>1. PICK f \in [PlanFloors -> saved.sup \cup {Nobody}] :
        page' = [page EXCEPT ![p] = [source |-> saved.day, hk |-> Preset, sup |-> saved.sup,
                                     floor |-> f, tapped |-> {}]]
  BY DEF LoadPage
<1> DEFINE g == [source |-> saved.day, hk |-> Preset, sup |-> saved.sup, floor |-> f, tapped |-> {}]
<1>2. /\ save[p].pc = "idle" /\ sick' = [sick EXCEPT ![p] = {}]
      /\ UNCHANGED <<absent, floors, saved, save, over>>
  BY DEF LoadPage, rows
<1>3. Preset \subseteq saved.hk /\ (saved.day # "today" => Preset \cap absent = {})
  BY DEF Preset
<1>4. /\ g \in PageFields /\ g.source = saved.day /\ g.hk = Preset
  BY <1>1, <1>3, StepsTyped DEF PageFields
<1> HIDE DEF g
<1>5. page' = [page EXCEPT ![p] = g]
  BY <1>1 DEF g
<1>6. StepsType'
  BY <1>2, <1>4, <1>5 DEF StepsInv, StepsType
<1>7. page'[p] = g /\ save'[p] = save[p] /\ sick'[p] = {} /\ over'[p] = over[p]
  BY <1>2, <1>5 DEF StepsInv, StepsType
<1>8. g.source # "none"
  BY <1>4, StepsTyped
<1>9. PageOK(page[p], save[p], sick[p], over[p])'
  BY <1>2, <1>3, <1>4, <1>7, <1>8 DEF PageOK, ChosenAnew, TeamSave, FloorsSave
<1>10. \A q \in Pages \ {p} : page'[q] = page[q] /\ save'[q] = save[q] /\ sick'[q] = sick[q] /\ over'[q] = over[q]
  BY <1>2, <1>5 DEF StepsInv, StepsType
<1> QED BY <1>2, <1>6, <1>9, <1>10, Undisturbing DEF StepsInv, rows

LEMMA ToggleStaffInv ==
  ASSUME StepsInv, NEW p \in Pages, NEW h \in Staff, ToggleStaff(p, h) PROVE StepsInv'
<1> DEFINE g == page[p]
           n == [g EXCEPT !.hk = Flip(@, h), !.tapped = @ \cup {h}]
<1>1. /\ page[p].source # "none" /\ page' = [page EXCEPT ![p] = n]
      /\ UNCHANGED <<absent, floors, saved, save, sick, over>>
  BY DEF ToggleStaff, rows
<1>2. /\ g \in PageFields /\ PageOK(g, save[p], sick[p], over[p])
  BY StepsTyped
<1>3. /\ n \in PageFields /\ n.source = g.source /\ n.hk = Flip(g.hk, h) /\ n.tapped = g.tapped \cup {h}
  BY <1>2 DEF PageFields, Flip
<1>4. Flip(g.hk, h) \subseteq g.hk \cup {h} /\ \A x \in Staff : x # h => (x \in n.hk <=> x \in g.hk)
  BY <1>3 DEF Flip
<1> HIDE DEF n
<1>5. StepsType'
  BY <1>1, <1>3 DEF StepsInv, StepsType
<1>6. page'[p] = n /\ save'[p] = save[p] /\ sick'[p] = sick[p] /\ over'[p] = over[p]
  BY <1>1 DEF StepsInv, StepsType
<1>7. PageOK(n, save[p], sick[p], over[p])
  <2>1. ChosenAnew(n, save[p], sick[p])
    BY <1>2, <1>3, <1>4 DEF PageOK, ChosenAnew
  <2>2. TeamSave(n, save[p], sick[p], over[p])
    BY <1>2, <1>3, <1>4 DEF PageOK, TeamSave
  <2> QED BY <1>1, <1>2, <1>3, <2>1, <2>2 DEF PageOK
<1>8. PageOK(page[p], save[p], sick[p], over[p])'
  BY <1>1, <1>6, <1>7 DEF PageOK, ChosenAnew, TeamSave, FloorsSave
<1>9. \A q \in Pages \ {p} : page'[q] = page[q] /\ save'[q] = save[q] /\ sick'[q] = sick[q] /\ over'[q] = over[q]
  BY <1>1 DEF StepsInv, StepsType
<1> QED BY <1>1, <1>5, <1>8, <1>9, Undisturbing DEF StepsInv, rows

\* The supervisors and the floors chosen on a page say nothing of who is there.
LEMMA ChooseSupsInv ==
  ASSUME StepsInv, NEW p \in Pages, NEW s \in Sups,
         ToggleSup(p, s) \/ \E x \in PlanFloors : PickFloor(p, x, s)
  PROVE  StepsInv'
<1>1. UNCHANGED <<absent, floors, saved, save, sick, over>>
  BY DEF ToggleSup, PickFloor, rows
<1>2. page[p] \in PageFields /\ PageOK(page[p], save[p], sick[p], over[p])
  BY StepsTyped
<1>3. \E n \in PageFields : /\ page' = [page EXCEPT ![p] = n] /\ n.source = page[p].source
                            /\ n.hk = page[p].hk /\ n.tapped = page[p].tapped
  <2>1. CASE ToggleSup(p, s)
    <3> DEFINE n == [page[p] EXCEPT !.sup = Flip(@, s), !.floor = Freed(p, s)]
    <3>1. page' = [page EXCEPT ![p] = n]
      BY <2>1 DEF ToggleSup
    <3>2. Freed(p, s) \in [PlanFloors -> Sups \cup {Nobody}]
      BY <1>2 DEF Freed, PageFields
    <3>3. n \in PageFields /\ n.source = page[p].source /\ n.hk = page[p].hk /\ n.tapped = page[p].tapped
      BY <1>2, <3>2 DEF PageFields, Flip
    <3> QED BY <3>1, <3>3
  <2>2. ASSUME NEW x \in PlanFloors, PickFloor(p, x, s)
        PROVE  \E n \in PageFields : /\ page' = [page EXCEPT ![p] = n] /\ n.source = page[p].source
                                     /\ n.hk = page[p].hk /\ n.tapped = page[p].tapped
    <3> DEFINE n == [page[p] EXCEPT !.floor = [@ EXCEPT ![x] = s]]
    <3>1. page' = [page EXCEPT ![p] = n]
      BY <2>2 DEF PickFloor
    <3>2. n \in PageFields /\ n.source = page[p].source /\ n.hk = page[p].hk /\ n.tapped = page[p].tapped
      BY <1>2 DEF PageFields
    <3> QED BY <3>1, <3>2
  <2> QED BY <2>1, <2>2
<1>4. PICK n \in PageFields : /\ page' = [page EXCEPT ![p] = n] /\ n.source = page[p].source
                              /\ n.hk = page[p].hk /\ n.tapped = page[p].tapped
  BY <1>3
<1>5. StepsType'
  BY <1>1, <1>4 DEF StepsInv, StepsType
<1>6. page'[p] = n /\ save'[p] = save[p] /\ sick'[p] = sick[p] /\ over'[p] = over[p]
  BY <1>1, <1>4 DEF StepsInv, StepsType
<1>7. PageOK(page[p], save[p], sick[p], over[p])'
  BY <1>1, <1>2, <1>4, <1>6 DEF PageOK, ChosenAnew, TeamSave, FloorsSave
<1>8. \A q \in Pages \ {p} : page'[q] = page[q] /\ save'[q] = save[q] /\ sick'[q] = sick[q] /\ over'[q] = over[q]
  BY <1>1, <1>4 DEF StepsInv, StepsType
<1> QED BY <1>1, <1>5, <1>7, <1>8, Undisturbing DEF StepsInv, rows


\* A save goes on as k and no row is written.
LEMMA SaveGoes ==
  ASSUME StepsInv, NEW p \in Pages, NEW k \in SaveFields, NEW o \in BOOLEAN,
         save' = [save EXCEPT ![p] = k], over' = [over EXCEPT ![p] = o],
         UNCHANGED <<absent, floors, saved, page, sick>>,
         TeamSave(page[p], k, sick[p], o), FloorsSave(k, o)
  PROVE  StepsInv'
<1>1. StepsType'
  BY DEF StepsInv, StepsType
<1>2. page'[p] = page[p] /\ save'[p] = k /\ sick'[p] = sick[p] /\ over'[p] = o
  BY DEF StepsInv, StepsType
<1>3. PageOK(page[p], save[p], sick[p], over[p])
  BY StepsTyped
<1>4. PageOK(page[p], save[p], sick[p], over[p])'
  BY <1>2, <1>3 DEF PageOK, ChosenAnew, TeamSave, FloorsSave
<1>5. \A q \in Pages \ {p} : page'[q] = page[q] /\ save'[q] = save[q] /\ sick'[q] = sick[q] /\ over'[q] = over[q]
  BY DEF StepsInv, StepsType
<1> QED BY <1>1, <1>4, <1>5, Undisturbing DEF StepsInv, rows

LEMMA NoSaveShape == NoSave \in SaveFields /\ NoSave.pc = "idle"
BY DEF NoSave, NoPage, SaveFields

LEMMA ReadStaffInv == ASSUME StepsInv, NEW p \in Pages, ReadStaff(p) PROVE StepsInv'
<1> DEFINE g == page[p]
           todo == {h \in Staff : h \in g.hk <=> h \in absent}
           k == [NoSave EXCEPT !.pc = "team", !.hk = g.hk, !.sup = g.sup, !.todo = todo]
<1>1. /\ g.hk # {} /\ save' = [save EXCEPT ![p] = k] /\ over' = [over EXCEPT ![p] = FALSE]
      /\ UNCHANGED <<absent, floors, saved, page, sick>>
  BY DEF ReadStaff, rows
<1>2. g \in PageFields /\ PageOK(g, save[p], sick[p], over[p])
  BY StepsTyped
<1>3. g.source # "none"
  BY <1>1, <1>2 DEF PageOK
<1>4. k \in SaveFields /\ k.pc = "team" /\ k.hk = g.hk /\ k.todo = todo
  BY <1>2 DEF NoSave, NoPage, SaveFields, PageFields
<1> HIDE DEF k
<1>5. TeamSave(g, k, sick[p], FALSE)
  BY <1>2, <1>3, <1>4 DEF TeamSave, PageOK, ChosenAnew
<1>6. FloorsSave(k, FALSE)
  BY <1>4 DEF FloorsSave
<1> QED BY <1>1, <1>4, <1>5, <1>6, SaveGoes

LEMMA CheckFloorsInv == ASSUME StepsInv, NEW p \in Pages, CheckFloors(p) PROVE StepsInv'
<1> DEFINE k == [NoSave EXCEPT !.pc = "sups", !.sup = saved.sup, !.floor = page[p].floor]
<1>1. /\ \A x \in PlanFloors : page[p].floor[x] \in saved.sup
      /\ save' = [save EXCEPT ![p] = k] /\ over' = [over EXCEPT ![p] = FALSE]
      /\ UNCHANGED <<absent, floors, saved, page, sick>>
  BY DEF CheckFloors, rows
<1>2. page[p] \in PageFields /\ saved.sup \subseteq Sups
  BY StepsTyped
<1>3. k \in SaveFields /\ k.pc = "sups" /\ k.floor = page[p].floor
  BY <1>2 DEF NoSave, NoPage, SaveFields, PageFields
<1> HIDE DEF k
<1>4. TeamSave(page[p], k, sick[p], FALSE) /\ FloorsSave(k, FALSE)
  BY <1>1, <1>3 DEF TeamSave, FloorsSave
<1> QED BY <1>1, <1>3, <1>4, SaveGoes

LEMMA ReadSupsInv == ASSUME StepsInv, NEW p \in Pages, ReadSups(p) PROVE StepsInv'
<1> DEFINE k == [save[p] EXCEPT !.pc = "floors", !.todo = WhoDiffers(p)]
<1>1. /\ save[p].pc = "sups" /\ save' = [save EXCEPT ![p] = k]
      /\ UNCHANGED <<absent, floors, saved, page, sick, over>>
  BY DEF ReadSups, rows
<1>2. save[p] \in SaveFields /\ PageOK(page[p], save[p], sick[p], over[p]) /\ over[p] \in BOOLEAN
  BY StepsTyped
<1>3. WhoDiffers(p) = {s \in Sups : floors[s] # {x \in PlanFloors : save[p].floor[x] = s}}
  BY DEF WhoDiffers, Given
<1>4. k \in SaveFields /\ k.pc = "floors" /\ k.floor = save[p].floor /\ k.todo = WhoDiffers(p)
  BY <1>2, <1>3 DEF SaveFields
<1> HIDE DEF k
<1>5. over' = [over EXCEPT ![p] = over[p]]
  BY <1>1 DEF StepsInv, StepsType
<1>6. TeamSave(page[p], k, sick[p], over[p])
  BY <1>4 DEF TeamSave
<1>7. FloorsSave(k, over[p])
  BY <1>1, <1>2, <1>3, <1>4 DEF FloorsSave, PageOK
<1> QED BY <1>1, <1>2, <1>4, <1>5, <1>6, <1>7, SaveGoes

\* A save that is over, or has died.
LEMMA SaveEndsInv ==
  ASSUME StepsInv, NEW p \in Pages, FloorsDone(p) \/ SaveFails(p) PROVE StepsInv'
<1>1. /\ save' = [save EXCEPT ![p] = NoSave]
      /\ UNCHANGED <<absent, floors, saved, page, sick, over>>
  BY DEF FloorsDone, SaveFails, rows
<1>2. over' = [over EXCEPT ![p] = over[p]] /\ over[p] \in BOOLEAN
  BY <1>1 DEF StepsInv, StepsType
<1>3. TeamSave(page[p], NoSave, sick[p], over[p]) /\ FloorsSave(NoSave, over[p])
  BY NoSaveShape DEF TeamSave, FloorsSave
<1> QED BY <1>1, <1>2, <1>3, NoSaveShape, SaveGoes

-----------------------------------------------------------------------------
\* The others, when rows are written.
LEMMA Bystanders ==
  ASSUME StepsInv, NEW w \in Pages \cup {Nobody}, NEW q \in Pages, q # w,
         page'[q] = page[q], save'[q] = save[q], Overtakes(w),
         sick'[q] = sick[q] \cup (absent' \ absent)
  PROVE  PageOK(page[q], save[q], sick[q], over[q])' /\ over'[q] \in BOOLEAN
<1>1. over'[q] = (over[q] \/ save[q].pc # "idle")
  BY DEF Overtakes
<1> QED BY <1>1, StepsTyped, Onlooker

LEMMA WriteStaffInv ==
  ASSUME StepsInv, NEW p \in Pages, NEW h \in Staff, WriteStaff(p, h) PROVE StepsInv'
<1> DEFINE k == save[p]
           n == [k EXCEPT !.todo = @ \ {h}]
<1>1. /\ k.pc = "team" /\ h \in k.todo
      /\ absent' = IF h \in k.hk THEN absent \ {h} ELSE absent \cup {h}
      /\ save' = [save EXCEPT ![p] = n]
      /\ sick' = [q \in Pages |-> IF q = p THEN sick[q] ELSE sick[q] \cup (absent' \ absent)]
      /\ Overtakes(p) /\ UNCHANGED <<floors, saved, page>>
  BY DEF WriteStaff
<1>2. k \in SaveFields /\ PageOK(page[p], k, sick[p], over[p]) /\ over[p] \in BOOLEAN /\ p # Nobody
      /\ page[p].hk \subseteq Staff
  BY StepsTyped DEF PageFields
<1>3. /\ n \in SaveFields /\ n.pc = "team" /\ n.hk = k.hk /\ n.todo = k.todo \ {h} /\ n.floor = k.floor
  BY <1>1, <1>2 DEF SaveFields
<1> HIDE DEF n
<1>4. over'[p] = over[p] /\ sick'[p] = sick[p] /\ save'[p] = n /\ page'[p] = page[p]
  BY <1>1 DEF Overtakes, StepsInv, StepsType
<1>5. PageOK(page[p], save[p], sick[p], over[p])'
  <2>1. ChosenAnew(page[p], save[p], sick[p])'
    BY <1>1, <1>2, <1>4 DEF PageOK, ChosenAnew, TeamSave
  <2>2. TeamSave(page[p], save[p], sick[p], over[p])'
    BY <1>1, <1>2, <1>3, <1>4 DEF PageOK, TeamSave
  <2>3. FloorsSave(save[p], over[p])'
    BY <1>3, <1>4 DEF FloorsSave
  <2> QED BY <1>2, <1>4, <2>1, <2>2, <2>3 DEF PageOK
<1>6. ASSUME NEW q \in Pages, q # p
      PROVE  PageOK(page[q], save[q], sick[q], over[q])' /\ over'[q] \in BOOLEAN
  <2>1. page'[q] = page[q] /\ save'[q] = save[q] /\ sick'[q] = sick[q] \cup (absent' \ absent)
    BY <1>1, <1>6 DEF StepsInv, StepsType
  <2> QED BY <1>1, <1>6, <2>1, Bystanders
<1>7. StepsType'
  <2>1. absent' \subseteq Staff
    BY <1>1, StepsTyped
  <2>2. over' \in [Pages -> BOOLEAN]
    BY <1>1, <1>2, <1>4, <1>6 DEF Overtakes, StepsInv, StepsType
  <2>3. sick' \in [Pages -> SUBSET Staff]
    BY <1>1, <2>1 DEF StepsInv, StepsType
  <2> QED BY <1>1, <1>3, <2>1, <2>2, <2>3 DEF StepsInv, StepsType
<1> QED BY <1>5, <1>6, <1>7 DEF StepsInv

LEMMA StoreTeamInv == ASSUME StepsInv, NEW p \in Pages, StoreTeam(p) PROVE StepsInv'
<1>1. /\ saved' = [day |-> "today", hk |-> save[p].hk, sup |-> save[p].sup]
      /\ save' = [save EXCEPT ![p] = NoSave]
      /\ Overtakes(p) /\ UNCHANGED <<absent, floors, page, sick>>
  BY DEF StoreTeam
<1>2. save[p] \in SaveFields /\ PageOK(page[p], save[p], sick[p], over[p]) /\ over[p] \in BOOLEAN
      /\ p # Nobody
  BY StepsTyped
<1>3. over'[p] = over[p] /\ sick'[p] = sick[p] /\ save'[p] = NoSave /\ page'[p] = page[p]
  BY <1>1 DEF Overtakes, StepsInv, StepsType
<1>4. PageOK(page[p], save[p], sick[p], over[p])'
  BY <1>1, <1>2, <1>3, NoSaveShape DEF PageOK, ChosenAnew, TeamSave, FloorsSave
<1>5. ASSUME NEW q \in Pages, q # p
      PROVE  PageOK(page[q], save[q], sick[q], over[q])' /\ over'[q] \in BOOLEAN
  <2>1. page'[q] = page[q] /\ save'[q] = save[q] /\ sick'[q] = sick[q] \cup (absent' \ absent)
    BY <1>1, <1>5 DEF StepsInv, StepsType
  <2> QED BY <1>1, <1>5, <2>1, Bystanders
<1>6. StepsType'
  <2>1. over' \in [Pages -> BOOLEAN]
    BY <1>1, <1>2, <1>3, <1>5 DEF Overtakes, StepsInv, StepsType
  <2>2. saved' \in [day : {"previous", "today"}, hk : SUBSET Staff, sup : SUBSET Sups]
    BY <1>1, <1>2 DEF SaveFields
  <2> QED BY <1>1, NoSaveShape, <2>1, <2>2 DEF StepsInv, StepsType
<1> QED BY <1>4, <1>5, <1>6 DEF StepsInv

LEMMA WriteFloorsInv ==
  ASSUME StepsInv, NEW p \in Pages, NEW s \in Sups, WriteFloors(p, s) PROVE StepsInv'
<1> DEFINE k == save[p]
           n == [k EXCEPT !.todo = @ \ {s}]
<1>1. /\ k.pc = "floors" /\ s \in k.todo
      /\ floors' = [floors EXCEPT ![s] = Given(p, s)]
      /\ save' = [save EXCEPT ![p] = n]
      /\ Overtakes(p) /\ UNCHANGED <<absent, saved, page, sick>>
  BY DEF WriteFloors
<1>2. k \in SaveFields /\ PageOK(page[p], k, sick[p], over[p]) /\ over[p] \in BOOLEAN /\ p # Nobody
      /\ floors \in [Sups -> SUBSET PlanFloors]
  BY StepsTyped
<1>3. /\ n \in SaveFields /\ n.pc = "floors" /\ n.hk = k.hk /\ n.todo = k.todo \ {s} /\ n.floor = k.floor
  BY <1>1, <1>2 DEF SaveFields
<1>31. Given(p, s) = {x \in PlanFloors : k.floor[x] = s}
  BY DEF Given
<1> HIDE DEF n
<1>4. over'[p] = over[p] /\ sick'[p] = sick[p] /\ save'[p] = n /\ page'[p] = page[p]
  BY <1>1 DEF Overtakes, StepsInv, StepsType
<1>5. PageOK(page[p], save[p], sick[p], over[p])'
  <2>1. ChosenAnew(page[p], save[p], sick[p])'
    BY <1>1, <1>2, <1>4 DEF PageOK, ChosenAnew
  <2>2. TeamSave(page[p], save[p], sick[p], over[p])'
    BY <1>3, <1>4 DEF TeamSave
  <2>3. FloorsSave(save[p], over[p])'
    BY <1>1, <1>2, <1>3, <1>31, <1>4 DEF PageOK, FloorsSave
  <2> QED BY <1>2, <1>4, <2>1, <2>2, <2>3 DEF PageOK
<1>6. ASSUME NEW q \in Pages, q # p
      PROVE  PageOK(page[q], save[q], sick[q], over[q])' /\ over'[q] \in BOOLEAN
  <2>1. page'[q] = page[q] /\ save'[q] = save[q] /\ sick'[q] = sick[q] \cup (absent' \ absent)
    BY <1>1, <1>6 DEF StepsInv, StepsType
  <2> QED BY <1>1, <1>6, <2>1, Bystanders
<1>7. StepsType'
  <2>1. over' \in [Pages -> BOOLEAN]
    BY <1>1, <1>2, <1>4, <1>6 DEF Overtakes, StepsInv, StepsType
  <2>2. floors' \in [Sups -> SUBSET PlanFloors]
    BY <1>1, <1>2, <1>31
  <2> QED BY <1>1, <1>3, <2>1, <2>2 DEF StepsInv, StepsType
<1> QED BY <1>5, <1>6, <1>7 DEF StepsInv

\* What others write.
LEMMA OthersInv ==
  ASSUME StepsInv, \/ \E h \in Staff : CallInSick(h)
                   \/ \E s \in Sups, F \in SUBSET PlanFloors : GiveFloors(s, F)
  PROVE  StepsInv'
<1>1. Overtakes(Nobody) /\ UNCHANGED <<saved, page, save>>
  BY DEF CallInSick, GiveFloors
<1>2. absent' \subseteq Staff /\ floors' \in [Sups -> SUBSET PlanFloors]
  BY DEF CallInSick, GiveFloors, Flip, StepsInv, StepsType
<1>3. sick' \in [Pages -> SUBSET Staff] /\ \A q \in Pages : sick'[q] = sick[q] \cup (absent' \ absent)
  <2>1. CASE \E h \in Staff : CallInSick(h)
    <3>1. sick' = [q \in Pages |-> sick[q] \cup (absent' \ absent)]
      BY <2>1 DEF CallInSick
    <3> QED BY <1>2, <3>1 DEF StepsInv, StepsType
  <2>2. CASE \E s \in Sups, F \in SUBSET PlanFloors : GiveFloors(s, F)
    BY <2>2 DEF GiveFloors, StepsInv, StepsType
  <2> QED BY <2>1, <2>2
<1>4. ASSUME NEW q \in Pages
      PROVE  PageOK(page[q], save[q], sick[q], over[q])' /\ over'[q] \in BOOLEAN
  BY <1>1, <1>3, Bystanders, StepsAssumption
<1>5. StepsType'
  <2>1. over' \in [Pages -> BOOLEAN]
    BY <1>1, <1>4 DEF Overtakes
  <2> QED BY <1>1, <1>2, <1>3, <2>1 DEF StepsInv, StepsType
<1> QED BY <1>4, <1>5 DEF StepsInv

LEMMA StepsInitInv == StepsInit => StepsInv
<1> SUFFICES ASSUME StepsInit PROVE StepsInv
  OBVIOUS
<1>1. /\ absent = {} /\ saved = [day |-> "previous", hk |-> Staff, sup |-> Sups]
      /\ page = [p \in Pages |-> NoPage] /\ save = [p \in Pages |-> NoSave]
      /\ sick = [p \in Pages |-> {}] /\ over = [p \in Pages |-> FALSE]
  BY DEF StepsInit
<1>2. floors \in [Sups -> SUBSET PlanFloors]
  BY DEF StepsInit
<1>3. NoPage \in PageFields /\ NoPage.source = "none" /\ NoPage.hk = {}
  BY DEF NoPage, PageFields
<1>4. StepsType
  BY <1>1, <1>2, <1>3, NoSaveShape DEF StepsType
<1>5. PageOK(NoPage, NoSave, {}, FALSE)
  BY <1>3, NoSaveShape DEF PageOK, ChosenAnew, TeamSave, FloorsSave
<1> QED BY <1>1, <1>4, <1>5 DEF StepsInv

LEMMA StepsNextInv == StepsInv /\ [StepsNext]_stepVars => StepsInv'
<1> SUFFICES ASSUME StepsInv, [StepsNext]_stepVars PROVE StepsInv'
  OBVIOUS
<1>1. ASSUME NEW p \in Pages,
             \/ LoadPage(p) \/ ReadStaff(p) \/ StoreTeam(p) \/ CheckFloors(p) \/ ReadSups(p)
             \/ FloorsDone(p) \/ SaveFails(p)
      PROVE  StepsInv'
  BY <1>1, LoadPageInv, ReadStaffInv, StoreTeamInv, CheckFloorsInv, ReadSupsInv, SaveEndsInv
<1>2. ASSUME NEW p \in Pages, NEW h \in Staff, ToggleStaff(p, h) \/ WriteStaff(p, h) PROVE StepsInv'
  BY <1>2, ToggleStaffInv, WriteStaffInv
<1>3. ASSUME NEW p \in Pages, NEW s \in Sups,
             ToggleSup(p, s) \/ WriteFloors(p, s) \/ \E x \in PlanFloors : PickFloor(p, x, s)
      PROVE  StepsInv'
  BY <1>3, ChooseSupsInv, WriteFloorsInv
<1>4. CASE \/ \E h \in Staff : CallInSick(h)
           \/ \E s \in Sups, F \in SUBSET PlanFloors : GiveFloors(s, F)
  BY <1>4, OthersInv
<1>5. CASE UNCHANGED stepVars
  BY <1>5 DEF stepVars, rows, StepsInv, StepsType, PageOK, ChosenAnew, TeamSave, FloorsSave
<1> QED BY <1>1, <1>2, <1>3, <1>4, <1>5 DEF StepsNext

\* What a save leaves behind follows from what it has not had to write.
LEMMA SavedAsChosen ==
  ASSUME StepsInv, NEW p \in Pages
  PROVE  FloorsAsChosen(p) /\ TeamAsChosen(p) /\ CallsBack(p)
<1>1. PageOK(page[p], save[p], sick[p], over[p]) /\ save[p] \in SaveFields /\ page[p] \in PageFields
      /\ saved.sup \subseteq Sups /\ absent \subseteq Staff /\ floors \in [Sups -> SUBSET PlanFloors]
  BY StepsTyped
<1>2. FloorsAsChosen(p)
  <2> SUFFICES ASSUME FloorsDone(p), ~over[p], NEW x \in PlanFloors
               PROVE  /\ {s \in Sups : x \in floors[s]} = {save[p].floor[x]}
                      /\ save[p].floor[x] \in saved.sup
    BY DEF FloorsAsChosen
  <2>1. save[p].pc = "floors" /\ save[p].todo = {}
    BY DEF FloorsDone
  <2>2. save[p].floor[x] \in saved.sup
    BY <1>1, <2>1 DEF PageOK, FloorsSave
  <2>3. \A s \in Sups : floors[s] = {y \in PlanFloors : save[p].floor[y] = s}
    BY <1>1, <2>1 DEF PageOK, FloorsSave
  <2> QED BY <1>1, <2>2, <2>3
<1>3. TeamAsChosen(p)
  BY <1>1 DEF TeamAsChosen, StoreTeam, PageOK, TeamSave, SaveFields
<1>4. CallsBack(p)
  <2> SUFFICES ASSUME NEW h \in Staff, WriteStaff(p, h), h \notin absent',
                      page[p].source # "today"
               PROVE  h \in page[p].tapped \cup sick[p]
    BY DEF CallsBack
  <2>1. save[p].pc = "team" /\ h \in save[p].todo /\ h \in save[p].hk
    BY DEF WriteStaff
  <2> QED BY <1>1, <2>1 DEF PageOK, TeamSave
<1> QED BY <1>2, <1>3, <1>4

\* Both saves leave what was chosen unless somebody else writes meanwhile, and nobody is
\* called back whom the page left out, for any number of pages, people and floors.
THEOREM StepsSound == StepsInit /\ [][StepsNext]_stepVars => SavesAsChosen
<1>1. StepsInv /\ [StepsNext]_stepVars =>
        [\A p \in Pages : FloorsAsChosen(p) /\ TeamAsChosen(p) /\ CallsBack(p)]_stepVars
  BY SavedAsChosen
<1> QED BY <1>1, StepsInitInv, StepsNextInv, PTL DEF SavesAsChosen

-----------------------------------------------------------------------------
(***************************************************************************)
(* The escalations.  A run that has looked for a note and not found it is  *)
(* known to whoever creates the note before it does; and what a run has    *)
(* found due is told or still to be told, as long as it is due.            *)
(***************************************************************************)

Notes == [kind : {"recheck", "welfare", "eta", "backlog"}, from : Nat, stage : Nat]
Runs == [at : {"idle", "blocked", "arrivals", "queue", "end"}, now : Nat,
         todo : Seq(Notes), looked : BOOLEAN]

EscType ==
  /\ clock \in Nat /\ since \in Nat /\ since <= clock
  /\ reason \in {"no", "DND", "other"} /\ released \in BOOLEAN
  /\ run \in [Ticks -> Runs]
  /\ told \in Seq([note : Notes, alone : BOOLEAN])

ToTell(k, n) == \E i \in DOMAIN k.todo : k.todo[i] = n
WasTold(n) == \E i \in DOMAIN told : told[i].note = n
Covered(k, n) == WasTold(n) \/ ToTell(k, n)

\* A re-check belongs to an interval that has gone by.
InTime(n) ==
  n.kind = "recheck" =>
    n.from <= clock /\ n.stage >= 1 /\ n.stage <= (clock - n.from) \div Recheck

\* What a run has looked for has been told, if at all, by one that knew of the run.
LookedFirst(k) ==
  k.looked => /\ k.todo # <<>>
              /\ \A i \in DOMAIN told : told[i].note = Head(k.todo) => ~told[i].alone

\* What was due when the run looked, and still is.
BlockCovered(k) ==
  k.at \in {"arrivals", "queue", "end"} =>
    /\ reason = "DND" /\ k.now - since >= Welfare => Covered(k, Note("welfare", since, 0))
    /\ reason # "no" /\ k.now - since >= Recheck =>
         Covered(k, Note("recheck", since, (k.now - since) \div Recheck))

EtaCovered(k) == k.at \in {"queue", "end"} /\ AtRisk(k.now) => Covered(k, Note("eta", 0, 0))

RunOK(k) ==
  /\ k.now <= clock /\ \A i \in DOMAIN k.todo : InTime(k.todo[i])
  /\ LookedFirst(k) /\ BlockCovered(k) /\ EtaCovered(k)

ToldOK ==
  /\ \A i \in DOMAIN told : InTime(told[i].note)
  /\ \A i, j \in DOMAIN told : i < j /\ told[i].note = told[j].note => ~told[i].alone

EscInv == EscType /\ ToldOK /\ \A t \in Ticks : RunOK(run[t])

LEMMA Division ==
  ASSUME NEW a \in Int, NEW d \in Nat \ {0}
  PROVE  a \div d \in Int /\ d * (a \div d) <= a /\ a < d * (a \div d) + d
  OBVIOUS

LEMMA Multiply ==
  ASSUME NEW x \in Int, NEW y \in Int, NEW d \in Nat \ {0}, x <= y
  PROVE  d * x <= d * y
  OBVIOUS

LEMMA DivGrows ==
  ASSUME NEW a \in Int, NEW b \in Int, NEW d \in Nat \ {0}, a <= b
  PROVE  a \div d <= b \div d
<1> SUFFICES ASSUME b \div d + 1 <= a \div d PROVE FALSE
  BY Division
<1>1. d * (b \div d + 1) <= d * (a \div d)
  BY Division, Multiply
<1>2. d * (b \div d + 1) = d * (b \div d) + d
  BY Division
<1> QED BY <1>1, <1>2, Division

LEMMA DivPositive ==
  ASSUME NEW a \in Int, NEW d \in Nat \ {0}, d <= a
  PROVE  a \div d >= 1
<1>1. d \div d = 1
  OBVIOUS
<1> QED BY <1>1, DivGrows

LEMMA SettingsAre ==
  /\ Recheck \in Nat \ {0} /\ Welfare \in Nat \ {0} /\ Warning \in Nat \ {0} /\ Bucket \in Nat \ {0}
  /\ Eta \in Nat
BY SettingsAssumption

LEMMA HeadAndTail ==
  ASSUME NEW S, NEW s \in Seq(S), s # <<>>
  PROVE  /\ Head(s) \in S /\ Tail(s) \in Seq(S) /\ 1 \in DOMAIN s /\ s[1] = Head(s)
         /\ \A i \in DOMAIN Tail(s) : i + 1 \in DOMAIN s /\ Tail(s)[i] = s[i + 1]
         /\ \A i \in DOMAIN s : s[i] = Head(s) \/ \E j \in DOMAIN Tail(s) : Tail(s)[j] = s[i]
<1>1. /\ Head(s) \in S /\ Tail(s) \in Seq(S) /\ 1 \in DOMAIN s /\ s[1] = Head(s)
      /\ \A i \in DOMAIN Tail(s) : i + 1 \in DOMAIN s /\ Tail(s)[i] = s[i + 1]
  OBVIOUS
<1>2. ASSUME NEW i \in DOMAIN s PROVE s[i] = Head(s) \/ \E j \in DOMAIN Tail(s) : Tail(s)[j] = s[i]
  <2>1. CASE i = 1
    BY <1>1, <2>1
  <2>2. CASE i # 1
    <3>1. i - 1 \in DOMAIN Tail(s) /\ Tail(s)[i - 1] = s[i]
      BY <2>2
    <3> QED BY <3>1
  <2> QED BY <2>1, <2>2
<1> QED BY <1>1, <1>2

LEMMA Member ==
  ASSUME NEW S, NEW s \in Seq(S), NEW i \in DOMAIN s
  PROVE  s[i] \in S
OBVIOUS

LEMMA NoteShape ==
  ASSUME NEW kind \in {"recheck", "welfare", "eta", "backlog"}, NEW from \in Nat, NEW nth \in Nat
  PROVE  /\ Note(kind, from, nth) \in Notes /\ Note(kind, from, nth).kind = kind
         /\ Note(kind, from, nth).from = from /\ Note(kind, from, nth).stage = nth
BY DEF Note, Notes

LEMMA IdleRunOK == EscType => IdleRun \in Runs /\ RunOK(IdleRun)
BY DEF EscType, IdleRun, Runs, RunOK, LookedFirst, BlockCovered, EtaCovered

LEMMA EscTyped ==
  ASSUME EscInv, NEW t \in Ticks
  PROVE  /\ run[t] \in Runs /\ RunOK(run[t]) /\ run[t].now \in Nat /\ run[t].todo \in Seq(Notes)
         /\ run[t].looked \in BOOLEAN
BY DEF EscInv, EscType, Runs

-----------------------------------------------------------------------------
\* A run goes on as k, and nothing else happens.
LEMMA RunGoes ==
  ASSUME EscInv, NEW t \in Ticks, NEW k \in Runs, RunOK(k), run' = [run EXCEPT ![t] = k],
         UNCHANGED <<clock, reason, since, released, told>>
  PROVE  EscInv'
<1>1. EscType' /\ ToldOK'
  BY DEF EscInv, EscType, ToldOK, InTime
<1>2. ASSUME NEW u \in Ticks PROVE RunOK(run[u])'
  <2>1. run'[u] \in {k, run[u]} /\ RunOK(run[u])
    BY DEF EscInv, EscType
  <2>2. PICK n : n = run'[u]
    OBVIOUS
  <2>3. RunOK(n)
    BY <2>1, <2>2
  <2> QED BY <2>2, <2>3 DEF RunOK, InTime, LookedFirst, BlockCovered, EtaCovered, Covered, WasTold,
                            ToTell, AtRisk
<1> QED BY <1>1, <1>2 DEF EscInv

LEMMA StartRunInv == ASSUME EscInv, NEW t \in Ticks, StartRun(t) PROVE EscInv'
<1> DEFINE k == [IdleRun EXCEPT !.at = "blocked", !.now = clock]
<1>1. run' = [run EXCEPT ![t] = k] /\ UNCHANGED <<clock, reason, since, released, told>>
  BY DEF StartRun
<1>2. clock \in Nat
  BY DEF EscInv, EscType
<1>3. k \in Runs /\ k.now = clock /\ k.at = "blocked" /\ k.todo = <<>> /\ ~k.looked
  <2>1. IdleRun \in Runs /\ IdleRun.todo = <<>> /\ ~IdleRun.looked
    BY IdleRunOK DEF IdleRun, EscInv
  <2> QED BY <1>2, <2>1 DEF Runs
<1> HIDE DEF k
<1>4. RunOK(k)
  BY <1>2, <1>3 DEF RunOK, LookedFirst, BlockCovered, EtaCovered
<1> QED BY <1>1, <1>3, <1>4, RunGoes

LEMMA EndRunInv == ASSUME EscInv, NEW t \in Ticks, EndRun(t) \/ Fails(t) PROVE EscInv'
<1>1. run' = [run EXCEPT ![t] = IdleRun] /\ UNCHANGED <<clock, reason, since, released, told>>
  BY DEF EndRun, Fails
<1>2. IdleRun \in Runs /\ RunOK(IdleRun)
  BY IdleRunOK DEF EscInv
<1> QED BY <1>1, <1>2, RunGoes

LEMMA NothingInTime ==
  ASSUME NEW s, s = <<>>
  PROVE  s \in Seq(Notes) /\ \A i \in DOMAIN s : InTime(s[i])
OBVIOUS

\* The notes of a block are due, in time, and all that is due.
LEMMA BlockNotesShape ==
  ASSUME EscInv, reason # "no", NEW now \in Nat, now <= clock
  PROVE  LET b == BlockNotes(now - since) IN
         /\ b \in Seq(Notes) /\ \A i \in DOMAIN b : InTime(b[i])
         /\ now - since >= Recheck =>
              \E i \in DOMAIN b : b[i] = Note("recheck", since, (now - since) \div Recheck)
         /\ reason = "DND" /\ now - since >= Welfare =>
              \E i \in DOMAIN b : b[i] = Note("welfare", since, 0)
<1> DEFINE age == now - since
           x == Note("recheck", since, age \div Recheck)
           y == Note("welfare", since, 0)
<1>1. age \in Int /\ since \in Nat /\ clock \in Nat /\ since <= clock /\ age <= clock - since
  BY DEF EscInv, EscType
<1>2. y \in Notes /\ InTime(y)
  BY <1>1, NoteShape DEF InTime
<1>3. age >= Recheck => x \in Notes /\ InTime(x)
  <2> SUFFICES ASSUME age >= Recheck PROVE x \in Notes /\ InTime(x)
    OBVIOUS
  <2>1. age \div Recheck \in Int /\ age \div Recheck >= 1
        /\ age \div Recheck <= (clock - since) \div Recheck
    BY <1>1, SettingsAre, Division, DivPositive, DivGrows
  <2>2. x \in Notes /\ x.kind = "recheck" /\ x.from = since /\ x.stage = age \div Recheck
    BY <1>1, <2>1, NoteShape
  <2> QED BY <1>1, <2>1, <2>2 DEF InTime
<1> DEFINE p == IF age >= Recheck THEN <<x>> ELSE <<>>
           q == IF age >= Welfare /\ reason = "DND" THEN <<y>> ELSE <<>>
<1>4. BlockNotes(age) = p \o q
  BY DEF BlockNotes
<1>5. /\ age >= Recheck => p = <<x>>
      /\ ~(age >= Recheck) => p = <<>>
      /\ age >= Welfare /\ reason = "DND" => q = <<y>>
      /\ ~(age >= Welfare /\ reason = "DND") => q = <<>>
  OBVIOUS
<1> HIDE DEF p, q, x, y
<1>6. CASE age >= Recheck /\ (age >= Welfare /\ reason = "DND")
  <2>0. p = <<x>> /\ q = <<y>> /\ x \in Notes /\ y \in Notes
    BY <1>2, <1>3, <1>5, <1>6
  <2>1. p \o q \in Seq(Notes) /\ Len(p \o q) = 2 /\ (p \o q)[1] = x /\ (p \o q)[2] = y
    BY <2>0
  <2> QED BY <1>2, <1>3, <1>4, <1>6, <2>1 DEF x, y
<1>7. CASE age >= Recheck /\ ~(age >= Welfare /\ reason = "DND")
  <2>0. p = <<x>> /\ q = <<>> /\ x \in Notes
    BY <1>3, <1>5, <1>7
  <2>1. p \o q \in Seq(Notes) /\ Len(p \o q) = 1 /\ (p \o q)[1] = x
    BY <2>0
  <2> QED BY <1>3, <1>4, <1>7, <2>1 DEF x
<1>8. CASE ~(age >= Recheck) /\ (age >= Welfare /\ reason = "DND")
  <2>0. p = <<>> /\ q = <<y>> /\ y \in Notes
    BY <1>2, <1>5, <1>8
  <2>1. p \o q \in Seq(Notes) /\ Len(p \o q) = 1 /\ (p \o q)[1] = y
    BY <2>0
  <2> QED BY <1>2, <1>4, <1>8, <2>1 DEF y
<1>9. CASE ~(age >= Recheck) /\ ~(age >= Welfare /\ reason = "DND")
  <2>0. p = <<>> /\ q = <<>>
    BY <1>5, <1>9
  <2>1. p \o q = <<>>
    BY <2>0
  <2>2. BlockNotes(age) = <<>>
    BY <1>4, <2>1
  <2>3. BlockNotes(age) \in Seq(Notes) /\ \A i \in DOMAIN BlockNotes(age) : InTime(BlockNotes(age)[i])
    BY <2>2, NothingInTime
  <2> QED BY <1>9, <2>3
<1> QED BY <1>6, <1>7, <1>8, <1>9

\* A run reads what is due next.
LEMMA FindBlockedInv == ASSUME EscInv, NEW t \in Ticks, FindBlocked(t) PROVE EscInv'
<1> DEFINE old == run[t]
           b == IF reason = "no" THEN <<>> ELSE BlockNotes(old.now - since)
           k == [old EXCEPT !.todo = b, !.at = "arrivals"]
<1>1. /\ old.at = "blocked" /\ old.todo = <<>> /\ run' = [run EXCEPT ![t] = k]
      /\ UNCHANGED <<clock, reason, since, released, told>>
  BY DEF FindBlocked, Finds
<1>2. old \in Runs /\ RunOK(old) /\ old.now \in Nat /\ old.now <= clock
  BY EscTyped DEF RunOK
<1>3. b \in Seq(Notes) /\ \A i \in DOMAIN b : InTime(b[i])
  <2>1. CASE reason = "no"
    BY <2>1
  <2>2. CASE reason # "no"
    BY <1>2, <2>2, BlockNotesShape
  <2> QED BY <2>1, <2>2
<1>4. reason # "no" =>
        /\ old.now - since >= Recheck =>
             \E i \in DOMAIN b : b[i] = Note("recheck", since, (old.now - since) \div Recheck)
        /\ reason = "DND" /\ old.now - since >= Welfare =>
             \E i \in DOMAIN b : b[i] = Note("welfare", since, 0)
  BY <1>2, BlockNotesShape
<1> HIDE DEF b
<1>5. /\ k \in Runs /\ k.now = old.now /\ k.todo = b /\ k.at = "arrivals" /\ k.looked = old.looked
  BY <1>2, <1>3 DEF Runs
<1>6. ~old.looked
  BY <1>1, <1>2 DEF RunOK, LookedFirst, Runs
<1> HIDE DEF k, old
<1>7. RunOK(k)
  BY <1>2, <1>3, <1>4, <1>5, <1>6 DEF RunOK, LookedFirst, BlockCovered, EtaCovered, Covered, ToTell
<1> QED BY <1>1, <1>5, <1>7, RunGoes

\* The arrival and the queue.
LEMMA FindInv ==
  ASSUME EscInv, NEW t \in Ticks, FindArrivals(t) \/ FindQueue(t) PROVE EscInv'
<1> DEFINE old == run[t]
<1>1. UNCHANGED <<clock, reason, since, released, told>> /\ old.todo = <<>>
  BY DEF FindArrivals, FindQueue, Finds
<1>2. old \in Runs /\ RunOK(old) /\ old.now \in Nat /\ old.now <= clock
  BY EscTyped DEF RunOK
<1>3. ~old.looked
  BY <1>1, <1>2 DEF RunOK, LookedFirst, Runs
<1>4. \E b \in Seq(Notes), next \in {"queue", "end"} :
        /\ run' = [run EXCEPT ![t] = [old EXCEPT !.todo = b, !.at = next]]
        /\ \A i \in DOMAIN b : b[i].kind # "recheck"
        /\ old.at = "arrivals" \/ old.at = "queue"
        /\ old.at = "arrivals" /\ AtRisk(old.now) => \E i \in DOMAIN b : b[i] = Note("eta", 0, 0)
  <2>1. CASE FindArrivals(t)
    <3> DEFINE x == Note("eta", 0, 0)
               b == IF AtRisk(old.now) THEN <<x>> ELSE <<>>
    <3>1. run' = [run EXCEPT ![t] = [old EXCEPT !.todo = b, !.at = "queue"]] /\ old.at = "arrivals"
      BY <2>1 DEF FindArrivals, Finds
    <3>2. x \in Notes /\ x.kind = "eta"
      BY NoteShape
    <3> HIDE DEF x
    <3>3. b \in Seq(Notes) /\ (\A i \in DOMAIN b : b[i] = x) /\ (AtRisk(old.now) => \E i \in DOMAIN b : b[i] = x)
      <4>1. <<x>> \in Seq(Notes) /\ (\A i \in DOMAIN <<x>> : <<x>>[i] = x) /\ 1 \in DOMAIN <<x>> /\ <<x>>[1] = x
        BY <3>2
      <4>2. <<>> \in Seq(Notes) /\ (\A i \in DOMAIN <<>> : <<>>[i] = x)
        OBVIOUS
      <4> QED BY <4>1, <4>2
    <3> HIDE DEF b
    <3> QED BY <3>1, <3>2, <3>3 DEF x
  <2>2. CASE FindQueue(t)
    <3> DEFINE x == Note("backlog", 0, old.now \div Bucket)
               b == IF cleanCount >= Threshold THEN <<x>> ELSE <<>>
    <3>1. run' = [run EXCEPT ![t] = [old EXCEPT !.todo = b, !.at = "end"]] /\ old.at = "queue"
      BY <2>2 DEF FindQueue, Finds
    <3>2. x \in Notes /\ x.kind = "backlog"
      <4>1. old.now \div Bucket \in Nat
        <5>1. 0 \div Bucket = 0
          BY SettingsAre
        <5> QED BY <1>2, <5>1, SettingsAre, Division, DivGrows
      <4> QED BY <4>1, NoteShape
    <3> HIDE DEF x
    <3>3. b \in Seq(Notes) /\ \A i \in DOMAIN b : b[i] = x
      <4>1. <<x>> \in Seq(Notes) /\ (\A i \in DOMAIN <<x>> : <<x>>[i] = x)
        BY <3>2
      <4>2. <<>> \in Seq(Notes) /\ (\A i \in DOMAIN <<>> : <<>>[i] = x)
        OBVIOUS
      <4> QED BY <4>1, <4>2
    <3> HIDE DEF b
    <3> QED BY <3>1, <3>2, <3>3
  <2> QED BY <2>1, <2>2
<1>5. PICK b \in Seq(Notes), next \in {"queue", "end"} :
        /\ run' = [run EXCEPT ![t] = [old EXCEPT !.todo = b, !.at = next]]
        /\ \A i \in DOMAIN b : b[i].kind # "recheck"
        /\ old.at = "arrivals" \/ old.at = "queue"
        /\ old.at = "arrivals" /\ AtRisk(old.now) => \E i \in DOMAIN b : b[i] = Note("eta", 0, 0)
  BY <1>4
<1> DEFINE k == [old EXCEPT !.todo = b, !.at = next]
<1>6. /\ k \in Runs /\ k.now = old.now /\ k.todo = b /\ k.at = next /\ k.looked = old.looked
  BY <1>2 DEF Runs
<1>7. \A n : ToTell(old, n) => FALSE
  BY <1>1 DEF ToTell
<1>8. run' = [run EXCEPT ![t] = k]
  BY <1>5
<1> HIDE DEF k, old
<1>9. BlockCovered(k) /\ EtaCovered(k)
  BY <1>2, <1>5, <1>6, <1>7 DEF RunOK, BlockCovered, EtaCovered, Covered, ToTell
<1>10. RunOK(k)
  BY <1>2, <1>3, <1>5, <1>6, <1>9 DEF RunOK, LookedFirst, InTime
<1> QED BY <1>1, <1>6, <1>8, <1>10, RunGoes

LEMMA LookInv == ASSUME EscInv, NEW t \in Ticks, Look(t) PROVE EscInv'
<1> DEFINE old == run[t]
           n == Head(old.todo)
<1>1. /\ old.todo # <<>> /\ ~old.looked
      /\ UNCHANGED <<clock, reason, since, released, told>>
  BY DEF Look
<1>2. old \in Runs /\ RunOK(old) /\ old.todo \in Seq(Notes)
  BY EscTyped
<1>3. /\ n \in Notes /\ Tail(old.todo) \in Seq(Notes)
      /\ \A i \in DOMAIN Tail(old.todo) : i + 1 \in DOMAIN old.todo /\ Tail(old.todo)[i] = old.todo[i + 1]
      /\ \A i \in DOMAIN old.todo : old.todo[i] = n
                                    \/ \E j \in DOMAIN Tail(old.todo) : Tail(old.todo)[j] = old.todo[i]
  BY <1>1, <1>2, HeadAndTail
<1>4. Known(n) <=> WasTold(n)
  BY DEF Known, KeyOf, WasTold
<1>5. CASE Known(n)
  <2> DEFINE k == [old EXCEPT !.looked = FALSE, !.todo = Tail(@)]
  <2>1. run' = [run EXCEPT ![t] = k]
    BY <1>5 DEF Look
  <2>2. /\ k \in Runs /\ k.now = old.now /\ k.todo = Tail(old.todo) /\ k.at = old.at /\ ~k.looked
    BY <1>2, <1>3 DEF Runs
  <2>3. \A x : Covered(old, x) => Covered(k, x)
    BY <1>3, <1>4, <1>5, <2>2 DEF Covered, ToTell
  <2> HIDE DEF k, old
  <2>4. BlockCovered(k) /\ EtaCovered(k)
    BY <1>2, <2>2, <2>3 DEF RunOK, BlockCovered, EtaCovered
  <2>5. RunOK(k)
    BY <1>2, <1>3, <2>2, <2>4 DEF RunOK, LookedFirst
  <2> QED BY <1>1, <2>1, <2>2, <2>5, RunGoes
<1>6. CASE ~Known(n)
  <2> DEFINE k == [old EXCEPT !.looked = TRUE, !.todo = @]
  <2>1. run' = [run EXCEPT ![t] = k]
    BY <1>6 DEF Look
  <2>2. /\ k \in Runs /\ k.now = old.now /\ k.todo = old.todo /\ k.at = old.at /\ k.looked
    BY <1>2 DEF Runs
  <2>3. \A x : Covered(old, x) => Covered(k, x)
    BY <2>2 DEF Covered, ToTell
  <2> HIDE DEF k, old
  <2>4. BlockCovered(k) /\ EtaCovered(k)
    BY <1>2, <2>2, <2>3 DEF RunOK, BlockCovered, EtaCovered
  <2>5. LookedFirst(k)
    BY <1>1, <1>4, <1>6, <2>2 DEF LookedFirst, WasTold
  <2>6. RunOK(k)
    BY <1>2, <2>2, <2>4, <2>5 DEF RunOK
  <2> QED BY <1>1, <2>1, <2>2, <2>6, RunGoes
<1> QED BY <1>5, <1>6

\* A note is created, and every other run that was about to create it is known.
LEMMA CreateInv == ASSUME EscInv, NEW t \in Ticks, Create(t) PROVE EscInv'
<1> DEFINE old == run[t]
           n == Head(old.todo)
           others == {u \in Ticks \ {t} : run[u].looked /\ Head(run[u].todo) = n}
           m == [note |-> n, alone |-> others = {}]
           k == [old EXCEPT !.looked = FALSE, !.todo = Tail(@)]
<1>1. /\ old.looked /\ told' = Append(told, m) /\ run' = [run EXCEPT ![t] = k]
      /\ UNCHANGED <<clock, reason, since, released>>
  BY DEF Create
<1>2. old \in Runs /\ RunOK(old) /\ old.todo \in Seq(Notes)
  BY EscTyped
<1>3. /\ old.todo # <<>> /\ \A i \in DOMAIN told : told[i].note = n => ~told[i].alone
  BY <1>1, <1>2 DEF RunOK, LookedFirst
<1>4. /\ n \in Notes /\ Tail(old.todo) \in Seq(Notes)
      /\ 1 \in DOMAIN old.todo /\ old.todo[1] = n
      /\ \A i \in DOMAIN Tail(old.todo) : i + 1 \in DOMAIN old.todo /\ Tail(old.todo)[i] = old.todo[i + 1]
      /\ \A i \in DOMAIN old.todo : old.todo[i] = n
                                    \/ \E j \in DOMAIN Tail(old.todo) : Tail(old.todo)[j] = old.todo[i]
  BY <1>2, <1>3, HeadAndTail
<1>5. m \in [note : Notes, alone : BOOLEAN] /\ m.note = n /\ (m.alone <=> others = {})
  BY <1>4
<1>6. InTime(n)
  BY <1>2, <1>4 DEF RunOK
<1>7. /\ k \in Runs /\ k.now = old.now /\ k.todo = Tail(old.todo) /\ k.at = old.at /\ ~k.looked
  BY <1>2, <1>4 DEF Runs
<1> HIDE DEF m, k
<1>8. /\ told' \in Seq([note : Notes, alone : BOOLEAN])
      /\ DOMAIN told \subseteq DOMAIN told' /\ \A i \in DOMAIN told : told'[i] = told[i]
      /\ \A i \in DOMAIN told' : i \notin DOMAIN told => told'[i] = m /\ \A j \in DOMAIN told' : ~(i < j)
      /\ \E i \in DOMAIN told' : told'[i] = m
  <2>1. told \in Seq([note : Notes, alone : BOOLEAN])
    BY DEF EscInv, EscType
  <2>2. /\ told' \in Seq([note : Notes, alone : BOOLEAN]) /\ Len(told) \in Nat
        /\ DOMAIN told = 1..Len(told) /\ DOMAIN told' = 1..Len(told) + 1
        /\ (\A i \in DOMAIN told : told'[i] = told[i]) /\ told'[Len(told) + 1] = m
    BY <1>1, <1>5, <2>1
  <2> QED BY <2>2
<1>9. \A x : WasTold(x)' <=> WasTold(x) \/ x = n
  <2>1. ASSUME NEW x PROVE WasTold(x)' <=> WasTold(x) \/ x = n
    BY <1>5, <1>8 DEF WasTold
  <2> QED BY <2>1
<1>10. EscType'
  BY <1>1, <1>7, <1>8 DEF EscInv, EscType
<1>11. ToldOK'
  <2>1. ToldOK
    BY DEF EscInv
  <2>2. \A i \in DOMAIN told' : InTime(told'[i].note)
    BY <1>5, <1>6, <1>8, <2>1 DEF ToldOK
  <2>3. ASSUME NEW i \in DOMAIN told', NEW j \in DOMAIN told', i < j, told'[i].note = told'[j].note
        PROVE  ~told'[i].alone
    <3>1. i \in DOMAIN told /\ told'[i] = told[i]
      BY <1>8, <2>3
    <3>2. CASE j \in DOMAIN told
      BY <1>8, <2>1, <2>3, <3>1, <3>2 DEF ToldOK
    <3>3. CASE j \notin DOMAIN told
      BY <1>3, <1>5, <1>8, <2>3, <3>1, <3>3
    <3> QED BY <3>2, <3>3
  <2> QED BY <1>1, <2>2, <2>3 DEF ToldOK, InTime
<1>12. ASSUME NEW u \in Ticks PROVE RunOK(run[u])'
  <2> DEFINE q == run'[u]
  <2>1. q = IF u = t THEN k ELSE run[u]
    BY <1>1 DEF EscInv, EscType
  <2>2. run[u] \in Runs /\ RunOK(run[u])
    BY EscTyped
  <2>3. q.at = run[u].at /\ q.now = run[u].now /\ q.now <= clock
    BY <1>7, <2>1, <2>2 DEF RunOK
  <2>4. \A x : Covered(run[u], x) => WasTold(x)' \/ ToTell(q, x)
    <3>1. ASSUME NEW x, Covered(run[u], x) PROVE WasTold(x)' \/ ToTell(q, x)
      <4>1. CASE WasTold(x)
        BY <1>9, <4>1
      <4>2. CASE ToTell(run[u], x) /\ u # t
        BY <2>1, <4>2 DEF ToTell
      <4>3. CASE ToTell(run[u], x) /\ u = t
        <5>1. PICK i \in DOMAIN old.todo : old.todo[i] = x
          BY <4>3 DEF ToTell
        <5>2. x = n \/ \E j \in DOMAIN Tail(old.todo) : Tail(old.todo)[j] = x
          BY <1>4, <5>1
        <5>3. q.todo = Tail(old.todo)
          BY <1>7, <2>1, <4>3
        <5> HIDE DEF q
        <5> QED BY <1>9, <5>2, <5>3 DEF ToTell
      <4> QED BY <3>1, <4>1, <4>2, <4>3 DEF Covered
    <3> QED BY <3>1
  <2>5. \A i \in DOMAIN q.todo : InTime(q.todo[i])
    <3>1. CASE u = t
      <4>1. q.todo = Tail(old.todo)
        BY <1>7, <2>1, <3>1
      <4>2. \A i \in DOMAIN Tail(old.todo) : InTime(Tail(old.todo)[i])
        BY <1>2, <1>4 DEF RunOK
      <4> HIDE DEF q
      <4> QED BY <4>1, <4>2
    <3>2. CASE u # t
      BY <2>1, <2>2, <3>2 DEF RunOK
    <3> QED BY <3>1, <3>2
  <2>6. q.looked => /\ q.todo # <<>>
                    /\ \A i \in DOMAIN told' : told'[i].note = Head(q.todo) => ~told'[i].alone
    <3> SUFFICES ASSUME q.looked
                 PROVE  /\ q.todo # <<>>
                        /\ \A i \in DOMAIN told' : told'[i].note = Head(q.todo) => ~told'[i].alone
      OBVIOUS
    <3>1. u # t /\ q = run[u]
      BY <1>7, <2>1
    <3>2. /\ q.todo # <<>> /\ \A i \in DOMAIN told : told[i].note = Head(q.todo) => ~told[i].alone
      BY <2>2, <3>1 DEF RunOK, LookedFirst
    <3>3. Head(q.todo) = n => ~m.alone
      BY <1>5, <3>1
    <3> HIDE DEF q
    <3> QED BY <1>5, <1>8, <3>2, <3>3
  <2> HIDE DEF q
  <2>7. PICK r : r = run'[u]
    OBVIOUS
  <2>8. r.at = run[u].at /\ r.now = run[u].now /\ r.now <= clock /\ r = q
    BY <2>3, <2>7 DEF q
  <2>9. BlockCovered(r)'
    BY ZenonT(60), <1>1, <2>2, <2>4, <2>8 DEF RunOK, BlockCovered, Covered, ToTell, WasTold
  <2>10. EtaCovered(r)'
    BY <1>1, <2>2, <2>4, <2>8 DEF RunOK, EtaCovered, Covered, ToTell, WasTold, AtRisk
  <2>11. LookedFirst(r)'
    BY <2>6, <2>8 DEF LookedFirst
  <2> QED BY <1>1, <2>5, <2>7, <2>8, <2>9, <2>10, <2>11 DEF RunOK, LookedFirst, BlockCovered, EtaCovered, InTime, Covered, WasTold, ToTell, AtRisk
<1> QED BY <1>10, <1>11, <1>12 DEF EscInv

-----------------------------------------------------------------------------
\* Time goes by, and what is due may cease to be, or be due later than a run has looked.
LEMMA WorldInv ==
  ASSUME EscInv, Block \/ Unblock \/ Clean \/ Release \/ Pass
  PROVE  EscInv'
<1>1. UNCHANGED <<run, told>>
  BY DEF Block, Unblock, Clean, Release, Pass
<1>2. EscType
  BY DEF EscInv
<1>3. EscType' /\ clock <= clock'
  <2>1. CASE Block
    BY <1>2, <2>1 DEF Block, EscType
  <2>2. CASE Unblock
    BY <1>2, <2>2 DEF Unblock, EscType
  <2>3. CASE Clean
    BY <1>2, <2>3 DEF Clean, EscType
  <2>4. CASE Release
    BY <1>2, <2>4 DEF Release, EscType
  <2>5. CASE Pass
    BY <1>2, <2>5 DEF Pass, EscType
  <2> QED BY <2>1, <2>2, <2>3, <2>4, <2>5
<1>4. clock \in Nat /\ clock' \in Nat /\ since \in Nat /\ since' \in Nat
  BY <1>2, <1>3 DEF EscType
<1>5. \A n \in Notes : InTime(n) => InTime(n)'
  <2> SUFFICES ASSUME NEW n \in Notes, InTime(n), n.kind = "recheck"
               PROVE  n.from <= clock' /\ n.stage >= 1 /\ n.stage <= (clock' - n.from) \div Recheck
    BY DEF InTime
  <2>1. n.from <= clock /\ n.stage >= 1 /\ n.stage <= (clock - n.from) \div Recheck
        /\ n.from \in Nat /\ n.stage \in Nat
    BY DEF InTime, Notes
  <2>2. (clock - n.from) \div Recheck <= (clock' - n.from) \div Recheck
    <3>1. PICK a, b : a = clock - n.from /\ b = clock' - n.from
      OBVIOUS
    <3>2. a \in Int /\ b \in Int /\ a <= b
      BY <1>3, <1>4, <2>1, <3>1
    <3>3. a \div Recheck <= b \div Recheck
      BY <3>2, SettingsAre, DivGrows
    <3> QED BY <3>1, <3>3
  <2>3. (clock - n.from) \div Recheck \in Int /\ (clock' - n.from) \div Recheck \in Int
    BY <1>4, <2>1, SettingsAre, Division
  <2> QED BY <1>3, <1>4, <2>1, <2>2, <2>3
<1>6. ToldOK'
  <2>1. told \in Seq([note : Notes, alone : BOOLEAN]) /\ ToldOK
    BY <1>2 DEF EscType, EscInv
  <2>2. ASSUME NEW i \in DOMAIN told PROVE InTime(told[i].note)'
    <3>1. told[i].note \in Notes /\ InTime(told[i].note)
      <4>1. told[i] \in [note : Notes, alone : BOOLEAN]
        BY <2>1, <2>2, Member
      <4> QED BY <2>1, <4>1 DEF ToldOK
    <3>2. PICK n : n = told[i].note
      OBVIOUS
    <3>3. InTime(n)'
      BY <1>5, <3>1, <3>2
    <3> QED BY <1>1, <3>2, <3>3 DEF InTime
  <2> QED BY <1>1, <2>1, <2>2 DEF ToldOK, InTime
<1>7. ASSUME NEW k \in Runs, RunOK(k) PROVE RunOK(k)'
  <2>1. k.now \in Nat /\ k.now <= clock /\ k.now <= clock'
    BY <1>3, <1>4, <1>7 DEF RunOK, Runs
  <2>2. \A i \in DOMAIN k.todo : InTime(k.todo[i])'
    <3>1. ASSUME NEW i \in DOMAIN k.todo PROVE InTime(k.todo[i])'
      <4>1. k.todo[i] \in Notes /\ InTime(k.todo[i])
        BY <1>7 DEF RunOK, Runs
      <4> QED BY <1>5, <4>1
    <3> QED BY <3>1
  <2>3. LookedFirst(k)'
    BY <1>1, <1>7 DEF RunOK, LookedFirst
  <2>4. \A x : Covered(k, x)' <=> Covered(k, x)
    BY <1>1 DEF Covered, WasTold, ToTell
  <2>5. \/ since' = since /\ (reason' = reason \/ reason' = "no")
        \/ since' > k.now
    BY <1>4, <2>1 DEF Block, Unblock, Clean, Release, Pass
  <2>6. BlockCovered(k)'
    <3>1. CASE since' > k.now
      BY <1>4, <2>1, <3>1, SettingsAre DEF BlockCovered
    <3>2. CASE since' = since /\ (reason' = reason \/ reason' = "no")
      BY <1>7, <2>4, <3>2 DEF RunOK, BlockCovered
    <3> QED BY <2>5, <3>1, <3>2
  <2>7. AtRisk(k.now)' => AtRisk(k.now)
    BY DEF AtRisk, Block, Unblock, Clean, Release, Pass
  <2>8. EtaCovered(k)'
    BY <1>7, <2>4, <2>7 DEF RunOK, EtaCovered
  <2> QED BY <2>1, <2>2, <2>3, <2>6, <2>8 DEF RunOK
<1>8. ASSUME NEW t \in Ticks PROVE RunOK(run[t])'
  <2>1. run[t] \in Runs /\ RunOK(run[t])
    BY EscTyped
  <2>2. PICK k : k = run[t]
    OBVIOUS
  <2>3. RunOK(k)'
    BY <1>7, <2>1, <2>2
  <2> QED BY <1>1, <2>2, <2>3 DEF RunOK, LookedFirst, BlockCovered, EtaCovered, InTime, Covered, WasTold, ToTell, AtRisk
<1> QED BY <1>3, <1>6, <1>8 DEF EscInv

-----------------------------------------------------------------------------
LEMMA EscInitInv == EscInit => EscInv
<1> SUFFICES ASSUME EscInit PROVE EscInv
  OBVIOUS
<1>1. EscType
  <2>1. IdleRun \in Runs
    BY DEF IdleRun, Runs
  <2>2. /\ clock = 0 /\ since = 0 /\ reason = "no" /\ released = FALSE /\ told = <<>>
        /\ run = [t \in Ticks |-> IdleRun]
    BY DEF EscInit
  <2>3. run \in [Ticks -> Runs] /\ told \in Seq([note : Notes, alone : BOOLEAN])
    BY <2>1, <2>2
  <2>4. clock \in Nat /\ since \in Nat /\ since <= clock
    BY <2>2
  <2>5. reason \in {"no", "DND", "other"} /\ released \in BOOLEAN
    BY <2>2
  <2> QED BY <2>3, <2>4, <2>5 DEF EscType
<1>2. ToldOK
  BY DEF EscInit, ToldOK
<1>3. \A t \in Ticks : RunOK(run[t])
  BY <1>1, IdleRunOK DEF EscInit
<1> QED BY <1>1, <1>2, <1>3 DEF EscInv

LEMMA EscNextInv == EscInv /\ [EscNext]_escVars => EscInv'
<1> SUFFICES ASSUME EscInv, [EscNext]_escVars PROVE EscInv'
  OBVIOUS
<1>1. ASSUME NEW t \in Ticks,
             \/ StartRun(t) \/ FindBlocked(t) \/ FindArrivals(t) \/ FindQueue(t)
             \/ Look(t) \/ Create(t) \/ EndRun(t) \/ Fails(t)
      PROVE  EscInv'
  BY <1>1, StartRunInv, FindBlockedInv, FindInv, LookInv, CreateInv, EndRunInv
<1>2. CASE Block \/ Unblock \/ Clean \/ Release \/ Pass
  BY <1>2, WorldInv
<1>3. CASE UNCHANGED escVars
  BY <1>3 DEF escVars, EscInv, EscType, ToldOK, RunOK, LookedFirst, BlockCovered, EtaCovered, InTime,
              Covered, WasTold, ToTell, AtRisk
<1> QED BY <1>1, <1>2, <1>3 DEF EscNext

\* A stretch of a block has at most as many re-checks as intervals have gone by.
LEMMA OncePerInterval ==
  ASSUME EscInv, NEW s \in 1..clock
  PROVE  Cardinality({told[i].note : i \in ToldOf("recheck", s)}) <= (clock - s) \div Recheck
<1> DEFINE T == {told[i].note : i \in ToldOf("recheck", s)}
           m == (clock - s) \div Recheck
           f == [n \in T |-> n.stage]
<1>1. clock \in Nat /\ s \in Nat /\ clock - s \in Nat
  BY DEF EscInv, EscType
<1>2. m \in Nat
  <2>1. 0 \div Recheck = 0
    BY SettingsAre
  <2> QED BY <1>1, <2>1, SettingsAre, Division, DivGrows
<1>3. \A n \in T : n \in Notes /\ n.kind = "recheck" /\ n.from = s /\ n.stage \in 1..m
  <2> SUFFICES ASSUME NEW i \in ToldOf("recheck", s)
               PROVE  LET n == told[i].note
                      IN n \in Notes /\ n.kind = "recheck" /\ n.from = s /\ n.stage \in 1..m
    OBVIOUS
  <2>1. i \in DOMAIN told /\ told[i].note.kind = "recheck" /\ told[i].note.from = s
    BY DEF ToldOf
  <2>2. told[i].note \in Notes
    <3>1. told[i] \in [note : Notes, alone : BOOLEAN]
      BY <2>1, Member DEF EscInv, EscType
    <3> QED BY <3>1
  <2>3. InTime(told[i].note)
    BY <2>1 DEF EscInv, ToldOK
  <2> QED BY <1>2, <2>1, <2>2, <2>3 DEF InTime, Notes
<1> HIDE DEF T, m
<1>4. f \in Injection(T, 1..m)
  <2>1. f \in [T -> 1..m]
    BY <1>3
  <2>2. \A a, b \in T : f[a] = f[b] => a = b
    BY <1>3 DEF Notes
  <2> QED BY <2>1, <2>2 DEF Injection, IsInjective
<1>5. IsFiniteSet(1..m) /\ Cardinality(1..m) = m
  BY <1>2, FS_Interval
<1> QED BY <1>4, <1>5, FS_Injection DEF T, m

\* A run that ends has told what is still due.
LEMMA EndTold ==
  ASSUME EscInv, [EscNext]_escVars, NEW t \in Ticks, run[t].at = "end", run'[t] = IdleRun
  PROVE  DueTold(t)
<1>1. run[t] \in Runs /\ RunOK(run[t]) /\ run \in [Ticks -> Runs]
  BY EscTyped DEF EscInv, EscType
<1>2. run[t].todo = <<>>
  <2>1. IdleRun.at = "idle"
    BY DEF IdleRun
  <2>2. ASSUME NEW u \in Ticks, Look(u) \/ Create(u) PROVE run'[t].at = run[t].at
    <3> DEFINE found == Known(Head(run[u].todo))
               k == [run[u] EXCEPT !.looked = ~found, !.todo = IF found THEN Tail(@) ELSE @]
               j == [run[u] EXCEPT !.looked = FALSE, !.todo = Tail(@)]
    <3>1. k.at = run[u].at /\ j.at = run[u].at
      BY <1>1 DEF Runs
    <3>2. CASE Look(u)
      <4>1. run' = [run EXCEPT ![u] = k]
        BY <3>2 DEF Look
      <4> HIDE DEF k
      <4> QED BY <1>1, <3>1, <4>1
    <3>3. CASE Create(u)
      <4>1. run' = [run EXCEPT ![u] = j]
        BY <3>3 DEF Create
      <4> HIDE DEF j
      <4> QED BY <1>1, <3>1, <4>1
    <3> QED BY <2>2, <3>2, <3>3
  <2>3. ASSUME NEW u \in Ticks, StartRun(u) \/ FindBlocked(u) \/ FindArrivals(u) \/ FindQueue(u) \/ Fails(u)
        PROVE  run'[t] = run[t]
    BY <1>1, <2>3 DEF StartRun, FindBlocked, FindArrivals, FindQueue, Finds, Fails
  <2>4. ASSUME NEW u \in Ticks, EndRun(u) PROVE u = t \/ run'[t] = run[t]
    BY <1>1, <2>4 DEF EndRun
  <2>5. ASSUME Block \/ Unblock \/ Clean \/ Release \/ Pass \/ UNCHANGED escVars
        PROVE  run'[t] = run[t]
    BY <2>5 DEF Block, Unblock, Clean, Release, Pass, escVars
  <2>6. EndRun(t)
    <3> SUFFICES ASSUME ~EndRun(t) PROVE FALSE
      OBVIOUS
    <3>1. run'[t].at = "idle"
      BY <2>1
    <3>2. PICK u \in Ticks : \/ StartRun(u) \/ FindBlocked(u) \/ FindArrivals(u) \/ FindQueue(u)
                             \/ Look(u) \/ Create(u) \/ EndRun(u) \/ Fails(u)
      BY <2>1, <2>5, <3>1 DEF EscNext
    <3>3. run'[t].at = run[t].at
      BY <2>2, <2>3, <2>4, <3>2
    <3> QED BY <3>1, <3>3
  <2> QED BY <2>6 DEF EndRun
<1>3. \A n : Covered(run[t], n) => WasTold(n)
  BY <1>2 DEF Covered, ToTell
<1> DEFINE age == run[t].now - since
<1>4. /\ reason = "DND" /\ age >= Welfare => WasTold(Note("welfare", since, 0))
      /\ reason # "no" /\ age >= Recheck => WasTold(Note("recheck", since, age \div Recheck))
      /\ AtRisk(run[t].now) => WasTold(Note("eta", 0, 0))
  BY <1>1, <1>3 DEF RunOK, BlockCovered, EtaCovered
<1> HIDE DEF age
<1>5. \A n : WasTold(n) => \E i \in ToldOf(n.kind, n.from) : told[i].note = n
  BY DEF WasTold, ToldOf
<1>6. /\ reason = "DND" /\ age >= Welfare => ToldOf("welfare", since) # {}
      /\ AtRisk(run[t].now) => ToldOf("eta", 0) # {}
  BY <1>4, <1>5 DEF Note
<1>7. reason # "no" /\ age >= Recheck =>
        \E i \in ToldOf("recheck", since) : told[i].note.stage = age \div Recheck
  BY <1>4, <1>5 DEF Note
<1> QED BY <1>6, <1>7 DEF DueTold, age

\* Nothing is told twice but by runs that were about to create it at once, no stretch of a
\* block has more re-checks than intervals, and a run that ends leaves nothing due untold,
\* for any number of runs and any settings.
THEOREM EscalationsSound == EscInit /\ [][EscNext]_escVars => EscalationsTold
<1>1. EscInv /\ [EscNext]_escVars =>
        [ToldOnce /\ \A t \in Ticks : run[t].at = "end" /\ run'[t] = IdleRun => DueTold(t)]_escVars
  <2> SUFFICES ASSUME EscInv, [EscNext]_escVars
               PROVE  ToldOnce /\ \A t \in Ticks : run[t].at = "end" /\ run'[t] = IdleRun => DueTold(t)
    OBVIOUS
  <2>1. ToldOnce
    BY OncePerInterval DEF ToldOnce, EscInv, ToldOK
  <2> QED BY <2>1, EndTold
<1> QED BY <1>1, EscInitInv, EscNextInv, PTL DEF EscalationsTold

-----------------------------------------------------------------------------
(***************************************************************************)
(* The morning plan.  What an order sorts has each of its elements once;   *)
(* what has been cut so far, and what is still to be walked, is the        *)
(* workload in walking order; and no two attendants are given one round.   *)
(***************************************************************************)

Below(R, S, x) == {q \in S : <<q, x>> \in R}
Rank(R, S) == [x \in S |-> Cardinality(Below(R, S, x))]

StrictOrder(R, S) ==
  /\ \A x \in S : <<x, x>> \notin R
  /\ \A x, y, z \in S : <<x, y>> \in R /\ <<y, z>> \in R => <<x, z>> \in R
  /\ \A x, y \in S : x # y => <<x, y>> \in R \/ <<y, x>> \in R

\* The elements of a finite set are ranked from 0 up, each with a rank of its own.
LEMMA Ranked ==
  ASSUME NEW S, IsFiniteSet(S), NEW R, StrictOrder(R, S)
  PROVE  /\ Rank(R, S) \in Bijection(S, 0..(Cardinality(S) - 1))
         /\ \A x, y \in S : <<x, y>> \in R <=> Rank(R, S)[x] < Rank(R, S)[y]
<1> DEFINE n == Cardinality(S)
           rank == Rank(R, S)
<1>1. n \in Nat
  BY FS_CardinalityType
<1>2. \A x \in S : /\ IsFiniteSet(Below(R, S, x)) /\ Below(R, S, x) \subseteq S
                   /\ rank[x] = Cardinality(Below(R, S, x)) /\ rank[x] \in Nat
  BY FS_Subset, FS_CardinalityType DEF Below, Rank
<1>3. \A x \in S : rank[x] < n
  <2> SUFFICES ASSUME NEW x \in S PROVE rank[x] < n
    OBVIOUS
  <2>1. x \notin Below(R, S, x)
    BY DEF Below, StrictOrder
  <2>2. Cardinality(Below(R, S, x)) <= n /\ Cardinality(Below(R, S, x)) # n
    BY <1>2, <2>1, FS_Subset
  <2> QED BY <1>1, <1>2, <2>2
<1>4. ASSUME NEW x \in S, NEW y \in S, <<x, y>> \in R PROVE rank[x] < rank[y]
  <2>1. Below(R, S, x) \subseteq Below(R, S, y)
    BY <1>4 DEF Below, StrictOrder
  <2>2. x \in Below(R, S, y) /\ x \notin Below(R, S, x)
    BY <1>4 DEF Below, StrictOrder
  <2>3. /\ Cardinality(Below(R, S, x)) <= Cardinality(Below(R, S, y))
        /\ Cardinality(Below(R, S, x)) # Cardinality(Below(R, S, y))
    BY <1>2, <2>1, <2>2, FS_Subset
  <2> QED BY <1>2, <2>3
<1>5. \A x, y \in S : x = y \/ <<x, y>> \in R \/ <<y, x>> \in R
  BY DEF StrictOrder
<1>6. ASSUME NEW x \in S, NEW y \in S
      PROVE  (rank[x] < rank[y] => <<x, y>> \in R) /\ (rank[x] = rank[y] => x = y)
  <2>1. rank[x] \in Nat /\ rank[y] \in Nat
    BY <1>2
  <2>2. (<<x, y>> \in R => rank[x] < rank[y]) /\ (<<y, x>> \in R => rank[y] < rank[x])
    BY <1>4
  <2> HIDE DEF rank
  <2> QED BY <1>5, <2>1, <2>2
<1>7. rank \in Injection(S, 0..(n - 1))
  <2>1. rank = [x \in S |-> rank[x]]
    BY DEF Rank
  <2> HIDE DEF rank, n
  <2>2. \A x \in S : rank[x] \in 0..(n - 1)
    BY <1>1, <1>2, <1>3
  <2>3. rank \in [S -> 0..(n - 1)]
    BY <2>1, <2>2
  <2> QED BY <1>6, <2>3 DEF Injection, IsInjective
<1>8. IsFiniteSet(0..(n - 1)) /\ Cardinality(0..(n - 1)) = n
  BY SMTT(60), <1>1, FS_Interval
<1>9. rank \in Surjection(S, 0..(n - 1))
  BY <1>7, <1>8, FS_Injection
<1> QED BY <1>4, <1>6, <1>7, <1>9 DEF Bijection

InRankOf(R, S) ==
  [i \in 1..Cardinality(S) |-> CHOOSE r \in S : Cardinality(Below(R, S, r)) = i - 1]

\* Sorting lists each element once, in order.
LEMMA Sorted ==
  ASSUME NEW S, IsFiniteSet(S), NEW R, StrictOrder(R, S), NEW s, s = InRankOf(R, S)
  PROVE  /\ Cardinality(S) \in Nat /\ DOMAIN s = 1..Cardinality(S)
         /\ \A i \in DOMAIN s : s[i] \in S
         /\ \A r \in S : \E i \in DOMAIN s : s[i] = r
         /\ \A i, j \in DOMAIN s : i < j => <<s[i], s[j]>> \in R
<1> DEFINE n == Cardinality(S)
<1>1. n \in Nat
  BY FS_CardinalityType
<1>2. /\ Rank(R, S) \in [S -> 0..(n - 1)]
      /\ \A k \in 0..(n - 1) : \E r \in S : Rank(R, S)[r] = k
      /\ \A x, y \in S : Rank(R, S)[x] = Rank(R, S)[y] => x = y
  BY Ranked DEF Bijection, Injection, Surjection, IsInjective
<1>3. \A r \in S : Rank(R, S)[r] = Cardinality(Below(R, S, r))
  BY DEF Rank
<1> HIDE DEF n
<1>4. ASSUME NEW i \in 1..n PROVE s[i] \in S /\ Rank(R, S)[s[i]] = i - 1
  <2>1. \E r \in S : Cardinality(Below(R, S, r)) = i - 1
    BY <1>1, <1>2, <1>3
  <2>2. s[i] = CHOOSE r \in S : Cardinality(Below(R, S, r)) = i - 1
    BY DEF n, InRankOf
  <2>3. s[i] \in S /\ Cardinality(Below(R, S, s[i])) = i - 1
    BY <2>1, <2>2
  <2> QED BY <1>3, <2>3
<1>5. DOMAIN s = 1..n
  BY DEF n, InRankOf
<1>6. ASSUME NEW r \in S PROVE \E i \in 1..n : s[i] = r
  <2>1. Rank(R, S)[r] \in 0..(n - 1)
    BY <1>2
  <2>2. PICK i \in 1..n : i - 1 = Rank(R, S)[r]
    <3>1. Rank(R, S)[r] + 1 \in 1..n /\ (Rank(R, S)[r] + 1) - 1 = Rank(R, S)[r]
      BY <1>1, <2>1
    <3> QED BY <3>1
  <2>3. s[i] \in S /\ Rank(R, S)[s[i]] = Rank(R, S)[r]
    BY <1>4, <2>2
  <2> QED BY <1>2, <2>3
<1>7. ASSUME NEW i \in 1..n, NEW j \in 1..n, i < j PROVE <<s[i], s[j]>> \in R
  <2>1. Rank(R, S)[s[i]] < Rank(R, S)[s[j]] /\ s[i] \in S /\ s[j] \in S
    BY <1>1, <1>4, <1>7
  <2> QED BY <2>1, Ranked
<1> QED BY <1>1, <1>4, <1>5, <1>6, <1>7 DEF n

-----------------------------------------------------------------------------
Smaller == {p \in Nat \X Nat : p[1] < p[2]}
Urgency == {p \in Keys \X Keys : MoreUrgent(p[1], p[2])}
Keeping == {p \in Keys \X Keys : KeptBefore(p[1], p[2])}

ScoresKnown == \A r \in Keys : Score(house[r]) \in Int

LEMMA OrdersAre ==
  /\ \A S \in SUBSET Nat : StrictOrder(Smaller, S)
  /\ ScoresKnown => \A S \in SUBSET Keys : StrictOrder(Urgency, S) /\ StrictOrder(Keeping, S)
<1>1. ASSUME NEW S \in SUBSET Nat PROVE StrictOrder(Smaller, S)
  <2>1. \A x, y \in S : <<x, y>> \in Smaller <=> x < y
    BY DEF Smaller
  <2> QED BY <2>1 DEF StrictOrder
<1>2. ASSUME ScoresKnown, NEW S \in SUBSET Keys PROVE StrictOrder(Urgency, S)
  <2> DEFINE score(r) == Score(house[r])
  <2>1. \A x \in S : x \in Nat /\ score(x) \in Int
    BY <1>2, NumbersAssumption DEF ScoresKnown
  <2>2. \A x, y \in S :
          <<x, y>> \in Urgency <=> score(x) > score(y) \/ (score(x) = score(y) /\ x < y)
    BY DEF Urgency, MoreUrgent
  <2> HIDE DEF score
  <2> QED BY <2>1, <2>2 DEF StrictOrder
<1>3. ASSUME ScoresKnown, NEW S \in SUBSET Keys PROVE StrictOrder(Keeping, S)
  <2>1. \A x, y \in S : <<x, y>> \in Keeping <=>
          (UrgentTurnover(x) /\ ~UrgentTurnover(y))
          \/ ((UrgentTurnover(x) <=> UrgentTurnover(y)) /\ <<x, y>> \in Urgency)
    BY DEF Keeping, KeptBefore, Urgency
  <2>2. StrictOrder(Urgency, S)
    BY <1>2, <1>3
  <2> QED BY <2>1, <2>2 DEF StrictOrder
<1> QED BY <1>1, <1>2, <1>3

Of(s) == {s[i] : i \in DOMAIN s}

LEMMA InRooms == \A c : RoomsIn(c) = UNION {Of(c[i]) : i \in DOMAIN c}
BY DEF RoomsIn, Of

LEMMA OrderedNumbers ==
  ASSUME NEW S \in SUBSET Keys
  PROVE  /\ Ordered(S, <) \in Seq(Keys) /\ Of(Ordered(S, <)) = S
         /\ \A i, j \in DOMAIN Ordered(S, <) : i < j => Ordered(S, <)[i] < Ordered(S, <)[j]
<1> DEFINE s == Ordered(S, <)
<1>1. IsFiniteSet(S) /\ StrictOrder(Smaller, S) /\ S \subseteq Nat
  BY NumbersAssumption, FS_Subset, OrdersAre
<1>2. \A r \in S : {q \in S : q < r} = Below(Smaller, S, r)
  BY <1>1 DEF Below, Smaller
<1>3. s = [i \in 1..Cardinality(S) |-> CHOOSE r \in S : Cardinality({q \in S : q < r}) = i - 1]
  BY DEF Ordered
<1>4. s = InRankOf(Smaller, S)
  BY <1>2, <1>3 DEF InRankOf
<1> HIDE DEF s
<1>5. /\ Cardinality(S) \in Nat /\ DOMAIN s = 1..Cardinality(S)
      /\ \A i \in DOMAIN s : s[i] \in S
      /\ \A r \in S : \E i \in DOMAIN s : s[i] = r
      /\ \A i, j \in DOMAIN s : i < j => <<s[i], s[j]>> \in Smaller
  BY <1>1, <1>4, Sorted
<1>6. s = [i \in 1..Cardinality(S) |-> s[i]]
  BY <1>4 DEF InRankOf
<1>7. s \in Seq(Keys)
  BY <1>5, <1>6
<1>8. Of(s) = S
  BY <1>5 DEF Of
<1>9. \A i, j \in DOMAIN s : i < j => s[i] < s[j]
  BY <1>5 DEF Smaller
<1> QED BY <1>7, <1>8, <1>9 DEF s

LEMMA OrderedUrgent ==
  ASSUME ScoresKnown, NEW S \in SUBSET Keys
  PROVE  /\ Len(Ordered(S, MoreUrgent)) = Cardinality(S)
         /\ Of(Ordered(S, MoreUrgent)) = S
<1> DEFINE s == Ordered(S, MoreUrgent)
<1>1. IsFiniteSet(S) /\ StrictOrder(Urgency, S)
  BY NumbersAssumption, FS_Subset, OrdersAre
<1>2. \A r \in S : {q \in S : MoreUrgent(q, r)} = Below(Urgency, S, r)
  BY DEF Below, Urgency
<1>3. s = [i \in 1..Cardinality(S) |->
             CHOOSE r \in S : Cardinality({q \in S : MoreUrgent(q, r)}) = i - 1]
  BY DEF Ordered
<1>4. s = InRankOf(Urgency, S)
  BY <1>2, <1>3 DEF InRankOf
<1> HIDE DEF s
<1>5. /\ Cardinality(S) \in Nat /\ DOMAIN s = 1..Cardinality(S)
      /\ \A i \in DOMAIN s : s[i] \in S
      /\ \A r \in S : \E i \in DOMAIN s : s[i] = r
  BY <1>1, <1>4, Sorted
<1>6. s = [i \in 1..Cardinality(S) |-> s[i]]
  BY <1>4 DEF InRankOf
<1>7. s \in Seq(S) /\ Len(s) = Cardinality(S)
  BY <1>5, <1>6
<1>8. Of(s) = S
  BY <1>5 DEF Of
<1> QED BY <1>7, <1>8 DEF s

-----------------------------------------------------------------------------
\* What is put off, once it has been decided.
PutOff ==
  deferred = {r \in Workable : ~(Cardinality(Below(Keeping, Workable, r)) < PoolMax * RoomsMin)}

\* Rounds in walking order.
Apart(c) ==
  \A i, j \in DOMAIN c : i < j => \A q \in Of(c[i]), r \in Of(c[j]) : q < r

Walked ==
  /\ walk \in Seq(Keys) /\ \A i, j \in DOMAIN walk : i < j => walk[i] < walk[j]
  /\ cuts \in Seq(Seq(Keys)) /\ Len(cuts) >= 1 /\ Len(cuts) <= Cardinality(team)
  /\ Apart(cuts)
  /\ \A q \in RoomsIn(cuts), r \in Of(walk) : q < r
  /\ RoomsIn(cuts) \cup Of(walk) = Workload

\* Nobody has two rounds, and no round two attendants.
Chosen ==
  /\ asking \subseteq team /\ roundFor \subseteq team \X (1..Cardinality(team))
  /\ \A p \in roundFor : p[1] \notin asking
  /\ \A p, q \in roundFor : p[1] = q[1] \/ p[2] = q[2] => p = q

MInv ==
  /\ team \subseteq Nat /\ IsFiniteSet(team)
  /\ stage \in {"ask", "classify", "defer", "cut", "hand out", "told"}
  /\ stage # "ask" => ScoresKnown
  /\ stage \in {"cut", "hand out", "told"} => PutOff
  /\ stage \in {"cut", "hand out"} /\ team # {} => Walked
  /\ stage \in {"ask", "classify", "defer", "cut"} => roundFor = {}
  /\ stage = "hand out" => Chosen /\ (team # {} => walk = <<>>)
  /\ RoundsComplete

LEMMA MorningStarts == MorningInit => MInv
BY FS_EmptySet DEF MorningInit, MInv, RoundsComplete

-----------------------------------------------------------------------------
\* Rooms are put off from the end of the order in which they are kept.
LEMMA PutOffUrgent == ASSUME ScoresKnown, PutOff PROVE UrgentFirst
<1> DEFINE S == Workable
           n == PoolMax * RoomsMin
           rank == Rank(Keeping, S)
           kept == {r \in S : rank[r] < n}
<1>1. S \subseteq Keys /\ IsFiniteSet(S) /\ StrictOrder(Keeping, S)
  <2>1. S \subseteq Keys
    BY DEF Workable, Relevant
  <2> QED BY <2>1, NumbersAssumption, FS_Subset, OrdersAre
<1>2. n \in Nat
  BY PoolAssumption
<1>3. \A r \in S : rank[r] = Cardinality(Below(Keeping, S, r))
  BY DEF Rank
<1>6. deferred = S \ kept
  BY <1>3 DEF PutOff
<1>7. /\ Cardinality(S) \in Nat
      /\ rank \in [S -> 0..(Cardinality(S) - 1)]
      /\ \A k \in 0..(Cardinality(S) - 1) : \E r \in S : rank[r] = k
      /\ \A x, y \in S : rank[x] = rank[y] => x = y
      /\ \A x, y \in S : <<x, y>> \in Keeping <=> rank[x] < rank[y]
  BY <1>1, Ranked, FS_CardinalityType DEF Bijection, Injection, Surjection, IsInjective
<1>8. \A x, y \in S : <<x, y>> \in Keeping <=> KeptBefore(x, y)
  BY <1>1 DEF Keeping
<1> HIDE DEF n, rank, S
<1>9. ASSUME deferred # {} PROVE Cardinality(S \ deferred) = n
  <2>1. PICK r \in S : ~(rank[r] < n)
    BY <1>6, <1>9
  <2>2. n <= Cardinality(S) - 1
    BY <1>2, <1>7, <2>1
  <2>3. S \ deferred = kept
    BY <1>6
  <2> DEFINE f == [x \in kept |-> rank[x]]
  <2>4. f \in [kept -> 0..(n - 1)]
    BY <1>2, <1>7
  <2>5. \A k \in 0..(n - 1) : \E x \in kept : f[x] = k
    <3> SUFFICES ASSUME NEW k \in 0..(n - 1) PROVE \E x \in kept : f[x] = k
      OBVIOUS
    <3>1. k \in 0..(Cardinality(S) - 1) /\ k < n
      BY <1>2, <1>7, <2>2
    <3>2. PICK x \in S : rank[x] = k
      BY <1>7, <3>1
    <3>3. x \in kept /\ f[x] = k
      BY <3>1, <3>2
    <3> QED BY <3>3
  <2>6. \A x, y \in kept : f[x] = f[y] => x = y
    BY <1>7
  <2> HIDE DEF kept, f
  <2>7. f \in Bijection(kept, 0..(n - 1))
    BY <2>4, <2>5, <2>6 DEF Bijection, Injection, Surjection, IsInjective
  <2>8. IsFiniteSet(kept)
    BY <1>1, FS_Subset DEF kept
  <2>9. Cardinality(0..(n - 1)) = n
    BY <1>2, FS_Interval
  <2>10. Cardinality(0..(n - 1)) = Cardinality(kept)
    BY <2>7, <2>8, FS_Bijection DEF ExistsBijection
  <2> QED BY <2>3, <2>9, <2>10
<1>10. ASSUME NEW r \in deferred, NEW q \in S \ deferred
       PROVE  /\ UrgentTurnover(r) => UrgentTurnover(q)
              /\ (UrgentTurnover(q) <=> UrgentTurnover(r)) => Score(house[q]) >= Score(house[r])
  <2>1. r \in S /\ q \in S /\ rank[q] < n /\ ~(rank[r] < n)
    BY <1>6
  <2>2. ~(rank[r] < rank[q])
    BY <1>2, <1>7, <2>1
  <2>3. ~KeptBefore(r, q)
    BY <1>7, <1>8, <2>1, <2>2
  <2>4. Score(house[q]) \in Int /\ Score(house[r]) \in Int
    BY <1>1, <2>1 DEF ScoresKnown
  <2> QED BY <2>3, <2>4 DEF KeptBefore, MoreUrgent
<1> QED BY <1>9, <1>10 DEF UrgentFirst, n, S

\* What is known of the rooms stands once the departures are settled.
LEMMA RoomsStand ==
  ASSUME UNCHANGED <<house, departures>>
  PROVE  /\ Workable' = Workable /\ Keeping' = Keeping /\ (ScoresKnown => ScoresKnown')
         /\ deferred' = deferred => Workload' = Workload /\ (PutOff => PutOff')
                                    /\ (UrgentFirst => UrgentFirst')
<1>1. Workable' = Workable
  BY DEF Workable, Relevant
<1>2. /\ \A q, r : MoreUrgent(q, r)' = MoreUrgent(q, r)
      /\ \A r : UrgentTurnover(r)' = UrgentTurnover(r)
  BY DEF MoreUrgent, UrgentTurnover
<1>3. \A q, r : KeptBefore(q, r)' = KeptBefore(q, r)
  BY <1>2 DEF KeptBefore
<1>4. Keeping' = Keeping
  BY <1>3 DEF Keeping
<1>5. ScoresKnown => ScoresKnown'
  BY DEF ScoresKnown
<1>6. ASSUME deferred' = deferred
      PROVE  Workload' = Workload /\ (PutOff => PutOff') /\ (UrgentFirst => UrgentFirst')
  BY <1>1, <1>2, <1>4, <1>6 DEF Workload, PutOff, UrgentFirst, Below
<1> QED BY <1>1, <1>4, <1>5, <1>6

LEMMA AskKeeps == ASSUME MInv, Ask PROVE MInv'
<1>1. /\ stage = "ask" /\ stage' = "classify" /\ house' \in Houses /\ team' \in Teams
      /\ roundFor' = roundFor
  BY DEF Ask
<1>2. team' \subseteq Nat /\ IsFiniteSet(team') /\ ScoresKnown'
  BY <1>1, NumbersAssumption DEF ScoresKnown
<1> QED BY <1>1, <1>2 DEF MInv, RoundsComplete

LEMMA ClassifyKeeps == ASSUME MInv, Classify PROVE MInv'
<1>1. /\ stage = "classify" /\ stage' = "defer"
      /\ UNCHANGED <<house, team, roundFor>>
  BY DEF Classify
<1> QED BY <1>1 DEF MInv, RoundsComplete, ScoresKnown

LEMMA DeferKeeps == ASSUME MInv, Defer PROVE MInv'
<1>1. /\ stage = "defer" /\ stage' = "cut"
      /\ UNCHANGED <<house, team, figure, departures, asking, roundFor, lists>>
      /\ deferred' = Workable \ FirstOf(PoolMax * RoomsMin, Workable, KeptBefore)
      /\ walk' = IF team = {} THEN <<>> ELSE Ordered(Workload', <)
      /\ cuts' = <<<<>>>>
  BY DEF Defer
<1>2. /\ ScoresKnown' /\ roundFor' = {} /\ team' = team /\ team \subseteq Nat
      /\ IsFiniteSet(team)
  BY <1>1 DEF MInv, ScoresKnown
<1>3. PutOff'
  <2>1. \A r \in Workable : {q \in Workable : KeptBefore(q, r)} = Below(Keeping, Workable, r)
    BY DEF Below, Keeping, Workable, Relevant
  <2>2. FirstOf(PoolMax * RoomsMin, Workable, KeptBefore)
        = {r \in Workable : Cardinality({q \in Workable : KeptBefore(q, r)}) < PoolMax * RoomsMin}
    BY DEF FirstOf
  <2>3. deferred' = {r \in Workable :
                       ~(Cardinality(Below(Keeping, Workable, r)) < PoolMax * RoomsMin)}
    BY <1>1, <2>1, <2>2
  <2>4. Workable' = Workable /\ Keeping' = Keeping
    BY <1>1, RoomsStand
  <2> QED BY <2>3, <2>4 DEF PutOff, Below
<1>4. ASSUME team # {} PROVE Walked'
  <2>1. PICK W : W = Workload' /\ W \subseteq Keys
    BY <1>1 DEF Workload, Workable, Relevant
  <2>2. walk' = Ordered(W, <)
    BY <1>1, <1>4, <2>1
  <2>3. /\ walk' \in Seq(Keys) /\ Of(walk') = W
        /\ \A i, j \in DOMAIN walk' : i < j => walk'[i] < walk'[j]
    BY <2>1, <2>2, OrderedNumbers
  <2>4. /\ cuts' \in Seq(Seq(Keys)) /\ Len(cuts') = 1 /\ DOMAIN cuts' = 1..1 /\ cuts'[1] = <<>>
    <3>1. <<>> \in Seq(Keys) /\ Len(<<<<>>>>) = 1 /\ <<<<>>>>[1] = <<>> /\ DOMAIN <<<<>>>> = 1..1
      OBVIOUS
    <3>2. <<<<>>>> \in Seq(Seq(Keys))
      BY <3>1
    <3> QED BY <1>1, <3>1, <3>2
  <2>5. RoomsIn(cuts') = {} /\ Apart(cuts')
    <3>1. Of(<<>>) = {}
      BY DEF Of
    <3>2. \A i \in DOMAIN cuts' : Of(cuts'[i]) = {}
      BY <2>4, <3>1
    <3>3. RoomsIn(cuts') = {}
      BY <3>2, InRooms
    <3> QED BY <3>2, <3>3 DEF Apart
  <2>6. Cardinality(team) \in Nat /\ Cardinality(team) # 0
    BY <1>2, <1>4, FS_EmptySet, FS_CardinalityType
  <2> QED BY <1>2, <2>1, <2>3, <2>4, <2>5, <2>6 DEF Walked
<1> QED BY <1>1, <1>2, <1>3, <1>4 DEF MInv, RoundsComplete

-----------------------------------------------------------------------------
LEMMA Heads ==
  ASSUME NEW s \in Seq(Keys), s # <<>>, \A i, j \in DOMAIN s : i < j => s[i] < s[j]
  PROVE  /\ Head(s) \in Keys /\ Tail(s) \in Seq(Keys)
         /\ Of(s) = {Head(s)} \cup Of(Tail(s))
         /\ \A r \in Of(Tail(s)) : Head(s) < r
         /\ \A i, j \in DOMAIN Tail(s) : i < j => Tail(s)[i] < Tail(s)[j]
<1>1. Len(s) \in Nat /\ Len(s) >= 1 /\ DOMAIN s = 1..Len(s) /\ Head(s) = s[1]
  OBVIOUS
<1>2. /\ Tail(s) \in Seq(Keys) /\ DOMAIN Tail(s) = 1..(Len(s) - 1)
      /\ \A i \in 1..(Len(s) - 1) : Tail(s)[i] = s[i + 1]
  BY <1>1
<1>3. \A i \in 1..Len(s) : i = 1 \/ \E j \in 1..(Len(s) - 1) : Tail(s)[j] = s[i]
  <2> SUFFICES ASSUME NEW i \in 1..Len(s), i # 1
               PROVE  \E j \in 1..(Len(s) - 1) : Tail(s)[j] = s[i]
    OBVIOUS
  <2>1. i - 1 \in 1..(Len(s) - 1) /\ (i - 1) + 1 = i
    BY <1>1
  <2> QED BY <1>2, <2>1
<1>4. \A i \in 1..(Len(s) - 1) : i + 1 \in 1..Len(s) /\ 1 < i + 1 /\ 1 \in 1..Len(s)
  BY <1>1
<1> DEFINE t == Tail(s)
<1> HIDE DEF t
<1>5. /\ \A r \in Of(t) : \E i \in 1..(Len(s) - 1) : r = s[i + 1]
      /\ \A i \in 1..(Len(s) - 1) : s[i + 1] \in Of(t)
  BY <1>2 DEF Of, t
<1>6. Of(s) = {s[1]} \cup Of(t)
  <2>1. DOMAIN t = 1..(Len(s) - 1) /\ \A j \in 1..(Len(s) - 1) : t[j] \in Of(t)
    BY <1>2 DEF Of, t
  <2>2. ASSUME NEW i \in 1..Len(s) PROVE s[i] \in {s[1]} \cup Of(t)
    <3>1. CASE i = 1
      BY <3>1
    <3>2. CASE i # 1
      <4>1. PICK j \in 1..(Len(s) - 1) : t[j] = s[i]
        BY <1>3, <3>2 DEF t
      <4> QED BY <2>1, <4>1
    <3> QED BY <3>1, <3>2
  <2>3. \A i \in 1..Len(s) : s[i] \in Of(s)
    BY <1>1 DEF Of
  <2>4. 1 \in 1..Len(s)
    BY <1>1
  <2>5. \A r \in Of(t) : r \in Of(s)
    BY <1>4, <1>5, <2>3
  <2>6. \A r \in Of(s) : \E i \in 1..Len(s) : r = s[i]
    BY <1>1 DEF Of
  <2> QED BY <2>2, <2>3, <2>4, <2>5, <2>6
<1>7. \A r \in Of(t) : s[1] < r
  BY <1>1, <1>4, <1>5
<1>8. \A i, j \in 1..(Len(s) - 1) : i < j => t[i] < t[j]
  <2> SUFFICES ASSUME NEW i \in 1..(Len(s) - 1), NEW j \in 1..(Len(s) - 1), i < j
               PROVE  s[i + 1] < s[j + 1]
    BY <1>2 DEF t
  <2>1. i + 1 < j + 1 /\ i + 1 \in DOMAIN s /\ j + 1 \in DOMAIN s
    BY <1>1, <1>4
  <2> QED BY <2>1
<1> QED BY <1>1, <1>2, <1>6, <1>7, <1>8 DEF t

LEMMA Appended ==
  ASSUME NEW S, NEW s \in Seq(S), NEW x \in S
  PROVE  /\ Append(s, x) \in Seq(S) /\ Len(Append(s, x)) = Len(s) + 1
         /\ \A i \in DOMAIN s : Append(s, x)[i] = s[i]
         /\ Append(s, x)[Len(s) + 1] = x
         /\ DOMAIN Append(s, x) = 1..(Len(s) + 1)
         /\ Of(Append(s, x)) = Of(s) \cup {x}
<1>1. /\ Append(s, x) \in Seq(S) /\ Len(Append(s, x)) = Len(s) + 1
      /\ Append(s, x)[Len(s) + 1] = x
      /\ DOMAIN Append(s, x) = 1..(Len(s) + 1) /\ DOMAIN s = 1..Len(s) /\ Len(s) \in Nat
  OBVIOUS
<1>2. \A i \in DOMAIN s : Append(s, x)[i] = s[i]
  OBVIOUS
<1>3. Of(Append(s, x)) = Of(s) \cup {x}
  BY <1>1, <1>2 DEF Of
<1> QED BY <1>1, <1>2, <1>3

\* The next room is added behind all that have been walked.
LEMMA CutKeeps == ASSUME MInv, Cut PROVE MInv'
<1> DEFINE r == Head(walk)
           n == Len(cuts)
<1>1. /\ stage = "cut" /\ walk # <<>> /\ walk' = Tail(walk)
      /\ UNCHANGED <<house, team, figure, stage, departures, deferred, asking, roundFor, lists>>
      /\ \/ NewRound(Minutes(Head(walk))) /\ cuts' = Append(cuts, <<Head(walk)>>)
         \/ cuts' = [cuts EXCEPT ![Len(cuts)] = Append(@, Head(walk))]
  BY DEF Cut
<1>2. /\ team' \subseteq Nat /\ IsFiniteSet(team') /\ ScoresKnown' /\ roundFor' = {}
  BY <1>1 DEF MInv, ScoresKnown
<1>3. PutOff' /\ Workload' = Workload
  BY <1>1, RoomsStand DEF MInv
<1>4. ASSUME team # {} PROVE Walked'
  <2>1. Walked
    BY <1>1, <1>4 DEF MInv
  <2>2. /\ walk \in Seq(Keys) /\ r \in Keys /\ walk' \in Seq(Keys)
        /\ Of(walk) = {r} \cup Of(walk')
        /\ \A q \in Of(walk') : r < q
        /\ \A i, j \in DOMAIN walk' : i < j => walk'[i] < walk'[j]
    BY <1>1, <2>1, Heads DEF Walked
  <2> HIDE DEF r
  <2>3. /\ cuts \in Seq(Seq(Keys)) /\ n \in Nat /\ n >= 1 /\ n <= Cardinality(team)
        /\ DOMAIN cuts = 1..n /\ \A i \in 1..n : cuts[i] \in Seq(Keys)
        /\ Cardinality(team) \in Nat
    BY <1>2, <1>1, <2>1, FS_CardinalityType DEF Walked
  <2>4. \A i \in DOMAIN cuts : \A q \in Of(cuts[i]) : q < r /\ q \in RoomsIn(cuts)
    BY <2>1, <2>2, InRooms DEF Walked
  <2>5. CASE NewRound(Minutes(Head(walk))) /\ cuts' = Append(cuts, <<Head(walk)>>)
    <3>1. cuts' = Append(cuts, <<r>>) /\ n < Cardinality(team) /\ <<r>> \in Seq(Keys)
      BY <2>2, <2>5 DEF NewRound, r
    <3>2. Of(<<r>>) = {r}
      BY DEF Of
    <3> HIDE DEF n
    <3>3. /\ cuts' \in Seq(Seq(Keys)) /\ Len(cuts') = n + 1 /\ DOMAIN cuts' = 1..(n + 1)
          /\ \A i \in 1..n : cuts'[i] = cuts[i]
          /\ cuts'[n + 1] = <<r>>
      BY <2>3, <3>1, Appended DEF n
    <3>4. \A i \in 1..(n + 1) : i \in 1..n \/ i = n + 1
      BY <2>3
    <3>5. RoomsIn(cuts') = RoomsIn(cuts) \cup {r}
      <4>1. \A i \in 1..n : i \in 1..(n + 1) /\ Of(cuts'[i]) = Of(cuts[i])
        BY <2>3, <3>3
      <4>2. n + 1 \in 1..(n + 1) /\ Of(cuts'[n + 1]) = {r}
        BY <2>3, <3>2, <3>3
      <4>3. /\ RoomsIn(cuts') = UNION {Of(cuts'[i]) : i \in 1..(n + 1)}
            /\ RoomsIn(cuts) = UNION {Of(cuts[i]) : i \in 1..n}
        BY <2>3, <3>3, InRooms
      <4> QED BY <3>4, <4>1, <4>2, <4>3
    <3>6. Apart(cuts')
      <4> SUFFICES ASSUME NEW i \in 1..(n + 1), NEW j \in 1..(n + 1), i < j,
                          NEW p \in Of(cuts'[i]), NEW q \in Of(cuts'[j])
                   PROVE  p < q
        BY <3>3 DEF Apart
      <4>1. i \in 1..n
        BY <2>3
      <4>4. p \in Of(cuts[i]) /\ p < r
        BY <2>3, <2>4, <3>3, <4>1
      <4>2. CASE j = n + 1
        BY <3>2, <3>3, <4>4, <4>2
      <4>3. CASE j \in 1..n
        BY <2>1, <2>3, <3>3, <4>1, <4>3, <4>4 DEF Apart, Walked
      <4> QED BY <3>4, <4>2, <4>3
    <3>7. \A q \in RoomsIn(cuts'), x \in Of(walk') : q < x
      BY <2>1, <2>2, <3>5 DEF Walked
    <3>8. RoomsIn(cuts') \cup Of(walk') = Workload
      BY <2>1, <2>2, <3>5 DEF Walked
    <3>9. Len(cuts') >= 1 /\ Len(cuts') <= Cardinality(team)
      BY <2>3, <3>1, <3>3
    <3> QED BY <1>1, <1>3, <2>2, <3>3, <3>6, <3>7, <3>8, <3>9 DEF Walked
  <2>6. CASE cuts' = [cuts EXCEPT ![Len(cuts)] = Append(@, Head(walk))]
    <3>1. cuts' = [cuts EXCEPT ![n] = Append(cuts[n], r)]
      BY <2>6 DEF r
    <3> HIDE DEF n
    <3>2. /\ Append(cuts[n], r) \in Seq(Keys) /\ Of(Append(cuts[n], r)) = Of(cuts[n]) \cup {r}
      BY <2>2, <2>3, Appended
    <3>3. /\ cuts' \in Seq(Seq(Keys)) /\ Len(cuts') = n /\ DOMAIN cuts' = 1..n
          /\ \A i \in 1..n : i # n => cuts'[i] = cuts[i]
          /\ cuts'[n] = Append(cuts[n], r)
      <4>1. n \in 1..n /\ n = Len(cuts)
        BY <2>3 DEF n
      <4> DEFINE c == [cuts EXCEPT ![n] = Append(cuts[n], r)]
      <4>2. DOMAIN c = 1..n /\ c[n] = Append(cuts[n], r) /\ \A i \in 1..n : i # n => c[i] = cuts[i]
        BY <2>3, <4>1
      <4>3. c \in Seq(Seq(Keys)) /\ Len(c) = n
        BY <2>3, <3>2, <4>1
      <4> QED BY <3>1, <4>2, <4>3
    <3>4. RoomsIn(cuts') = RoomsIn(cuts) \cup {r}
      <4>1. \A i \in 1..n : i # n => Of(cuts'[i]) = Of(cuts[i])
        BY <3>3
      <4>2. n \in 1..n /\ Of(cuts'[n]) = Of(cuts[n]) \cup {r}
        BY <2>3, <3>2, <3>3
      <4>3. /\ RoomsIn(cuts') = UNION {Of(cuts'[i]) : i \in 1..n}
            /\ RoomsIn(cuts) = UNION {Of(cuts[i]) : i \in 1..n}
        BY <2>3, <3>3, InRooms
      <4> QED BY <4>1, <4>2, <4>3
    <3>5. Apart(cuts')
      <4> SUFFICES ASSUME NEW i \in 1..n, NEW j \in 1..n, i < j,
                          NEW p \in Of(cuts'[i]), NEW q \in Of(cuts'[j])
                   PROVE  p < q
        BY <3>3 DEF Apart
      <4>1. i # n
        BY <2>3
      <4>2. p \in Of(cuts[i]) /\ p < r
        BY <2>3, <2>4, <3>3, <4>1
      <4>3. q = r \/ q \in Of(cuts[j])
        BY <3>2, <3>3
      <4> QED BY <2>1, <2>3, <4>2, <4>3 DEF Apart, Walked
    <3>6. \A q \in RoomsIn(cuts'), x \in Of(walk') : q < x
      BY <2>1, <2>2, <3>4 DEF Walked
    <3>7. RoomsIn(cuts') \cup Of(walk') = Workload
      BY <2>1, <2>2, <3>4 DEF Walked
    <3> QED BY <1>1, <1>3, <2>2, <2>3, <3>3, <3>5, <3>6, <3>7 DEF Walked
  <2> QED BY <1>1, <2>5, <2>6
<1> QED BY <1>1, <1>2, <1>3, <1>4 DEF MInv, RoundsComplete

LEMMA CutDoneKeeps == ASSUME MInv, CutDone PROVE MInv'
<1>1. /\ stage = "cut" /\ walk = <<>> /\ stage' = "hand out" /\ asking' = team
      /\ UNCHANGED <<house, team, figure, departures, deferred, cuts, walk, target, roundFor, lists>>
  BY DEF CutDone
<1>2. PutOff' /\ Workload' = Workload
  BY <1>1, RoomsStand DEF MInv
<1>3. team # {} => Walked'
  <2> SUFFICES ASSUME team # {} PROVE Walked'
    OBVIOUS
  <2>1. Walked
    BY <1>1 DEF MInv
  <2>2. RoomsIn(cuts') = RoomsIn(cuts) /\ Of(walk') = Of(walk) /\ (Apart(cuts) => Apart(cuts'))
    BY <1>1
  <2> QED BY <1>1, <1>2, <2>1, <2>2 DEF Walked
<1>4. Chosen'
  BY <1>1 DEF MInv, Chosen
<1> QED BY <1>1, <1>2, <1>3, <1>4 DEF MInv, RoundsComplete, ScoresKnown

LEMMA ChooseKeeps == ASSUME MInv, Choose PROVE MInv'
<1>1. PICK a \in asking :
        /\ asking' = asking \ {a}
        /\ roundFor' = roundFor \cup ({a} \X BestRound(Prefers[a]))
  BY DEF Choose
<1>2. /\ stage = "hand out" /\ stage' = "hand out"
      /\ UNCHANGED <<house, team, figure, departures, deferred, cuts, walk, target, lists>>
  BY DEF Choose
<1> DEFINE N == Cardinality(team)
<1>3. Chosen /\ Walked /\ walk = <<>> /\ team # {} /\ N \in Nat
  BY <1>1, <1>2, FS_CardinalityType DEF MInv, Chosen
<1>4. PutOff' /\ Workload' = Workload /\ ScoresKnown'
  BY <1>2, RoomsStand DEF MInv
<1>5. Walked'
  <2>1. RoomsIn(cuts') = RoomsIn(cuts) /\ Of(walk') = Of(walk) /\ (Apart(cuts) => Apart(cuts'))
    BY <1>2
  <2> QED BY <1>2, <1>3, <1>4, <2>1 DEF Walked
<1>6. ASSUME NEW i \in FreeRounds, NEW s PROVE InSection(i, s) \in Nat
  <2>1. i \in 1..N
    BY DEF FreeRounds, Rounds
  <2>2. Rounds[i] \in Seq(Keys)
    BY <1>3, <2>1 DEF Rounds, Walked
  <2>3. IsFiniteSet(DOMAIN Rounds[i])
    <3>1. PICK m \in Nat : DOMAIN Rounds[i] = 1..m
      BY <2>2
    <3>2. IsFiniteSet(1..m)
      BY FS_Interval
    <3> QED BY <3>1, <3>2
  <2>4. IsFiniteSet({j \in DOMAIN Rounds[i] : SectionOf[Rounds[i][j]] = s})
    BY <2>3, FS_Subset
  <2> QED BY <2>4, FS_CardinalityType DEF InSection
<1>7. ASSUME NEW s, NEW i \in BestRound(s), NEW j \in BestRound(s) PROVE i = j
  <2>1. i \in FreeRounds /\ j \in FreeRounds /\ i \in Nat /\ j \in Nat
    BY DEF BestRound, FreeRounds, Rounds
  <2>2. InSection(i, s) <= InSection(j, s) /\ InSection(j, s) <= InSection(i, s)
    BY <2>1 DEF BestRound
  <2>3. InSection(i, s) = InSection(j, s)
    BY <1>6, <2>1, <2>2
  <2>4. i <= j /\ j <= i
    BY <2>1, <2>3 DEF BestRound
  <2> QED BY <2>1, <2>4
<1>8. Chosen'
  <2> DEFINE B == BestRound(Prefers[a])
  <2>1. \A p \in roundFor' : p \in roundFor \/ (p[1] = a /\ p[2] \in B /\ p = <<a, p[2]>>)
    <3>1. \A p \in {a} \X B : p[1] = a /\ p[2] \in B /\ p = <<a, p[2]>>
      OBVIOUS
    <3> QED BY <1>1, <3>1
  <2>2. B \subseteq 1..N /\ \A p \in roundFor : p[2] \notin B
    BY DEF BestRound, FreeRounds, Rounds
  <2>3. \A i, j \in B : i = j
    BY <1>7
  <2> HIDE DEF B
  <2>4. asking' \subseteq team' /\ roundFor' \subseteq team' \X (1..Cardinality(team'))
    BY <1>1, <1>2, <1>3, <2>2 DEF Chosen, B
  <2>5. \A p \in roundFor' : p[1] \notin asking'
    BY <1>1, <1>3, <2>1 DEF Chosen
  <2>6. \A p \in roundFor : p[1] # a
    BY <1>3 DEF Chosen
  <2>7. ASSUME NEW p \in roundFor', NEW q \in roundFor', p[1] = q[1] \/ p[2] = q[2]
        PROVE  p = q
    <3>1. CASE p \in roundFor /\ q \in roundFor
      BY <1>3, <2>7, <3>1 DEF Chosen
    <3>2. CASE p \in roundFor /\ q \notin roundFor
      BY <2>1, <2>2, <2>6, <2>7, <3>2
    <3>3. CASE p \notin roundFor /\ q \in roundFor
      BY <2>1, <2>2, <2>6, <2>7, <3>3
    <3>4. CASE p \notin roundFor /\ q \notin roundFor
      BY <2>1, <2>3, <3>4
    <3> QED BY <3>1, <3>2, <3>3, <3>4
  <2> QED BY <2>4, <2>5, <2>7 DEF Chosen
<1> QED BY <1>2, <1>3, <1>4, <1>5, <1>8 DEF MInv, RoundsComplete

-----------------------------------------------------------------------------
\* When all have been asked, everybody gets a round, and each round goes to somebody.
LEMMA RoundsGiven ==
  ASSUME Chosen, asking = {}, team \subseteq Nat, IsFiniteSet(team)
  PROVE  /\ \A a \in team : RoundOf(a) \in 1..Cardinality(team)
         /\ \A a, b \in team : RoundOf(a) = RoundOf(b) => a = b
         /\ \A i \in 1..Cardinality(team) : \E a \in team : RoundOf(a) = i
<1> DEFINE N == Cardinality(team)
           Taken == {p[2] : p \in roundFor}
           U == team \ Served
           F == FreeRounds
           r == InRankOf(Smaller, F)
           k == Rank(Smaller, U)
<1>1. N \in Nat /\ IsFiniteSet(1..N) /\ Cardinality(1..N) = N
  BY FS_CardinalityType, FS_Interval
<1>2. /\ \A p \in roundFor : p[1] \in team /\ p[2] \in 1..N /\ p = <<p[1], p[2]>>
      /\ \A p, q \in roundFor : p[1] = q[1] \/ p[2] = q[2] => p = q
  BY DEF Chosen
<1>3. DOMAIN Rounds = 1..N /\ F = (1..N) \ Taken
  BY DEF FreeRounds, Rounds
<1>4. Served \subseteq team /\ Taken \subseteq 1..N /\ F \subseteq 1..N /\ U \subseteq team
  BY <1>2, <1>3 DEF Served
<1>5. /\ IsFiniteSet(Served) /\ IsFiniteSet(Taken) /\ IsFiniteSet(F) /\ IsFiniteSet(U)
  BY <1>1, <1>4, FS_Subset
<1>6. \A a \in Served : \E i \in Taken : <<a, i>> \in roundFor
  BY <1>2 DEF Served
<1> DEFINE g == [a \in Served |-> CHOOSE i \in Taken : <<a, i>> \in roundFor]
<1>7. \A a \in Served : g[a] \in Taken /\ <<a, g[a]>> \in roundFor
  BY <1>6
<1>8. g \in Bijection(Served, Taken)
  <2>1. g \in [Served -> Taken]
    BY <1>7
  <2> HIDE DEF g
  <2>2. \A a, b \in Served : g[a] = g[b] => a = b
    BY <1>2, <1>7
  <2>3. \A i \in Taken : \E a \in Served : g[a] = i
    <3> SUFFICES ASSUME NEW p \in roundFor PROVE p[1] \in Served /\ g[p[1]] = p[2]
      OBVIOUS
    <3>1. p[1] \in Served
      BY DEF Served
    <3> QED BY <1>2, <1>7, <3>1
  <2> HIDE DEF Taken
  <2> QED BY <2>1, <2>2, <2>3 DEF Bijection, Injection, Surjection, IsInjective
<1>9. Cardinality(Served) = Cardinality(Taken)
  BY <1>5, <1>8, FS_Bijection DEF ExistsBijection
<1>10. Cardinality(U) = Cardinality(F) /\ Cardinality(F) \in Nat
  <2>1. team \cap Served = Served /\ (1..N) \cap Taken = Taken
    BY <1>4
  <2>2. Cardinality(U) = N - Cardinality(Served)
    <3>1. Cardinality(team \ Served) = Cardinality(team) - Cardinality(team \cap Served)
      BY FS_Difference
    <3>2. Cardinality(team \cap Served) = Cardinality(Served)
      BY <2>1
    <3> QED BY <3>1, <3>2
  <2>3. Cardinality((1..N) \ Taken) = Cardinality(1..N) - Cardinality((1..N) \cap Taken)
    BY <1>1, FS_Difference
  <2>4. Cardinality(F) = N - Cardinality(Taken)
    <3> HIDE DEF N, F, Taken
    <3> QED BY <1>1, <1>3, <2>1, <2>3
  <2>5. Cardinality(F) \in Nat
    BY <1>5, FS_CardinalityType
  <2> HIDE DEF N, U, F, Taken
  <2> QED BY <1>9, <2>2, <2>4, <2>5
<1>11. /\ \A j \in 1..Cardinality(F) : r[j] \in F
       /\ \A i, j \in 1..Cardinality(F) : i < j => r[i] < r[j]
  <2>1. StrictOrder(Smaller, F)
    BY <1>1, <1>4, OrdersAre
  <2>2. DOMAIN r = 1..Cardinality(F)
    BY DEF InRankOf
  <2> HIDE DEF r, F
  <2>3. /\ \A j \in DOMAIN r : r[j] \in F
        /\ \A i, j \in DOMAIN r : i < j => <<r[i], r[j]>> \in Smaller
    BY <1>5, <2>1, Sorted DEF r
  <2> QED BY <2>2, <2>3 DEF Smaller
<1>12. /\ \A a \in U : k[a] \in Nat /\ k[a] + 1 \in 1..Cardinality(F)
       /\ \A a, b \in U : k[a] = k[b] => a = b
  <2>1. StrictOrder(Smaller, U)
    BY OrdersAre
  <2> HIDE DEF U, F
  <2>2. k \in Bijection(U, 0..(Cardinality(U) - 1))
    BY <1>5, <2>1, Ranked
  <2> HIDE DEF k
  <2>3. \A a \in U : k[a] \in 0..(Cardinality(U) - 1)
    BY <2>2 DEF Bijection, Injection
  <2>4. \A a, b \in U : k[a] = k[b] => a = b
    BY <2>2 DEF Bijection, Injection, IsInjective
  <2> QED BY <1>10, <2>3, <2>4
<1>13. \A a \in Served : RoundOf(a) = g[a]
  <2> SUFFICES ASSUME NEW a \in Served PROVE RoundOf(a) = g[a]
    OBVIOUS
  <2>1. RoundOf(a) = CHOOSE i \in 1..N : <<a, i>> \in roundFor
    BY <1>3 DEF RoundOf
  <2>2. g[a] \in 1..N /\ <<a, g[a]>> \in roundFor
    BY <1>4, <1>7
  <2>3. \A i : <<a, i>> \in roundFor => i = g[a]
    BY <1>2, <2>2
  <2> HIDE DEF g
  <2> QED BY <2>1, <2>2, <2>3
<1>14. \A a \in U : RoundOf(a) = r[k[a] + 1]
  <2> SUFFICES ASSUME NEW a \in U PROVE RoundOf(a) = r[k[a] + 1]
    OBVIOUS
  <2>1. RoundOf(a) = CHOOSE i \in F : Cardinality({j \in F : j < i})
                                      = Cardinality({b \in U : b < a})
    BY DEF RoundOf
  <2>2. /\ {b \in U : b < a} = Below(Smaller, U, a)
        /\ \A i \in F : {j \in F : j < i} = Below(Smaller, F, i)
    <3>1. F \subseteq Nat /\ U \subseteq Nat
      BY <1>1, <1>4
    <3> HIDE DEF F, U
    <3> QED BY <3>1 DEF Below, Smaller
  <2>3. Cardinality({b \in U : b < a}) = k[a]
    BY <2>2 DEF Rank
  <2> HIDE DEF F, U, k
  <2>4. RoundOf(a) = CHOOSE i \in F : Cardinality(Below(Smaller, F, i)) = k[a]
    BY <2>1, <2>2, <2>3
  <2>5. r[k[a] + 1] = CHOOSE i \in F : Cardinality(Below(Smaller, F, i)) = (k[a] + 1) - 1
    BY <1>12 DEF InRankOf
  <2>6. (k[a] + 1) - 1 = k[a]
    BY <1>12
  <2> QED BY <2>4, <2>5, <2>6
<1> DEFINE f == [a \in team |-> RoundOf(a)]
<1>15. \A a \in team : a \in Served \/ a \in U
  OBVIOUS
<1>16. \A a \in Served : RoundOf(a) \in Taken
  BY <1>7, <1>13
<1>17. \A a \in U : RoundOf(a) \in F
  BY <1>11, <1>12, <1>14
<1> HIDE DEF g, r, k, U
<1>18. \A a \in team : RoundOf(a) \in 1..N
  BY <1>4, <1>15, <1>16, <1>17
<1>19. \A a, b \in Served : RoundOf(a) = RoundOf(b) => a = b
  BY <1>8, <1>13 DEF Bijection, Injection, IsInjective
<1>20. \A a, b \in U : RoundOf(a) = RoundOf(b) => a = b
  <2> SUFFICES ASSUME NEW a \in U, NEW b \in U, r[k[a] + 1] = r[k[b] + 1] PROVE a = b
    BY <1>14
  <2>1. k[a] + 1 \in 1..Cardinality(F) /\ k[b] + 1 \in 1..Cardinality(F)
        /\ k[a] \in Nat /\ k[b] \in Nat
    BY <1>12
  <2>2. r[k[a] + 1] \in Nat /\ r[k[b] + 1] \in Nat
    <3>1. F \subseteq Nat
      BY <1>1, <1>4
    <3> HIDE DEF F
    <3> QED BY <1>11, <2>1, <3>1
  <2> HIDE DEF F
  <2>3. ~(k[a] + 1 < k[b] + 1) /\ ~(k[b] + 1 < k[a] + 1)
    BY <1>11, <2>1, <2>2
  <2>4. k[a] = k[b]
    BY <2>1, <2>3
  <2> QED BY <1>12, <2>4
<1>21. \A i \in F : i \notin Taken
  BY <1>3
<1> HIDE DEF F, Taken
<1>22. \A a, b \in team : RoundOf(a) = RoundOf(b) => a = b
  BY <1>15, <1>16, <1>17, <1>19, <1>20, <1>21
<1>23. f \in Injection(team, 1..N)
  <2>1. f \in [team -> 1..N]
    BY <1>18
  <2> QED BY <1>22, <2>1 DEF Injection, IsInjective
<1>24. \A i \in 1..N : \E a \in team : RoundOf(a) = i
  <2>1. Cardinality(1..N) = Cardinality(team)
    BY <1>1
  <2>2. \A a \in team : f[a] = RoundOf(a)
    OBVIOUS
  <2> HIDE DEF f, N
  <2>3. f \in Surjection(team, 1..N)
    BY <1>1, <1>23, <2>1, FS_Injection
  <2> QED BY <2>2, <2>3 DEF Surjection
<1> QED BY <1>18, <1>22, <1>24

-----------------------------------------------------------------------------
\* What is handed out is what has been cut.
LEMMA HandOutKeeps == ASSUME MInv, HandOut PROVE MInv'
<1> DEFINE N == Cardinality(team)
           round == [a \in team |-> Of(Rounds[RoundOf(a)])]
<1>1. /\ stage = "hand out" /\ asking = {} /\ stage' = "told"
      /\ UNCHANGED <<house, team, figure, departures, deferred, cuts, walk, target>>
      /\ lists' = [a \in team |-> Ordered(RoomsIn(<<Rounds[RoundOf(a)]>>), MoreUrgent)]
  BY DEF HandOut
<1>2. Chosen /\ PutOff /\ ScoresKnown /\ team \subseteq Nat /\ IsFiniteSet(team) /\ N \in Nat
  BY <1>1, FS_CardinalityType DEF MInv
<1>3. PutOff' /\ Workload' = Workload /\ ScoresKnown' /\ Workable' = Workable /\ UrgentFirst'
  BY <1>1, <1>2, RoomsStand, PutOffUrgent
<1>4. ASSUME team # {} PROVE OnceInOneList'
  <2>1. Walked /\ walk = <<>> /\ Of(walk) = {}
    <3>1. Of(<<>>) = {}
      BY DEF Of
    <3> QED BY <1>1, <1>4, <3>1 DEF MInv
  <2>2. /\ cuts \in Seq(Seq(Keys)) /\ Len(cuts) \in 1..N /\ DOMAIN cuts = 1..Len(cuts)
        /\ Apart(cuts) /\ RoomsIn(cuts) = Workload
    <3>1. /\ cuts \in Seq(Seq(Keys)) /\ Len(cuts) >= 1 /\ Len(cuts) <= N /\ Apart(cuts)
          /\ RoomsIn(cuts) \cup Of(walk) = Workload
      BY <2>1 DEF Walked
    <3>2. Len(cuts) \in Nat /\ DOMAIN cuts = 1..Len(cuts)
      BY <3>1
    <3>3. Len(cuts) \in 1..N
      BY <1>2, <3>1, <3>2
    <3>4. RoomsIn(cuts) = Workload
      BY <2>1, <3>1
    <3> QED BY <3>1, <3>2, <3>3, <3>4
  <2>3. /\ \A i \in DOMAIN cuts : i \in 1..N /\ Rounds[i] = cuts[i]
        /\ \A i \in 1..N : i \in DOMAIN cuts \/ Of(Rounds[i]) = {}
        /\ \A i \in 1..N : Rounds[i] \in Seq(Keys)
    <3>1. Of(<<>>) = {} /\ <<>> \in Seq(Keys)
      BY DEF Of
    <3> QED BY <1>2, <2>2, <3>1 DEF Rounds
  <2>4. \A i \in 1..N : Of(Rounds[i]) \subseteq Keys
    BY <2>3 DEF Of
  <2>5. UNION {Of(Rounds[i]) : i \in 1..N} = Workload
    <3>1. RoomsIn(cuts) = UNION {Of(cuts[i]) : i \in DOMAIN cuts}
      BY InRooms
    <3>2. \A i \in DOMAIN cuts : i \in 1..N /\ Of(Rounds[i]) = Of(cuts[i])
      BY <2>3
    <3>3. \A i \in 1..N : i \in DOMAIN cuts \/ Of(Rounds[i]) = {}
      BY <2>3
    <3> HIDE DEF N
    <3>4. UNION {Of(Rounds[i]) : i \in 1..N} = UNION {Of(cuts[i]) : i \in DOMAIN cuts}
      BY <3>2, <3>3
    <3> QED BY <2>2, <3>1, <3>4
  <2>6. ASSUME NEW i \in 1..N, NEW j \in 1..N, i < j,
               NEW q \in Of(Rounds[i]), NEW r \in Of(Rounds[j])
        PROVE  q < r
    BY <2>2, <2>3, <2>6 DEF Apart
  <2>7. /\ \A a \in team : RoundOf(a) \in 1..N
        /\ \A a, b \in team : RoundOf(a) = RoundOf(b) => a = b
        /\ \A i \in 1..N : \E a \in team : RoundOf(a) = i
    BY <1>1, <1>2, RoundsGiven
  <2>8. ASSUME NEW a \in team
        PROVE  Listed(a)' = round[a] /\ Len(lists'[a]) = Cardinality(round[a])
    <3>1. RoomsIn(<<Rounds[RoundOf(a)]>>) = round[a]
      BY InRooms
    <3>2. round[a] \subseteq Keys
      BY <2>4, <2>7
    <3>3. lists'[a] = Ordered(RoomsIn(<<Rounds[RoundOf(a)]>>), MoreUrgent)
      BY <1>1
    <3> HIDE DEF round
    <3>4. lists'[a] = Ordered(round[a], MoreUrgent)
      BY <3>1, <3>3
    <3>5. Len(lists'[a]) = Cardinality(round[a]) /\ Of(lists'[a]) = round[a]
      BY <1>2, <3>2, <3>4, OrderedUrgent
    <3> QED BY <3>5 DEF Listed, Of
  <2>9. UNION {round[a] : a \in team} = Workload
    BY <2>5, <2>7
  <2>10. ASSUME NEW a \in team, NEW b \in team, a # b, NEW q \in round[a], NEW r \in round[b]
         PROVE  q < r \/ r < q
    <3>1. RoundOf(a) # RoundOf(b) /\ RoundOf(a) \in 1..N /\ RoundOf(b) \in 1..N
      BY <2>7, <2>10
    <3>2. RoundOf(a) < RoundOf(b) \/ RoundOf(b) < RoundOf(a)
      BY <1>2, <3>1
    <3> QED BY <2>6, <3>1, <3>2
  <2>11. ASSUME NEW a \in team, NEW b \in team, a # b,
                NEW q \in round[a], NEW s \in round[a], NEW r \in round[b]
         PROVE  ~(q < r /\ r < s)
    <3>1. RoundOf(a) # RoundOf(b) /\ RoundOf(a) \in 1..N /\ RoundOf(b) \in 1..N
      BY <2>7, <2>11
    <3>2. q \in Nat /\ r \in Nat /\ s \in Nat
      BY <2>4, <3>1, NumbersAssumption
    <3>3. CASE RoundOf(a) < RoundOf(b)
      <4>1. s < r
        BY <2>6, <3>1, <3>3
      <4> QED BY <3>2, <4>1
    <3>4. CASE RoundOf(b) < RoundOf(a)
      <4>1. r < q
        BY <2>6, <3>1, <3>4
      <4> QED BY <3>2, <4>1
    <3> QED BY <1>2, <3>1, <3>3, <3>4
  <2>12. ASSUME NEW a \in team, NEW b \in team, a # b PROVE round[a] \cap round[b] = {}
    <3> SUFFICES ASSUME NEW q \in round[a], q \in round[b] PROVE FALSE
      OBVIOUS
    <3>1. q \in Nat
      BY <2>4, <2>7, NumbersAssumption
    <3>2. q < q
      BY <2>10, <2>12
    <3> QED BY <3>1, <3>2
  <2>13. \A a \in team : Listed(a)' = round[a]
    BY <2>8
  <2> HIDE DEF round
  <2>14. UNION {Listed(a)' : a \in team} = Workload
    BY <2>9, <2>13
  <2>15. Workload = Workable' \ deferred' /\ team' = team
    BY <1>1, <1>3 DEF Workload
  <2>16. \A a \in team : Len(lists[a])' = Cardinality(Listed(a)')
    BY <2>8
  <2>17. ASSUME NEW a \in team, NEW b \in team, a # b
         PROVE  /\ Listed(a)' \cap Listed(b)' = {}
                /\ \A q, s \in Listed(a)', r \in Listed(b)' : ~(q < r /\ r < s)
    <3>1. Listed(a)' = round[a] /\ Listed(b)' = round[b]
      BY <2>13
    <3> QED BY <2>11, <2>12, <2>17, <3>1
  <2> QED BY <2>14, <2>15, <2>16, <2>17 DEF OnceInOneList
<1> QED BY <1>1, <1>2, <1>3, <1>4 DEF MInv, RoundsComplete

\* Every step keeps the invariant.
LEMMA MorningKeeps == MInv /\ [MorningNext]_morning => MInv'
<1> SUFFICES ASSUME MInv, [MorningNext]_morning PROVE MInv'
  OBVIOUS
<1>1. CASE MorningNext
  BY <1>1, AskKeeps, ClassifyKeeps, DeferKeeps, CutKeeps, CutDoneKeeps, ChooseKeeps, HandOutKeeps
     DEF MorningNext
<1>2. CASE UNCHANGED morning
  <2>1. UNCHANGED <<house, team, figure, stage, departures, deferred, cuts, walk, target, asking,
                    roundFor, lists>>
    BY <1>2 DEF morning
  <2>2. /\ Workload' = Workload /\ Workable' = Workable /\ (PutOff => PutOff')
        /\ (ScoresKnown => ScoresKnown') /\ (UrgentFirst => UrgentFirst')
    BY <2>1, RoomsStand
  <2>3. Walked => Walked'
    <3>1. RoomsIn(cuts') = RoomsIn(cuts) /\ Of(walk') = Of(walk) /\ (Apart(cuts) => Apart(cuts'))
      BY <2>1
    <3> QED BY <2>1, <2>2, <3>1 DEF Walked
  <2>4. OnceInOneList => OnceInOneList'
    <3>1. \A a : Listed(a)' = Listed(a)
      BY <2>1 DEF Listed
    <3> QED BY <2>1, <2>2, <3>1 DEF OnceInOneList
  <2>5. RoundsComplete => RoundsComplete'
    BY <2>1, <2>2, <2>4 DEF RoundsComplete
  <2>6. Chosen => Chosen'
    BY <2>1 DEF Chosen
  <2> QED BY <2>1, <2>2, <2>3, <2>5, <2>6 DEF MInv
<1> QED BY <1>1, <1>2

\* Of a finished morning plan with a team, every room to be cleaned is put off or stands once
\* in one list, rounds are contiguous, and what is put off is what matters least
\* (POST /api/assignments/plan, planAssignments.ts).
THEOREM RoundsSound == MorningInit /\ [][MorningNext]_morning => []RoundsComplete
<1>1. MInv => RoundsComplete
  BY DEF MInv
<1> QED BY <1>1, MorningStarts, MorningKeeps, PTL
=============================================================================
