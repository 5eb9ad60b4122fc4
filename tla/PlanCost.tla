------------------------------ MODULE PlanCost ------------------------------
(***************************************************************************)
(* What an assignment costs (autoplan/cost.ts with the default weights of  *)
(* weights.ts): floors beyond the allowed number, pairs split, floors that *)
(* are nobody's home, jumps between the rooms of one, rooms left open, and *)
(* how far everybody's credits, kinds of rooms and demanding rooms are     *)
(* from their share.                                                       *)
(*                                                                         *)
(* The code adds fractions; here every part is multiplied by Scale, so     *)
(* that all of them are integers and the sums compare as the code's do.    *)
(***************************************************************************)
EXTENDS Integers, FiniteSets, FiniteSetsExt

CONSTANTS
  Room,       \* Room[r]: floor, section, num, credits and cat, numbered by floor and number
  Target,     \* Target[h]: <<lo, hi>>, the credits h should get
  Home,       \* Home[h]: the floors h knows
  Interconnecting,  \* pairs of rooms
  MaxFloors

Places == DOMAIN Room
People == DOMAIN Target

Square(n) == n * n

Center2(h) == Target[h][1] + Target[h][2]  \* twice the middle of the target
CenterSum2 == MapThenSumSet(Center2, People)

Skilled(in) == {h \in People : in.level[h] >= 2}
Skills(in) == IF Skilled(in) = {} THEN 1 ELSE Cardinality(Skilled(in))

Scale(in) == 20 * Square(CenterSum2) * Square(Skills(in))

Of(a, h) == {r \in Places : a[r] = h}

ExtraFloors(a, h) ==
  LET floors == {Room[r].floor : r \in Of(a, h)}
  IN IF Cardinality(floors) > MaxFloors THEN Cardinality(floors) - MaxFloors ELSE 0

Split(a) == {p \in Interconnecting : a[p[1]] # 0 /\ a[p[2]] # 0 /\ a[p[1]] # a[p[2]]}

HomeMisses(a) ==
  {r \in Places : a[r] # 0 /\ Home[a[r]] # {} /\ Room[r].floor \notin Home[a[r]]}

\* The way from one room of h to the next leaves the floor or the section, or skips numbers.
Jumps(a) ==
  {r \in Places :
     \E q \in Places :
       /\ a[r] # 0 /\ a[q] = a[r] /\ q < r /\ \A s \in Of(a, a[r]) : ~(q < s /\ s < r)
       /\ \/ Room[q].floor # Room[r].floor
          \/ Room[q].section # Room[r].section
          \/ Room[r].num - Room[q].num > 4}

\* Outside the target the distance counts, inside it a fifth of the distance to its middle.
CreditPart(in, a, h) ==
  LET cr == MapThenSumSet(LAMBDA r : Room[r].credits, Of(a, h))
      lo == Target[h][1]
      hi == Target[h][2]
      dev == IF cr < lo THEN lo - cr ELSE IF cr > hi THEN cr - hi ELSE 0
  IN IF dev > 0 THEN Scale(in) * Square(dev)
     ELSE (Scale(in) \div 20) * Square(2 * cr - Center2(h))

\* Departures, stayovers and changes of linen go by the size of the targets.
KindPart(in, a, h, cat) ==
  LET mine == Cardinality({r \in Of(a, h) : Room[r].cat = cat})
      all == Cardinality({r \in Places : a[r] # 0 /\ Room[r].cat = cat})
  IN 20 * Square(Skills(in)) * Square(mine * CenterSum2 - all * Center2(h))

DemandingPart(in, a, h) ==
  LET dem(g) == Cardinality(Of(a, g) \cap in.demanding)
      all == MapThenSumSet(dem, Skilled(in))
  IN 20 * Square(CenterSum2) * Square(dem(h) * Skills(in) - all)

PlanCostOf(in, a) ==
  Scale(in) * ( 100 * MapThenSumSet(LAMBDA h : ExtraFloors(a, h), People)
              + 20 * Cardinality(Split(a))
              + 1 * Cardinality(HomeMisses(a))
              + 2 * Cardinality(Jumps(a))
              + 500 * Cardinality(Of(a, 0)) )
  + 10 * MapThenSumSet(LAMBDA h : CreditPart(in, a, h), People)
  + 5 * MapThenSumSet(LAMBDA h : KindPart(in, a, h, "departure") + KindPart(in, a, h, "stayover")
                         + KindPart(in, a, h, "linen"), People)
  + 8 * MapThenSumSet(LAMBDA h : DemandingPart(in, a, h), Skilled(in))
=============================================================================
