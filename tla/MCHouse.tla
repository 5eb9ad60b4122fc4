------------------------------ MODULE MCHouse ------------------------------
(***************************************************************************)
(* Seven parts of the house in one run: the search for a proposal, the     *)
(* morning plan, the escalations, the throttle, and the supervisors' pages *)
(* that import lists, choose team and floors, and plan the morning.  They  *)
(* share no state here.  Every behaviour is one of one part, named by      *)
(* part; the others stand still in a single state.                         *)
(***************************************************************************)
EXTENDS Proposal, MorningPlan, Escalations, RateLimit, PlanningDesk, PlanSteps, ListSession

VARIABLE part

\* Proposal: four rooms on two floors, the third and second interconnect; the second
\* may be fixed, all but the third may be demanding.
MCRoom == <<[floor |-> 1, section |-> "A", num |-> 1, credits |-> 2, cat |-> "departure"],
            [floor |-> 1, section |-> "A", num |-> 3, credits |-> 1, cat |-> "stayover"],
            [floor |-> 2, section |-> "A", num |-> 4, credits |-> 1, cat |-> "linen"],
            [floor |-> 2, section |-> "B", num |-> 9, credits |-> 2, cat |-> "departure"]>>

P == INSTANCE PlanCost WITH Room <- MCRoom, Target <- <<<<2, 3>>, <<2, 4>>>>,
                            Home <- <<{1}, {}>>, Interconnecting <- {<<2, 3>>}, MaxFloors <- 1

MCInputs ==
  {in \in [level : [Hks -> {1, 2}], demanding : SUBSET {1, 2, 4}, fixedTo : [PlanRooms -> Hks \cup {0}]] :
     \A r \in PlanRooms \ {2} : in.fixedTo[r] = 0}

\* Computed once.
CostTable ==
  [level \in [Hks -> {1, 2}] |-> [demanding \in SUBSET {1, 2, 4} |->
     [a \in [PlanRooms -> Hks \cup {0}] |->
        P!PlanCostOf([level |-> level, demanding |-> demanding], a)]]]

MCCost(in, a) == CostTable[in.level][in.demanding][a]

\* Morning plan: what may be known of a room.
Stayover == [status |-> "DIRTY", checkout |-> FALSE, occupied |-> TRUE, arrivals |-> {},
             away |-> "no", blockedFor |-> 0, near |-> "far", asked |-> "no"]
Soon == [neededNow |-> FALSE, soon |-> TRUE, early |-> FALSE, vip |-> FALSE]

MCHouses ==
  [1..4 -> {Stayover, [Stayover EXCEPT !.occupied = FALSE], [Stayover EXCEPT !.checkout = TRUE],
            [Stayover EXCEPT !.checkout = TRUE, !.arrivals = {Soon}],
            [Stayover EXCEPT !.status = "CLEAN", !.asked = "NOW"],
            [Stayover EXCEPT !.status = "BLOCKED", !.blockedFor = 5, !.asked = "NOW"]}]
MCSections == <<"A", "A", "B", "B">>
MCMinutes == <<20, 40, 20, 80>>
MCTeams == {{}, {1}, {1, 2}, {1, 2, 3}}
MCPrefers == <<"none", "B", "B">>

\* List session: a list says which file it is from.
MCContentOf == [t \in Lists |-> 1..MaxBatches]

\* The two runs, requests, pages and callers are alike.  As only one part moves, all pairs
\* may change places at once.
Twins == {Ticks, Clerks, Pages, Callers}
Other(x) == CHOOSE y \in UNION Twins : y # x /\ \E S \in Twins : {x, y} \subseteq S
Alike == {[x \in UNION Twins |-> IF swap THEN Other(x) ELSE x] : swap \in BOOLEAN}

StillFloors == [s \in Sups |-> IF s = (CHOOSE x \in Sups : TRUE) THEN PlanFloors ELSE {}]

HouseInit ==
  /\ part \in {"proposal", "morning", "escalations", "limit", "desk", "steps", "lists"}
  /\ ProposeInit /\ MorningInit /\ EscInit /\ LimitInit /\ DeskInit /\ StepsInit /\ SessionInit
  /\ part # "proposal" => input = CHOOSE in \in Inputs : TRUE
  /\ part # "steps" => floors = StillFloors

HouseNext ==
  /\ UNCHANGED part
  /\ \/ part = "proposal" /\ ProposeNext
        /\ UNCHANGED <<morning, escVars, limitVars, deskVars, stepVars, sessionVars>>
     \/ part = "morning" /\ MorningNext
        /\ UNCHANGED <<search, escVars, limitVars, deskVars, stepVars, sessionVars>>
     \/ part = "escalations" /\ EscNext
        /\ UNCHANGED <<search, morning, limitVars, deskVars, stepVars, sessionVars>>
     \/ part = "limit" /\ LimitNext
        /\ UNCHANGED <<search, morning, escVars, deskVars, stepVars, sessionVars>>
     \/ part = "desk" /\ DeskNext
        /\ UNCHANGED <<search, morning, escVars, limitVars, stepVars, sessionVars>>
     \/ part = "steps" /\ StepsNext
        /\ UNCHANGED <<search, morning, escVars, limitVars, deskVars, sessionVars>>
     \/ part = "lists" /\ SessionNext
        /\ UNCHANGED <<search, morning, escVars, limitVars, deskVars, stepVars>>

HouseSpec ==
  HouseInit
  /\ [][HouseNext]_<<part, search, morning, escVars, limitVars, deskVars, stepVars, sessionVars>>
=============================================================================
