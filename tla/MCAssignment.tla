---------------------------- MODULE MCAssignment ----------------------------
(***************************************************************************)
(* Values for model checking Assignment: alone, and under the pages that   *)
(* assign rooms on the floor plan.  Every behaviour is one of one part,    *)
(* named by part; the other stands still.  The pages leave one of the      *)
(* rooms alone, and have fewer operations: the map, whose loads multiply   *)
(* its states, fewer than the panel.  A page that shows only an error is   *)
(* followed no further.                                                    *)
(***************************************************************************)
EXTENDS FloorPanel, TLC

VARIABLE part

PanelOps == 3
MapOps == 2

\* A panel that shows nothing but an error.
PanelStill ==
  /\ page = "panel" /\ grid = who /\ active = None /\ session = {} /\ picker = FALSE
  /\ posted = {} /\ serving = [c \in Calls |-> NoPost] /\ batch = NoBatch /\ notice = NoBatch
  /\ loads = <<>> /\ late = 0 /\ outdated = FALSE /\ failed = TRUE /\ unsure = {}

RouteInit ==
  /\ part \in {"server", "pages"}
  /\ Init
  /\ IF part = "pages" THEN PanelInit ELSE PanelStill

Touched ==
  session \cup {p.room : p \in posted} \cup {call[c].room : c \in Calls}
    \cup batch.rooms \cup notice.rooms \cup unsure
    \cup {r \in Rooms : who[r] # None \/ grid[r] # None \/ place[r] # None}

PagesNext ==
  /\ ~failed /\ PanelNext
  /\ ~(Rooms \subseteq Touched')
  /\ ops' <= PanelOps
  /\ page = "map" => ops' <= MapOps

RouteNext ==
  /\ UNCHANGED part
  /\ \/ part = "server" /\ Next /\ UNCHANGED panel
     \/ part = "pages" /\ PagesNext

RouteSpec == RouteInit /\ [][RouteNext]_<<part, vars, panel>>

Symmetry == Permutations(Calls) \cup Permutations(Rooms) \cup Permutations(Attendants)
=============================================================================
