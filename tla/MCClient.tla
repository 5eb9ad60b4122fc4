------------------------------ MODULE MCClient ------------------------------
(***************************************************************************)
(* Two pages of the house in one run: an attendant's queue and an open     *)
(* board.  They share no state here.  Every behaviour is one of one part,  *)
(* named by part; the other stands still.                                  *)
(***************************************************************************)
EXTENDS OfflineQueue, LiveBoard

VARIABLE part

\* A page that has loaded a board without the room.
BoardStill ==
  /\ view = "attendant" /\ row = [ver |-> 1, mine |-> FALSE, by |-> "room"]
  /\ board = Absent
  /\ unsent = {} /\ wire = <<>> /\ online = TRUE /\ timer = FALSE /\ loads = <<>>
  /\ tap = NoTap /\ missed = FALSE /\ mishaps = 0

ClientInit ==
  /\ part \in {"queue", "board"}
  /\ Init
  /\ IF part = "board" THEN BoardInit ELSE BoardStill

ClientNext ==
  /\ UNCHANGED part
  /\ \/ part = "queue" /\ Next /\ UNCHANGED boardVars
     \/ part = "board" /\ BoardNext /\ UNCHANGED vars

ClientSpec ==
  ClientInit /\ [][ClientNext]_<<part, vars, boardVars>> /\ QueueFairness /\ BoardFairness
=============================================================================
