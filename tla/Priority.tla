------------------------------ MODULE Priority ------------------------------
(***************************************************************************)
(* How urgent a room is (priority/computePriority.ts with the weights of   *)
(* the house): a sum over what is known of the room.  A room is a record   *)
(*   status, checkout                                                      *)
(*   arrivals: a set of records neededNow, soon, early, vip                *)
(*   away: "no", "away" or "closing", where the guest's excursion ends     *)
(*   blockedFor: re-check intervals since it was blocked                   *)
(*   near: "section", "floor" or "far" from the attendant                  *)
(*   asked: "no", "NOW", "IN_30" or "LATER", what the guest has asked for  *)
(***************************************************************************)
EXTENDS Integers, FiniteSetsExt

Actionable == {"DIRTY", "IN_PROGRESS", "PICKUP", "BLOCKED", "CLEAN"}

\* The signals of a room, each with its points.
Signals(x) ==
  LET some(P(_)) == \E a \in x.arrivals : P(a)
  IN { s \in
       { [is |-> "needed_now",     points |-> IF some(LAMBDA a : a.neededNow) THEN 100 ELSE 0],
         [is |-> "eta_soon",       points |-> IF some(LAMBDA a : a.soon) THEN 60 ELSE 0],
         [is |-> "early_check_in", points |-> IF some(LAMBDA a : a.early) THEN 25 ELSE 0],
         [is |-> "vip",            points |-> IF some(LAMBDA a : a.vip) THEN 40 ELSE 0],
         [is |-> "checkout",       points |-> IF ~x.checkout THEN 0
                                              ELSE IF x.arrivals # {} THEN 35 ELSE 15],
         [is |-> "excursion",      points |-> CASE x.away = "no" -> 0 [] x.away = "away" -> 30
                                                [] OTHER -> 30 + 15],
         [is |-> "blocked_age",    points |-> IF x.status # "BLOCKED" THEN 0
                                              ELSE IF x.blockedFor * 10 < 40 THEN x.blockedFor * 10
                                              ELSE 40],
         [is |-> "route",          points |-> CASE x.near = "section" -> 12 [] x.near = "floor" -> 6
                                                [] OTHER -> 0],
         [is |-> "guest_request",  points |-> CASE x.asked = "NOW" -> 100 [] x.asked = "IN_30" -> 50
                                                [] x.asked = "LATER" -> 20 [] OTHER -> 0] }
       : s.points > 0 }

Score(x) ==
  IF x.status \notin Actionable THEN 0 ELSE MapThenSumSet(LAMBDA s : s.points, Signals(x))
=============================================================================
