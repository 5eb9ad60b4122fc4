----------------------------- MODULE MCDayPlan -----------------------------
(***************************************************************************)
(* Two parts of an import in one run: the lists of two rooms merged into   *)
(* the day plan, and the reading of one printed list.  They share no state *)
(* here.  Every behaviour is one of one part, named by part; the other     *)
(* stands still in a single state.                                         *)
(***************************************************************************)
EXTENDS DayPlan, ListReader, TLC

CONSTANTS r1, r2

VARIABLE part

MCContentOf ==
  [t \in Lists |->
     IF t = "DEPARTURES"
     THEN {{[room |-> r1, stays |-> FALSE]}, {[room |-> r2, stays |-> TRUE]}}
     ELSE {{[room |-> r1, bed |-> TRUE, here |-> h]} : h \in BOOLEAN}]

\* Two months of three days: the second of January and the first of February are each
\* other's other reading, the third of January has only one.
MCPrintDates == {<<1, 2>>, <<1, 3>>, <<2, 1>>}
MCStays == {<<<<1, 2>>, <<1, 3>>>>, <<<<1, 2>>, <<2, 1>>>>}
MCPapers ==
  {p \in [type : {"DEPARTURES", "INHOUSE", "ARRIVALS", "FORECAST", "TRACES"}, kind : {"pdf", "sheet"},
          fmt : {"DMY", "ISO"}, header : {NoDate, <<1, 2>>}, foot : {NoDate, <<1, 3>>},
          userDay : {<<1, 2>>, <<2, 1>>}] :
     /\ p.kind = "sheet" => p.header = NoDate /\ p.userDay = <<1, 2>>
     /\ p.fmt = "ISO" => p.kind = "sheet"
     /\ p.foot # NoDate <=> p.type = "DEPARTURES" /\ p.header # NoDate
     /\ p.type = "TRACES" => p.userDay = <<1, 2>> /\ (p.kind = "pdf" => p.header # NoDate)}

\* The day begins before the guest has come; a later list may have him in the house.
\* A day without a plan begins with one of the lists of departures, one with a plan with any.
ImportDayInit ==
  /\ part \in {"plan", "reader"}
  /\ DayInit /\ ReaderInit
  /\ InHouse(batches[2].rows) = {}
  /\ part = "plan" => paper = CHOOSE p \in Papers : TRUE
  /\ part = "reader" => plan = [r \in Rooms |-> None]
  /\ plan = [r \in Rooms |-> None] =>
       batches[1].rows = CHOOSE dep \in ContentOf["DEPARTURES"] : TRUE

ImportDayNext ==
  /\ UNCHANGED part
  /\ \/ part = "plan" /\ DayNext /\ UNCHANGED readerVars
     \/ part = "reader" /\ ReaderNext /\ UNCHANGED all

ImportDaySpec == ImportDayInit /\ [][ImportDayNext]_<<part, all, readerVars>>

Symmetry == Permutations(Clerks)
=============================================================================
