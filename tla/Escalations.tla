---------------------------- MODULE Escalations ----------------------------
(***************************************************************************)
(* The escalations (escalations.ts): a tick of the server, or a call of    *)
(* the duty manager, looks at a blocked room, at an expected arrival and   *)
(* at the rooms waiting for release, and tells each thing worth telling    *)
(* once: it looks for the key of the notification and then creates it.     *)
(* Two ticks may overlap.                                                  *)
(***************************************************************************)
EXTENDS Integers, Sequences, FiniteSets

CONSTANTS
  Ticks,              \* runs that may be under way at once
  Recheck, Welfare, Warning, Bucket,  \* settings, in steps of the clock
  Threshold,          \* release queue backlog
  Eta,                \* of the arrival
  MaxTime, MaxTicks   \* bounds: the clock, and runs

ASSUME SettingsAssumption ==
  /\ {Recheck, Welfare, Warning, Bucket, Threshold} \subseteq Nat \ {0}
  /\ Eta \in Nat /\ MaxTime \in Nat /\ MaxTicks \in Nat

VARIABLES
  clock,
  reason,    \* why the room is blocked: "no", "DND" or "other"
  since,     \* since when
  cleanCount, released,  \* rooms waiting for release, and whether the arrival's room is INSPECTED
  run,       \* the runs: where each is, its time, and what it has still to tell
  told,      \* the notifications, in order: the note, and whether no other run was about
             \* to create it too (observation)
  runs

escVars == <<clock, reason, since, cleanCount, released, run, told, runs>>

\* at: "idle", "blocked", "arrivals" or "queue" (what is read next), or "end"; looked: the
\* note at the head of todo has been looked for and not found.
IdleRun == [at |-> "idle", now |-> 0, todo |-> <<>>, looked |-> FALSE]

EscInit ==
  /\ clock = 0 /\ reason = "no" /\ since = 0
  /\ cleanCount = 0 /\ released = FALSE
  /\ run = [t \in Ticks |-> IdleRun]
  /\ told = <<>> /\ runs = 0

\* Somebody blocks the room, takes the block away, or works on; time passes.
Block ==
  /\ clock < MaxTime /\ reason = "no"
  /\ reason' \in {"DND", "other"}
  /\ clock' = clock + 1 /\ since' = clock'
  /\ UNCHANGED <<cleanCount, released, run, told, runs>>

Unblock ==
  /\ reason # "no" /\ reason' = "no"
  /\ UNCHANGED <<clock, since, cleanCount, released, run, told, runs>>

Clean ==
  /\ cleanCount < Threshold /\ cleanCount' = cleanCount + 1
  /\ UNCHANGED <<clock, reason, since, released, run, told, runs>>

Release ==
  /\ cleanCount > 0 /\ cleanCount' = cleanCount - 1
  /\ released' = TRUE
  /\ UNCHANGED <<clock, reason, since, run, told, runs>>

Pass ==
  /\ clock < MaxTime /\ clock' = clock + 1
  /\ UNCHANGED <<reason, since, cleanCount, released, run, told, runs>>

\* A note: its kind, the stretch of time it is about, and the stage in it.
Note(kind, from, stage) == [kind |-> kind, from |-> from, stage |-> stage]

\* Of a block as old as age: a re-check at every interval, a welfare check for DND.
BlockNotes(age) ==
  (IF age >= Recheck THEN <<Note("recheck", since, age \div Recheck)>> ELSE <<>>) \o
  (IF age >= Welfare /\ reason = "DND" THEN <<Note("welfare", since, 0)>> ELSE <<>>)

\* Variant with a bug: a welfare check is known by its room only.
KeyOfRoom(n) == IF n.kind = "welfare" THEN Note("welfare", 0, 0) ELSE n

\* The dedupeKey.
KeyOf(n) == n

StartRun(t) ==
  /\ run[t].at = "idle" /\ runs < MaxTicks
  /\ run' = [run EXCEPT ![t] = [IdleRun EXCEPT !.at = "blocked", !.now = clock]]
  /\ runs' = runs + 1
  /\ UNCHANGED <<clock, reason, since, cleanCount, released, told>>

Finds(t, notes, next) ==
  /\ run[t].todo = <<>>
  /\ run' = [run EXCEPT ![t].todo = notes, ![t].at = next]
  /\ UNCHANGED <<clock, reason, since, cleanCount, released, told, runs>>

FindBlocked(t) ==
  /\ run[t].at = "blocked"
  /\ Finds(t, IF reason = "no" THEN <<>> ELSE BlockNotes(run[t].now - since), "arrivals")

AtRisk(now) == Eta <= now + Warning /\ ~released

FindArrivals(t) ==
  /\ run[t].at = "arrivals"
  /\ Finds(t, IF AtRisk(run[t].now) THEN <<Note("eta", 0, 0)>> ELSE <<>>, "queue")

FindQueue(t) ==
  /\ run[t].at = "queue"
  /\ Finds(t, IF cleanCount >= Threshold
              THEN <<Note("backlog", 0, run[t].now \div Bucket)>> ELSE <<>>, "end")

Known(n) == \E i \in DOMAIN told : KeyOf(told[i].note) = KeyOf(n)

\* notifyOnce: the key is looked for ...
Look(t) ==
  /\ run[t].todo # <<>> /\ ~run[t].looked
  /\ run' = [run EXCEPT ![t].looked = ~Known(Head(run[t].todo)),
                        ![t].todo = IF Known(Head(@)) THEN Tail(@) ELSE @]
  /\ UNCHANGED <<clock, reason, since, cleanCount, released, told, runs>>

\* ... and the notification is created.
Create(t) ==
  LET note == Head(run[t].todo)
      others == {u \in Ticks \ {t} : run[u].looked /\ Head(run[u].todo) = note}
  IN /\ run[t].looked
     /\ told' = Append(told, [note |-> note, alone |-> others = {}])
     /\ run' = [run EXCEPT ![t].looked = FALSE, ![t].todo = Tail(@)]
     /\ UNCHANGED <<clock, reason, since, cleanCount, released, runs>>

EndRun(t) ==
  /\ run[t].at = "end" /\ run[t].todo = <<>>
  /\ run' = [run EXCEPT ![t] = IdleRun]
  /\ UNCHANGED <<clock, reason, since, cleanCount, released, told, runs>>

\* An error ends a run; what it has not told is left to the next.
Fails(t) ==
  /\ run[t].at \notin {"idle", "end"}
  /\ run' = [run EXCEPT ![t] = IdleRun]
  /\ UNCHANGED <<clock, reason, since, cleanCount, released, told, runs>>

EscNext ==
  \/ \E t \in Ticks : StartRun(t) \/ FindBlocked(t) \/ FindArrivals(t) \/ FindQueue(t)
                      \/ Look(t) \/ Create(t) \/ EndRun(t) \/ Fails(t)
  \/ Block \/ Unblock \/ Clean \/ Release \/ Pass

-----------------------------------------------------------------------------
(***************************************************************************)
(* Properties.                                                             *)
(***************************************************************************)

ToldOf(kind, from) == {i \in DOMAIN told : told[i].note.kind = kind /\ told[i].note.from = from}

\* "Deduplicated per (type, room, escalation stage)": a stretch of a block has one
\* welfare check, and a re-check for every interval it lasts, unless two runs were
\* about to create the same; and a run that ends leaves nothing untold that was due
\* when it began and still is.
ToldOnce ==
  /\ \A i, j \in DOMAIN told :
       i < j /\ told[i].note = told[j].note => ~told[i].alone
  /\ \A s \in 1..clock :
       Cardinality({told[i].note : i \in ToldOf("recheck", s)}) <= (clock - s) \div Recheck

DueTold(t) ==
  LET age == run[t].now - since
  IN /\ reason = "DND" /\ age >= Welfare => ToldOf("welfare", since) # {}
     /\ reason # "no" /\ age >= Recheck =>
          \E i \in ToldOf("recheck", since) : told[i].note.stage = age \div Recheck
     /\ AtRisk(run[t].now) => ToldOf("eta", 0) # {}

EscalationsTold ==
  [][ToldOnce /\ \A t \in Ticks : run[t].at = "end" /\ run'[t] = IdleRun => DueTold(t)]_escVars
=============================================================================
