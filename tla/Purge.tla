------------------------------- MODULE Purge --------------------------------
(***************************************************************************)
(* The nightly deletion of guest data.  A ticker asks every few minutes    *)
(* whether a run has succeeded since the last scheduled evening, and a     *)
(* duty manager may start one by hand.  A run deletes part after part,     *)
(* while imports and guests go on writing; a call may fail, with a word or *)
(* without one, and the server may die; what was missed is made up for.    *)
(*                                                                         *)
(* The data are rows.  In three parts a run that ends well may leave some: *)
(* the guests' notes, the texts in the protocol, and the photos, of which  *)
(* only those are due that are older than the retention.                   *)
(***************************************************************************)
EXTENDS Integers, Sequences, FiniteSets

CONSTANTS
  Tickers,     \* requests of the ticker that may be under way at once
  Managers,    \* the same for the duty manager's button
  Parts,       \* the parts a run deletes, in turn
  Notes, Protocol, Photos,  \* three of them
  Retain,      \* for how long photos are kept (guestDataRetentionDays)
  Evening,     \* the time from one scheduled deletion to the next
  Window,      \* for how long a run that is RUNNING keeps others from starting
  MaxTime, MaxManual, MaxFails, MaxCrashes,  \* bounds
  MaxStock     \* bound: how much there is to delete at once

ASSUME PurgeBounds ==
  /\ Parts \in Nat \ {0} /\ Evening \in Nat \ {0} /\ Window \in Nat
  /\ {Notes, Protocol, Photos} \subseteq 1..Parts /\ Retain \in Nat
  /\ Notes # Protocol /\ Notes # Photos /\ Protocol # Photos
  /\ MaxTime \in Nat \ {0} /\ MaxManual \in Nat /\ MaxFails \in Nat /\ MaxCrashes \in Nat

Calls == Tickers \cup Managers

VARIABLES
  clock,
  data,      \* data[p]: when the data there are in part p were written
  runs,      \* the PurgeRun rows; now and skip are those of the call (observation)
  call,      \* the requests in service: now is when the request came, saw how many
             \* runs there were when it looked for one under way (observation),
             \* skip the parts it leaves out, or has not finished without a word
  manual, fails, crashes  \* how often each has happened

vars == <<clock, data, runs, call, manual, fails, crashes>>

Idle == [pc |-> "idle", now |-> 0, saw |-> 0, run |-> 0, part |-> 1, skip |-> {}]

Init ==
  /\ clock = 1
  /\ data = [p \in 1..Parts |-> {}]
  /\ runs = <<>>
  /\ call = [c \in Calls |-> Idle]
  /\ manual = 0
  /\ fails = 0
  /\ crashes = 0

Tick ==
  /\ clock < MaxTime
  /\ clock' = clock + 1
  /\ UNCHANGED <<data, runs, call, manual, fails, crashes>>

Stock == {x \in (1..Parts) \X (1..MaxTime) : x[2] \in data[x[1]]}

\* A call to the database fails.  (Bound: none does once the server has died.)
Trouble ==
  /\ fails < MaxFails /\ crashes = 0
  /\ fails' = fails + 1

\* An import, an arrival, a guest.
WriteData(p) ==
  /\ clock \notin data[p] /\ Cardinality(Stock) < MaxStock
  /\ data' = [data EXCEPT ![p] = @ \cup {clock}]
  /\ UNCHANGED <<clock, runs, call, manual, fails, crashes>>

-----------------------------------------------------------------------------
(***************************************************************************)
(* When a run is due.                                                      *)
(***************************************************************************)

LatestScheduledPurge(now) == (now \div Evening) * Evening

\* Variant with a bug: a run that ended with an error counts.
IsPurgeDueAnyEnd(now) ==
  \A i \in DOMAIN runs : runs[i].status # "RUNNING" => runs[i].done < LatestScheduledPurge(now)

\* No run has ended well since, or none at all.
IsPurgeDue(now) ==
  \A i \in DOMAIN runs : runs[i].status = "OK" => runs[i].done < LatestScheduledPurge(now)

Wake(c) ==
  /\ call[c].pc = "idle"
  /\ call' = [call EXCEPT ![c] = [Idle EXCEPT !.pc = "due", !.now = clock]]
  /\ UNCHANGED <<clock, data, runs, manual, fails, crashes>>

ReadLast(c) ==
  /\ call[c].pc = "due"
  /\ call' = [call EXCEPT ![c] = IF IsPurgeDue(@.now) THEN [@ EXCEPT !.pc = "look"] ELSE Idle]
  /\ UNCHANGED <<clock, data, runs, manual, fails, crashes>>

PressButton(c) ==
  /\ call[c].pc = "idle"
  /\ manual < MaxManual
  /\ manual' = manual + 1
  /\ call' = [call EXCEPT ![c] = [Idle EXCEPT !.pc = "look", !.now = clock]]
  /\ UNCHANGED <<clock, data, runs, fails, crashes>>

-----------------------------------------------------------------------------
(***************************************************************************)
(* runGuestDataPurge.                                                      *)
(***************************************************************************)

\* Variant with a bug: nobody is held back.
HeldBackNever(now) == FALSE

HeldBack(now) ==
  \E i \in DOMAIN runs : runs[i].status = "RUNNING" /\ runs[i].start > now - Window

Look(c) ==
  /\ call[c].pc = "look"
  /\ call' = [call EXCEPT ![c] = IF HeldBack(@.now) THEN Idle
                                 ELSE [@ EXCEPT !.pc = "create", !.saw = Len(runs)]]
  /\ UNCHANGED <<clock, data, runs, manual, fails, crashes>>

Create(c) ==
  /\ call[c].pc = "create"
  /\ runs' = Append(runs, [start |-> clock, now |-> call[c].now, status |-> "RUNNING",
                           done |-> 0, skip |-> {}])
  /\ call' = [call EXCEPT ![c] = [@ EXCEPT !.pc = "account", !.run = Len(runs) + 1]]
  /\ UNCHANGED <<clock, data, manual, fails, crashes>>

\* The account of the guest screen is looked up: it wrote the guests' notes.
FindAccount(c) ==
  /\ call[c].pc = "account"
  /\ call' = [call EXCEPT ![c].pc = "purge"]
  /\ UNCHANGED <<clock, data, runs, manual, fails, crashes>>

\* It is not found, or the call fails: the notes stay, the rest goes on.
MissAccount(c) ==
  /\ call[c].pc = "account"
  /\ Trouble
  /\ call' = [call EXCEPT ![c].pc = "purge", ![c].skip = @ \cup {Notes}]
  /\ UNCHANGED <<clock, data, runs, manual, crashes>>

\* What a run leaves in part p.
Kept(c, p) == IF p \in call[c].skip THEN data[p]
              ELSE IF p = Photos THEN {t \in data[p] : t >= call[c].now - Retain} ELSE {}

PurgePart(c) ==
  LET p == call[c].part IN
  /\ call[c].pc = "purge"
  /\ p <= Parts
  /\ data' = [data EXCEPT ![p] = Kept(c, p)]
  /\ call' = [call EXCEPT ![c].part = p + 1]
  /\ UNCHANGED <<clock, runs, manual, fails, crashes>>

\* A call fails while the texts in the protocol are taken out, row by row, or the retention
\* runs: what it has not come to stays, and the run goes on as if nothing had happened.
Swallow(c) ==
  LET p == call[c].part IN
  /\ call[c].pc = "purge"
  /\ p \in {Protocol, Photos}
  /\ Trouble
  /\ \E left \in SUBSET data[p] : /\ Kept(c, p) \subseteq left /\ left # Kept(c, p)
                                  /\ data' = [data EXCEPT ![p] = left]
  /\ call' = [call EXCEPT ![c].part = p + 1, ![c].skip = @ \cup {p}]
  /\ UNCHANGED <<clock, runs, manual, crashes>>

\* Variant with a bug: the run is called a success before its last part is done.
EndedEarly(c) == call[c].part >= Parts

Ended(c) == call[c].part > Parts

Record(c, s) ==
  runs' = [runs EXCEPT ![call[c].run] = [@ EXCEPT !.status = s, !.done = clock,
                                                  !.skip = call[c].skip]]

Succeed(c) ==
  /\ call[c].pc = "purge"
  /\ Ended(c)
  /\ Record(c, "OK")
  /\ call' = [call EXCEPT ![c].pc = "audit"]
  /\ UNCHANGED <<clock, data, manual, fails, crashes>>

Audit(c) ==
  /\ call[c].pc = "audit"
  /\ call' = [call EXCEPT ![c] = Idle]
  /\ UNCHANGED <<clock, data, runs, manual, fails, crashes>>

\* A database call of the run fails: the catch records it, also over an OK when it
\* is the protocol entry that fails.  That record may fail as well, and the run stays
\* as it is, RUNNING for the most part.  (The guard there is part of the bound on time:
\* enough is left for the run to hold nobody back any more.)
Fail(c) ==
  /\ call[c].pc \in {"account", "purge", "audit"}
  /\ Trouble
  /\ Record(c, "ERROR") \/ (clock + Window <= MaxTime /\ UNCHANGED runs)
  /\ call' = [call EXCEPT ![c] = Idle]
  /\ UNCHANGED <<clock, data, manual, crashes>>

\* A database call before the run fails: the request ends, with no trace.
Drop(c) ==
  /\ call[c].pc \in {"due", "look", "create"}
  /\ Trouble
  /\ call' = [call EXCEPT ![c] = Idle]
  /\ UNCHANGED <<clock, data, runs, manual, crashes>>

\* The server dies and starts again: a run that was under way stays RUNNING.
\* (The second guard, again, is part of the bound on time.)
Crash ==
  /\ crashes < MaxCrashes
  /\ clock + Window <= MaxTime
  /\ crashes' = crashes + 1
  /\ call' = [c \in Calls |-> Idle]
  /\ UNCHANGED <<clock, data, runs, manual, fails>>

RunStep(c) ==
  \/ ReadLast(c) \/ Look(c) \/ Create(c) \/ FindAccount(c) \/ PurgePart(c)
  \/ Succeed(c) \/ Audit(c)

Next ==
  \/ Tick \/ Crash
  \/ \E p \in 1..Parts : WriteData(p)
  \/ \E c \in Tickers : Wake(c)
  \/ \E c \in Managers : PressButton(c)
  \/ \E c \in Calls : RunStep(c) \/ MissAccount(c) \/ Swallow(c) \/ Fail(c) \/ Drop(c)

Spec == Init /\ [][Next]_vars

\* Time goes on, the ticker goes on asking, and what was begun is carried out.
FairSpec ==
  /\ Spec
  /\ WF_vars(Tick)
  /\ \A c \in Tickers : WF_vars(Wake(c))
  /\ \A c \in Calls : WF_vars(RunStep(c))

-----------------------------------------------------------------------------
(***************************************************************************)
(* Properties.                                                             *)
(***************************************************************************)

Soft == {Notes, Protocol, Photos}

TypeOK ==
  /\ clock \in 1..MaxTime
  /\ data \in [1..Parts -> SUBSET (1..MaxTime)]
  /\ runs \in Seq([start : Nat, now : Nat, status : {"RUNNING", "OK", "ERROR"}, done : Nat,
                   skip : SUBSET Soft])
  /\ call \in [Calls -> [pc : {"idle", "due", "look", "create", "account", "purge", "audit"},
                         now : Nat, saw : Nat, run : Nat, part : Nat,
                         skip : SUBSET Soft]]
  /\ \A c \in Calls : call[c].pc \in {"account", "purge", "audit"} => call[c].run \in DOMAIN runs
  /\ manual \in Nat /\ fails \in Nat /\ crashes \in Nat

OkRuns == {i \in DOMAIN runs : runs[i].status = "OK"}

\* Run r is to delete what is in part p from before this time.
Until(r, p) == IF p = Photos THEN r.now - Retain ELSE r.start

Overdue(p, t) == {x \in data[p] : x < t}

\* A run that is recorded as OK has left nothing that was written before it
\* began, and no photo past the retention when it was asked for, whatever was written,
\* failed or died while it ran; but for the notes if it could not find their account, and
\* for the protocol and the photos if a failure there was swallowed.
OkMeansPurged ==
  \A i \in OkRuns : \A p \in (1..Parts) \ runs[i].skip : Overdue(p, Until(runs[i], p)) = {}

\* Two runs are under way at once only if the later one had looked before the
\* earlier one was recorded, or the earlier one has been running for too long.
RunsExclude ==
  \A c, d \in Calls :
    /\ call[c].pc \in {"account", "purge"} /\ call[d].pc \in {"account", "purge"}
    /\ call[c].run < call[d].run
    => \/ call[d].saw < call[c].run
       \/ runs[call[c].run].start <= call[d].now - Window

\* What holds in every state of the runs and the calls that make them.
PurgeInv == TypeOK /\ RunsExclude

\* Every evening the guest data of the day are deleted in the end, also if runs
\* fail or the server dies, except by a run that was begun (for the photos, asked for)
\* before the evening and ended after it, or one that has left this part out.
EveningComes ==
  \A t \in {e \in 1..MaxTime : e % Evening = 0} :
    LET evening(p) == Until([start |-> t, now |-> t], p) IN
    clock >= t ~> \A p \in 1..Parts :
                    \/ Overdue(p, evening(p)) = {}
                    \/ \E i \in OkRuns : /\ runs[i].done >= t
                                         /\ Until(runs[i], p) < evening(p) \/ p \in runs[i].skip

=============================================================================
