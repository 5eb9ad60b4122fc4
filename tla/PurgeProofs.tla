---------------------------- MODULE PurgeProofs -----------------------------
(***************************************************************************)
(* Proofs about Purge, for any number of tickers, managers, parts, runs,   *)
(* failures and crashes, and any retention.  What a run has passed, and    *)
(* not left out, stays empty of what is older than the run (for the        *)
(* photos: than the retention asks); and a call that is about to create    *)
(* its run has seen every run under way, but for those recorded after it   *)
(* looked.                                                                 *)
(***************************************************************************)
EXTENDS Purge, TLAPS

Active == {"account", "purge", "audit"}

CallRecs == [pc : {"idle", "due", "look", "create"} \cup Active,
             now : Nat, saw : Nat, run : Nat, part : Nat, skip : SUBSET Soft]

RunRecs == [start : Nat, now : Nat, status : {"RUNNING", "OK", "ERROR"}, done : Nat,
            skip : SUBSET Soft]

\* A run is asked for and begins in the past, and with the first part.
Past ==
  /\ \A i \in DOMAIN runs : runs[i].start <= clock /\ runs[i].now <= clock
  /\ \A c \in Calls : /\ call[c].saw <= Len(runs) /\ call[c].now <= clock
                      /\ call[c].pc \notin Active => call[c].part = 1

\* The parts that a call has passed.
Passed ==
  \A c \in Calls : call[c].pc \in Active =>
    \A p \in 1..Parts :
      p < call[c].part /\ p \notin call[c].skip
        => Overdue(p, Until(runs[call[c].run], p)) = {}

\* A run belongs to one call, and is RUNNING until that call has ended it.
Own ==
  /\ \A c, d \in Calls :
       call[c].pc \in Active /\ call[d].pc \in Active /\ c # d => call[c].run # call[d].run
  /\ \A c \in Calls :
       call[c].pc \in {"account", "purge"} => runs[call[c].run].status = "RUNNING"
  /\ \A c \in Calls : call[c].pc \in Active => runs[call[c].run].now = call[c].now

\* The run of c is none that keeps d from starting.
Aside(c, d) ==
  call[c].run > call[d].saw \/ runs[call[c].run].start <= call[d].now - Window

Seen ==
  \A c, d \in Calls :
    call[c].pc \in {"account", "purge"} /\ call[d].pc = "create" => Aside(c, d)

IInv == TypeOK /\ Past /\ Passed /\ Own /\ Seen /\ RunsExclude /\ OkMeansPurged

-----------------------------------------------------------------------------
LEMMA Facts ==
  ASSUME TypeOK
  PROVE  /\ clock \in Nat /\ MaxTime \in Nat /\ Parts \in Nat /\ Window \in Nat
         /\ Len(runs) \in Nat /\ DOMAIN runs = 1..Len(runs)
         /\ Retain \in Nat
         /\ \A i \in DOMAIN runs : /\ runs[i] \in RunRecs /\ runs[i].start \in Nat
                                   /\ runs[i].now \in Nat /\ runs[i].skip \in SUBSET Soft
         /\ \A c \in Calls : /\ call[c] \in CallRecs /\ call[c].run \in Nat
                             /\ call[c].now \in Nat /\ call[c].saw \in Nat
                             /\ call[c].part \in Nat /\ call[c].skip \in SUBSET Soft
                             /\ call[c].pc \in Active => call[c].run \in DOMAIN runs
         /\ \A p \in 1..Parts : data[p] \subseteq 1..MaxTime
<1>1. clock \in Nat /\ MaxTime \in Nat /\ Parts \in Nat /\ Window \in Nat /\ Retain \in Nat
  BY PurgeBounds DEF TypeOK
<1>2. runs \in Seq(RunRecs)
  BY DEF TypeOK, RunRecs
<1>3. Len(runs) \in Nat /\ DOMAIN runs = 1..Len(runs)
  BY <1>2
<1>4. \A i \in DOMAIN runs : runs[i] \in RunRecs
  BY <1>2, <1>3
<1>5. \A i \in DOMAIN runs : /\ runs[i].start \in Nat /\ runs[i].now \in Nat
                           /\ runs[i].skip \in SUBSET Soft
  BY <1>4 DEF RunRecs
<1>6. call \in [Calls -> CallRecs]
  <2>1. CallRecs = [pc : {"idle", "due", "look", "create", "account", "purge", "audit"},
                    now : Nat, saw : Nat, run : Nat, part : Nat, skip : SUBSET Soft]
    BY DEF CallRecs, Active
  <2> QED BY <2>1 DEF TypeOK
<1>7. \A c \in Calls : call[c] \in CallRecs
  BY <1>6
<1>8. \A c \in Calls : /\ call[c].run \in Nat /\ call[c].now \in Nat /\ call[c].saw \in Nat
                       /\ call[c].part \in Nat /\ call[c].skip \in SUBSET Soft
  BY <1>7 DEF CallRecs
<1>9. \A c \in Calls : call[c].pc \in Active => call[c].run \in DOMAIN runs
  BY DEF TypeOK, Active
<1>10. \A p \in 1..Parts : data[p] \subseteq 1..MaxTime
  BY DEF TypeOK
<1> QED BY <1>1, <1>3, <1>4, <1>5, <1>7, <1>8, <1>9, <1>10

\* What run r was to delete by now is no more than what is there from before now.
LEMMA UntilPast ==
  ASSUME TypeOK, Past, NEW i \in DOMAIN runs, NEW p
  PROVE  Until(runs[i], p) \in Int /\ Until(runs[i], p) <= clock
BY Facts DEF Past, Until

\* What is deleted, or written now, is not overdue.
LEMMA NothingNew ==
  ASSUME NEW p, NEW t \in Int, clock \in Int, t <= clock, data'[p] \subseteq data[p] \cup {clock}
  PROVE  Overdue(p, t) = {} => Overdue(p, t)' = {}
BY DEF Overdue

LEMMA InitInv == Init => IInv
<1> SUFFICES ASSUME Init PROVE IInv
  OBVIOUS
<1>1. Idle \in [pc : {"idle", "due", "look", "create", "account", "purge", "audit"},
                now : Nat, saw : Nat, run : Nat, part : Nat, skip : SUBSET Soft]
  BY DEF Idle
<1>2. runs = <<>> /\ \A c \in Calls : call[c] = Idle
  BY DEF Init
<1>3. Idle.pc = "idle" /\ Idle.part = 1 /\ Idle.saw = 0 /\ Idle.now = 0
  BY DEF Idle
<1>4. call \in [Calls -> [pc : {"idle", "due", "look", "create", "account", "purge", "audit"},
                now : Nat, saw : Nat, run : Nat, part : Nat, skip : SUBSET Soft]]
  BY <1>1 DEF Init
<1>5. clock \in 1..MaxTime /\ data \in [1..Parts -> SUBSET (1..MaxTime)]
  BY PurgeBounds DEF Init
<1>6. TypeOK
  BY <1>2, <1>3, <1>4, <1>5 DEF Init, TypeOK
<1>7. 0 <= clock
  BY <1>5, PurgeBounds
<1> QED
  BY <1>2, <1>3, <1>6, <1>7 DEF IInv, Past, Passed, Own, Seen, RunsExclude, OkMeansPurged,
                         OkRuns, Active

\* A step that only moves a call c on, to k.
LEMMA CallStep ==
  ASSUME IInv, NEW c \in Calls, NEW k \in CallRecs,
         UNCHANGED <<clock, data, runs>>,
         call' = [call EXCEPT ![c] = k],
         manual' \in Nat, fails' \in Nat, crashes' \in Nat,
         k.saw <= Len(runs), k.now <= clock, k.pc \notin Active => k.part = 1,
         k.pc \in Active => /\ call[c].pc \in Active /\ call[c].pc # "audit"
                            /\ k.pc # "audit"
                            /\ k.run = call[c].run /\ k.now = call[c].now
                            /\ k.saw = call[c].saw /\ k.part = call[c].part
                            /\ call[c].skip \subseteq k.skip,
         k.pc = "create" => \A d \in Calls : call[d].pc \in {"account", "purge"} =>
                              \/ call[d].run > k.saw
                              \/ runs[call[d].run].start <= k.now - Window
  PROVE  IInv'
<1>1. \A d \in Calls : call'[d] = IF d = c THEN k ELSE call[d]
  BY DEF IInv, TypeOK
<1>2. /\ Len(runs) \in Nat /\ DOMAIN runs = 1..Len(runs)
      /\ k.part \in Nat /\ k.run \in Nat /\ k.saw \in Nat /\ k.now \in Nat
  BY Facts DEF IInv, CallRecs
<1>3. call' \in [Calls -> [pc : {"idle", "due", "look", "create", "account", "purge", "audit"},
                now : Nat, saw : Nat, run : Nat, part : Nat, skip : SUBSET Soft]]
  BY DEF IInv, TypeOK, CallRecs, Active
<1>4. TypeOK'
  BY <1>1, <1>3 DEF IInv, TypeOK, Active
<1>5. Past'
  BY <1>1, <1>2 DEF IInv, Past
<1>6. Passed'
  BY <1>1 DEF IInv, Passed, Overdue
<1>7. Own'
  BY <1>1 DEF IInv, Own, Active
<1>8. Seen'
  BY <1>1 DEF IInv, Seen, Aside, Active
<1>9. RunsExclude'
  BY <1>1 DEF IInv, RunsExclude, Active
<1>10. OkMeansPurged'
  BY DEF IInv, OkMeansPurged, OkRuns, Overdue
<1> QED BY <1>4, <1>5, <1>6, <1>7, <1>8, <1>9, <1>10 DEF IInv

LEMMA IdleRec ==
  ASSUME TypeOK
  PROVE  /\ Idle \in CallRecs /\ Idle.pc = "idle" /\ Idle.saw <= Len(runs) /\ Idle.part = 1
         /\ Idle.now <= clock
BY Facts DEF Idle, CallRecs

LEMMA Counters ==
  ASSUME TypeOK
  PROVE  manual \in Nat /\ fails \in Nat /\ crashes \in Nat
BY DEF TypeOK

LEMMA WakeInv == ASSUME IInv, NEW c \in Calls, Wake(c) PROVE IInv'
<1> DEFINE k == [Idle EXCEPT !.pc = "due", !.now = clock]
<1>1. clock \in Nat /\ Idle \in CallRecs /\ Idle.saw <= Len(runs) /\ Idle.part = 1
  BY Facts, IdleRec DEF IInv
<1>2. k \in CallRecs /\ k.pc = "due" /\ k.saw <= Len(runs) /\ k.part = 1 /\ k.now = clock
  BY <1>1 DEF CallRecs
<1>3. k.now <= clock
  BY <1>1, <1>2
<1>4. call' = [call EXCEPT ![c] = k] /\ UNCHANGED <<clock, data, runs, manual, fails, crashes>>
  BY DEF Wake
<1> HIDE DEF k
<1> QED BY <1>2, <1>4, <1>3, Counters, CallStep DEF IInv, Active

LEMMA PressInv == ASSUME IInv, NEW c \in Calls, PressButton(c) PROVE IInv'
<1> DEFINE k == [Idle EXCEPT !.pc = "look", !.now = clock]
<1>1. clock \in Nat /\ Idle \in CallRecs /\ Idle.saw <= Len(runs) /\ Idle.part = 1
  BY Facts, IdleRec DEF IInv
<1>2. k \in CallRecs /\ k.pc = "look" /\ k.saw <= Len(runs) /\ k.part = 1 /\ k.now = clock
  BY <1>1 DEF CallRecs
<1>3. k.now <= clock
  BY <1>1, <1>2
<1>4. /\ call' = [call EXCEPT ![c] = k] /\ UNCHANGED <<clock, data, runs, fails, crashes>>
      /\ manual' = manual + 1
  BY DEF PressButton
<1>5. manual' \in Nat /\ fails' \in Nat /\ crashes' \in Nat
  BY <1>4, Counters DEF IInv
<1> HIDE DEF k
<1> QED BY <1>2, <1>4, <1>5, <1>3, CallStep DEF Active

LEMMA ReadLastInv == ASSUME IInv, NEW c \in Calls, ReadLast(c) PROVE IInv'
<1> DEFINE m == [call[c] EXCEPT !.pc = "look"]
           k == IF IsPurgeDue(call[c].now) THEN m ELSE Idle
<1>1. /\ call[c] \in CallRecs /\ call[c].saw <= Len(runs) /\ call[c].part = 1
      /\ call[c].now <= clock
  BY Facts DEF IInv, Past, ReadLast, Active
<1>2. m \in CallRecs /\ m.pc = "look" /\ m.saw = call[c].saw /\ m.part = 1 /\ m.now = call[c].now
  BY <1>1 DEF CallRecs
<1>3. call' = [call EXCEPT ![c] = k] /\ UNCHANGED <<clock, data, runs, manual, fails, crashes>>
  BY DEF ReadLast
<1>4. k \in CallRecs /\ k.pc \in {"look", "idle"} /\ k.saw <= Len(runs) /\ k.part = 1 /\ k.now <= clock
  BY <1>1, <1>2, IdleRec DEF IInv
<1> HIDE DEF k, m
<1> QED BY <1>3, <1>4, Counters, CallStep DEF IInv, Active

LEMMA LookInv == ASSUME IInv, NEW c \in Calls, Look(c) PROVE IInv'
<1> DEFINE m == [call[c] EXCEPT !.pc = "create", !.saw = Len(runs)]
           k == IF HeldBack(call[c].now) THEN Idle ELSE m
<1>1. call[c] \in CallRecs /\ Len(runs) \in Nat /\ call[c].part = 1 /\ call[c].now <= clock
  BY Facts DEF IInv, Past, Look, Active
<1>2. /\ m \in CallRecs /\ m.pc = "create" /\ m.saw = Len(runs) /\ m.now = call[c].now
      /\ m.part = 1
  BY <1>1 DEF CallRecs
<1>3. call' = [call EXCEPT ![c] = k] /\ UNCHANGED <<clock, data, runs, manual, fails, crashes>>
  BY DEF Look
<1>4. ASSUME k.pc = "create", NEW d \in Calls, call[d].pc \in {"account", "purge"}
      PROVE  runs[call[d].run].start <= k.now - Window
  <2>1. ~HeldBack(call[c].now) /\ k.now = call[c].now
    BY <1>2, <1>4, IdleRec DEF IInv
  <2>2. /\ call[d].run \in DOMAIN runs /\ runs[call[d].run].status = "RUNNING"
        /\ runs[call[d].run].start \in Nat /\ call[c].now \in Nat /\ Window \in Nat
    BY <1>4, Facts DEF IInv, Own, Active
  <2>3. ~(runs[call[d].run].start > call[c].now - Window)
    BY <2>1, <2>2 DEF HeldBack
  <2> QED BY <2>1, <2>2, <2>3
<1>5. k \in CallRecs /\ k.pc \in {"create", "idle"} /\ k.saw <= Len(runs) /\ k.part = 1 /\ k.now <= clock
  BY <1>1, <1>2, IdleRec DEF IInv
<1> HIDE DEF k, m
<1> QED BY <1>3, <1>4, <1>5, Counters, CallStep DEF IInv, Active

LEMMA FindAccountInv == ASSUME IInv, NEW c \in Calls, FindAccount(c) PROVE IInv'
<1> DEFINE k == [call[c] EXCEPT !.pc = "purge"]
<1>1. call[c] \in CallRecs /\ call[c].saw <= Len(runs) /\ call[c].now <= clock
  BY Facts DEF IInv, Past
<1>2. /\ k \in CallRecs /\ k.pc = "purge" /\ k.saw = call[c].saw /\ k.now = call[c].now
      /\ k.run = call[c].run /\ k.part = call[c].part /\ k.skip = call[c].skip
  BY <1>1 DEF CallRecs, Active
<1>3. call' = [call EXCEPT ![c] = k] /\ UNCHANGED <<clock, data, runs, manual, fails, crashes>>
  BY DEF FindAccount
<1>4. call[c].pc = "account"
  BY DEF FindAccount
<1> HIDE DEF k
<1> QED BY <1>1, <1>2, <1>3, <1>4, Counters, CallStep DEF IInv, Active

LEMMA MissAccountInv == ASSUME IInv, NEW c \in Calls, MissAccount(c) PROVE IInv'
<1> DEFINE s == call[c].skip \cup {Notes}
           k == [call[c] EXCEPT !.pc = "purge", !.skip = s]
<1>1. /\ call[c] \in CallRecs /\ call[c].saw <= Len(runs) /\ call[c].now <= clock
      /\ call[c].skip \subseteq Soft
  BY Facts DEF IInv, Past
<1>2. /\ k \in CallRecs /\ k.pc = "purge" /\ k.saw = call[c].saw /\ k.now = call[c].now
      /\ k.run = call[c].run /\ k.part = call[c].part /\ k.skip = s
      /\ call[c].skip \subseteq s
  BY <1>1 DEF CallRecs, Active, Soft
<1>3. /\ call' = [call EXCEPT ![c] = k] /\ UNCHANGED <<clock, data, runs, manual, crashes>>
      /\ fails' = fails + 1
  BY DEF MissAccount, Trouble, IInv, TypeOK
<1>4. call[c].pc = "account"
  BY DEF MissAccount
<1>5. manual' \in Nat /\ fails' \in Nat /\ crashes' \in Nat
  BY <1>3, Counters DEF IInv
<1> HIDE DEF k
<1> QED BY <1>1, <1>2, <1>3, <1>4, <1>5, CallStep DEF Active

LEMMA AuditInv == ASSUME IInv, NEW c \in Calls, Audit(c) PROVE IInv'
<1>1. /\ call' = [call EXCEPT ![c] = Idle] /\ UNCHANGED <<clock, data, runs>>
      /\ UNCHANGED <<manual, fails, crashes>>
  BY DEF Audit
<1>2. /\ Idle \in CallRecs /\ Idle.saw <= Len(runs) /\ Idle.part = 1 /\ Idle.now <= clock
      /\ Idle.pc \notin Active /\ Idle.pc # "create"
  BY IdleRec DEF IInv, Active
<1>3. manual' \in Nat /\ fails' \in Nat /\ crashes' \in Nat
  BY <1>1, Counters DEF IInv
<1> QED BY <1>1, <1>2, <1>3, CallStep

LEMMA DropInv == ASSUME IInv, NEW c \in Calls, Drop(c) PROVE IInv'
<1>1. /\ call' = [call EXCEPT ![c] = Idle] /\ UNCHANGED <<clock, data, runs, manual, crashes>>
      /\ fails' = fails + 1
  BY DEF Drop, Trouble
<1>2. /\ Idle \in CallRecs /\ Idle.saw <= Len(runs) /\ Idle.part = 1 /\ Idle.now <= clock
      /\ Idle.pc \notin Active /\ Idle.pc # "create"
  BY IdleRec DEF IInv, Active
<1>3. manual' \in Nat /\ fails' \in Nat /\ crashes' \in Nat
  BY <1>1, Counters DEF IInv
<1> QED BY <1>1, <1>2, <1>3, CallStep

LEMMA CrashInv == ASSUME IInv, Crash PROVE IInv'
<1>1. /\ call' = [c \in Calls |-> Idle] /\ UNCHANGED <<clock, data, runs, manual, fails>>
      /\ crashes' = crashes + 1
  BY DEF Crash
<1>2. /\ \A c \in Calls : call'[c] = Idle
      /\ Idle.pc = "idle" /\ Idle.part = 1 /\ Idle.saw = 0 /\ Idle.now = 0
  BY <1>1 DEF Idle
<1>3. TypeOK'
  BY <1>1, <1>2 DEF IInv, TypeOK, Idle
<1>4. Past' /\ Passed' /\ Own' /\ Seen' /\ RunsExclude'
  BY <1>1, <1>2, Facts DEF IInv, Past, Passed, Own, Seen, RunsExclude, Active
<1> QED BY <1>1, <1>3, <1>4 DEF IInv, OkMeansPurged, OkRuns, Overdue

LEMMA TickInv == ASSUME IInv, Tick PROVE IInv'
<1>1. TypeOK'
  BY PurgeBounds DEF Tick, IInv, TypeOK
<1>2. Past'
  BY Facts DEF Tick, IInv, Past
<1>3. Passed' /\ Own' /\ Seen' /\ RunsExclude' /\ OkMeansPurged'
  BY DEF Tick, IInv, Passed, Own, Seen, Aside, RunsExclude, OkMeansPurged, OkRuns, Overdue
<1> QED BY <1>1, <1>2, <1>3 DEF IInv

LEMMA WriteInv == ASSUME IInv, NEW p \in 1..Parts, WriteData(p) PROVE IInv'
<1>1. TypeOK'
  BY DEF WriteData, IInv, TypeOK
<1>2. Past' /\ Own' /\ Seen' /\ RunsExclude'
  BY DEF WriteData, IInv, Past, Own, Seen, Aside, RunsExclude
<1>3. /\ \A q \in 1..Parts : data'[q] \subseteq data[q] \cup {clock}
      /\ UNCHANGED <<clock, runs, call>>
  BY DEF WriteData, IInv, TypeOK
<1>4. \A i \in DOMAIN runs, q \in 1..Parts :
        Overdue(q, Until(runs[i], q)) = {} => Overdue(q, Until(runs[i], q))' = {}
  <2> SUFFICES ASSUME NEW i \in DOMAIN runs, NEW q \in 1..Parts, Overdue(q, Until(runs[i], q)) = {}
               PROVE  Overdue(q, Until(runs[i], q))' = {}
    OBVIOUS
  <2> DEFINE u == Until(runs[i], q)
  <2>1. u \in Int /\ u <= clock /\ clock \in Int
    BY UntilPast, Facts DEF IInv
  <2>2. u' = u
    BY <1>3 DEF Until
  <2> HIDE DEF u
  <2> QED BY <1>3, <2>1, <2>2, NothingNew DEF u, Overdue
<1>5. Passed'
  <2>1. \A c \in Calls : call[c].pc \in Active => call[c].run \in DOMAIN runs
    BY Facts DEF IInv
  <2> HIDE DEF Active
  <2> QED BY <1>3, <1>4, <2>1 DEF IInv, Passed
<1>6. OkMeansPurged'
  <2>1. OkRuns' = OkRuns /\ OkRuns \subseteq DOMAIN runs
    BY <1>3 DEF OkRuns
  <2> QED BY <1>3, <1>4, <2>1 DEF IInv, OkMeansPurged
<1> QED BY <1>1, <1>2, <1>5, <1>6 DEF IInv

LEMMA Appended ==
  ASSUME NEW S, NEW q \in Seq(S), NEW x \in S
  PROVE  LET a == Append(q, x) IN
         /\ a \in Seq(S) /\ Len(a) = Len(q) + 1 /\ DOMAIN a = 1..(Len(q) + 1)
         /\ \A i \in 1..Len(q) : a[i] = q[i]
         /\ a[Len(q) + 1] = x
OBVIOUS

LEMMA CreateInv == ASSUME IInv, NEW c \in Calls, Create(c) PROVE IInv'
<1> DEFINE n == Len(runs) + 1
           new == [start |-> clock, now |-> call[c].now, status |-> "RUNNING", done |-> 0, skip |-> {}]
           k == [call[c] EXCEPT !.pc = "account", !.run = n]
<1>1. /\ call[c] \in CallRecs /\ call[c].pc = "create" /\ call[c].part = 1 /\ clock \in Nat
      /\ Len(runs) \in Nat /\ DOMAIN runs = 1..Len(runs)
      /\ \A d \in Calls : /\ call[d].pc \in Active => call[d].run \in 1..Len(runs)
                          /\ call[d].run \in Nat /\ call[d].saw \in Nat /\ call[d].saw <= Len(runs)
                          /\ call[d].part \in Nat /\ call[d].now \in Nat /\ call[d].now <= clock
  BY Facts DEF IInv, Past, Create, Active
<1>0. /\ n \in Nat /\ n \notin 1..Len(runs) /\ n > Len(runs)
      /\ \A i \in 1..n : i \in 1..Len(runs) \/ i = n
      /\ \A i \in 1..Len(runs) : i \in 1..n
  BY <1>1
<1> HIDE DEF n
<1>2. /\ k \in CallRecs /\ k.pc = "account" /\ k.run = n /\ k.saw = call[c].saw
      /\ k.now = call[c].now /\ k.part = call[c].part
  <2>1. /\ call[c].run \in Nat /\ call[c].now \in Nat /\ call[c].saw \in Nat
        /\ call[c].part \in Nat /\ call[c].skip \in SUBSET Soft
    BY Facts DEF IInv
  <2> DEFINE m == [call[c] EXCEPT !.pc = "account"]
  <2>2. /\ m \in CallRecs /\ m.pc = "account" /\ m.saw = call[c].saw /\ m.now = call[c].now
        /\ m.part = call[c].part
    BY <1>1 DEF CallRecs, Active
  <2>3. k = [m EXCEPT !.run = n]
    BY <1>1 DEF CallRecs
  <2> HIDE DEF k, m
  <2> QED BY <1>0, <2>2, <2>3 DEF CallRecs
<1>3. call' = [call EXCEPT ![c] = k] /\ runs' = Append(runs, new)
  BY DEF Create, n
<1>4. UNCHANGED <<clock, data>> /\ UNCHANGED <<manual, fails, crashes>>
  BY DEF Create
<1>5. new \in RunRecs /\ new.start = clock /\ new.now = call[c].now /\ new.status = "RUNNING"
  BY <1>1 DEF RunRecs
<1>6. runs \in Seq(RunRecs)
  BY DEF IInv, TypeOK, RunRecs
<1> HIDE DEF k, new
<1>7. /\ runs' \in Seq(RunRecs) /\ Len(runs') = n /\ DOMAIN runs' = 1..n
      /\ \A i \in 1..Len(runs) : runs'[i] = runs[i]
      /\ runs'[n] = new
  BY <1>1, <1>3, <1>5, <1>6, Appended DEF n
<1>8. call' \in [Calls -> CallRecs] /\ \A d \in Calls : call'[d] = IF d = c THEN k ELSE call[d]
  BY <1>2, <1>3 DEF IInv, TypeOK, CallRecs, Active
<1>9. TypeOK'
  <2>1. call' \in [Calls -> [pc : {"idle", "due", "look", "create", "account", "purge", "audit"},
                             now : Nat, saw : Nat, run : Nat, part : Nat, skip : SUBSET Soft]]
    BY <1>8 DEF CallRecs, Active
  <2>2. \A d \in Calls : call'[d].pc \in Active => call'[d].run \in DOMAIN runs'
    BY <1>0, <1>1, <1>2, <1>7, <1>8
  <2>3. runs' \in Seq([start : Nat, now : Nat, status : {"RUNNING", "OK", "ERROR"}, done : Nat,
                       skip : SUBSET Soft])
    BY <1>7 DEF RunRecs
  <2> QED BY <1>4, <2>1, <2>2, <2>3 DEF IInv, TypeOK, Active
<1>10. Past'
  <2>1. \A i \in DOMAIN runs' : runs'[i].start <= clock' /\ runs'[i].now <= clock'
    BY <1>0, <1>1, <1>4, <1>5, <1>7 DEF IInv, Past
  <2>2. \A d \in Calls : call'[d].saw <= Len(runs') /\ call'[d].now <= clock'
    <3>1. \A d \in Calls : call'[d].saw = call[d].saw /\ call'[d].now = call[d].now
      BY <1>2, <1>8
    <3> QED BY <1>0, <1>1, <1>4, <1>7, <3>1
  <2>3. \A d \in Calls : call'[d].pc \notin Active => call'[d].part = 1
    BY <1>2, <1>8 DEF IInv, Past, Active
  <2> QED BY <2>1, <2>2, <2>3 DEF Past
<1>11. Passed'
  <2> SUFFICES ASSUME NEW d \in Calls, call'[d].pc \in Active, NEW p \in 1..Parts,
                      p < call'[d].part, p \notin call'[d].skip
               PROVE  Overdue(p, Until(runs[call[d].run], p))' = {}
    BY DEF Passed
  <2>1. CASE d = c
    BY <1>1, <1>2, <1>8, <2>1
  <2>2. CASE d # c
    <3>1. call'[d] = call[d] /\ call[d].run \in 1..Len(runs)
      BY <1>1, <1>8, <2>2
    <3>2. runs'[call'[d].run] = runs[call[d].run]
      BY <1>7, <3>1
    <3>3. Overdue(p, Until(runs[call[d].run], p)) = {}
      BY <3>1 DEF IInv, Passed
    <3> QED BY <1>4, <3>2, <3>3 DEF Overdue, Until
  <2> QED BY <2>1, <2>2
<1>12. Own'
  <2>1. \A d \in Calls : call'[d].pc \in {"account", "purge"} /\ d # c =>
          /\ call'[d] = call[d] /\ call[d].pc \in {"account", "purge"}
          /\ call[d].run \in 1..Len(runs) /\ runs'[call[d].run] = runs[call[d].run]
    BY <1>1, <1>7, <1>8 DEF Active
  <2>2. \A d \in Calls : call'[d].pc \in {"account", "purge"} =>
          runs'[call'[d].run].status = "RUNNING"
    BY <1>2, <1>5, <1>7, <1>8, <2>1 DEF IInv, Own
  <2>3. \A d, f \in Calls :
          call'[d].pc \in Active /\ call'[f].pc \in Active /\ d # f => call'[d].run # call'[f].run
    BY <1>0, <1>1, <1>2, <1>8 DEF IInv, Own
  <2>4. \A d \in Calls : call'[d].pc \in Active => runs'[call'[d].run].now = call'[d].now
    BY <1>1, <1>2, <1>5, <1>7, <1>8 DEF IInv, Own, Active
  <2> QED BY <2>2, <2>3, <2>4 DEF Own
<1>13. \A d \in Calls : call'[d].pc \in {"account", "purge"} /\ d # c =>
          /\ call'[d] = call[d] /\ call[d].pc \in {"account", "purge"}
          /\ call[d].run \in 1..Len(runs) /\ runs'[call[d].run] = runs[call[d].run]
  BY <1>1, <1>7, <1>8 DEF Active
<1>14. Seen' /\ RunsExclude'
  <2>1. \A d \in Calls : call'[d].pc = "create" => d # c /\ call'[d] = call[d]
    BY <1>2, <1>8
  <2>2. \A d \in Calls : call[d].saw <= Len(runs) /\ Len(runs) < n /\ call[d].saw \in Nat
    BY <1>0, <1>1
  <2>3. Seen'
    <3> SUFFICES ASSUME NEW d \in Calls, NEW f \in Calls,
                        call'[d].pc \in {"account", "purge"}, call'[f].pc = "create"
                 PROVE  Aside(d, f)'
      BY DEF Seen
    <3>1. f # c /\ call'[f] = call[f] /\ call[f].pc = "create"
      BY <2>1
    <3>2. CASE d = c
      <4>1. call'[d].run = n
        BY <1>2, <1>8, <3>2
      <4>2. call[f].saw \in Nat /\ call[f].saw < n
        BY <1>0, <1>1, <2>2
      <4> QED BY <1>0, <3>1, <4>1, <4>2 DEF Aside
    <3>3. CASE d # c
      <4>1. call'[d] = call[d] /\ runs'[call[d].run] = runs[call[d].run]
        BY <1>13, <3>3
      <4>2. Aside(d, f)
        BY <1>13, <3>1, <3>3 DEF IInv, Seen
      <4> QED BY <3>1, <4>1, <4>2 DEF Aside
    <3> QED BY <3>2, <3>3
  <2>4. ASSUME NEW d \in Calls, NEW f \in Calls,
               call'[d].pc \in {"account", "purge"}, call'[f].pc \in {"account", "purge"},
               call'[d].run < call'[f].run
        PROVE  \/ call'[f].saw < call'[d].run
               \/ runs'[call'[d].run].start <= call'[f].now - Window
    <3>1. d # c
      BY <1>0, <1>1, <1>2, <1>8, <1>13, <2>4
    <3>2. /\ call'[d] = call[d] /\ call[d].pc \in {"account", "purge"}
          /\ runs'[call[d].run] = runs[call[d].run]
      BY <1>13, <2>4, <3>1
    <3>3. CASE f = c
      BY <1>1, <1>2, <1>8, <3>2, <3>3 DEF IInv, Seen, Aside
    <3>4. CASE f # c
      BY <1>8, <1>13, <2>4, <3>2, <3>4 DEF IInv, RunsExclude
    <3> QED BY <3>3, <3>4
  <2> QED BY <2>3, <2>4 DEF RunsExclude
<1>15. OkMeansPurged'
  <2>1. OkRuns' = OkRuns
    BY <1>0, <1>1, <1>5, <1>7 DEF OkRuns
  <2>2. \A i \in OkRuns : i \in 1..Len(runs)
    BY <1>1 DEF OkRuns
  <2> QED BY <1>4, <1>7, <2>1, <2>2 DEF IInv, OkMeansPurged, Overdue, Until
<1> QED BY <1>9, <1>10, <1>11, <1>12, <1>13, <1>14, <1>15 DEF IInv

\* A call goes on to its next part, and what it leaves of this one is not overdue, or left out.
LEMMA PartStep ==
  ASSUME IInv, NEW c \in Calls, NEW left, NEW s \in SUBSET Soft,
         call[c].pc = "purge", call[c].part <= Parts, call[c].skip \subseteq s,
         left \subseteq data[call[c].part],
         data' = [data EXCEPT ![call[c].part] = left],
         call' = [call EXCEPT ![c] = [call[c] EXCEPT !.part = call[c].part + 1, !.skip = s]],
         call[c].part \in s
           \/ \A x \in left : ~(x < Until(runs[call[c].run], call[c].part)),
         UNCHANGED <<clock, runs>>, manual' \in Nat, fails' \in Nat, crashes' \in Nat
  PROVE  IInv'
<1> DEFINE p == call[c].part
           k == [call[c] EXCEPT !.part = p + 1, !.skip = s]
<1>1. /\ call[c] \in CallRecs /\ p \in Nat /\ DOMAIN runs = 1..Len(runs) /\ Len(runs) \in Nat
      /\ \A d \in Calls : /\ call[d].pc \in Active => call[d].run \in DOMAIN runs
                          /\ call[d].part \in Nat
  BY Facts DEF IInv
<1>2. /\ k \in CallRecs /\ k.pc = "purge" /\ k.run = call[c].run /\ k.saw = call[c].saw
      /\ k.now = call[c].now /\ k.part = p + 1 /\ k.skip = s
  <2>1. p + 1 \in Nat
    BY <1>1
  <2> QED BY <1>1, <2>1 DEF CallRecs
<1>3. call' = [call EXCEPT ![c] = k] /\ UNCHANGED <<clock, runs>>
  OBVIOUS
<1> HIDE DEF k
<1>5. \A d \in Calls : call'[d] = IF d = c THEN k ELSE call[d]
  BY <1>3 DEF IInv, TypeOK
<1>6. /\ \A q \in 1..Parts : data'[q] = IF q = p THEN left ELSE data[q]
      /\ \A q \in 1..Parts : data'[q] \subseteq data[q]
  BY DEF IInv, TypeOK
<1>7. ASSUME NEW i \in DOMAIN runs, NEW q \in 1..Parts, Overdue(q, Until(runs[i], q)) = {}
      PROVE  Overdue(q, Until(runs[i], q))' = {}
  BY <1>3, <1>6, <1>7 DEF Overdue, Until
<1>8. TypeOK'
  <2>1. call' \in [Calls -> [pc : {"idle", "due", "look", "create", "account", "purge", "audit"},
                             now : Nat, saw : Nat, run : Nat, part : Nat, skip : SUBSET Soft]]
    BY <1>2, <1>3 DEF IInv, TypeOK, CallRecs, Active
  <2>2. data' \in [1..Parts -> SUBSET (1..MaxTime)]
    <3>1. data \in [1..Parts -> SUBSET (1..MaxTime)]
      BY DEF IInv, TypeOK
    <3>2. p \in 1..Parts => left \subseteq 1..MaxTime
      BY <3>1
    <3> QED BY <3>1, <3>2
  <2>3. \A d \in Calls : call'[d].pc \in Active => call'[d].run \in DOMAIN runs'
    BY <1>1, <1>2, <1>3, <1>5 DEF Active
  <2> QED BY <1>3, <2>1, <2>2, <2>3 DEF IInv, TypeOK, Active
<1>9. Past'
  BY <1>1, <1>2, <1>3, <1>5 DEF IInv, Past, Active
<1>10. Passed'
  <2> SUFFICES ASSUME NEW d \in Calls, call'[d].pc \in Active, NEW q \in 1..Parts,
                      q < call'[d].part, q \notin call'[d].skip
               PROVE  Overdue(q, Until(runs[call[d].run], q))' = {}
    BY DEF Passed
  <2>0. call'[d].run = call[d].run /\ call[d].pc \in Active /\ call[d].run \in DOMAIN runs
    BY <1>1, <1>2, <1>5 DEF Active
  <2>1. CASE d = c /\ q = p
    <3>1. q \notin s /\ data'[q] = left
      BY <1>2, <1>5, <1>6, <2>1
    <3>2. \A x \in left : ~(x < Until(runs[call[d].run], q))
      BY <2>1, <3>1
    <3> QED BY <1>3, <2>0, <3>1, <3>2 DEF Overdue, Until
  <2>2. CASE d # c \/ q # p
    <3>1. q < call[d].part /\ q \notin call[d].skip
      BY <1>1, <1>2, <1>5, <2>2
    <3>2. Overdue(q, Until(runs[call[d].run], q)) = {}
      BY <2>0, <3>1 DEF IInv, Passed
    <3> QED BY <1>3, <1>7, <2>0, <3>2 DEF Overdue, Until
  <2> QED BY <2>1, <2>2
<1>11. Own' /\ Seen' /\ RunsExclude'
  <2>1. \A d \in Calls : /\ call'[d].pc = call[d].pc /\ call'[d].run = call[d].run
                         /\ call'[d].saw = call[d].saw /\ call'[d].now = call[d].now
    BY <1>1, <1>2, <1>5
  <2>2. Own'
    BY <1>3, <2>1 DEF IInv, Own
  <2>3. Seen'
    BY <1>3, <2>1 DEF IInv, Seen, Aside
  <2>4. RunsExclude'
    BY <1>3, <2>1 DEF IInv, RunsExclude
  <2> QED BY <2>2, <2>3, <2>4
<1>12. OkMeansPurged'
  <2>1. OkRuns' = OkRuns /\ OkRuns \subseteq DOMAIN runs
    BY <1>3 DEF OkRuns
  <2> QED BY <1>3, <1>7, <2>1 DEF IInv, OkMeansPurged
<1> QED BY <1>8, <1>9, <1>10, <1>11, <1>12 DEF IInv

\* What a run leaves of a part that it does not leave out is not overdue.
LEMMA KeptIsDue ==
  ASSUME IInv, NEW c \in Calls, call[c].pc = "purge"
  PROVE  LET p == call[c].part IN
         /\ call[c].skip \in SUBSET Soft /\ Kept(c, p) \subseteq data[p]
         /\ p \in call[c].skip \/ \A x \in Kept(c, p) : ~(x < Until(runs[call[c].run], p))
<1> DEFINE p == call[c].part
<1>1. runs[call[c].run].now = call[c].now
  BY DEF IInv, Own, Active
<1>2. call[c].skip \in SUBSET Soft
  BY Facts DEF IInv
<1>3. Kept(c, p) \subseteq data[p]
  BY DEF Kept
<1>4. p \in call[c].skip \/ \A x \in Kept(c, p) : ~(x < Until(runs[call[c].run], p))
  <2> SUFFICES ASSUME p \notin call[c].skip, NEW x \in Kept(c, p)
               PROVE  ~(x < Until(runs[call[c].run], p))
    OBVIOUS
  <2>1. p = Photos /\ x \in data[p] /\ x >= call[c].now - Retain
    BY DEF Kept
  <2>2. data[Photos] \subseteq 1..MaxTime /\ call[c].now \in Nat /\ Retain \in Nat
    BY Facts, PurgeBounds DEF IInv
  <2> QED BY <1>1, <2>1, <2>2 DEF Until
<1> QED BY <1>2, <1>3, <1>4

LEMMA PurgePartInv == ASSUME IInv, NEW c \in Calls, PurgePart(c) PROVE IInv'
<1> DEFINE p == call[c].part
           left == Kept(c, p)
           s == call[c].skip
<1>1. /\ call[c].pc = "purge" /\ p <= Parts /\ UNCHANGED <<clock, runs, manual, fails, crashes>>
      /\ data' = [data EXCEPT ![p] = left]
      /\ call' = [call EXCEPT ![c] = [call[c] EXCEPT !.part = p + 1]]
  BY DEF PurgePart
<1>2. [call[c] EXCEPT !.part = p + 1] = [call[c] EXCEPT !.part = p + 1, !.skip = s]
  BY Facts DEF IInv, CallRecs
<1>3. s \in SUBSET Soft /\ left \subseteq data[p]
      /\ (p \in s \/ \A x \in left : ~(x < Until(runs[call[c].run], p)))
  BY <1>1, KeptIsDue
<1>4. manual' \in Nat /\ fails' \in Nat /\ crashes' \in Nat
  BY <1>1, Counters DEF IInv
<1> HIDE DEF left
<1> QED BY <1>1, <1>2, <1>3, <1>4, PartStep

LEMMA SwallowInv == ASSUME IInv, NEW c \in Calls, Swallow(c) PROVE IInv'
<1> DEFINE p == call[c].part
           s == call[c].skip \cup {p}
<1>1. PICK left \in SUBSET data[p] : data' = [data EXCEPT ![p] = left]
  BY DEF Swallow
<1>2. /\ call[c].pc = "purge" /\ p \in {Protocol, Photos}
      /\ UNCHANGED <<clock, runs, manual, crashes>> /\ fails' = fails + 1
      /\ call' = [call EXCEPT ![c] = [call[c] EXCEPT !.part = p + 1, !.skip = @ \cup {p}]]
  BY DEF Swallow, Trouble
<1>3. [call[c] EXCEPT !.part = p + 1, !.skip = @ \cup {p}] = [call[c] EXCEPT !.part = p + 1, !.skip = s]
  BY Facts DEF IInv, CallRecs
<1>4. s \in SUBSET Soft /\ p <= Parts
  <2>1. call[c].skip \in SUBSET Soft
    BY Facts DEF IInv
  <2> QED BY <1>2, <2>1, PurgeBounds DEF Soft
<1>5. manual' \in Nat /\ fails' \in Nat /\ crashes' \in Nat
  BY <1>2, Counters DEF IInv
<1> QED BY <1>1, <1>2, <1>3, <1>4, <1>5, PartStep

\* A run comes to its end: only its own entry is written, and its call is no longer
\* under way.
LEMMA EndStep ==
  ASSUME IInv, NEW c \in Calls, call[c].pc \in Active, NEW k \in CallRecs,
         NEW s \in {"OK", "ERROR"}, Record(c, s),
         s = "OK" => \A p \in (1..Parts) \ call[c].skip :
                       Overdue(p, Until(runs[call[c].run], p)) = {},
         call' = [call EXCEPT ![c] = k], UNCHANGED <<clock, data>>,
         manual' \in Nat, fails' \in Nat, crashes' \in Nat,
         k.pc \in {"idle", "audit"}, k.saw <= Len(runs), k.now <= clock, k.pc = "idle" => k.part = 1,
         k.pc = "audit" => /\ k.run = call[c].run /\ k.part = call[c].part
                            /\ k.skip = call[c].skip /\ k.now = call[c].now
  PROVE  IInv'
<1> DEFINE n == call[c].run
           e == [runs[n] EXCEPT !.status = s, !.done = clock, !.skip = call[c].skip]
<1>1. /\ n \in DOMAIN runs /\ runs[n] \in RunRecs /\ clock \in Nat
      /\ call[c].skip \in SUBSET Soft
      /\ Len(runs) \in Nat /\ DOMAIN runs = 1..Len(runs)
      /\ \A d \in Calls : call[d].pc \in Active => call[d].run \in DOMAIN runs
      /\ k.part \in Nat /\ k.run \in Nat /\ k.saw \in Nat
  BY Facts DEF IInv, CallRecs
<1>2. runs' = [runs EXCEPT ![n] = e]
  BY DEF Record
<1>3. /\ e \in RunRecs /\ e.start = runs[n].start /\ e.now = runs[n].now
      /\ e.status = s /\ e.skip = call[c].skip
  BY <1>1 DEF RunRecs
<1> HIDE DEF e, n
<1>4. runs \in Seq(RunRecs)
  BY DEF IInv, TypeOK, RunRecs
<1>5. /\ runs' \in Seq(RunRecs) /\ DOMAIN runs' = DOMAIN runs /\ Len(runs') = Len(runs)
      /\ \A i \in DOMAIN runs : runs'[i] = IF i = n THEN e ELSE runs[i]
  BY <1>1, <1>2, <1>3, <1>4
<1>6. \A i \in DOMAIN runs : runs'[i].start = runs[i].start /\ runs'[i].now = runs[i].now
  BY <1>3, <1>5
<1>7. \A d \in Calls : call'[d] = IF d = c THEN k ELSE call[d]
  BY DEF IInv, TypeOK
<1>8. TypeOK'
  <2>1. call' \in [Calls -> [pc : {"idle", "due", "look", "create", "account", "purge", "audit"},
                             now : Nat, saw : Nat, run : Nat, part : Nat, skip : SUBSET Soft]]
    BY DEF IInv, TypeOK, CallRecs, Active
  <2>2. \A d \in Calls : call'[d].pc \in Active => call'[d].run \in DOMAIN runs'
    BY <1>1, <1>5, <1>7 DEF Active, n
  <2>3. runs' \in Seq([start : Nat, now : Nat, status : {"RUNNING", "OK", "ERROR"}, done : Nat,
                       skip : SUBSET Soft])
    BY <1>5 DEF RunRecs
  <2> QED BY <2>1, <2>2, <2>3 DEF IInv, TypeOK, Active
<1>9. Past'
  <2>1. \A i \in DOMAIN runs' : runs'[i].start <= clock' /\ runs'[i].now <= clock'
    BY <1>5, <1>6 DEF IInv, Past
  <2>2. \A d \in Calls : call'[d].saw <= Len(runs') /\ call'[d].now <= clock'
    BY <1>5, <1>7 DEF IInv, Past
  <2>3. \A d \in Calls : call'[d].pc \notin Active => call'[d].part = 1
    BY <1>7 DEF IInv, Past, Active
  <2> QED BY <2>1, <2>2, <2>3 DEF Past
<1>15. \A i \in DOMAIN runs, q \in 1..Parts :
         Overdue(q, Until(runs[i], q))' = Overdue(q, Until(runs[i], q))
  BY <1>6 DEF Overdue, Until
<1>10. Passed'
  <2> SUFFICES ASSUME NEW d \in Calls, call'[d].pc \in Active, NEW q \in 1..Parts,
                      q < call'[d].part, q \notin call'[d].skip
               PROVE  Overdue(q, Until(runs[call[d].run], q))' = {}
    BY DEF Passed
  <2>1. /\ call[d].pc \in Active /\ call'[d].run = call[d].run /\ call[d].run \in DOMAIN runs
        /\ call'[d].part = call[d].part /\ call'[d].skip = call[d].skip
    BY <1>1, <1>7 DEF Active
  <2>2. Overdue(q, Until(runs[call[d].run], q)) = {}
    BY <2>1 DEF IInv, Passed
  <2>3. Overdue(q, Until(runs[call[d].run], q))' = Overdue(q, Until(runs[call[d].run], q))
    BY <1>6, <2>1 DEF Overdue, Until
  <2> QED BY <2>2, <2>3
<1>11. Own'
  <2>1. \A d, f \in Calls :
          call'[d].pc \in Active /\ call'[f].pc \in Active /\ d # f => call'[d].run # call'[f].run
    <3>1. \A d \in Calls : call'[d].pc \in Active =>
            call[d].pc \in Active /\ call'[d].run = call[d].run
      BY <1>7 DEF Active
    <3> QED BY <3>1 DEF IInv, Own
  <2>2. ASSUME NEW d \in Calls, call'[d].pc \in {"account", "purge"}
        PROVE  runs'[call'[d].run].status = "RUNNING"
    <3>1. d # c /\ call[d].pc \in {"account", "purge"} /\ call'[d].run = call[d].run
      BY <1>7, <2>2
    <3>2. call[d].run \in DOMAIN runs /\ call[d].run # n
      BY <1>1, <3>1 DEF IInv, Own, Active, n
    <3> QED BY <1>5, <3>1, <3>2 DEF IInv, Own
  <2>3. ASSUME NEW d \in Calls, call'[d].pc \in Active
        PROVE  runs'[call'[d].run].now = call'[d].now
    <3>1. /\ call[d].pc \in Active /\ call'[d].run = call[d].run /\ call[d].run \in DOMAIN runs
          /\ call'[d].now = call[d].now
      BY <1>1, <1>7, <2>3 DEF Active
    <3> QED BY <1>6, <3>1 DEF IInv, Own
  <2> QED BY <2>1, <2>2, <2>3 DEF Own
<1>12. Seen' /\ RunsExclude'
  <2>1. \A d \in Calls : call'[d].pc \in {"account", "purge"} =>
          /\ call[d].pc \in {"account", "purge"} /\ call'[d] = call[d]
          /\ runs'[call[d].run].start = runs[call[d].run].start
    BY <1>1, <1>6, <1>7 DEF Active
  <2>2. \A d \in Calls : call'[d].pc = "create" => call'[d] = call[d]
    BY <1>7
  <2>3. Seen'
    BY <2>1, <2>2 DEF IInv, Seen, Aside
  <2>4. RunsExclude'
    BY <2>1 DEF IInv, RunsExclude
  <2> QED BY <2>3, <2>4
<1>13. OkMeansPurged'
  <2> SUFFICES ASSUME NEW i \in OkRuns', NEW p \in (1..Parts) \ runs'[i].skip
               PROVE  Overdue(p, Until(runs[i], p))' = {}
    BY DEF OkMeansPurged
  <2>1. i \in DOMAIN runs /\ runs'[i].status = "OK"
    BY <1>5 DEF OkRuns
  <2>2. Overdue(p, Until(runs[i], p)) = {}
    <3>1. CASE i = n
      BY <1>3, <1>5, <2>1, <3>1 DEF n
    <3>2. CASE i # n
      <4>1. i \in OkRuns /\ runs'[i] = runs[i]
        BY <1>5, <2>1, <3>2 DEF OkRuns
      <4> QED BY <4>1 DEF IInv, OkMeansPurged
    <3> QED BY <3>1, <3>2
  <2> QED BY <1>15, <2>1, <2>2
<1> QED BY <1>8, <1>9, <1>10, <1>11, <1>12, <1>13 DEF IInv

LEMMA SucceedInv == ASSUME IInv, NEW c \in Calls, Succeed(c) PROVE IInv'
<1> DEFINE k == [call[c] EXCEPT !.pc = "audit"]
<1>1. /\ call[c] \in CallRecs /\ call[c].saw <= Len(runs) /\ call[c].pc = "purge"
      /\ call[c].now <= clock
      /\ call[c].part > Parts /\ call[c].part \in Nat /\ Parts \in Nat
  BY Facts DEF IInv, Past, Succeed, Ended
<1>2. /\ k \in CallRecs /\ k.pc = "audit" /\ k.saw = call[c].saw /\ k.now = call[c].now
      /\ k.run = call[c].run /\ k.part = call[c].part /\ k.skip = call[c].skip
  BY <1>1 DEF CallRecs, Active
<1>3. call' = [call EXCEPT ![c] = k] /\ Record(c, "OK") /\ UNCHANGED <<clock, data>>
  BY DEF Succeed
<1>4. manual' \in Nat /\ fails' \in Nat /\ crashes' \in Nat
  BY Counters DEF Succeed, IInv
<1>5. \A p \in (1..Parts) \ call[c].skip : Overdue(p, Until(runs[call[c].run], p)) = {}
  <2>1. \A p \in 1..Parts : p < call[c].part
    BY <1>1
  <2> QED BY <1>1, <2>1 DEF IInv, Passed, Active
<1>6. call[c].pc \in Active
  BY <1>1 DEF Active
<1> HIDE DEF k
<1> QED BY <1>1, <1>2, <1>3, <1>4, <1>5, <1>6, EndStep

LEMMA FailInv == ASSUME IInv, NEW c \in Calls, Fail(c) PROVE IInv'
<1>1. /\ call' = [call EXCEPT ![c] = Idle] /\ UNCHANGED <<clock, data>>
      /\ Record(c, "ERROR") \/ UNCHANGED runs
  BY DEF Fail
<1>2. manual' \in Nat /\ fails' \in Nat /\ crashes' \in Nat
  BY Counters DEF Fail, Trouble, IInv
<1>3. /\ Idle \in CallRecs /\ Idle.saw <= Len(runs) /\ Idle.pc = "idle" /\ Idle.part = 1
      /\ Idle.now <= clock
  BY IdleRec DEF IInv
<1>4. call[c].pc \in Active
  BY DEF Fail, Active
<1>5. CASE Record(c, "ERROR")
  BY <1>1, <1>2, <1>3, <1>4, <1>5, EndStep
<1>6. CASE UNCHANGED runs
  BY <1>1, <1>2, <1>3, <1>6, CallStep DEF Active
<1> QED BY <1>1, <1>5, <1>6

LEMMA NextInv == IInv /\ [Next]_vars => IInv'
<1> SUFFICES ASSUME IInv, [Next]_vars PROVE IInv'
  OBVIOUS
<1>1. CASE Tick
  BY <1>1, TickInv
<1>2. CASE Crash
  BY <1>2, CrashInv
<1>3. CASE \E p \in 1..Parts : WriteData(p)
  BY <1>3, WriteInv
<1>4. CASE \E c \in Tickers : Wake(c)
  BY <1>4, WakeInv DEF Calls
<1>5. CASE \E c \in Managers : PressButton(c)
  BY <1>5, PressInv DEF Calls
<1>6. ASSUME NEW c \in Calls, RunStep(c) PROVE IInv'
  BY <1>6, ReadLastInv, LookInv, CreateInv, FindAccountInv, PurgePartInv, SucceedInv, AuditInv
     DEF RunStep
<1>7. ASSUME NEW c \in Calls, MissAccount(c) \/ Swallow(c) \/ Fail(c) \/ Drop(c) PROVE IInv'
  BY <1>7, MissAccountInv, SwallowInv, FailInv, DropInv
<1>8. CASE UNCHANGED vars
  BY <1>8 DEF vars, IInv, TypeOK, Past, Passed, Own, Seen, Aside, RunsExclude, OkMeansPurged,
              OkRuns, Overdue
<1> QED BY <1>1, <1>2, <1>3, <1>4, <1>5, <1>6, <1>7, <1>8 DEF Next

\* The record of the runs is well formed, and runs exclude each other but for the
\* two ways in which the code lets them meet.
THEOREM RunsApart == Spec => []PurgeInv
<1>1. IInv => PurgeInv
  BY DEF IInv, PurgeInv
<1> QED BY <1>1, InitInv, NextInv, PTL DEF Spec

\* guestDataPurge.ts: a run recorded as OK has left nothing older than itself (of the photos,
\* nothing older than the retention) but in the parts it has left out, in whatever way requests,
\* failures, swallowed or not, crashes and writes of guest data interleave.
THEOREM OkIsPurged == Spec => []OkMeansPurged
<1>1. IInv => OkMeansPurged
  BY DEF IInv
<1> QED BY <1>1, InitInv, NextInv, PTL DEF Spec
=============================================================================
