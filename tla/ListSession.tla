---------------------------- MODULE ListSession ----------------------------
(***************************************************************************)
(* The first step of the planning tool (useImportSession.ts,               *)
(* PlanungClient.tsx): files are dropped on the page, read there, and      *)
(* applied together, each by a request that stores its list and one that   *)
(* applies it (ImportBatch).  Of the files of a type the page shows the    *)
(* newest that was not discarded; the older ones stay behind it.           *)
(*                                                                         *)
(* A clerk of ImportBatch is one applyOne in flight.  The rows of a list   *)
(* say which file it was read from.                                        *)
(***************************************************************************)
EXTENDS ImportBatch

CONSTANTS MaxMoves   \* bound: presses, discarded files, failures

ASSUME SessionAssumption == MaxMoves \in Nat /\ \A t \in Lists : 1..MaxBatches \subseteq ContentOf[t]

VARIABLES
  items,   \* the files of the page
  sending, \* sending[c]: the applyOne c
  doubt,   \* types of which the page may show another list than the one applied (observation)
  moves

sessionVars == <<batches, job, items, sending, doubt, moves>>

Unread == "unread"   \* the type of a file that is not read, or not recognised
AtRest == [pc |-> "idle", item |-> 0, id |-> 0]

SessionInit ==
  /\ ImportInit
  /\ items = <<>> /\ sending = [c \in Clerks |-> AtRest] /\ doubt = {} /\ moves = 0

Spend == moves < MaxMoves /\ moves' = moves + 1

Patch(i, phase) == items' = [items EXCEPT ![i].phase = phase]

-----------------------------------------------------------------------------
(***************************************************************************)
(* The page.                                                               *)
(***************************************************************************)

AddFile ==
  /\ Len(items) < MaxBatches
  /\ items' = Append(items, [type |-> Unread, phase |-> "reading", finding |-> "none"])
  /\ UNCHANGED <<batches, job, sending, doubt, moves>>

\* finding: what stands in the way of the list, if anything: a critical finding of the
\* page's own, or later the server's.
ReadFile(i, t, finding) ==
  /\ items[i].phase = "reading"
  /\ items' = [items EXCEPT ![i] = [type |-> t, phase |-> "read", finding |-> finding]]
  /\ UNCHANGED <<batches, job, sending, doubt, moves>>

ReadFails(i) ==
  /\ items[i].phase = "reading" /\ Spend /\ Patch(i, "error")
  /\ UNCHANGED <<batches, job, sending, doubt>>

OfType(t) == {i \in DOMAIN items : items[i].type = t /\ items[i].phase # "discarded"}

\* Variant with a bug: the oldest one is shown.
ShownFirst(i) == \A j \in OfType(items[i].type) : i <= j

\* itemFor
Shown(i) == \A j \in OfType(items[i].type) : j <= i

\* reparse: the supervisor says what kind of list it is, or, of the file shown, which of
\* two ways its dates are to be read.
Reparse(i, t, finding) ==
  /\ items[i].phase = "read"
  /\ \/ items[i].type = Unread
     \/ items[i].type = t /\ items[i].finding = "own" /\ Shown(i)
  /\ items' = [items EXCEPT ![i].type = t, ![i].finding = finding]
  /\ UNCHANGED <<batches, job, sending, doubt, moves>>

\* The button is there for the files shown, whatever is on its way.
Discard(i) ==
  /\ items[i].phase \in {"read", "error"} /\ items[i].type # Unread /\ Shown(i)
  /\ Spend /\ Patch(i, "discarded")
  /\ UNCHANGED <<batches, job, sending, doubt>>

\* What applyAll takes: every list that was read, shown or not, on its way or not, one
\* the server has turned down before as well; applyOne leaves out what the page found
\* critical.
Ready ==
  {i \in DOMAIN items : items[i].phase = "read" /\ items[i].type # Unread /\ items[i].finding # "own"}

InFlight(t) == {sending[c].item : c \in {c \in Clerks : sending[c].pc # "idle" /\ items[sending[c].item].type = t}}

\* Of one type more than one file is on its way, or one that is not shown.
Muddled(t, sent) ==
  LET mine == InFlight(t) \cup {i \in sent : items[i].type = t}
  IN mine # {} /\ (Cardinality(mine) > 1 \/ ~\A i \in mine : \A j \in OfType(t) : j <= i)

\* The button rests while files are read (and during the merge that follows, left out
\* here) and is there for lists without a finding.
ApplyAll ==
  /\ \E i \in Ready : items[i].finding = "none"
  /\ \A i \in DOMAIN items : items[i].phase # "reading"
  /\ Spend
  /\ \E f \in [Ready -> {c \in Clerks : sending[c].pc = "idle"}] :
       /\ \A i, j \in Ready : f[i] = f[j] => i = j
       /\ sending' = [c \in Clerks |->
                        IF \E i \in Ready : f[i] = c
                        THEN [pc |-> "store", item |-> CHOOSE i \in Ready : f[i] = c, id |-> 0]
                        ELSE sending[c]]
  /\ doubt' = doubt \cup {t \in Lists : Muddled(t, Ready)}
  /\ UNCHANGED <<batches, job, items>>

-----------------------------------------------------------------------------
(***************************************************************************)
(* applyOne.                                                               *)
(***************************************************************************)

Item(c) == items[sending[c].item]

\* The server may find more than the page did.
StoreList(c) ==
  /\ sending[c].pc = "store"
  /\ \E critical \in BOOLEAN : StoreBatch(Item(c).type, sending[c].item, critical)
  /\ sending' = [sending EXCEPT ![c].pc = IF batches'[Len(batches')].critical THEN "reject" ELSE "apply",
                                ![c].id = Len(batches')]
  /\ UNCHANGED <<items, doubt, moves>>

RejectList(c) ==
  /\ sending[c].pc = "reject" /\ RejectBatch(sending[c].id)
  /\ items' = [items EXCEPT ![sending[c].item].finding = "server"]
  /\ sending' = [sending EXCEPT ![c] = AtRest]
  /\ UNCHANGED <<doubt, moves>>

BeginApply(c) ==
  /\ sending[c].pc = "apply" /\ ReadApply(c, sending[c].id)
  /\ sending' = [sending EXCEPT ![c].pc = "commit"]
  /\ UNCHANGED <<items, doubt, moves>>

\* The server ends what it has begun, whether the page still waits for it or not.
EndApply(c) ==
  /\ CommitApply(c)
  /\ sending' = IF sending[c].pc = "commit" THEN [sending EXCEPT ![c].pc = "answer"] ELSE sending
  /\ UNCHANGED <<items, doubt, moves>>

ShowApplied(c) ==
  /\ sending[c].pc = "answer" /\ Patch(sending[c].item, "applied")
  /\ sending' = [sending EXCEPT ![c] = AtRest]
  /\ UNCHANGED <<batches, job, doubt, moves>>

\* A request or its answer is lost.
SendFails(c) ==
  /\ sending[c].pc # "idle" /\ Spend
  /\ Patch(sending[c].item, "error")
  /\ sending' = [sending EXCEPT ![c] = AtRest]
  /\ doubt' = doubt \cup {Item(c).type}
  /\ UNCHANGED <<batches, job>>

SessionNext ==
  \/ AddFile \/ ApplyAll
  \/ \E i \in DOMAIN items :
       \/ ReadFails(i) \/ Discard(i) \/ ReadFile(i, Unread, "none")
       \/ \E t \in Lists, x \in {"none", "own"} : ReadFile(i, t, x) \/ Reparse(i, t, x)
  \/ \E c \in Clerks : \/ StoreList(c) \/ RejectList(c) \/ BeginApply(c) \/ EndApply(c)
                       \/ ShowApplied(c) \/ SendFails(c)

-----------------------------------------------------------------------------
(***************************************************************************)
(* Properties.                                                             *)
(***************************************************************************)

\* addFiles, "Eine neue Datei desselben Typs ersetzt die vorherige Vorschau": a list shown
\* as applied is the one that is applied, unless an older file that is still behind it was
\* sent as well, two files of the type were on their way at once, or a request failed.
ShownIsApplied ==
  \A i \in DOMAIN items :
    items[i].phase = "applied" /\ Shown(i) /\ items[i].type \notin doubt
      /\ InFlight(items[i].type) = {}
    => \E b \in Applied(items[i].type) : batches[b].rows = i
=============================================================================
