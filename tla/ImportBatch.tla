---------------------------- MODULE ImportBatch ----------------------------
(***************************************************************************)
(* The lists of the morning import (import/store.ts): a list that was read *)
(* in the browser is stored as a preview, applied in place of the one      *)
(* applied before, or rejected; the night purge takes its rows and leaves  *)
(* the batch.  An application checks first and writes later, in a          *)
(* transaction; a rejection does not check at all.                         *)
(*                                                                         *)
(* One business date.  A deleted batch stays in the sequence as GONE.      *)
(***************************************************************************)
EXTENDS Integers, Sequences, FiniteSets

CONSTANTS
  Lists,        \* the required list types (IMPORT_TYPES)
  ContentOf,    \* ContentOf[t]: what the rows of a list of type t may say
  Clerks,       \* supervisors' requests in service at a time
  Purged,       \* the rows of a batch after the night purge
  MaxBatches    \* bound: batches stored in a day

ASSUME ListsAssumption == \A t \in Lists : Purged \notin ContentOf[t]
ASSUME BatchBound == MaxBatches \in Nat

VARIABLES
  batches,  \* the ImportBatch table
  job       \* job[c]: the request c in service

Idle == [pc |-> "idle"]

ImportInit ==
  /\ batches = <<>>
  /\ job = [c \in Clerks |-> Idle]

\* storeBatch; critical: an issue of severity CRITICAL was found.
StoreBatch(t, rows, critical) ==
  /\ Len(batches) < MaxBatches
  /\ batches' = Append(batches, [type |-> t, rows |-> rows, critical |-> critical,
                                 status |-> "PREVIEW"])
  /\ UNCHANGED job

\* Variant with a bug: the issues are not looked at.
MayApplyAny(b) == b.status = "PREVIEW"

MayApply(b) == b.status = "PREVIEW" /\ ~b.critical

ReadApply(c, i) ==
  /\ job[c].pc = "idle"
  /\ MayApply(batches[i])
  /\ job' = [job EXCEPT ![c] = [pc |-> "apply", id |-> i]]
  /\ UNCHANGED batches

\* Variant with a bug: the list applied before is left.
AppliedBeside(i) == [batches EXCEPT ![i].status = "APPLIED"]

\* The list applied before is deleted.
AppliedInstead(i) ==
  [j \in DOMAIN batches |->
     IF j = i THEN [batches[j] EXCEPT !.status = "APPLIED"]
     ELSE IF batches[j].type = batches[i].type /\ batches[j].status = "APPLIED"
     THEN [batches[j] EXCEPT !.status = "GONE"] ELSE batches[j]]

\* One transaction, whatever the batch is by now; of a deleted batch the update
\* fails, and with it the transaction.
CommitApply(c) ==
  /\ job[c].pc = "apply"
  /\ batches' = IF batches[job[c].id].status = "GONE" THEN batches ELSE AppliedInstead(job[c].id)
  /\ job' = [job EXCEPT ![c] = Idle]

\* rejectBatch: whatever the batch is.
RejectBatch(i) ==
  /\ batches[i].status # "GONE"
  /\ batches' = [batches EXCEPT ![i].status = "REJECTED"]
  /\ UNCHANGED job

\* purgeGuestDataNow deletes the rows of every batch.
PurgeRows ==
  /\ batches' = [i \in DOMAIN batches |->
                   [batches[i] EXCEPT !.rows = IF @ = {} THEN @ ELSE Purged]]
  /\ UNCHANGED job

Applied(t) == {i \in DOMAIN batches : batches[i].type = t /\ batches[i].status = "APPLIED"}

\* missingAppliedLists: planning may begin when it is empty.
MissingLists == {t \in Lists : Applied(t) = {}}

ImportNext ==
  \/ \E t \in Lists, critical \in BOOLEAN : \E rows \in ContentOf[t] : StoreBatch(t, rows, critical)
  \/ \E c \in Clerks : CommitApply(c) \/ \E i \in DOMAIN batches : ReadApply(c, i)
  \/ \E i \in DOMAIN batches : RejectBatch(i)
  \/ PurgeRows

ImportSpec == ImportInit /\ [][ImportNext]_<<batches, job>>

-----------------------------------------------------------------------------
(***************************************************************************)
(* Properties.                                                             *)
(***************************************************************************)

\* applyBatch, "ersetzt den vorherigen Stand (gleicher Typ + Tag)": however the
\* applications overlap, a list type has one applied batch, and none that was
\* critical.
OneListApplied ==
  \A t \in Lists :
    /\ \A i, j \in Applied(t) : i = j
    /\ \A i \in Applied(t) : ~batches[i].critical
=============================================================================
