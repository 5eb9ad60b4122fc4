---------------------------- MODULE ImportProofs ----------------------------
(***************************************************************************)
(* Proofs about ImportBatch and the page that uses it, for any number of  *)
(* lists, requests, batches and files.  An application writes what it has  *)
(* checked some time ago: what saves it is that issues do not change once  *)
(* the batch is stored, and that every application takes down whatever is  *)
(* applied by then.  What the page shows is true of a type as long as one  *)
(* file of it is on its way at a time and no request has failed.           *)
(* Then about DayPlan, whose saves ask again what they rest on, and about  *)
(* ListReader: how a printed list becomes rows, whatever is printed.       *)
(***************************************************************************)
EXTENDS ListSession, DayPlan, ListReader, FiniteSetTheorems, TLAPS

Records(R) == [type : Lists, rows : R, critical : BOOLEAN,
               status : {"PREVIEW", "APPLIED", "REJECTED", "GONE"}]

\* The table, whatever the rows say.
Table == \E R : batches \in Seq(Records(R))

Jobs == job \in [Clerks -> {Idle} \cup [pc : {"apply"}, id : Nat]]

\* The batch of an application in progress exists and was not critical.
Checked ==
  \A c \in Clerks :
    job[c].pc = "apply" => job[c].id \in DOMAIN batches /\ ~batches[job[c].id].critical

IInv == Table /\ Jobs /\ Checked /\ OneListApplied

-----------------------------------------------------------------------------
LEMMA TableFacts ==
  ASSUME Table
  PROVE  /\ Len(batches) \in Nat /\ DOMAIN batches = 1..Len(batches)
         /\ \A i \in DOMAIN batches : batches[i].type \in Lists
<1>1. PICK R : batches \in Seq(Records(R))
  BY DEF Table
<1>2. Len(batches) \in Nat /\ DOMAIN batches = 1..Len(batches)
  BY <1>1
<1>3. \A i \in DOMAIN batches : batches[i] \in Records(R)
  BY <1>1, <1>2
<1> QED BY <1>2, <1>3 DEF Records

\* A batch may be rewritten in place, as long as it stays a batch.
LEMMA Rewritten ==
  ASSUME NEW R, batches \in Seq(Records(R)), NEW Q,
         DOMAIN batches' = DOMAIN batches,
         batches' = [i \in DOMAIN batches |-> batches'[i]],
         \A i \in DOMAIN batches : batches'[i] \in Records(Q)
  PROVE  Table'
<1>1. Len(batches) \in Nat /\ DOMAIN batches = 1..Len(batches)
  OBVIOUS
<1>2. batches' \in [1..Len(batches) -> Records(Q)]
  BY <1>1
<1>3. batches' \in Seq(Records(Q))
  BY <1>1, <1>2
<1> QED BY <1>3 DEF Table, Records

LEMMA InitInv == ImportInit => IInv
<1> SUFFICES ASSUME ImportInit PROVE IInv
  OBVIOUS
<1>1. batches \in Seq(Records({}))
  BY DEF ImportInit
<1>2. Table
  BY <1>1 DEF Table
<1> QED
  BY <1>2 DEF IInv, ImportInit, Jobs, Checked, OneListApplied, Applied, Idle

LEMMA StoreInv ==
  ASSUME IInv, NEW t \in Lists, NEW rows \in ContentOf[t], NEW critical \in BOOLEAN,
         StoreBatch(t, rows, critical)
  PROVE  IInv'
<1>1. PICK R : batches \in Seq(Records(R))
  BY DEF IInv, Table
<1> DEFINE new == [type |-> t, rows |-> rows, critical |-> critical, status |-> "PREVIEW"]
           Q == R \cup {rows}
<1>2. new \in Records(Q)
  BY DEF Records
<1>3. batches \in Seq(Records(Q))
  <2>1. Records(R) \subseteq Records(Q)
    BY DEF Records
  <2>2. batches \in [1..Len(batches) -> Records(R)] /\ Len(batches) \in Nat
    BY <1>1
  <2>3. batches \in [1..Len(batches) -> Records(Q)]
    BY <2>1, <2>2
  <2> HIDE DEF Q
  <2>4. \A n \in Nat : batches \in [1..n -> Records(Q)] => batches \in Seq(Records(Q))
    OBVIOUS
  <2> QED BY <2>2, <2>3, <2>4
<1>4. batches' = Append(batches, new)
  BY DEF StoreBatch
<1>5. new.status = "PREVIEW"
  OBVIOUS
<1> HIDE DEF new, Q
<1>6. batches' \in Seq(Records(Q))
  BY <1>2, <1>3, <1>4
<1>7. Table'
  BY <1>6 DEF Table, Records
<1>8. /\ Len(batches) \in Nat /\ DOMAIN batches = 1..Len(batches)
      /\ DOMAIN batches' = 1..(Len(batches) + 1)
      /\ \A i \in DOMAIN batches : batches'[i] = batches[i]
      /\ batches'[Len(batches) + 1] = new
  BY <1>2, <1>3, <1>4
<1>9. Jobs' /\ job' = job
  BY DEF IInv, Jobs, StoreBatch
<1>10. Checked'
  BY <1>8, <1>9 DEF IInv, Checked
<1>11. \A u \in Lists : Applied(u)' = Applied(u)
  <2>1. \A i \in DOMAIN batches' : i \in DOMAIN batches \/ i = Len(batches) + 1
    BY <1>8
  <2>2. \A i \in DOMAIN batches : i \in DOMAIN batches'
    BY <1>8
  <2> QED BY <1>5, <1>8, <2>1, <2>2 DEF Applied
<1>12. OneListApplied'
  BY <1>8, <1>11 DEF IInv, OneListApplied, Applied
<1> QED BY <1>7, <1>9, <1>10, <1>12 DEF IInv

LEMMA ReadInv ==
  ASSUME IInv, NEW c \in Clerks, NEW i \in DOMAIN batches, ReadApply(c, i)
  PROVE  IInv'
<1>1. i \in Nat
  BY TableFacts DEF IInv
<1>2. batches' = batches /\ ~batches[i].critical
  BY DEF ReadApply, MayApply
<1>3. job' = [job EXCEPT ![c] = [pc |-> "apply", id |-> i]]
  BY DEF ReadApply
<1>4. Jobs'
  BY <1>1, <1>3 DEF IInv, Jobs, Idle
<1>5. Checked'
  BY <1>2, <1>3 DEF IInv, Checked, Jobs
<1>6. Table' /\ OneListApplied'
  BY <1>2 DEF IInv, Table, OneListApplied, Applied
<1> QED BY <1>4, <1>5, <1>6 DEF IInv

\* What a step that only changes status and rows leaves to be shown.
LEMMA StatusStep ==
  ASSUME IInv, NEW R, batches \in Seq(Records(R)), NEW Q,
         DOMAIN batches' = DOMAIN batches,
         batches' = [i \in DOMAIN batches |-> batches'[i]],
         \A i \in DOMAIN batches :
           /\ batches'[i] \in Records(Q)
           /\ batches'[i].critical = batches[i].critical,
         \A c \in Clerks : job'[c].pc = "apply" => job'[c] = job[c]
  PROVE  Table' /\ Checked'
<1>1. Table'
  BY Rewritten
<1>2. Checked'
  BY DEF IInv, Checked
<1> QED BY <1>1, <1>2

LEMMA CommitInv == ASSUME IInv, NEW c \in Clerks, CommitApply(c) PROVE IInv'
<1> DEFINE n == job[c].id
<1>1. PICK R : batches \in Seq(Records(R))
  BY DEF IInv, Table
<1>2. n \in DOMAIN batches /\ ~batches[n].critical
  BY DEF IInv, Checked, CommitApply
<1>3. job' = [job EXCEPT ![c] = Idle]
  BY DEF CommitApply
<1>4. Jobs' /\ \A d \in Clerks : job'[d].pc = "apply" => job'[d] = job[d]
  BY <1>3 DEF IInv, Jobs, Idle
<1>5. CASE batches[n].status = "GONE"
  <2>1. batches' = batches
    BY <1>5 DEF CommitApply
  <2>2. Table' /\ OneListApplied'
    BY <2>1 DEF IInv, Table, OneListApplied, Applied
  <2>3. Checked'
    BY <1>4, <2>1 DEF IInv, Checked
  <2> QED BY <1>4, <2>2, <2>3 DEF IInv
<1>6. CASE batches[n].status # "GONE"
  <2>1. batches' = AppliedInstead(n)
    BY <1>6 DEF CommitApply
  <2> HIDE DEF n
  <2>2. \A i \in DOMAIN batches : batches[i] \in Records(R)
    BY <1>1
  <2>3. DOMAIN batches' = DOMAIN batches /\ batches' = [i \in DOMAIN batches |-> batches'[i]]
    BY <2>1 DEF AppliedInstead
  <2>4. ASSUME NEW i \in DOMAIN batches
        PROVE  /\ batches'[i] \in Records(R)
               /\ batches'[i].critical = batches[i].critical
               /\ batches'[i].type = batches[i].type
               /\ i = n => batches'[i].status = "APPLIED"
               /\ i # n /\ batches[i].type = batches[n].type =>
                    batches'[i].status # "APPLIED"
               /\ i # n /\ batches[i].type # batches[n].type =>
                    batches'[i].status = batches[i].status
    BY <2>1, <2>2 DEF AppliedInstead, Records
  <2>5. Table' /\ Checked'
    BY <1>1, <1>4, <2>3, <2>4, StatusStep
  <2>6. OneListApplied'
    <3> SUFFICES ASSUME NEW t \in Lists
                 PROVE  /\ \A i, j \in Applied(t)' : i = j
                        /\ \A i \in Applied(t)' : ~batches'[i].critical
      BY DEF OneListApplied
    <3>1. CASE batches[n].type = t
      <4>1. \A i \in Applied(t)' : i = n
        BY <2>3, <2>4, <3>1 DEF Applied
      <4> QED BY <1>2, <2>4, <4>1
    <3>2. CASE batches[n].type # t
      <4>1. \A i \in Applied(t)' : i \in Applied(t)
        BY <2>3, <2>4, <3>2 DEF Applied
      <4>2. \A i \in Applied(t) : i \in DOMAIN batches
        BY DEF Applied
      <4>3. /\ \A i, j \in Applied(t) : i = j
            /\ \A i \in Applied(t) : ~batches[i].critical
        BY DEF IInv, OneListApplied
      <4> QED BY <2>4, <4>1, <4>2, <4>3
    <3> QED BY <3>1, <3>2
  <2> QED BY <1>4, <2>5, <2>6 DEF IInv
<1> QED BY <1>5, <1>6

LEMMA RejectInv == ASSUME IInv, NEW n \in DOMAIN batches, RejectBatch(n) PROVE IInv'
<1>1. PICK R : batches \in Seq(Records(R))
  BY DEF IInv, Table
<1>2. batches' = [batches EXCEPT ![n].status = "REJECTED"] /\ job' = job
  BY DEF RejectBatch
<1>3. \A i \in DOMAIN batches : batches[i] \in Records(R)
  BY <1>1
<1>4. DOMAIN batches' = DOMAIN batches /\ batches' = [i \in DOMAIN batches |-> batches'[i]]
  BY <1>2
<1>5. \A i \in DOMAIN batches :
        /\ batches'[i] \in Records(R)
        /\ batches'[i].critical = batches[i].critical
        /\ batches'[i].type = batches[i].type
        /\ batches'[i].status = "APPLIED" => batches[i].status = "APPLIED"
  BY <1>2, <1>3 DEF Records
<1>6. Table' /\ Checked'
  BY <1>1, <1>2, <1>4, <1>5, StatusStep
<1>7. \A t \in Lists : \A i \in Applied(t)' : i \in Applied(t) /\ i \in DOMAIN batches
  BY <1>4, <1>5 DEF Applied
<1>8. OneListApplied'
  BY <1>5, <1>7 DEF IInv, OneListApplied
<1>9. Jobs'
  BY <1>2 DEF IInv, Jobs
<1> QED BY <1>6, <1>8, <1>9 DEF IInv

LEMMA PurgeInv == ASSUME IInv, PurgeRows PROVE IInv'
<1>1. PICK R : batches \in Seq(Records(R))
  BY DEF IInv, Table
<1> DEFINE Q == R \cup {Purged}
<1>2. /\ batches' = [i \in DOMAIN batches |->
                       [batches[i] EXCEPT !.rows = IF @ = {} THEN @ ELSE Purged]]
      /\ job' = job
  BY DEF PurgeRows
<1>3. \A i \in DOMAIN batches : batches[i] \in Records(R)
  BY <1>1
<1>4. DOMAIN batches' = DOMAIN batches /\ batches' = [i \in DOMAIN batches |-> batches'[i]]
  BY <1>2
<1>5. \A i \in DOMAIN batches :
        /\ batches'[i] \in Records(Q)
        /\ batches'[i].critical = batches[i].critical
        /\ batches'[i].type = batches[i].type
        /\ batches'[i].status = batches[i].status
  BY <1>2, <1>3 DEF Records
<1> HIDE DEF Q
<1>6. Table' /\ Checked'
  BY <1>1, <1>2, <1>4, <1>5, StatusStep
<1>7. \A t \in Lists : \A i \in Applied(t)' : i \in Applied(t) /\ i \in DOMAIN batches
  BY <1>4, <1>5 DEF Applied
<1>8. OneListApplied'
  BY <1>5, <1>7 DEF IInv, OneListApplied
<1>9. Jobs'
  BY <1>2 DEF IInv, Jobs
<1> QED BY <1>6, <1>8, <1>9 DEF IInv

LEMMA NextInv == IInv /\ [ImportNext]_<<batches, job>> => IInv'
<1> SUFFICES ASSUME IInv, [ImportNext]_<<batches, job>> PROVE IInv'
  OBVIOUS
<1>1. CASE \E t \in Lists, critical \in BOOLEAN : \E rows \in ContentOf[t] :
             StoreBatch(t, rows, critical)
  BY <1>1, StoreInv
<1>2. CASE \E c \in Clerks : CommitApply(c)
  BY <1>2, CommitInv
<1>3. CASE \E c \in Clerks : \E i \in DOMAIN batches : ReadApply(c, i)
  BY <1>3, ReadInv
<1>4. CASE \E i \in DOMAIN batches : RejectBatch(i)
  BY <1>4, RejectInv
<1>5. CASE PurgeRows
  BY <1>5, PurgeInv
<1>6. CASE UNCHANGED <<batches, job>>
  BY <1>6 DEF IInv, Table, Jobs, Checked, OneListApplied, Applied
<1> QED BY <1>1, <1>2, <1>3, <1>4, <1>5, <1>6 DEF ImportNext

\* "ersetzt den vorherigen Stand (gleicher Typ + Tag)": however many requests
\* apply, reject and purge at once, a list type has at most one applied batch, and
\* none in which a critical issue was found.
THEOREM OneListAtATime == ImportSpec => []OneListApplied
<1>1. IInv => OneListApplied
  BY DEF IInv
<1> QED BY <1>1, InitInv, NextInv, PTL DEF ImportSpec

-----------------------------------------------------------------------------
(***************************************************************************)
(* The page that sends the lists.                                          *)
(***************************************************************************)

Phases == {"reading", "read", "error", "discarded", "applied"}
Files == [type : Lists \cup {Unread}, phase : Phases, finding : {"none", "own", "server"}]
Sends == [pc : {"idle", "store", "reject", "apply", "commit", "answer"}, item : Nat, id : Nat]

ItemsOK ==
  /\ items \in Seq(Files) /\ Len(items) <= MaxBatches
  /\ \A i \in DOMAIN items : items[i].phase = "applied" => items[i].type # Unread

Busy(c) == sending[c].pc # "idle"
Stored(c) == sending[c].pc \in {"reject", "apply", "commit", "answer"}

\* What is sent is a file that was read and recognised.
SendingOK ==
  /\ sending \in [Clerks -> Sends]
  /\ \A c \in Clerks : Busy(c) =>
       sending[c].item \in DOMAIN items /\ Item(c).type # Unread /\ Item(c).phase # "reading"

\* What a request has stored is its file and nobody else's; only a critical list is rejected.
StoredOK ==
  /\ \A c \in Clerks : Stored(c) =>
       /\ sending[c].id \in DOMAIN batches
       /\ batches[sending[c].id].type = Item(c).type /\ batches[sending[c].id].rows = sending[c].item
       /\ sending[c].pc = "reject" => batches[sending[c].id].critical
  /\ \A c, d \in Clerks : Stored(c) /\ Stored(d) /\ sending[c].id = sending[d].id => c = d

\* The server is at the list the page waits for, or at one whose request has failed.
Linked ==
  \A c \in Clerks :
    /\ sending[c].pc = "commit" => job[c].pc = "apply" /\ job[c].id = sending[c].id
    /\ job[c].pc = "apply" /\ sending[c].pc # "commit" => batches[job[c].id].type \in doubt

Fresh ==
  \A c \in Clerks : sending[c].pc \in {"apply", "commit"} /\ Item(c).type \notin doubt =>
    batches[sending[c].id].status = "PREVIEW"

\* Of a type without doubt one file is on its way, and none behind it is applied.
Alone ==
  \A c \in Clerks : Busy(c) /\ Item(c).type \notin doubt =>
    /\ \A d \in Clerks : Busy(d) /\ Item(d).type = Item(c).type => sending[d].item = sending[c].item
    /\ \A j \in DOMAIN items :
         items[j].phase = "applied" /\ items[j].type = Item(c).type => j <= sending[c].item

\* The list of file n is the one applied.
AppliedList(n) ==
  \E b \in DOMAIN batches :
    batches[b].status = "APPLIED" /\ batches[b].rows = n /\ batches[b].type = items[n].type

Answered ==
  \A c \in Clerks : sending[c].pc = "answer" /\ Item(c).type \notin doubt =>
    AppliedList(sending[c].item)

\* The list applied is that of the last file applied, or of one about to be shown as applied.
Backed(i) ==
  \E j \in DOMAIN items :
    /\ AppliedList(j) /\ i <= j /\ items[j].type = items[i].type
    /\ items[j].phase = "applied" \/ \E c \in Clerks : sending[c].pc = "answer" /\ sending[c].item = j

Latest ==
  \A i \in DOMAIN items : items[i].phase = "applied" /\ items[i].type \notin doubt => Backed(i)

SInv ==
  /\ IInv /\ ItemsOK /\ SendingOK /\ StoredOK /\ Linked /\ Fresh
  /\ Alone /\ Answered /\ Latest

LEMMA ItemFacts ==
  ASSUME ItemsOK
  PROVE  /\ Len(items) \in Nat /\ DOMAIN items = 1..Len(items)
         /\ \A i \in DOMAIN items : items[i] \in Files
BY DEF ItemsOK

LEMMA SessionInitInv == SessionInit => SInv
<1> SUFFICES ASSUME SessionInit PROVE SInv
  OBVIOUS
<1>1. IInv
  BY InitInv DEF SessionInit
<1>2. ItemsOK /\ Latest
  BY SessionAssumption, BatchBound DEF SessionInit, ItemsOK, Latest
<1>3. \A c \in Clerks : sending[c] = AtRest /\ job[c] = Idle
  BY DEF SessionInit, ImportInit
<1>4. SendingOK /\ StoredOK /\ Linked /\ Fresh /\ Alone /\ Answered
  BY <1>3 DEF SessionInit, SendingOK, Sends, StoredOK, Stored, Busy, Linked, Fresh, Alone, Answered,
     AtRest, Idle
<1> QED BY <1>1, <1>2, <1>4 DEF SInv

\* A step of the page that leaves alone what is sent and what is applied.
LEMMA PageStep ==
  ASSUME SInv, ItemsOK', UNCHANGED <<batches, job, sending, doubt>>,
         \A i \in DOMAIN items :
           /\ i \in DOMAIN items'
           /\ items[i].phase # "reading" /\ items[i].type # Unread =>
                items'[i].type = items[i].type /\ items'[i].phase # "reading"
           /\ items[i].phase = "applied" => items'[i].phase = "applied",
         \A i \in DOMAIN items' : items'[i].phase = "applied" => i \in DOMAIN items /\ items[i].phase = "applied"
  PROVE  SInv'
<1>1. IInv'
  BY DEF SInv, IInv, Table, Jobs, Checked, OneListApplied, Applied
<1>2. \A c \in Clerks : /\ Busy(c)' <=> Busy(c)
                        /\ Stored(c)' <=> Stored(c)
                        /\ Stored(c) => Busy(c)
                        /\ Busy(c) => sending[c].item \in DOMAIN items' /\ Item(c)'.type = Item(c).type
                                      /\ Item(c).type # Unread /\ Item(c)'.phase # "reading"
  BY DEF SInv, SendingOK, Busy, Stored, Item
<1>3. \A n \in DOMAIN items : items'[n].type = items[n].type => (AppliedList(n)' <=> AppliedList(n))
  BY DEF AppliedList
<1>4. SendingOK' /\ StoredOK' /\ Linked'
  BY <1>2 DEF SInv, SendingOK, StoredOK, Linked
<1>5. Fresh' /\ Answered'
  BY <1>2, <1>3 DEF SInv, Fresh, Answered, Busy, SendingOK, Item
<1>6. \A j \in DOMAIN items' : items'[j].phase = "applied" =>
        j \in DOMAIN items /\ items[j].phase = "applied" /\ items'[j].type = items[j].type
  BY DEF SInv, ItemsOK
<1>7. Alone'
  BY <1>2, <1>6 DEF SInv, Alone
<1>8. Latest'
  <2> SUFFICES ASSUME NEW i \in DOMAIN items', items'[i].phase = "applied", items'[i].type \notin doubt
               PROVE  Backed(i)'
    BY DEF Latest
  <2>1. i \in DOMAIN items /\ items[i].phase = "applied" /\ items'[i].type = items[i].type
    BY <1>6
  <2>2. PICK j \in DOMAIN items :
          /\ AppliedList(j) /\ i <= j /\ items[j].type = items[i].type
          /\ items[j].phase = "applied" \/ \E c \in Clerks : sending[c].pc = "answer" /\ sending[c].item = j
    BY <2>1 DEF SInv, Latest, Backed
  <2>3. items'[j].type = items[j].type /\ j \in DOMAIN items'
    BY <2>2, <1>2 DEF SInv, ItemsOK, Item, Busy
  <2> QED BY <2>1, <2>2, <2>3, <1>2, <1>3 DEF Backed
<1> QED BY <1>1, <1>4, <1>5, <1>7, <1>8 DEF SInv

LEMMA AddFileInv == ASSUME SInv, AddFile PROVE SInv'
<1> DEFINE new == [type |-> Unread, phase |-> "reading", finding |-> "none"]
<1>1. new \in Files /\ new.phase = "reading"
  BY DEF Files, Phases
<1>2. items' = Append(items, new) /\ Len(items) < MaxBatches
  BY DEF AddFile
<1> HIDE DEF new
<1>3. items \in Seq(Files) /\ MaxBatches \in Nat
  BY BatchBound DEF SInv, ItemsOK
<1>4. /\ items' \in Seq(Files) /\ Len(items') = Len(items) + 1
      /\ DOMAIN items' = 1..Len(items) + 1 /\ DOMAIN items = 1..Len(items) /\ Len(items) \in Nat
      /\ \A i \in DOMAIN items : items'[i] = items[i]
      /\ items'[Len(items) + 1] = new
  BY <1>1, <1>2, <1>3
<1>5. \A i \in DOMAIN items' : i \in DOMAIN items \/ items'[i].phase = "reading"
  BY <1>1, <1>4
<1>6. ItemsOK'
  BY <1>2, <1>3, <1>4, <1>5 DEF SInv, ItemsOK
<1>7. \A i \in DOMAIN items : i \in DOMAIN items'
  BY <1>4
<1> QED BY <1>4, <1>5, <1>6, <1>7, PageStep DEF AddFile

\* One file is written, and stays a file that can be sent if it was one.
LEMMA FileStep ==
  ASSUME SInv, UNCHANGED <<batches, job, sending, doubt>>, NEW i \in DOMAIN items, NEW f \in Files,
         items' = [items EXCEPT ![i] = f],
         items[i].phase # "applied", f.phase # "applied",
         items[i].phase # "reading" /\ items[i].type # Unread => f.type = items[i].type /\ f.phase # "reading"
  PROVE  SInv'
<1>1. items \in Seq(Files) /\ DOMAIN items = 1..Len(items)
  BY DEF SInv, ItemsOK
<1>2. items' \in Seq(Files) /\ Len(items') = Len(items) /\ DOMAIN items' = DOMAIN items
  BY <1>1
<1>3. \A j \in DOMAIN items : items'[j] = IF j = i THEN f ELSE items[j]
  BY <1>1
<1>4. ItemsOK'
  BY <1>2, <1>3 DEF SInv, ItemsOK
<1>5. \A j \in DOMAIN items :
        /\ j \in DOMAIN items'
        /\ items[j].phase # "reading" /\ items[j].type # Unread =>
             items'[j].type = items[j].type /\ items'[j].phase # "reading"
        /\ items[j].phase = "applied" => items'[j].phase = "applied"
  BY <1>2, <1>3
<1>6. \A j \in DOMAIN items' : items'[j].phase = "applied" => j \in DOMAIN items /\ items[j].phase = "applied"
  BY <1>2, <1>3
<1> QED BY <1>4, <1>5, <1>6, PageStep

LEMMA PageInv ==
  ASSUME SInv, NEW i \in DOMAIN items,
         \/ ReadFails(i) \/ Discard(i) \/ ReadFile(i, Unread, "none")
         \/ \E t \in Lists, x \in {"none", "own"} : ReadFile(i, t, x) \/ Reparse(i, t, x)
  PROVE  SInv'
<1>0. items[i] \in Files
  BY ItemFacts DEF SInv
<1>1. CASE ReadFails(i)
  <2> DEFINE f == [items[i] EXCEPT !.phase = "error"]
  <2>1. /\ f \in Files /\ f.phase = "error" /\ f.type = items[i].type
    BY <1>0 DEF Files, Phases
  <2>2. items' = [items EXCEPT ![i] = f] /\ items[i].phase = "reading"
    BY <1>1 DEF ReadFails, Patch
  <2> HIDE DEF f
  <2> QED BY <2>1, <2>2, <1>1, FileStep DEF ReadFails
<1>2. CASE Discard(i)
  <2> DEFINE f == [items[i] EXCEPT !.phase = "discarded"]
  <2>1. /\ f \in Files /\ f.phase = "discarded" /\ f.type = items[i].type
    BY <1>0 DEF Files, Phases
  <2>2. items' = [items EXCEPT ![i] = f] /\ items[i].phase \in {"read", "error"}
    BY <1>2 DEF Discard, Patch
  <2> HIDE DEF f
  <2> QED BY <2>1, <2>2, <1>2, FileStep DEF Discard
<1>3. ASSUME NEW t \in Lists \cup {Unread}, NEW x \in {"none", "own"}, ReadFile(i, t, x)
      PROVE  SInv'
  <2> DEFINE f == [type |-> t, phase |-> "read", finding |-> x]
  <2>1. f \in Files /\ f.phase = "read"
    BY DEF Files, Phases
  <2>2. items' = [items EXCEPT ![i] = f] /\ items[i].phase = "reading"
    BY <1>3 DEF ReadFile
  <2> HIDE DEF f
  <2> QED BY <2>1, <2>2, <1>3, FileStep DEF ReadFile
<1>4. ASSUME NEW t \in Lists, NEW x \in {"none", "own"}, Reparse(i, t, x)
      PROVE  SInv'
  <2> DEFINE f == [items[i] EXCEPT !.type = t, !.finding = x]
  <2>1. f \in Files /\ f.phase = items[i].phase /\ f.type = t
    BY <1>0 DEF Files, Phases
  <2>2. /\ items' = [items EXCEPT ![i] = f] /\ items[i].phase = "read"
        /\ items[i].type = Unread \/ items[i].type = t
    BY <1>0, <1>4 DEF Reparse, Files
  <2> HIDE DEF f
  <2> QED BY ZenonT(60), <2>1, <2>2, <1>4, FileStep DEF Reparse
<1> QED BY <1>1, <1>2, <1>3, <1>4

LEMMA AtMostOne ==
  ASSUME NEW S, IsFiniteSet(S), ~(Cardinality(S) > 1), NEW x \in S, NEW y \in S
  PROVE  x = y
<1> SUFFICES ASSUME x # y PROVE FALSE
  OBVIOUS
<1>1. IsFiniteSet({x}) /\ Cardinality({x}) = 1
  BY FS_Singleton
<1>2. IsFiniteSet({x} \cup {y}) /\ Cardinality({x} \cup {y}) = 2
  <2>1. y \notin {x}
    OBVIOUS
  <2>2. Cardinality({x} \cup {y}) = Cardinality({x}) + 1
    BY <1>1, <2>1, FS_AddElement
  <2>3. IsFiniteSet({x} \cup {y})
    BY <1>1, FS_AddElement
  <2> QED BY <1>1, <2>2, <2>3
<1>3. {x} \cup {y} \in SUBSET S
  OBVIOUS
<1>4. Cardinality({x} \cup {y}) <= Cardinality(S) /\ Cardinality(S) \in Nat
  BY <1>3, FS_Subset, FS_CardinalityType
<1> QED BY <1>2, <1>4

LEMMA ApplyAllInv == ASSUME SInv, ApplyAll PROVE SInv'
<1>1. PICK f \in [Ready -> {c \in Clerks : sending[c].pc = "idle"}] :
        /\ \A i, j \in Ready : f[i] = f[j] => i = j
        /\ sending' = [c \in Clerks |->
                         IF \E i \in Ready : f[i] = c
                         THEN [pc |-> "store", item |-> CHOOSE i \in Ready : f[i] = c, id |-> 0]
                         ELSE sending[c]]
  BY DEF ApplyAll
<1>2. /\ UNCHANGED <<batches, job, items>>
      /\ doubt' = doubt \cup {t \in Lists : Muddled(t, Ready)}
  BY DEF ApplyAll
<1>3. DOMAIN items = 1..Len(items) /\ Len(items) \in Nat /\ \A i \in DOMAIN items : items[i] \in Files
  BY ItemFacts DEF SInv
<1>4. \A c \in Clerks :
        \/ sending'[c] = sending[c]
        \/ /\ sending[c].pc = "idle" /\ sending'[c].pc = "store" /\ sending'[c].id = 0
           /\ sending'[c] \in [pc : {"store"}, item : Ready, id : {0}]
  <2> SUFFICES ASSUME NEW c \in Clerks, NEW i \in Ready, f[i] = c
               PROVE  /\ sending[c].pc = "idle" /\ sending'[c].pc = "store" /\ sending'[c].id = 0
                      /\ sending'[c] \in [pc : {"store"}, item : Ready, id : {0}]
    BY <1>1
  <2>1. (CHOOSE k \in Ready : f[k] = c) \in Ready
    OBVIOUS
  <2> QED BY <1>1, <2>1
<1>5. \A c \in Clerks :
        \/ sending'[c] = sending[c]
        \/ /\ sending[c].pc = "idle" /\ sending'[c].pc = "store" /\ sending'[c].item \in Ready
           /\ sending'[c] \in Sends
  BY <1>3, <1>4 DEF Sends, Ready
<1>6. \A i \in Ready : i \in DOMAIN items /\ items[i].phase = "read" /\ items[i].type # Unread
  BY DEF Ready
<1>7. SendingOK'
  <2>1. sending' \in [Clerks -> Sends]
    BY <1>1, <1>5 DEF SInv, SendingOK
  <2> QED BY <1>2, <1>5, <1>6, <2>1 DEF SInv, SendingOK, Busy, Item
<1>8. \A c \in Clerks : /\ Stored(c)' <=> Stored(c)
                        /\ Stored(c) => sending'[c] = sending[c]
  BY <1>5 DEF Stored
<1>9. IInv' /\ ItemsOK'
  BY <1>2 DEF SInv, ItemsOK, IInv, Table, Jobs, Checked, OneListApplied, Applied
<1>10. StoredOK' /\ Linked'
  BY <1>2, <1>5, <1>8 DEF SInv, StoredOK, Linked, Stored, Item
<1>11. Fresh' /\ Answered'
  BY <1>2, <1>5, <1>8 DEF SInv, Fresh, Answered, AppliedList, Stored, Item
<1>12. Latest'
  <2>1. \A c \in Clerks : sending[c].pc = "answer" => sending'[c] = sending[c]
    BY <1>5
  <2> QED BY <1>2, <2>1 DEF SInv, Latest, Backed, AppliedList
<1>13. Alone'
  <2> SUFFICES ASSUME NEW c \in Clerks, Busy(c)', Item(c)'.type \notin doubt'
               PROVE  /\ \A d \in Clerks : Busy(d)' /\ Item(d)'.type = Item(c)'.type => sending'[d].item = sending'[c].item
                      /\ \A j \in DOMAIN items' : items'[j].phase = "applied" /\ items'[j].type = Item(c)'.type
                           => j <= sending'[c].item
    BY DEF Alone
  <2> DEFINE t == Item(c)'.type
             mine == InFlight(t) \cup {i \in Ready : items[i].type = t}
  <2>1. t \in Lists
    <3>1. sending'[c].item \in DOMAIN items /\ t = items[sending'[c].item].type /\ t # Unread
      BY <1>2, <1>7 DEF SendingOK, Item
    <3> QED BY <1>3, <3>1 DEF Files
  <2>2. \A d \in Clerks : Busy(d)' /\ Item(d)'.type = t => sending'[d].item \in mine
    BY <1>2, <1>5 DEF InFlight, Busy, Item
  <2>3. ~Muddled(t, Ready)
    BY <1>2, <2>1
  <2>4. sending'[c].item \in mine
    BY <2>2
  <2>5. ~(Cardinality(mine) > 1) /\ \A i \in mine : \A j \in OfType(t) : j <= i
    BY <2>3, <2>4 DEF Muddled
  <2>6. mine \in SUBSET (1..Len(items))
    BY <1>3, <1>6 DEF InFlight, SInv, SendingOK, Busy
  <2>7. IsFiniteSet(mine)
    <3>1. IsFiniteSet(1..Len(items))
      BY <1>3, FS_Interval
    <3> QED BY <2>6, <3>1, FS_Subset
  <2>8. \A x, y \in mine : x = y
    BY <2>5, <2>7, AtMostOne
  <2>9. \A j \in DOMAIN items' : items'[j].phase = "applied" /\ items'[j].type = t => j \in OfType(t)
    BY <1>2 DEF OfType
  <2> HIDE DEF mine
  <2> QED BY <2>2, <2>4, <2>5, <2>8, <2>9
<1> QED BY <1>7, <1>9, <1>10, <1>11, <1>12, <1>13 DEF SInv

\* The request of one clerk goes on; its file keeps its type.
LEMMA Others ==
  ASSUME SInv, NEW c \in Clerks, NEW s \in Sends, sending' = [sending EXCEPT ![c] = s]
  PROVE  /\ sending' \in [Clerks -> Sends] /\ sending'[c] = s
         /\ \A d \in Clerks \ {c} : /\ sending'[d] = sending[d]
                                    /\ Busy(d)' <=> Busy(d)
                                    /\ Stored(d)' <=> Stored(d)
         /\ \A d \in Clerks : Stored(d) => Busy(d)
         /\ \A d \in Clerks : sending[d] \in Sends
<1>1. sending \in [Clerks -> Sends]
  BY DEF SInv, SendingOK
<1>2. sending' \in [Clerks -> Sends] /\ sending'[c] = s
  BY <1>1
<1>3. \A d \in Clerks \ {c} : sending'[d] = sending[d]
  BY <1>1
<1> QED BY <1>1, <1>2, <1>3 DEF Busy, Stored

LEMMA StoreListInv == ASSUME SInv, NEW c \in Clerks, StoreList(c) PROVE SInv'
<1> DEFINE i == sending[c].item
           u == items[i].type
<1>1. PICK critical \in BOOLEAN : StoreBatch(u, i, critical)
  BY DEF StoreList, Item
<1>2. i \in DOMAIN items /\ u \in Lists /\ i \in ContentOf[u]
  <2>1. i \in DOMAIN items /\ u # Unread
    BY DEF SInv, SendingOK, StoreList, Busy, Item
  <2>2. u \in Lists
    BY <2>1, ItemFacts DEF SInv, Files
  <2>3. i \in 1..MaxBatches
    BY <2>1, ItemFacts, BatchBound DEF SInv, ItemsOK
  <2> QED BY <2>1, <2>2, <2>3, SessionAssumption
<1>3. IInv'
  BY <1>1, <1>2, StoreInv DEF SInv
<1> DEFINE new == [type |-> u, rows |-> i, critical |-> critical, status |-> "PREVIEW"]
           n == Len(batches) + 1
<1>4. /\ Len(batches) \in Nat /\ DOMAIN batches = 1..Len(batches)
      /\ DOMAIN batches' = 1..n /\ Len(batches') = n
      /\ \A k \in DOMAIN batches : batches'[k] = batches[k]
      /\ batches'[n] = new
  <2>1. PICK R : batches \in Seq(Records(R))
    BY DEF SInv, IInv, Table
  <2>2. batches' = Append(batches, new)
    BY <1>1 DEF StoreBatch
  <2> HIDE DEF new
  <2>3. batches \in Seq(Records(R) \cup {new})
    <3>1. batches \in [1..Len(batches) -> Records(R)] /\ Len(batches) \in Nat
      BY <2>1
    <3>2. batches \in [1..Len(batches) -> Records(R) \cup {new}]
      BY <3>1
    <3>3. \A m \in Nat : batches \in [1..m -> Records(R) \cup {new}] => batches \in Seq(Records(R) \cup {new})
      OBVIOUS
    <3> QED BY <3>1, <3>2, <3>3
  <2> QED BY <2>2, <2>3
<1>5. UNCHANGED <<job, items, doubt>>
  BY <1>1 DEF StoreBatch, StoreList
<1> DEFINE s == [sending[c] EXCEPT !.pc = IF critical THEN "reject" ELSE "apply", !.id = n]
<1>6. sending[c] \in Sends /\ sending[c].pc = "store"
  BY DEF SInv, SendingOK, StoreList
<1>7. sending' = [sending EXCEPT ![c] = s]
  <2>1. sending' = [sending EXCEPT ![c].pc = IF batches'[Len(batches')].critical THEN "reject" ELSE "apply",
                                   ![c].id = Len(batches')]
    BY DEF StoreList
  <2>2. batches'[Len(batches')].critical = critical /\ Len(batches') = n
    BY <1>4
  <2> QED BY <2>1, <2>2 DEF SInv, SendingOK
<1>8. s \in Sends /\ s.item = i /\ s.id = n /\ s.pc = IF critical THEN "reject" ELSE "apply"
  <2>1. n \in Nat /\ i \in Nat
    BY <1>4, <1>6 DEF Sends
  <2> DEFINE q == [sending[c] EXCEPT !.pc = IF critical THEN "reject" ELSE "apply"]
  <2>2. /\ q \in Sends
        /\ q = [pc |-> IF critical THEN "reject" ELSE "apply", item |-> i, id |-> sending[c].id]
    BY <1>6 DEF Sends
  <2>21. s = [q EXCEPT !.id = n]
    OBVIOUS
  <2>22. q.pc = (IF critical THEN "reject" ELSE "apply") /\ q.item = i
    BY <2>2
  <2> HIDE DEF q, s, i, n
  <2>3. s = [pc |-> q.pc, item |-> q.item, id |-> n]
    BY <2>2, <2>21 DEF Sends
  <2> QED BY <2>1, <2>22, <2>3 DEF Sends
<1>81. new.type = u /\ new.rows = i /\ new.critical = critical /\ new.status = "PREVIEW"
  OBVIOUS
<1> HIDE DEF s, new
<1>9. /\ sending' \in [Clerks -> Sends] /\ sending'[c] = s
      /\ \A d \in Clerks \ {c} : /\ sending'[d] = sending[d]
                                 /\ Busy(d)' <=> Busy(d)
                                 /\ Stored(d)' <=> Stored(d)
      /\ \A d \in Clerks : Stored(d) => Busy(d)
  BY <1>7, <1>8, Others
<1>10. Busy(c) /\ Busy(c)' /\ Stored(c)' /\ Item(c)' = items[i] /\ Item(c) = items[i]
  BY <1>5, <1>6, <1>8, <1>9 DEF Busy, Stored, Item
<1>11. \A d \in Clerks : Item(d)' = Item(d) /\ (Busy(d)' <=> Busy(d)) /\ sending'[d].item = sending[d].item
  BY <1>5, <1>8, <1>9, <1>10 DEF Item
<1>12. ItemsOK' /\ SendingOK'
  BY <1>5, <1>9, <1>11 DEF SInv, ItemsOK, SendingOK
<1>13. StoredOK'
  <2>1. \A d \in Clerks \ {c} : Stored(d) => sending[d].id \in DOMAIN batches /\ sending[d].id # n
    BY <1>4 DEF SInv, StoredOK
  <2> QED BY <1>4, <1>5, <1>8, <1>81, <1>9, <1>10, <1>11, <2>1 DEF SInv, StoredOK
<1>14. Linked'
  <2>1. \A d \in Clerks : job[d].pc = "apply" => job[d].id \in DOMAIN batches
    BY DEF SInv, IInv, Checked
  <2>2. sending[c].pc # "commit" /\ sending'[c].pc # "commit"
    BY <1>6, <1>8, <1>9
  <2> QED BY <1>4, <1>5, <1>9, <2>1, <2>2 DEF SInv, Linked
<1>15. Fresh'
  BY <1>4, <1>5, <1>8, <1>81, <1>9, <1>11 DEF SInv, Fresh, StoredOK, Stored
<1>16. \A k \in DOMAIN items : AppliedList(k) => AppliedList(k)'
  BY <1>4, <1>5 DEF AppliedList
<1>17. Answered'
  <2>1. sending'[c].pc # "answer"
    BY <1>8, <1>9
  <2>2. \A d \in Clerks : sending[d].pc = "answer" => sending[d].item \in DOMAIN items
    BY DEF SInv, SendingOK, Busy
  <2> QED BY <1>5, <1>9, <1>11, <1>16, <2>1, <2>2 DEF SInv, Answered
<1>18. Alone'
  BY <1>5, <1>11 DEF SInv, Alone
<1>19. Latest'
  <2>1. \A d \in Clerks : sending[d].pc = "answer" => sending'[d].pc = "answer"
    BY <1>6, <1>9
  <2> QED BY <1>5, <1>11, <1>16, <2>1 DEF SInv, Latest, Backed
<1> QED BY <1>3, <1>12, <1>13, <1>14, <1>15, <1>17, <1>18, <1>19 DEF SInv

LEMMA BeginApplyInv == ASSUME SInv, NEW c \in Clerks, BeginApply(c) PROVE SInv'
<1> DEFINE n == sending[c].id
           s == [sending[c] EXCEPT !.pc = "commit"]
<1>1. sending[c] \in Sends /\ sending[c].pc = "apply" /\ Stored(c) /\ n \in DOMAIN batches
  BY DEF SInv, SendingOK, BeginApply, StoredOK, Stored
<1>2. IInv'
  BY <1>1, ReadInv DEF SInv, BeginApply
<1>3. /\ UNCHANGED <<batches, items, doubt>> /\ job[c].pc = "idle"
      /\ job' = [job EXCEPT ![c] = [pc |-> "apply", id |-> n]]
      /\ sending' = [sending EXCEPT ![c] = s]
  BY DEF BeginApply, ReadApply
<1>4. s \in Sends /\ s.pc = "commit" /\ s.id = n /\ s.item = sending[c].item
  BY <1>1 DEF Sends
<1> HIDE DEF s
<1>5. /\ sending' \in [Clerks -> Sends] /\ sending'[c] = s
      /\ \A d \in Clerks \ {c} : /\ sending'[d] = sending[d]
                                 /\ Busy(d)' <=> Busy(d)
                                 /\ Stored(d)' <=> Stored(d)
  BY <1>3, <1>4, Others
<1>6. \A d \in Clerks : /\ Item(d)' = Item(d) /\ (Busy(d)' <=> Busy(d)) /\ (Stored(d)' <=> Stored(d))
                        /\ sending'[d].item = sending[d].item /\ sending'[d].id = sending[d].id
                        /\ sending'[d].pc = "reject" => sending[d].pc = "reject"
                        /\ sending'[d].pc = "answer" => sending[d].pc = "answer"
                        /\ sending'[d].pc \in {"apply", "commit"} => sending[d].pc \in {"apply", "commit"}
  BY <1>1, <1>3, <1>4, <1>5 DEF Item, Busy, Stored
<1>7. ItemsOK' /\ SendingOK' /\ StoredOK'
  BY <1>3, <1>5, <1>6 DEF SInv, ItemsOK, SendingOK, StoredOK
<1>8. Linked'
  <2>1. job \in [Clerks -> {Idle} \cup [pc : {"apply"}, id : Nat]]
    BY DEF SInv, IInv, Jobs
  <2>2. job'[c] = [pc |-> "apply", id |-> n] /\ \A d \in Clerks \ {c} : job'[d] = job[d]
    BY <1>3, <2>1
  <2> QED BY <1>3, <1>4, <1>5, <2>2 DEF SInv, Linked
<1>9. Fresh' /\ Alone' /\ Answered'
  BY <1>3, <1>6 DEF SInv, Fresh, Alone, Answered, AppliedList
<1>10. Latest'
  <2>1. \A d \in Clerks : sending[d].pc = "answer" => sending'[d].pc = "answer"
    BY <1>1, <1>5
  <2> QED BY <1>3, <1>6, <2>1 DEF SInv, Latest, Backed, AppliedList
<1> QED BY <1>2, <1>7, <1>8, <1>9, <1>10 DEF SInv

\* What an application writes: its own batch, and the ones of its type that were applied.
LEMMA CommitFacts ==
  ASSUME SInv, NEW c \in Clerks, CommitApply(c)
  PROVE  /\ job' = [job EXCEPT ![c] = Idle] /\ job[c].pc = "apply" /\ job[c].id \in DOMAIN batches
         /\ DOMAIN batches' = DOMAIN batches
         /\ \A b \in DOMAIN batches :
              /\ batches'[b].type = batches[b].type /\ batches'[b].rows = batches[b].rows
              /\ batches'[b].critical = batches[b].critical
         /\ \A b \in DOMAIN batches :
              batches[b].type # batches[job[c].id].type => batches'[b].status = batches[b].status
         /\ \A b \in DOMAIN batches :
              batches[b].status = "PREVIEW" => b = job[c].id \/ batches'[b].status = "PREVIEW"
         /\ batches[job[c].id].status # "GONE" => batches'[job[c].id].status = "APPLIED"
<1> DEFINE n == job[c].id
<1>1. n \in DOMAIN batches /\ job[c].pc = "apply" /\ job' = [job EXCEPT ![c] = Idle]
  BY DEF SInv, IInv, Checked, CommitApply
<1>2. PICK R : batches \in Seq(Records(R))
  BY DEF SInv, IInv, Table
<1>3. \A b \in DOMAIN batches : batches[b] \in Records(R)
  BY <1>2
<1>4. CASE batches[n].status = "GONE"
  <2>1. batches' = batches
    BY <1>4 DEF CommitApply
  <2> QED BY <1>1, <1>4, <2>1
<1>5. CASE batches[n].status # "GONE"
  <2>1. batches' = AppliedInstead(n)
    BY <1>5 DEF CommitApply
  <2>2. DOMAIN batches' = DOMAIN batches
    BY <2>1 DEF AppliedInstead
  <2>3. \A b \in DOMAIN batches :
          batches'[b] = IF b = n THEN [batches[b] EXCEPT !.status = "APPLIED"]
                        ELSE IF batches[b].type = batches[n].type /\ batches[b].status = "APPLIED"
                        THEN [batches[b] EXCEPT !.status = "GONE"] ELSE batches[b]
    BY <2>1 DEF AppliedInstead
  <2>4. \A r \in Records(R) : \A x :
          /\ [r EXCEPT !.status = x].type = r.type
          /\ [r EXCEPT !.status = x].rows = r.rows
          /\ [r EXCEPT !.status = x].critical = r.critical
          /\ [r EXCEPT !.status = x].status = x
    BY DEF Records
  <2> HIDE DEF n
  <2>5. \A b \in DOMAIN batches :
          /\ batches'[b].type = batches[b].type /\ batches'[b].rows = batches[b].rows
          /\ batches'[b].critical = batches[b].critical
          /\ batches'[b].status = IF b = n THEN "APPLIED"
                                  ELSE IF batches[b].type = batches[n].type /\ batches[b].status = "APPLIED"
                                  THEN "GONE" ELSE batches[b].status
    <3> SUFFICES ASSUME NEW b \in DOMAIN batches
                 PROVE  /\ batches'[b].type = batches[b].type /\ batches'[b].rows = batches[b].rows
                        /\ batches'[b].critical = batches[b].critical
                        /\ batches'[b].status = IF b = n THEN "APPLIED"
                             ELSE IF batches[b].type = batches[n].type /\ batches[b].status = "APPLIED"
                             THEN "GONE" ELSE batches[b].status
      OBVIOUS
    <3>1. CASE b = n
      <4>1. batches'[b] = [batches[b] EXCEPT !.status = "APPLIED"]
        BY <2>3, <3>1
      <4> QED BY <1>3, <2>4, <3>1, <4>1
    <3>2. CASE b # n /\ batches[b].type = batches[n].type /\ batches[b].status = "APPLIED"
      <4>1. batches'[b] = [batches[b] EXCEPT !.status = "GONE"]
        BY <2>3, <3>2
      <4> QED BY <1>3, <2>4, <3>2, <4>1
    <3>3. CASE b # n /\ ~(batches[b].type = batches[n].type /\ batches[b].status = "APPLIED")
      <4>1. batches'[b] = batches[b]
        BY <2>3, <3>3
      <4> QED BY <3>3, <4>1
    <3> QED BY <3>1, <3>2, <3>3
  <2> USE DEF n
  <2> QED BY <1>1, <2>2, <2>5
<1> QED BY <1>4, <1>5

\* One file is written that keeps its type and, if it was read, stays so.
LEMMA FileWritten ==
  ASSUME SInv, NEW i \in DOMAIN items, NEW f \in Files, items' = [items EXCEPT ![i] = f],
         f.type = items[i].type, f.phase # "reading", f.phase = "applied" => f.type # Unread
  PROVE  /\ ItemsOK' /\ DOMAIN items' = DOMAIN items /\ items'[i] = f
         /\ \A j \in DOMAIN items : /\ items'[j].type = items[j].type
                                    /\ j # i => items'[j] = items[j]
                                    /\ items[j].phase # "reading" => items'[j].phase # "reading"
<1>1. items \in Seq(Files) /\ DOMAIN items = 1..Len(items) /\ Len(items) <= MaxBatches
  BY DEF SInv, ItemsOK
<1>2. items' \in Seq(Files) /\ Len(items') = Len(items) /\ DOMAIN items' = DOMAIN items
  BY <1>1
<1>3. \A j \in DOMAIN items : items'[j] = IF j = i THEN f ELSE items[j]
  BY <1>1
<1> QED BY <1>1, <1>2, <1>3 DEF SInv, ItemsOK

\* A request that is at rest again was about nobody else's list.
LEMMA Rested ==
  ASSUME SInv, NEW c \in Clerks, sending' = [sending EXCEPT ![c] = AtRest],
         DOMAIN items' = DOMAIN items,
         \A j \in DOMAIN items : /\ items'[j].type = items[j].type
                                 /\ items[j].phase # "reading" => items'[j].phase # "reading"
  PROVE  /\ SendingOK'
         /\ ~Busy(c)' /\ ~Stored(c)' /\ sending'[c] = AtRest
         /\ \A d \in Clerks \ {c} : sending'[d] = sending[d]
         /\ \A d \in Clerks : Busy(d)' => /\ d # c /\ Busy(d) /\ sending'[d] = sending[d]
                                          /\ Item(d)'.type = Item(d).type
                                          /\ sending[d].item \in DOMAIN items
         /\ \A d \in Clerks : Stored(d)' => Stored(d) /\ Busy(d)'
<1>1. AtRest \in Sends /\ AtRest.pc = "idle"
  BY DEF AtRest, Sends
<1>2. /\ sending' \in [Clerks -> Sends] /\ sending'[c] = AtRest
      /\ \A d \in Clerks \ {c} : sending'[d] = sending[d] /\ (Busy(d)' <=> Busy(d)) /\ (Stored(d)' <=> Stored(d))
      /\ \A d \in Clerks : Stored(d) => Busy(d)
  BY <1>1, Others
<1>3. ~Busy(c)' /\ ~Stored(c)'
  BY <1>1, <1>2 DEF Busy, Stored
<1>4. \A d \in Clerks : Busy(d)' => /\ d # c /\ Busy(d) /\ sending'[d] = sending[d]
                                    /\ sending[d].item \in DOMAIN items
  BY <1>2, <1>3 DEF SInv, SendingOK
<1>5. \A d \in Clerks : Busy(d)' => Item(d)'.type = Item(d).type /\ Item(d).type # Unread /\ Item(d)'.phase # "reading"
  BY <1>4 DEF SInv, SendingOK, Item
<1>6. SendingOK'
  BY <1>2, <1>4, <1>5 DEF SendingOK
<1> QED BY <1>2, <1>3, <1>4, <1>5, <1>6

LEMMA RejectListInv == ASSUME SInv, NEW c \in Clerks, RejectList(c) PROVE SInv'
<1> DEFINE i == sending[c].item
           n == sending[c].id
           f == [items[i] EXCEPT !.finding = "server"]
<1>1. /\ Busy(c) /\ Stored(c) /\ sending[c].pc = "reject"
      /\ i \in DOMAIN items /\ items[i].type # Unread /\ items[i].phase # "reading"
      /\ n \in DOMAIN batches /\ batches[n].critical
  BY DEF SInv, SendingOK, StoredOK, RejectList, Busy, Stored, Item
<1>2. IInv'
  BY <1>1, RejectInv DEF SInv, RejectList
<1>3. /\ batches' = [batches EXCEPT ![n].status = "REJECTED"] /\ UNCHANGED <<job, doubt>>
      /\ items' = [items EXCEPT ![i] = f] /\ sending' = [sending EXCEPT ![c] = AtRest]
  BY DEF RejectList, RejectBatch
<1>4. f \in Files /\ f.type = items[i].type /\ f.phase = items[i].phase
  BY <1>1, ItemFacts DEF SInv, Files
<1> HIDE DEF f, i
<1>5. /\ ItemsOK' /\ DOMAIN items' = DOMAIN items /\ items'[i] = f
      /\ \A j \in DOMAIN items : /\ items'[j].type = items[j].type
                                 /\ j # i => items'[j] = items[j]
                                 /\ items[j].phase # "reading" => items'[j].phase # "reading"
  BY <1>1, <1>3, <1>4, FileWritten
<1>6. /\ SendingOK'
      /\ ~Busy(c)' /\ ~Stored(c)' /\ sending'[c] = AtRest
      /\ \A d \in Clerks \ {c} : sending'[d] = sending[d]
      /\ \A d \in Clerks : Busy(d)' => /\ d # c /\ Busy(d) /\ sending'[d] = sending[d]
                                       /\ Item(d)'.type = Item(d).type
                                       /\ sending[d].item \in DOMAIN items
      /\ \A d \in Clerks : Stored(d)' => Stored(d) /\ Busy(d)'
  BY <1>3, <1>5, Rested
<1>7. \A j \in DOMAIN items : items'[j].phase = items[j].phase
  BY <1>4, <1>5
<1>8. /\ DOMAIN batches' = DOMAIN batches
      /\ \A b \in DOMAIN batches : b # n => batches'[b] = batches[b]
  BY <1>3
<1>9. batches'[n].type = batches[n].type /\ batches'[n].rows = batches[n].rows
      /\ batches'[n].critical = batches[n].critical
  <2>1. PICK R : batches \in Seq(Records(R))
    BY DEF SInv, IInv, Table
  <2>2. batches[n] \in Records(R)
    BY <1>1, <2>1
  <2>3. batches'[n] = [batches[n] EXCEPT !.status = "REJECTED"]
    BY <1>1, <1>3
  <2> QED BY <2>2, <2>3 DEF Records
<1>10. \A b \in DOMAIN batches : batches[b].status = "APPLIED" => b # n
  <2>1. \A b \in DOMAIN batches : batches[b].type \in Lists
    BY TableFacts DEF SInv, IInv
  <2>2. \A b \in DOMAIN batches : batches[b].status = "APPLIED" => ~batches[b].critical
    BY <2>1 DEF SInv, IInv, OneListApplied, Applied
  <2> QED BY <1>1, <2>2
<1>11. \A k \in DOMAIN items : AppliedList(k) => AppliedList(k)'
  BY <1>5, <1>8, <1>10 DEF AppliedList
<1>12. StoredOK'
  <2>1. \A d \in Clerks : Stored(d)' => sending[d].id \in DOMAIN batches /\ sending[d].id # n
    BY <1>1, <1>6 DEF SInv, StoredOK
  <2> QED BY <1>6, <1>8, <2>1 DEF SInv, StoredOK
<1>13. Linked'
  <2>1. \A d \in Clerks : job[d].pc = "apply" => job[d].id \in DOMAIN batches
    BY DEF SInv, IInv, Checked
  <2>2. \A b \in DOMAIN batches : batches'[b].type = batches[b].type
    BY <1>8, <1>9
  <2>3. job[c].pc = "apply" => batches[job[c].id].type \in doubt
    BY <1>1 DEF SInv, Linked
  <2>4. sending'[c].pc # "commit"
    BY <1>6 DEF AtRest
  <2> QED BY <1>3, <1>6, <2>1, <2>2, <2>3, <2>4 DEF SInv, Linked
<1>14. Fresh'
  <2>1. \A d \in Clerks : sending'[d].pc \in {"apply", "commit"} => Stored(d)'
    BY DEF Stored
  <2>2. \A d \in Clerks : Stored(d)' => sending[d].id \in DOMAIN batches /\ sending[d].id # n
    BY <1>1, <1>6 DEF SInv, StoredOK
  <2> QED BY <1>3, <1>6, <1>8, <2>1, <2>2 DEF SInv, Fresh
<1>15. Answered'
  <2>1. \A d \in Clerks : sending'[d].pc = "answer" => Stored(d)'
    BY DEF Stored
  <2> QED BY <1>3, <1>6, <1>11, <2>1 DEF SInv, Answered
<1>16. Alone'
  BY <1>3, <1>5, <1>6, <1>7 DEF SInv, Alone
<1>17. Latest'
  <2>1. \A d \in Clerks : sending[d].pc = "answer" => sending'[d] = sending[d]
    BY <1>1, <1>6
  <2> QED BY <1>3, <1>5, <1>7, <1>11, <2>1 DEF SInv, Latest, Backed
<1> QED BY <1>2, <1>5, <1>6, <1>12, <1>13, <1>14, <1>15, <1>16, <1>17 DEF SInv

LEMMA ShowAppliedInv == ASSUME SInv, NEW c \in Clerks, ShowApplied(c) PROVE SInv'
<1> DEFINE i == sending[c].item
           f == [items[i] EXCEPT !.phase = "applied"]
<1>1. /\ Busy(c) /\ Stored(c) /\ sending[c].pc = "answer"
      /\ i \in DOMAIN items /\ items[i].type # Unread /\ items[i].phase # "reading"
      /\ Item(c) = items[i]
  BY DEF SInv, SendingOK, ShowApplied, Busy, Stored, Item
<1>3. /\ UNCHANGED <<batches, job, doubt>>
      /\ items' = [items EXCEPT ![i] = f] /\ sending' = [sending EXCEPT ![c] = AtRest]
  BY DEF ShowApplied, Patch
<1>2. IInv'
  BY <1>3 DEF SInv, IInv, Table, Jobs, Checked, OneListApplied, Applied
<1>4. f \in Files /\ f.type = items[i].type /\ f.phase = "applied"
  BY <1>1, ItemFacts DEF SInv, Files, Phases
<1>40. items[i].type \notin doubt => AppliedList(i)
  BY <1>1 DEF SInv, Answered
<1>41. items[i].type \notin doubt =>
         /\ \A d \in Clerks : Busy(d) /\ Item(d).type = items[i].type => sending[d].item = i
         /\ \A j \in DOMAIN items : items[j].phase = "applied" /\ items[j].type = items[i].type => j <= i
  BY <1>1 DEF SInv, Alone
<1>42. i \in Nat
  BY <1>1, ItemFacts DEF SInv
<1> HIDE DEF f, i
<1>5. /\ ItemsOK' /\ DOMAIN items' = DOMAIN items /\ items'[i] = f
      /\ \A j \in DOMAIN items : /\ items'[j].type = items[j].type
                                 /\ j # i => items'[j] = items[j]
                                 /\ items[j].phase # "reading" => items'[j].phase # "reading"
  BY <1>1, <1>3, <1>4, FileWritten
<1>6. /\ SendingOK'
      /\ ~Busy(c)' /\ ~Stored(c)' /\ sending'[c] = AtRest
      /\ \A d \in Clerks \ {c} : sending'[d] = sending[d]
      /\ \A d \in Clerks : Busy(d)' => /\ d # c /\ Busy(d) /\ sending'[d] = sending[d]
                                       /\ Item(d)'.type = Item(d).type
                                       /\ sending[d].item \in DOMAIN items
      /\ \A d \in Clerks : Stored(d)' => Stored(d) /\ Busy(d)'
  BY <1>3, <1>5, Rested
<1>11. \A k \in DOMAIN items : AppliedList(k) => AppliedList(k)'
  BY <1>3, <1>5 DEF AppliedList
<1>12. StoredOK'
  BY <1>3, <1>6 DEF SInv, StoredOK
<1>13. Linked'
  <2>3. job[c].pc = "apply" => batches[job[c].id].type \in doubt
    BY <1>1 DEF SInv, Linked
  <2>4. sending'[c].pc # "commit"
    BY <1>6 DEF AtRest
  <2> QED BY <1>3, <1>6, <2>3, <2>4 DEF SInv, Linked
<1>14. Fresh'
  <2>1. \A d \in Clerks : sending'[d].pc \in {"apply", "commit"} => Stored(d)'
    BY DEF Stored
  <2> QED BY <1>3, <1>6, <2>1 DEF SInv, Fresh
<1>15. Answered'
  <2>1. \A d \in Clerks : sending'[d].pc = "answer" => Stored(d)'
    BY DEF Stored
  <2> QED BY <1>3, <1>6, <1>11, <2>1 DEF SInv, Answered
<1>16. Alone'
  <2> SUFFICES ASSUME NEW d \in Clerks, Busy(d)', Item(d)'.type \notin doubt'
               PROVE  /\ \A e \in Clerks : Busy(e)' /\ Item(e)'.type = Item(d)'.type => sending'[e].item = sending'[d].item
                      /\ \A j \in DOMAIN items' : items'[j].phase = "applied" /\ items'[j].type = Item(d)'.type
                           => j <= sending'[d].item
    BY DEF Alone
  <2>1. /\ Busy(d) /\ sending'[d] = sending[d] /\ Item(d)'.type = Item(d).type /\ Item(d).type \notin doubt
    BY <1>3, <1>6
  <2>2. \A e \in Clerks : Busy(e)' /\ Item(e)'.type = Item(d)'.type => sending'[e].item = sending'[d].item
    BY <1>6, <2>1 DEF SInv, Alone
  <2>3. ASSUME NEW j \in DOMAIN items, items'[j].phase = "applied", items[j].type = Item(d).type
        PROVE  j <= sending[d].item
    <3>1. CASE j # i
      BY <1>5, <2>1, <2>3, <3>1 DEF SInv, Alone
    <3>2. CASE j = i
      BY <1>41, <1>42, <2>1, <2>3, <3>2
    <3> QED BY <3>1, <3>2
  <2> QED BY <1>5, <2>1, <2>2, <2>3
<1>17. Latest'
  <2> SUFFICES ASSUME NEW k \in DOMAIN items', items'[k].phase = "applied", items'[k].type \notin doubt'
               PROVE  Backed(k)'
    BY DEF Latest
  <2>1. k \in DOMAIN items /\ items'[k].type = items[k].type /\ items[k].type \notin doubt
    BY <1>3, <1>5
  <2>2. CASE k = i
    <3>1. AppliedList(k) /\ k <= k
      BY <1>40, <1>42, <2>1, <2>2
    <3>2. AppliedList(k)' /\ items'[k].phase = "applied"
      BY <1>11, <2>1, <3>1
    <3> QED BY <3>1, <3>2 DEF Backed
  <2>3. CASE k # i
    <3>1. PICK j \in DOMAIN items :
            /\ AppliedList(j) /\ k <= j /\ items[j].type = items[k].type
            /\ items[j].phase = "applied" \/ \E d \in Clerks : sending[d].pc = "answer" /\ sending[d].item = j
      BY <1>5, <2>1, <2>3 DEF SInv, Latest, Backed
    <3>2. items'[j].phase = "applied" \/ \E d \in Clerks : sending'[d].pc = "answer" /\ sending'[d].item = j
      <4>1. CASE j = i
        BY <1>4, <1>5, <4>1
      <4>2. CASE j # i
        <5>1. \A d \in Clerks : sending[d].item = j => d # c
          BY <4>2 DEF i
        <5> QED BY <1>5, <1>6, <3>1, <4>2, <5>1
      <4> QED BY <4>1, <4>2
    <3>3. AppliedList(j)' /\ j \in DOMAIN items' /\ items'[j].type = items'[k].type
      BY <1>5, <1>11, <2>1, <3>1
    <3> QED BY <3>1, <3>2, <3>3 DEF Backed
  <2> QED BY <2>2, <2>3
<1> QED BY <1>2, <1>5, <1>6, <1>12, <1>13, <1>14, <1>15, <1>16, <1>17 DEF SInv

LEMMA SendFailsInv == ASSUME SInv, NEW c \in Clerks, SendFails(c) PROVE SInv'
<1> DEFINE i == sending[c].item
           u == items[i].type
           f == [items[i] EXCEPT !.phase = "error"]
<1>1. /\ Busy(c) /\ i \in DOMAIN items /\ items[i].type # Unread /\ items[i].phase # "reading"
      /\ Item(c) = items[i]
  BY DEF SInv, SendingOK, SendFails, Busy, Item
<1>3. /\ UNCHANGED <<batches, job>> /\ doubt' = doubt \cup {u}
      /\ items' = [items EXCEPT ![i] = f] /\ sending' = [sending EXCEPT ![c] = AtRest]
  BY <1>1 DEF SendFails, Patch
<1>2. IInv'
  BY <1>3 DEF SInv, IInv, Table, Jobs, Checked, OneListApplied, Applied
<1>4. f \in Files /\ f.type = items[i].type /\ f.phase = "error"
  BY <1>1, ItemFacts DEF SInv, Files, Phases
<1>40. sending[c].pc = "commit" => batches[job[c].id].type = u
  BY <1>1 DEF SInv, Linked, StoredOK, Stored
<1> HIDE DEF f, i, u
<1>5. /\ ItemsOK' /\ DOMAIN items' = DOMAIN items /\ items'[i] = f
      /\ \A j \in DOMAIN items : /\ items'[j].type = items[j].type
                                 /\ j # i => items'[j] = items[j]
                                 /\ items[j].phase # "reading" => items'[j].phase # "reading"
  BY <1>1, <1>3, <1>4, FileWritten
<1>6. /\ SendingOK'
      /\ ~Busy(c)' /\ ~Stored(c)' /\ sending'[c] = AtRest
      /\ \A d \in Clerks \ {c} : sending'[d] = sending[d]
      /\ \A d \in Clerks : Busy(d)' => /\ d # c /\ Busy(d) /\ sending'[d] = sending[d]
                                       /\ Item(d)'.type = Item(d).type
                                       /\ sending[d].item \in DOMAIN items
      /\ \A d \in Clerks : Stored(d)' => Stored(d) /\ Busy(d)'
  BY <1>3, <1>5, Rested
<1>7. \A j \in DOMAIN items : items'[j].phase = "applied" => items[j].phase = "applied"
  BY <1>4, <1>5
<1>11. \A k \in DOMAIN items : AppliedList(k) => AppliedList(k)'
  BY <1>3, <1>5 DEF AppliedList
<1>12. StoredOK'
  BY <1>3, <1>6 DEF SInv, StoredOK
<1>13. Linked'
  <2>1. sending'[c].pc # "commit"
    BY <1>6 DEF AtRest
  <2>2. job[c].pc = "apply" => batches[job[c].id].type \in doubt'
    BY <1>3, <1>40 DEF SInv, Linked
  <2> QED BY <1>3, <1>6, <2>1, <2>2 DEF SInv, Linked
<1>14. Fresh'
  <2>1. \A d \in Clerks : sending'[d].pc \in {"apply", "commit"} => Stored(d)'
    BY DEF Stored
  <2> QED BY <1>3, <1>6, <2>1 DEF SInv, Fresh
<1>15. Answered'
  <2>1. \A d \in Clerks : sending'[d].pc = "answer" => Stored(d)'
    BY DEF Stored
  <2> QED BY <1>3, <1>6, <1>11, <2>1 DEF SInv, Answered
<1>16. Alone'
  BY <1>3, <1>5, <1>6, <1>7 DEF SInv, Alone
<1>17. Latest'
  <2> SUFFICES ASSUME NEW k \in DOMAIN items', items'[k].phase = "applied", items'[k].type \notin doubt'
               PROVE  Backed(k)'
    BY DEF Latest
  <2>1. /\ k \in DOMAIN items /\ items'[k].type = items[k].type /\ items[k].phase = "applied"
        /\ items[k].type \notin doubt /\ items[k].type # u
    BY <1>3, <1>5, <1>7
  <2>2. PICK j \in DOMAIN items :
          /\ AppliedList(j) /\ k <= j /\ items[j].type = items[k].type
          /\ items[j].phase = "applied" \/ \E d \in Clerks : sending[d].pc = "answer" /\ sending[d].item = j
    BY <2>1 DEF SInv, Latest, Backed
  <2>3. j # i
    BY <2>1, <2>2 DEF u
  <2>4. \A d \in Clerks : sending[d].item = j => d # c
    BY <2>3 DEF i
  <2>5. items'[j].phase = "applied" \/ \E d \in Clerks : sending'[d].pc = "answer" /\ sending'[d].item = j
    BY <1>5, <1>6, <2>2, <2>3, <2>4
  <2>6. AppliedList(j)' /\ j \in DOMAIN items' /\ items'[j].type = items'[k].type
    BY <1>5, <1>11, <2>1, <2>2
  <2> QED BY <2>2, <2>5, <2>6 DEF Backed
<1> QED BY <1>2, <1>5, <1>6, <1>12, <1>13, <1>14, <1>15, <1>16, <1>17 DEF SInv

LEMMA EndApplyInv == ASSUME SInv, NEW c \in Clerks, EndApply(c) PROVE SInv'
<1> DEFINE n == job[c].id
           v == batches[n].type
           s == IF sending[c].pc = "commit" THEN [sending[c] EXCEPT !.pc = "answer"] ELSE sending[c]
<1>1. /\ CommitApply(c) /\ UNCHANGED <<items, doubt>>
      /\ sending' = IF sending[c].pc = "commit" THEN [sending EXCEPT ![c].pc = "answer"] ELSE sending
  BY DEF EndApply
<1>2. IInv'
  BY <1>1, CommitInv DEF SInv
<1>3. /\ job' = [job EXCEPT ![c] = Idle] /\ job[c].pc = "apply" /\ n \in DOMAIN batches
      /\ DOMAIN batches' = DOMAIN batches
      /\ \A b \in DOMAIN batches :
           /\ batches'[b].type = batches[b].type /\ batches'[b].rows = batches[b].rows
           /\ batches'[b].critical = batches[b].critical
      /\ \A b \in DOMAIN batches :
           batches[b].type # v => batches'[b].status = batches[b].status
      /\ \A b \in DOMAIN batches :
           batches[b].status = "PREVIEW" => b = n \/ batches'[b].status = "PREVIEW"
      /\ batches[n].status # "GONE" => batches'[n].status = "APPLIED"
  BY <1>1, CommitFacts
<1>4. sending \in [Clerks -> Sends] /\ sending[c] \in Sends
  BY DEF SInv, SendingOK
<1>5. /\ s \in Sends /\ s.item = sending[c].item /\ s.id = sending[c].id
      /\ s.pc = IF sending[c].pc = "commit" THEN "answer" ELSE sending[c].pc
  BY <1>4 DEF Sends
<1>6. sending' = [sending EXCEPT ![c] = s]
  BY <1>1, <1>4
<1> HIDE DEF s
<1>7. /\ sending' \in [Clerks -> Sends] /\ sending'[c] = s
      /\ \A d \in Clerks \ {c} : sending'[d] = sending[d]
  BY <1>5, <1>6, Others
<1>8. \A d \in Clerks : /\ Item(d)' = Item(d) /\ (Busy(d)' <=> Busy(d)) /\ (Stored(d)' <=> Stored(d))
                        /\ sending'[d].item = sending[d].item /\ sending'[d].id = sending[d].id
                        /\ sending'[d].pc = "reject" => sending[d].pc = "reject"
                        /\ sending'[d].pc = "answer" => sending[d].pc = "answer" \/ (d = c /\ sending[c].pc = "commit")
                        /\ sending[d].pc = "answer" => sending'[d].pc = "answer"
                        /\ sending'[d].pc \in {"apply", "commit"} => sending[d].pc \in {"apply", "commit"}
                        /\ sending'[d].pc = "commit" => sending[d].pc = "commit" /\ d # c
                        /\ sending[d].pc = "commit" => d = c \/ sending'[d].pc = "commit"
  BY <1>1, <1>5, <1>7 DEF Item, Busy, Stored
<1>9. ItemsOK' /\ SendingOK' /\ StoredOK'
  BY <1>1, <1>3, <1>7, <1>8 DEF SInv, ItemsOK, SendingOK, StoredOK
<1>10. Linked'
  <2>1. job'[c] = Idle /\ \A d \in Clerks \ {c} : job'[d] = job[d]
    BY <1>3 DEF SInv, IInv, Jobs
  <2>2. \A d \in Clerks : job[d].pc = "apply" => job[d].id \in DOMAIN batches
    BY DEF SInv, IInv, Checked
  <2> QED BY <1>1, <1>3, <1>8, <2>1, <2>2 DEF SInv, Linked, Idle
<1>11. Alone'
  BY <1>1, <1>8 DEF SInv, Alone
\* Either the page waits for this application, or the type is in doubt.
<1>12. CASE sending[c].pc # "commit"
  <2>1. v \in doubt
    BY <1>3, <1>12 DEF SInv, Linked
  <2> HIDE DEF v, n
  <2>2. \A b \in DOMAIN batches : batches[b].type \notin doubt => batches'[b].status = batches[b].status
    BY <1>3, <2>1
  <2>3. Fresh'
    BY <1>1, <1>3, <1>8, <2>2 DEF SInv, Fresh, StoredOK, Stored
  <2>4. \A k \in DOMAIN items : items[k].type \notin doubt => (AppliedList(k) => AppliedList(k)')
    BY <1>1, <1>3, <2>2 DEF AppliedList
  <2>5. Answered'
    <3>1. \A d \in Clerks : sending'[d].pc = "answer" => sending[d].pc = "answer" /\ sending[d].item \in DOMAIN items
      BY <1>8, <1>12 DEF SInv, SendingOK, Busy
    <3> QED BY <1>1, <1>8, <2>4, <3>1 DEF SInv, Answered, Item
  <2>6. Latest'
    BY <1>1, <1>8, <2>4 DEF SInv, Latest, Backed
  <2> QED BY <1>2, <1>9, <1>10, <1>11, <2>3, <2>5, <2>6 DEF SInv
<1>13. CASE sending[c].pc = "commit"
  <2> DEFINE i == sending[c].item
  <2>1. /\ Stored(c) /\ Busy(c) /\ n = sending[c].id /\ v = items[i].type /\ i \in DOMAIN items
        /\ batches[n].rows = i
    BY <1>13 DEF SInv, Linked, StoredOK, Stored, SendingOK, Busy, Item
  <2>2. v \notin doubt => batches[n].status = "PREVIEW"
    BY <1>13, <2>1 DEF SInv, Fresh, Item
  <2>3. v \notin doubt => \A d \in Clerks : Busy(d) /\ Item(d).type = v => sending[d].item = i
    BY <2>1 DEF SInv, Alone, Item
  <2>4. v \notin doubt => \A j \in DOMAIN items : items[j].phase = "applied" /\ items[j].type = v => j <= i
    BY <2>1 DEF SInv, Alone, Item
  <2>5. \A d \in Clerks \ {c} : Stored(d) => sending[d].id # n
    BY <2>1 DEF SInv, StoredOK
  <2> HIDE DEF v, n, i
  <2>6. \A k \in DOMAIN items : k = i /\ v \notin doubt => AppliedList(k)'
    BY <1>1, <1>3, <2>1, <2>2 DEF AppliedList
  <2>7. \A k \in DOMAIN items : items[k].type # v => (AppliedList(k) => AppliedList(k)')
    BY <1>1, <1>3 DEF AppliedList
  <2>8. Fresh'
    <3> SUFFICES ASSUME NEW d \in Clerks, sending'[d].pc \in {"apply", "commit"}, Item(d)'.type \notin doubt'
                 PROVE  batches'[sending'[d].id].status = "PREVIEW"
      BY DEF Fresh
    <3>1. d # c /\ Stored(d) /\ sending[d].pc \in {"apply", "commit"}
      BY <1>5, <1>7, <1>8, <1>13 DEF Stored
    <3>2. sending[d].id \in DOMAIN batches /\ sending[d].id # n
      BY <2>5, <3>1 DEF SInv, StoredOK
    <3>3. batches[sending[d].id].status = "PREVIEW"
      BY <1>1, <1>8, <3>1 DEF SInv, Fresh
    <3> QED BY <1>3, <1>8, <3>2, <3>3
  <2>9. Answered'
    <3> SUFFICES ASSUME NEW d \in Clerks, sending'[d].pc = "answer", Item(d)'.type \notin doubt'
                 PROVE  \A k \in DOMAIN items : k = sending'[d].item => AppliedList(k)'
      BY <1>1, <1>9 DEF Answered, SendingOK, Busy
    <3>1. Busy(d) /\ Item(d).type \notin doubt /\ sending[d].item \in DOMAIN items
      BY <1>1, <1>8, <2>1 DEF SInv, SendingOK, Busy
    <3>2. CASE Item(d).type = v
      BY <1>8, <2>3, <2>6, <3>1, <3>2
    <3>3. CASE Item(d).type # v
      <4>1. sending[d].pc = "answer"
        BY <1>8, <2>1, <3>3 DEF i, Item
      <4> QED BY <1>8, <2>7, <3>1, <3>3, <4>1 DEF SInv, Answered, Item
    <3> QED BY <3>2, <3>3
  <2>10. Latest'
    <3> SUFFICES ASSUME NEW k \in DOMAIN items, items[k].phase = "applied", items[k].type \notin doubt
                 PROVE  Backed(k)'
      BY <1>1 DEF Latest
    <3>1. CASE items[k].type = v
      <4>1. PICK j \in DOMAIN items : j = i
        BY <2>1
      <4>2. AppliedList(j)' /\ k <= j /\ items[j].type = v
        BY <2>1, <2>4, <2>6, <3>1, <4>1
      <4>3. sending'[c].pc = "answer" /\ sending'[c].item = j
        BY <1>5, <1>7, <1>13, <4>1 DEF i
      <4> QED BY <1>1, <3>1, <4>2, <4>3 DEF Backed
    <3>2. CASE items[k].type # v
      BY <1>1, <1>8, <2>7, <3>2 DEF SInv, Latest, Backed
    <3> QED BY <3>1, <3>2
  <2> QED BY <1>2, <1>9, <1>10, <1>11, <2>8, <2>9, <2>10 DEF SInv
<1> QED BY <1>12, <1>13

LEMMA SessionNextInv == SInv /\ [SessionNext]_sessionVars => SInv'
<1> SUFFICES ASSUME SInv, [SessionNext]_sessionVars PROVE SInv'
  OBVIOUS
<1>1. CASE AddFile
  BY <1>1, AddFileInv
<1>2. CASE ApplyAll
  BY <1>2, ApplyAllInv
<1>3. CASE \E i \in DOMAIN items :
             \/ ReadFails(i) \/ Discard(i) \/ ReadFile(i, Unread, "none")
             \/ \E t \in Lists, x \in {"none", "own"} : ReadFile(i, t, x) \/ Reparse(i, t, x)
  BY <1>3, PageInv
<1>4. ASSUME NEW c \in Clerks,
             \/ StoreList(c) \/ RejectList(c) \/ BeginApply(c) \/ EndApply(c)
             \/ ShowApplied(c) \/ SendFails(c)
      PROVE  SInv'
  BY <1>4, StoreListInv, RejectListInv, BeginApplyInv, EndApplyInv, ShowAppliedInv, SendFailsInv
<1>5. CASE UNCHANGED sessionVars
  <2>1. IInv'
    BY <1>5 DEF sessionVars, SInv, IInv, Table, Jobs, Checked, OneListApplied, Applied
  <2> QED BY <1>5, <2>1 DEF sessionVars, SInv, ItemsOK, SendingOK, StoredOK, Linked, Fresh, Alone, Answered,
          Latest, Backed, AppliedList, Busy, Stored, Item
<1> QED BY <1>1, <1>2, <1>3, <1>4, <1>5 DEF SessionNext

LEMMA ShownApplied == SInv => ShownIsApplied
<1> SUFFICES ASSUME SInv, NEW i \in DOMAIN items, items[i].phase = "applied", Shown(i),
                    items[i].type \notin doubt, InFlight(items[i].type) = {}
             PROVE  \E b \in Applied(items[i].type) : batches[b].rows = i
  BY DEF ShownIsApplied
<1>1. PICK j \in DOMAIN items :
        /\ AppliedList(j) /\ i <= j /\ items[j].type = items[i].type
        /\ items[j].phase = "applied" \/ \E c \in Clerks : sending[c].pc = "answer" /\ sending[c].item = j
  BY DEF SInv, Latest, Backed
<1>2. ~ \E c \in Clerks : sending[c].pc = "answer" /\ sending[c].item = j
  BY <1>1 DEF InFlight
<1>3. j \in OfType(items[i].type)
  BY <1>1, <1>2 DEF OfType
<1>4. j <= i
  BY <1>3 DEF Shown
<1>5. i = j
  BY <1>1, <1>4, ItemFacts DEF SInv
<1> QED BY <1>1, <1>5 DEF AppliedList, Applied

\* "Eine neue Datei desselben Typs ersetzt die vorherige Vorschau": for any number of files and
\* requests, what the page shows as applied is the list that is applied, but for the types it
\* has reason to doubt.
THEOREM ShownSafe == SessionInit /\ [][SessionNext]_sessionVars => []ShownIsApplied
BY SessionInitInv, SessionNextInv, ShownApplied, PTL

-----------------------------------------------------------------------------
(***************************************************************************)
(* The day plan.                                                           *)
(***************************************************************************)

\* What a list type t asks of the row of a room after a merge.
Follows(t, row) ==
  IF row = None THEN t = None
  ELSE /\ IF row.overridden THEN t \in {None, row.derived} ELSE t = row.type
       /\ t # None => row.arriving = (t \in Arrives)

Steps == {"idle", "apply", "arrivals", "stays", "tell", "rows", "pending", "task", "link", "override",
          "board", "clear", "expect", "arrive"}

\* The fields that a request has at its step.
HasFields(k) ==
  /\ "pc" \in DOMAIN k /\ k.pc \in Steps
  /\ k.pc \notin {"idle", "apply"} => "stale" \in DOMAIN k
  /\ k.pc \in {"tell", "rows"} => {"old", "new", "rest"} \subseteq DOMAIN k
  /\ k.pc = "stays" => {"new", "rest"} \subseteq DOMAIN k
  /\ k.pc \in {"task", "link", "expect", "arrive"} => "rest" \in DOMAIN k
  /\ k.pc \in {"link", "arrive"} => "one" \in DOMAIN k
  /\ k.pc \in {"board", "clear", "expect", "arrive"} => "arriving" \in DOMAIN k
  /\ k.pc = "override" => {"room", "id", "type", "derived"} \subseteq DOMAIN k

\* What a merge k knows of the plan p, as long as no other wrote it, and whom it told.
Merges(k, p, t) ==
  /\ k.pc \in {"stays", "tell", "rows"} => \A r \in Rooms : k.new[r] \in Cleanings \cup {None}
  /\ k.pc \in {"tell", "rows"} =>
       /\ k.rest \subseteq Rooms /\ \A r \in Rooms : k.old[r] \in PlanRows \cup {None}
       /\ "plan" \notin k.stale =>
            /\ \A r \in k.rest : p[r] = k.old[r]
            /\ \A r \in Rooms \ k.rest : Follows(k.new[r], p[r])
  /\ k.pc = "tell" => k.rest = Rooms
  /\ k.pc = "rows" => \A r \in Changed(k) \cap Assigned : <<r, k.new[r]>> \in t
  /\ k.pc = "override" => k.id \in Nat /\ k.type \in Chosen
                          /\ k.derived \in Cleanings \cup Chosen \cup {None}

\* What it knows of the traces b; f requests have died.
Tasks(k, b, f) ==
  k.pc \in {"task", "link"} =>
    /\ k.rest \subseteq Rooms /\ \A r \in k.rest : b[r] # None
    /\ k.pc = "link" => k.one \in Rooms /\ b[k.one] # None
    /\ "beds" \notin k.stale /\ f = 0 => \A r \in k.rest : b[r].tasks = 0

\* Whom the plan p has arriving.
Named(p) == {r \in Rooms : p[r] # None /\ p[r].arriving}

\* The arrivals that an application k has created, or passed over.
Looked(k) == (k.arriving \ k.rest) \ (IF k.pc = "arrive" THEN {k.one} ELSE {})

\* What an application to the board has made of the plan p and the stays h in the arrivals e.
Expects(k, p, e, h) ==
  /\ k.pc \in {"board", "clear", "expect", "arrive"} =>
       k.arriving \subseteq Rooms /\ ("plan" \notin k.stale => k.arriving = Named(p))
  /\ k.pc \in {"expect", "arrive"} =>
       /\ k.rest \subseteq k.arriving
       /\ "board" \notin k.stale =>
            \A r \in Rooms : e[r] = IF r \in Looked(k) /\ r \notin h THEN 1 ELSE 0
  /\ k.pc = "arrive" =>
       k.one \in k.arriving \ k.rest /\ ("board" \notin k.stale => k.one \notin h)

Fits(k, p, t, b, f, e, h) == HasFields(k) /\ Merges(k, p, t) /\ Tasks(k, b, f) /\ Expects(k, p, e, h)

Links(k, r) == k.pc = "link" /\ k.one = r

\* A task that its trace does not know of is one that somebody is about to link.
TasksLinked ==
  fails = 0 => \A r \in Rooms :
    beds[r] # None /\ ~beds[r].linked /\ beds[r].tasks # 0 => \E d \in Clerks : Links(job[d], r)

PInv ==
  /\ plan \in [Rooms -> PlanRows \cup {None}]
  /\ beds \in [Rooms -> BedTraces \cup {None}]
  /\ expected = [r \in Rooms |-> expected[r]]
  /\ ids \in Nat /\ fails \in Nat
  /\ job = [c \in Clerks |-> job[c]]
  /\ \A c \in Clerks : Fits(job[c], plan, told, beds, fails, expected, here)
  /\ TasksLinked

\* A request that only learns that it is overtaken.
Alike(k, l) ==
  /\ l.pc = k.pc
  /\ k.pc \in {"tell", "rows"} => l.old = k.old /\ l.new = k.new /\ l.rest = k.rest
  /\ k.pc = "stays" => l.new = k.new /\ l.rest = k.rest
  /\ k.pc \in {"task", "link", "expect", "arrive"} => l.rest = k.rest
  /\ k.pc \in {"link", "arrive"} => l.one = k.one
  /\ k.pc \in {"board", "clear", "expect", "arrive"} => l.arriving = k.arriving
  /\ k.pc = "override" => l.room = k.room /\ l.id = k.id /\ l.type = k.type /\ l.derived = k.derived

LEMMA Warned ==
  ASSUME NEW k, HasFields(k), k.pc \notin {"idle", "apply"}, NEW N
  PROVE  LET l == [k EXCEPT !.stale = @ \cup N]
         IN HasFields(l) /\ Alike(k, l) /\ l.stale = k.stale \cup N
BY DEF HasFields, Alike

\* Nothing that was there before is taken away by a step.
Grows ==
  /\ told \subseteq told' /\ (fails' = 0 => fails = 0)
  /\ \A r \in Rooms : beds[r] # None => beds'[r] # None

LEMMA OnlooksDay ==
  ASSUME NEW d \in Clerks, Fits(job[d], plan, told, beds, fails, expected, here), Grows,
         job'[d] = IF job[d].pc \in {"idle", "apply"} THEN job[d]
                   ELSE [job[d] EXCEPT !.stale = @ \cup (News \cap Reads(job[d].pc))]
  PROVE  Alike(job[d], job'[d]) /\ Fits(job[d], plan, told, beds, fails, expected, here)'
<1> DEFINE k == job[d]
           l == job'[d]
<1>1. CASE k.pc \in {"idle", "apply"}
  BY <1>1 DEF Fits, Alike, Merges, Tasks, Expects
<1>2. CASE k.pc \notin {"idle", "apply"}
  <2>1. HasFields(l) /\ Alike(k, l) /\ l.stale = k.stale \cup (News \cap Reads(k.pc))
    BY <1>2, Warned DEF Fits
  <2>2. Merges(k, plan, told) /\ Tasks(k, beds, fails) /\ Expects(k, plan, expected, here)
    BY DEF Fits
  <2> HIDE DEF k, l
  <2>0. /\ k.pc \in {"tell", "rows", "board", "clear", "expect", "arrive"} => "plan" \in Reads(k.pc)
        /\ k.pc \in {"expect", "arrive"} => "board" \in Reads(k.pc)
        /\ k.pc \in {"task", "link"} => "beds" \in Reads(k.pc)
    BY DEF Reads
  <2>3. k.pc \in {"tell", "rows"} => Changed(l) = Changed(k)
    BY <2>1 DEF Changed, Alike
  <2>4. Merges(l, plan', told')
    <3>1. CASE plan' = plan
      BY <2>1, <2>2, <2>3, <3>1 DEF Merges, Alike, Grows
    <3>2. CASE plan' # plan
      BY <2>0, <2>1, <2>2, <2>3, <3>2 DEF Merges, Alike, Grows, News
    <3> QED BY <3>1, <3>2
  <2>5. Tasks(l, beds', fails')
    <3>1. CASE beds' = beds
      BY <2>1, <2>2, <3>1 DEF Tasks, Alike, Grows
    <3>2. CASE beds' # beds
      BY <2>0, <2>1, <2>2, <3>2 DEF Tasks, Alike, Grows, News
    <3> QED BY <3>1, <3>2
  <2>6. Expects(l, plan', expected', here')
    <3>1. k.pc \in {"expect", "arrive"} => Looked(l) = Looked(k)
      BY <2>1 DEF Looked, Alike
    <3>2. k.pc \in {"board", "clear", "expect", "arrive"} /\ "plan" \notin l.stale =>
            "plan" \notin k.stale /\ plan' = plan
      BY <2>0, <2>1 DEF News
    <3>3. k.pc \in {"expect", "arrive"} /\ "board" \notin l.stale =>
            "board" \notin k.stale /\ expected' = expected /\ here' = here
      BY <2>0, <2>1 DEF News
    <3> QED BY <2>1, <2>2, <3>1, <3>2, <3>3 DEF Expects, Alike
  <2> QED BY <2>1, <2>4, <2>5, <2>6 DEF Fits, k, l
<1> QED BY <1>1, <1>2

TypedDay ==
  /\ plan \in [Rooms -> PlanRows \cup {None}]
  /\ beds \in [Rooms -> BedTraces \cup {None}]
  /\ expected = [r \in Rooms |-> expected[r]]
  /\ ids \in Nat /\ fails \in Nat

\* Request c goes on as k.
LEMMA GoesDay ==
  ASSUME PInv, NEW c \in Clerks, NEW k, Continue(c, k), Grows, TypedDay',
         Fits(k, plan', told', beds', fails', expected', here'),
         fails' = 0 => \A r \in Rooms :
           beds'[r] # None /\ ~beds'[r].linked /\ beds'[r].tasks # 0 =>
             Links(k, r) \/ \E d \in Clerks \ {c} : Links(job[d], r)
  PROVE  PInv' /\ job'[c] = k /\ \A d \in Clerks \ {c} : Alike(job[d], job'[d])
<1>1. job' = [d \in Clerks |-> job'[d]] /\ job'[c] = k
  <2>1. job' = [Notice(job) EXCEPT ![c] = k] /\ DOMAIN Notice(job) = Clerks
    BY DEF Continue, Notice
  <2> QED BY <2>1
<1>2. ASSUME NEW d \in Clerks, d # c
      PROVE  Alike(job[d], job'[d]) /\ Fits(job[d], plan, told, beds, fails, expected, here)'
  <2>1. job'[d] = IF job[d].pc \in {"idle", "apply"} THEN job[d]
                  ELSE [job[d] EXCEPT !.stale = @ \cup (News \cap Reads(job[d].pc))]
    BY <1>2 DEF Continue, Notice
  <2> QED BY <2>1, OnlooksDay DEF PInv
<1>3. TasksLinked'
  <2> SUFFICES ASSUME fails' = 0, NEW r \in Rooms, beds'[r] # None, ~beds'[r].linked, beds'[r].tasks # 0
               PROVE  \E d \in Clerks : Links(job'[d], r)
    BY DEF TasksLinked, Links
  <2>1. CASE Links(k, r)
    BY <1>1, <2>1
  <2>2. CASE \E d \in Clerks \ {c} : Links(job[d], r)
    BY <1>2, <2>2 DEF Links, Alike
  <2> QED BY <2>1, <2>2
<1>4. \A d \in Clerks : Fits(job[d], plan, told, beds, fails, expected, here)'
  BY <1>1, <1>2
<1> QED BY <1>1, <1>2, <1>3, <1>4 DEF PInv, TypedDay

\* The traces stay as they are.
LEMMA GoesWithoutTraces ==
  ASSUME PInv, NEW c \in Clerks, NEW k, Continue(c, k), told \subseteq told',
         beds' = beds, fails' = fails, job[c].pc # "link", TypedDay',
         Fits(k, plan', told', beds', fails', expected', here')
  PROVE  PInv' /\ job'[c] = k /\ \A d \in Clerks \ {c} : Alike(job[d], job'[d])
<1>1. Grows
  BY DEF Grows
<1>2. fails' = 0 => \A r \in Rooms :
        beds'[r] # None /\ ~beds'[r].linked /\ beds'[r].tasks # 0 =>
          Links(k, r) \/ \E d \in Clerks \ {c} : Links(job[d], r)
  BY DEF PInv, TasksLinked, Links
<1> QED BY <1>1, <1>2, GoesDay

LEMMA GoesIdle ==
  ASSUME PInv, NEW c \in Clerks, NEW k, Continue(c, k), UNCHANGED day \/ UNCHANGED <<plan, ids, told, here, expected, checkout, beds, fails>>,
         job[c].pc # "link", Fits(k, plan, told, beds, fails, expected, here)
  PROVE  PInv' /\ job'[c] = k /\ \A d \in Clerks \ {c} : Alike(job[d], job'[d])
<1>1. UNCHANGED <<plan, ids, told, here, expected, beds, fails>>
  BY DEF day
<1>2. TypedDay'
  BY <1>1 DEF PInv, TypedDay
<1> QED BY <1>1, <1>2, GoesWithoutTraces

\* What a request that has just read, or is done, has to do with the rest.
LEMMA FitsPlain ==
  ASSUME NEW k, HasFields(k), k.pc \in {"idle", "apply", "arrivals", "pending"},
         NEW p, NEW t, NEW b, NEW f, NEW e, NEW h
  PROVE  Fits(k, p, t, b, f, e, h)
BY DEF Fits, Merges, Tasks, Expects

LEMMA FitsIdle ==
  ASSUME NEW p, NEW t, NEW b, NEW f, NEW e, NEW h
  PROVE  Fits(Idle, p, t, b, f, e, h) /\ Idle.pc = "idle"
<1>1. HasFields(Idle) /\ Idle.pc = "idle"
  BY DEF HasFields, Idle, Steps
<1> QED BY <1>1, FitsPlain

LEMMA DepartureStep ==
  ASSUME PInv, NEW c \in Clerks, ReadDepartures(c)
  PROVE  PInv' /\ job'[c].pc = "arrivals" /\ \A d \in Clerks \ {c} : Alike(job[d], job'[d])
<1>1. PICK v : Continue(c, [pc |-> "arrivals", dep |-> v, stale |-> {}])
  BY DEF ReadDepartures
<1> DEFINE k == [pc |-> "arrivals", dep |-> v, stale |-> {}]
<1>2. HasFields(k) /\ k.pc = "arrivals"
  BY DEF HasFields, Steps
<1> HIDE DEF k
<1>3. Fits(k, plan, told, beds, fails, expected, here)
  BY <1>2, FitsPlain
<1>4. UNCHANGED <<plan, ids, told, here, expected, checkout, beds, fails>> /\ job[c].pc = "idle"
  BY DEF ReadDepartures, Begin
<1> QED BY <1>1, <1>2, <1>3, <1>4, GoesIdle DEF k

LEMMA TypeIs ==
  ASSUME NEW dep, NEW arr, NEW r
  PROVE  Type(dep, arr, r) \in Cleanings \cup {None}
BY DEF Type, Cleanings

LEMMA ArrivalsStep ==
  ASSUME PInv, NEW c \in Clerks, ReadArrivals(c)
  PROVE  PInv' /\ job'[c].pc = "stays" /\ \A d \in Clerks \ {c} : Alike(job[d], job'[d])
<1>1. PICK arr, asks, house, z :
        Continue(c, [pc |-> "stays", new |-> [r \in Rooms |-> Type(job[c].dep, arr, r)],
                     asks |-> asks, house |-> house, rest |-> z, stale |-> {}])
  BY DEF ReadArrivals
<1> DEFINE w == [r \in Rooms |-> Type(job[c].dep, arr, r)]
           k == [pc |-> "stays", new |-> w, asks |-> asks, house |-> house, rest |-> z, stale |-> {}]
<1>2. \A r \in Rooms : w[r] \in Cleanings \cup {None}
  BY TypeIs
<1> HIDE DEF w
<1>3. HasFields(k) /\ k.pc = "stays" /\ k.new = w
  BY DEF HasFields, Steps
<1>4. Continue(c, k)
  BY <1>1 DEF w
<1> HIDE DEF k
<1>5. Fits(k, plan, told, beds, fails, expected, here)
  BY <1>2, <1>3 DEF Fits, Merges, Tasks, Expects
<1>6. UNCHANGED day /\ job[c].pc = "arrivals"
  BY DEF ReadArrivals
<1> QED BY <1>3, <1>4, <1>5, <1>6, GoesIdle

LEMMA StayStep ==
  ASSUME PInv, NEW c \in Clerks, NEW r \in Rooms, WriteStay(c, r)
  PROVE  PInv' /\ job'[c].pc = "stays" /\ \A d \in Clerks \ {c} : Alike(job[d], job'[d])
<1> DEFINE k == job[c]
           z == k.rest \ {r}
           l == [k EXCEPT !.rest = z]
<1>1. Continue(c, l) /\ k.pc = "stays" /\ UNCHANGED <<plan, ids, told, expected, beds, fails>>
  <2>1. k.pc = "stays" /\ HasFields(k)
    BY DEF PInv, Fits, WriteStay
  <2>2. [k EXCEPT !.rest = @ \ {r}] = l
    BY <2>1 DEF HasFields
  <2> QED BY <2>1, <2>2 DEF WriteStay
<1>2. HasFields(k) /\ Merges(k, plan, told)
  BY DEF PInv, Fits
<1> HIDE DEF z
<1>3. HasFields(l) /\ l.pc = "stays" /\ l.new = k.new
  BY <1>1, <1>2 DEF HasFields, Steps
<1> HIDE DEF k, l
<1>4. Fits(l, plan', told', beds', fails', expected', here')
  BY <1>1, <1>2, <1>3 DEF Fits, Merges, Tasks, Expects
<1>5. TypedDay'
  BY <1>1 DEF PInv, TypedDay
<1> QED BY <1>1, <1>3, <1>4, <1>5, GoesWithoutTraces DEF k

LEMMA PlanStep ==
  ASSUME PInv, NEW c \in Clerks, ReadPlan(c)
  PROVE  PInv' /\ job'[c].pc = "tell" /\ \A d \in Clerks \ {c} : Alike(job[d], job'[d])
<1> DEFINE w == job[c].new
           a == job[c].asks
           k == [pc |-> "tell", new |-> w, asks |-> a, old |-> plan, rest |-> Rooms, stale |-> {}]
<1>1. Continue(c, k) /\ UNCHANGED day /\ job[c].pc = "stays"
  BY DEF ReadPlan
<1>2. \A r \in Rooms : w[r] \in Cleanings \cup {None}
  BY <1>1 DEF PInv, Fits, Merges
<1> HIDE DEF w, a
<1>3. HasFields(k) /\ k.pc = "tell" /\ k.new = w /\ k.old = plan /\ k.rest = Rooms
  BY DEF HasFields, Steps
<1> HIDE DEF k
<1>4. Fits(k, plan, told, beds, fails, expected, here)
  BY <1>2, <1>3 DEF Fits, Merges, Tasks, Expects, PInv
<1> QED BY <1>1, <1>3, <1>4, GoesIdle

LEMMA TellStep ==
  ASSUME PInv, NEW c \in Clerks, TellChanges(c)
  PROVE  PInv' /\ job'[c].pc = "rows" /\ \A d \in Clerks \ {c} : Alike(job[d], job'[d])
<1> DEFINE k == job[c]
           l == [k EXCEPT !.pc = "rows"]
<1>1. /\ k.pc = "tell" /\ Continue(c, l) /\ told' = told \cup {<<r, k.new[r]>> : r \in Changed(k) \cap Assigned}
      /\ UNCHANGED <<plan, ids, here, expected, beds, fails>>
  BY DEF TellChanges
<1>2. Fits(k, plan, told, beds, fails, expected, here)
  BY DEF PInv
<1>3. HasFields(l) /\ l.pc = "rows" /\ l.new = k.new /\ l.old = k.old /\ l.rest = k.rest /\ l.stale = k.stale
  BY <1>1, <1>2 DEF Fits, HasFields, Steps
<1> HIDE DEF k, l
<1>4. Changed(l) = Changed(k)
  BY <1>3 DEF Changed
<1>5. \A r \in Changed(l) \cap Assigned : <<r, l.new[r]>> \in told'
  BY <1>1, <1>3, <1>4
<1>6. Fits(l, plan', told', beds', fails', expected', here')
  BY <1>1, <1>2, <1>3, <1>5 DEF Fits, Merges, Tasks, Expects
<1>7. TypedDay' /\ told \subseteq told'
  BY <1>1 DEF PInv, TypedDay
<1> QED BY <1>1, <1>3, <1>6, <1>7, GoesWithoutTraces DEF k

\* What a merge makes of the row of room r.
LEMMA RowWritten ==
  ASSUME PInv, NEW c \in Clerks, NEW r \in Rooms, WriteRow(c, r)
  PROVE  LET k == job[c]
             old == k.old[r]
             new == k.new[r]
         IN /\ k.pc = "rows" /\ r \in k.rest
            /\ plan' \in [Rooms -> PlanRows \cup {None}] /\ ids' \in Nat
            /\ \A q \in Rooms \ {r} : plan'[q] = plan[q]
            /\ "plan" \notin k.stale =>
                 /\ plan[r] = old /\ Follows(new, plan'[r])
                 /\ Overridden(plan[r]) => Overridden(plan'[r]) /\ plan'[r].type = plan[r].type
                 /\ plan[r] # None /\ ~Overridden(plan[r]) /\ (plan'[r] = None \/ plan'[r].type # plan[r].type)
                    => new # plan[r].type
<1> DEFINE k == job[c]
           old == k.old[r]
           new == k.new[r]
           gone == new = None /\ old # None /\ ~Overridden(old)
           v == IF new = None THEN (IF gone THEN None ELSE plan[r])
                ELSE IF old = None THEN Row(ids + 1, new) ELSE Merged(old, new, plan[r])
<1>1. /\ k.pc = "rows" /\ r \in k.rest
      /\ IF new = None THEN (gone => SameRow(r, old))
         ELSE IF old # None THEN SameRow(r, old) ELSE plan[r] = None
      /\ plan' = [plan EXCEPT ![r] = v]
      /\ ids' = IF new # None /\ old = None THEN ids + 1 ELSE ids
  BY DEF WriteRow
<1>2. /\ old \in PlanRows \cup {None} /\ new \in Cleanings \cup {None}
      /\ "plan" \notin k.stale => plan[r] = old
  BY <1>1 DEF PInv, Fits, Merges
<1>3. plan \in [Rooms -> PlanRows \cup {None}] /\ ids \in Nat
  BY DEF PInv
<1> DEFINE row == plan[r]
<1>4. row \in PlanRows \cup {None} /\ (new # None /\ old # None => row # None)
  BY <1>1, <1>3 DEF SameRow
<1>5. None \notin PlanRows /\ None \notin Cleanings \cup Chosen
  BY NoneAssumption
<1> HIDE DEF k, old, new, row
<1>6. ASSUME new # None, old = None
      PROVE  v \in PlanRows /\ Follows(new, v)
  <2> DEFINE n == ids + 1
  <2>1. /\ v = [id |-> n, type |-> new, overridden |-> FALSE, derived |-> None, arriving |-> new \in Arrives]
        /\ n \in Nat
    BY <1>3, <1>6 DEF Row
  <2> HIDE DEF n, v
  <2>2. v \in PlanRows /\ v.overridden = FALSE /\ v.type = new /\ v.arriving = (new \in Arrives)
    BY <1>2, <1>6, <2>1 DEF PlanRows
  <2> QED BY <1>5, <2>2 DEF Follows
<1>7. ASSUME new # None, old # None
      PROVE  /\ v \in PlanRows
             /\ row = old => /\ Follows(new, v)
                             /\ Overridden(row) => Overridden(v) /\ v.type = row.type
                             /\ ~Overridden(row) => v.type = row.type \/ new # row.type
  <2>1. v = Merged(old, new, row)
    BY <1>7 DEF row
  <2>2. CASE Overridden(old)
    <3> DEFINE b == new \in Arrives
    <3>1. v = [row EXCEPT !.derived = new, !.arriving = b] /\ b \in BOOLEAN
      BY <2>1, <2>2 DEF Merged
    <3> HIDE DEF v, b
    <3>2. /\ v \in PlanRows /\ v.arriving = b /\ v.derived = new /\ v.type = row.type
          /\ v.overridden = row.overridden
      BY <1>2, <1>4, <1>7, <3>1 DEF PlanRows
    <3>3. Overridden(v) = Overridden(row) /\ (row = old => v.overridden)
      BY <1>4, <1>5, <1>7, <2>2, <3>2 DEF Overridden
    <3>4. row = old => Follows(new, v)
      BY <1>5, <3>2, <3>3 DEF Follows, b
    <3> QED BY <2>2, <3>2, <3>3, <3>4
  <2>3. CASE ~Overridden(old)
    <3> DEFINE b == new \in Arrives
    <3>1. v = [row EXCEPT !.type = new, !.arriving = b] /\ b \in BOOLEAN
      BY <2>1, <2>3 DEF Merged
    <3> HIDE DEF v, b
    <3>2. v \in PlanRows /\ v.arriving = b /\ v.type = new /\ v.overridden = row.overridden
      BY <1>2, <1>4, <1>7, <3>1 DEF PlanRows
    <3>3. row = old => ~v.overridden
      BY <1>7, <2>3, <3>2 DEF Overridden
    <3>4. row = old => Follows(new, v)
      BY <1>5, <3>2, <3>3 DEF Follows, b
    <3> QED BY <2>3, <3>2, <3>4
  <2> QED BY <2>2, <2>3
<1>8. ASSUME new = None
      PROVE  /\ v \in PlanRows \cup {None}
             /\ row = old => /\ Follows(new, v)
                             /\ Overridden(row) => v = row
                             /\ row # None /\ ~Overridden(row) => new # row.type
  <2>1. v = IF gone THEN None ELSE row
    BY <1>8 DEF row
  <2> HIDE DEF v
  <2>2. row # None => row.type \in Cleanings \cup Chosen /\ row.overridden \in BOOLEAN
    BY <1>4 DEF PlanRows
  <2> QED BY <1>2, <1>4, <1>5, <1>8, <2>1, <2>2 DEF Follows, Overridden
<1>9. v \in PlanRows \cup {None}
  BY <1>6, <1>7, <1>8
<1> HIDE DEF v
<1>10. plan' \in [Rooms -> PlanRows \cup {None}] /\ plan'[r] = v /\ \A q \in Rooms \ {r} : plan'[q] = plan[q]
  BY <1>1, <1>3, <1>9
<1>11. ids' \in Nat
  BY <1>1, <1>3
<1> QED BY <1>1, <1>2, <1>5, <1>6, <1>7, <1>8, <1>10, <1>11 DEF k, old, new, row, Overridden

LEMMA RowStep ==
  ASSUME PInv, NEW c \in Clerks, NEW r \in Rooms, WriteRow(c, r)
  PROVE  PInv' /\ job'[c].pc = "rows" /\ \A d \in Clerks \ {c} : Alike(job[d], job'[d])
<1> DEFINE k == job[c]
           z == k.rest \ {r}
           l == [k EXCEPT !.rest = z]
<1>1. Continue(c, l) /\ k.pc = "rows" /\ UNCHANGED <<told, here, expected, beds, fails>>
  <2>1. k.pc = "rows" /\ HasFields(k)
    BY DEF PInv, Fits, WriteRow
  <2>2. [k EXCEPT !.rest = @ \ {r}] = l
    BY <2>1 DEF HasFields
  <2> QED BY <2>1, <2>2 DEF WriteRow
<1>2. Fits(k, plan, told, beds, fails, expected, here)
  BY DEF PInv
<1> HIDE DEF z
<1>3. HasFields(l) /\ l.pc = "rows" /\ l.new = k.new /\ l.old = k.old /\ l.rest = z /\ l.stale = k.stale
  BY <1>1, <1>2 DEF Fits, HasFields, Steps
<1> HIDE DEF k, l
<1>4. Changed(l) = Changed(k)
  BY <1>3 DEF Changed
<1>5. /\ plan' \in [Rooms -> PlanRows \cup {None}] /\ ids' \in Nat
      /\ \A q \in Rooms \ {r} : plan'[q] = plan[q]
      /\ "plan" \notin k.stale => Follows(k.new[r], plan'[r])
  BY RowWritten DEF k
<1>6. Merges(l, plan', told')
  <2>1. Merges(k, plan, told)
    BY <1>2 DEF Fits
  <2>2. ASSUME "plan" \notin k.stale
        PROVE  (\A q \in z : plan'[q] = k.old[q]) /\ \A q \in Rooms \ z : Follows(k.new[q], plan'[q])
    <3>1. \A q \in z : q \in k.rest /\ q # r /\ q \in Rooms
      BY <1>1, <2>1 DEF Merges, z
    <3>2. \A q \in Rooms \ z : q = r \/ q \in Rooms \ k.rest
      BY DEF z
    <3> QED BY <1>1, <1>5, <2>1, <2>2, <3>1, <3>2 DEF Merges
  <2>3. z \subseteq Rooms
    BY <1>1, <2>1 DEF Merges, z
  <2> QED BY <1>1, <1>3, <1>4, <2>1, <2>2, <2>3 DEF Merges
<1>7. Fits(l, plan', told', beds', fails', expected', here')
  BY <1>3, <1>6 DEF Fits, Tasks, Expects
<1>8. TypedDay' /\ told \subseteq told'
  BY <1>1, <1>5 DEF PInv, TypedDay
<1> QED BY <1>1, <1>3, <1>7, <1>8, GoesWithoutTraces DEF k

LEMMA MergeFailsStep ==
  ASSUME PInv, NEW c \in Clerks, NEW r \in Rooms, MergeFails(c, r)
  PROVE  PInv' /\ job'[c].pc = "idle" /\ \A d \in Clerks \ {c} : Alike(job[d], job'[d])
<1>1. Continue(c, Idle) /\ UNCHANGED day /\ job[c].pc = "rows"
  BY DEF MergeFails
<1> QED BY <1>1, FitsIdle, GoesIdle

LEMMA TracesStep ==
  ASSUME PInv, NEW c \in Clerks, StoreTraces(c)
  PROVE  PInv' /\ job'[c].pc = "pending" /\ \A d \in Clerks \ {c} : Alike(job[d], job'[d])
<1> DEFINE k == job[c]
           l == [k EXCEPT !.pc = "pending"]
           new == [tasks |-> 0, linked |-> FALSE]
<1>1. /\ k.pc = "rows" /\ Continue(c, l) /\ UNCHANGED <<plan, ids, told, here, expected, fails>>
      /\ beds' = [r \in Rooms |-> IF r \in k.asks /\ beds[r] = None THEN new ELSE beds[r]]
  BY DEF StoreTraces
<1>2. HasFields(k)
  BY DEF PInv, Fits
<1>3. HasFields(l) /\ l.pc = "pending"
  BY <1>1, <1>2 DEF HasFields, Steps
<1> HIDE DEF l
<1>4. Fits(l, plan', told', beds', fails', expected', here')
  BY <1>3, FitsPlain
<1>5. new \in BedTraces /\ new.tasks = 0
  BY DEF BedTraces
<1> HIDE DEF new
<1>6. beds' \in [Rooms -> BedTraces \cup {None}]
  BY <1>1, <1>5 DEF PInv
<1>7. new # None
  BY <1>5, NoneAssumption
<1>8. TypedDay' /\ Grows
  BY <1>1, <1>6, <1>7 DEF PInv, TypedDay, Grows
<1>9. fails' = 0 => \A r \in Rooms :
        beds'[r] # None /\ ~beds'[r].linked /\ beds'[r].tasks # 0 =>
          Links(l, r) \/ \E d \in Clerks \ {c} : Links(job[d], r)
  <2> SUFFICES ASSUME fails' = 0, NEW r \in Rooms, beds'[r] # None, ~beds'[r].linked, beds'[r].tasks # 0
               PROVE  \E d \in Clerks \ {c} : Links(job[d], r)
    OBVIOUS
  <2>1. beds'[r] = beds[r]
    BY <1>1, <1>5
  <2>2. PICK d \in Clerks : Links(job[d], r)
    BY <1>1, <2>1 DEF PInv, TasksLinked
  <2> QED BY <1>1, <2>2 DEF Links
<1> QED BY <1>1, <1>3, <1>4, <1>8, <1>9, GoesDay

LEMMA PendingStep ==
  ASSUME PInv, NEW c \in Clerks, ReadPending(c)
  PROVE  PInv' /\ job'[c].pc = "task" /\ \A d \in Clerks \ {c} : Alike(job[d], job'[d])
<1> DEFINE s == IF \E d \in Clerks : job[d].pc = "link" THEN {"beds"} ELSE {}
           z == {r \in Rooms : beds[r] # None /\ ~beds[r].linked}
           k == [pc |-> "task", stale |-> s, rest |-> z]
<1>1. Continue(c, k) /\ UNCHANGED day /\ job[c].pc = "pending"
  BY DEF ReadPending
<1>2. \A r \in z : r \in Rooms /\ beds[r] # None
  OBVIOUS
<1>3. "beds" \notin s /\ fails = 0 => \A r \in z : beds[r].tasks = 0
  BY DEF PInv, TasksLinked, Links
<1> HIDE DEF s, z
<1>4. HasFields(k) /\ k.pc = "task" /\ k.stale = s /\ k.rest = z
  BY DEF HasFields, Steps
<1> HIDE DEF k
<1>5. Fits(k, plan, told, beds, fails, expected, here)
  BY <1>2, <1>3, <1>4 DEF Fits, Merges, Tasks, Expects
<1> QED BY <1>1, <1>4, <1>5, GoesIdle

LEMMA TaskCreated ==
  ASSUME PInv, NEW c \in Clerks, NEW r \in Rooms, CreateTask(c, r)
  PROVE  /\ job[c].pc = "task" /\ r \in job[c].rest
         /\ beds' \in [Rooms -> BedTraces \cup {None}]
         /\ \A q \in Rooms \ {r} : beds'[q] = beds[q]
         /\ beds[r] # None /\ beds'[r] # None
         /\ beds[r].tasks = 0 => beds'[r].tasks = 1
<1>1. /\ job[c].pc = "task" /\ r \in job[c].rest
      /\ beds' = [beds EXCEPT ![r].tasks = IF @ < 2 THEN @ + 1 ELSE 2]
  BY DEF CreateTask
<1>2. beds[r] # None /\ beds \in [Rooms -> BedTraces \cup {None}]
  BY <1>1 DEF PInv, Fits, Tasks
<1> DEFINE b == beds[r]
           n == IF b.tasks < 2 THEN b.tasks + 1 ELSE 2
           v == [b EXCEPT !.tasks = n]
<1>3. b \in BedTraces /\ b.tasks \in 0..2 /\ n \in 0..2 /\ (b.tasks = 0 => n = 1)
  BY <1>2 DEF BedTraces
<1>4. beds' = [beds EXCEPT ![r] = v]
  BY <1>1, <1>2
<1> HIDE DEF b, n
<1>5. v \in BedTraces /\ v.tasks = n
  BY <1>3 DEF BedTraces
<1> HIDE DEF v
<1>6. v # None
  BY <1>5, NoneAssumption
<1>7. beds'[r] = v /\ beds' \in [Rooms -> BedTraces \cup {None}] /\ \A q \in Rooms \ {r} : beds'[q] = beds[q]
  BY <1>2, <1>4, <1>5
<1> QED BY <1>1, <1>2, <1>3, <1>5, <1>6, <1>7 DEF b

LEMMA TaskStep ==
  ASSUME PInv, NEW c \in Clerks, NEW r \in Rooms, CreateTask(c, r)
  PROVE  PInv' /\ job'[c].pc = "link" /\ job'[c].one = r /\ \A d \in Clerks \ {c} : Alike(job[d], job'[d])
<1> DEFINE k == job[c]
           z == k.rest \ {r}
           s == k.stale
           l == [pc |-> "link", stale |-> s, rest |-> z, one |-> r]
<1>1. Continue(c, l) /\ UNCHANGED <<plan, ids, told, here, expected, fails>>
  BY DEF CreateTask
<1>2. Tasks(k, beds, fails) /\ k.pc = "task" /\ r \in k.rest
  BY DEF PInv, Fits, CreateTask
<1>3. \A q \in z : q \in k.rest /\ q # r
  OBVIOUS
<1> HIDE DEF z, s
<1>4. HasFields(l) /\ l.pc = "link" /\ l.stale = s /\ l.rest = z /\ l.one = r
  BY DEF HasFields, Steps
<1> HIDE DEF l
<1>5. Tasks(l, beds', fails')
  <2>1. \A q \in z : q \in Rooms /\ beds[q] # None /\ beds'[q] = beds[q]
    BY <1>2, <1>3, TaskCreated DEF Tasks
  <2>2. "beds" \notin s /\ fails = 0 => \A q \in z : beds[q].tasks = 0
    BY <1>2, <1>3 DEF Tasks, s
  <2> QED BY <1>1, <1>4, <2>1, <2>2, TaskCreated DEF Tasks
<1>6. Fits(l, plan', told', beds', fails', expected', here')
  BY <1>4, <1>5 DEF Fits, Merges, Expects
<1>7. TypedDay'
  BY <1>1, TaskCreated DEF PInv, TypedDay
<1>8. Grows
  BY <1>1, TaskCreated DEF Grows
<1>9. fails' = 0 => \A q \in Rooms :
        beds'[q] # None /\ ~beds'[q].linked /\ beds'[q].tasks # 0 =>
          Links(l, q) \/ \E d \in Clerks \ {c} : Links(job[d], q)
  <2> SUFFICES ASSUME fails' = 0, NEW q \in Rooms, beds'[q] # None, ~beds'[q].linked, beds'[q].tasks # 0, q # r
               PROVE  \E d \in Clerks \ {c} : Links(job[d], q)
    BY <1>4 DEF Links
  <2>1. beds'[q] = beds[q]
    BY TaskCreated
  <2>2. PICK d \in Clerks : Links(job[d], q)
    BY <1>1, <2>1 DEF PInv, TasksLinked
  <2> QED BY <1>2, <2>2 DEF Links, k
<1> QED BY <1>1, <1>4, <1>6, <1>7, <1>8, <1>9, GoesDay

LEMMA LinkStep ==
  ASSUME PInv, NEW c \in Clerks, LinkTask(c)
  PROVE  PInv' /\ job'[c].pc = "task" /\ \A d \in Clerks \ {c} : Alike(job[d], job'[d])
<1> DEFINE k == job[c]
           r == k.one
           z == k.rest
           s == k.stale
           l == [pc |-> "task", stale |-> s, rest |-> z]
<1>1. /\ k.pc = "link" /\ Continue(c, l) /\ UNCHANGED <<plan, ids, told, here, expected, fails>>
      /\ beds' = [beds EXCEPT ![r].linked = TRUE]
  BY DEF LinkTask
<1>2. Tasks(k, beds, fails)
  BY DEF PInv, Fits
<1>3. r \in Rooms /\ beds[r] # None /\ beds \in [Rooms -> BedTraces \cup {None}]
  BY <1>1, <1>2 DEF Tasks, PInv
<1> DEFINE b == beds[r]
           v == [b EXCEPT !.linked = TRUE]
<1>4. b \in BedTraces
  BY <1>3
<1>5. beds' = [beds EXCEPT ![r] = v]
  BY <1>1, <1>3
<1> HIDE DEF z, s, b, r
<1>6. v \in BedTraces /\ v.tasks = b.tasks /\ v.linked = TRUE
  BY <1>4 DEF BedTraces
<1> HIDE DEF v
<1>7. v # None
  BY <1>6, NoneAssumption
<1>8. /\ beds' \in [Rooms -> BedTraces \cup {None}] /\ beds'[r] = v
      /\ \A q \in Rooms : beds'[q] = IF q = r THEN v ELSE beds[q]
  BY <1>3, <1>5, <1>6
<1>9. HasFields(l) /\ l.pc = "task" /\ l.stale = s /\ l.rest = z
  BY DEF HasFields, Steps
<1> HIDE DEF l, k
<1>10. Tasks(l, beds', fails')
  BY <1>1, <1>2, <1>6, <1>7, <1>8, <1>9 DEF Tasks, z, s, b
<1>11. Fits(l, plan', told', beds', fails', expected', here')
  BY <1>9, <1>10 DEF Fits, Merges, Expects
<1>12. TypedDay' /\ Grows
  BY <1>1, <1>7, <1>8 DEF PInv, TypedDay, Grows
<1>13. fails' = 0 => \A q \in Rooms :
        beds'[q] # None /\ ~beds'[q].linked /\ beds'[q].tasks # 0 =>
          Links(l, q) \/ \E d \in Clerks \ {c} : Links(job[d], q)
  <2> SUFFICES ASSUME fails' = 0, NEW q \in Rooms, beds'[q] # None, ~beds'[q].linked, beds'[q].tasks # 0
               PROVE  \E d \in Clerks \ {c} : Links(job[d], q)
    OBVIOUS
  <2>1. q # r /\ beds'[q] = beds[q]
    BY <1>6, <1>8
  <2>2. PICK d \in Clerks : Links(job[d], q)
    BY <1>1, <2>1 DEF PInv, TasksLinked
  <2> QED BY <2>1, <2>2 DEF Links, r, k
<1> QED BY <1>1, <1>9, <1>11, <1>12, <1>13, GoesDay

LEMMA FinishSteps ==
  ASSUME PInv, NEW c \in Clerks, FinishMerge(c) \/ FinishBoard(c)
  PROVE  PInv' /\ job'[c].pc = "idle" /\ \A d \in Clerks \ {c} : Alike(job[d], job'[d])
<1>1. Continue(c, Idle) /\ UNCHANGED day /\ job[c].pc \in {"task", "expect"}
  BY DEF FinishMerge, FinishBoard
<1> QED BY <1>1, FitsIdle, GoesIdle

LEMMA ReadOverrideStep ==
  ASSUME PInv, NEW c \in Clerks, NEW r \in Rooms, NEW t \in Chosen, ReadOverride(c, r, t)
  PROVE  PInv' /\ job'[c].pc = "override" /\ \A d \in Clerks \ {c} : Alike(job[d], job'[d])
<1> DEFINE n == plan[r].id
           v == IF plan[r].overridden THEN plan[r].derived ELSE plan[r].type
           k == [pc |-> "override", room |-> r, id |-> n, type |-> t, stale |-> {}, derived |-> v]
<1>1. /\ job[c].pc = "idle" /\ plan[r] # None /\ Continue(c, k)
      /\ UNCHANGED <<plan, ids, told, here, expected, checkout, beds, fails>>
  BY DEF ReadOverride, Begin
<1>2. plan[r] \in PlanRows
  BY <1>1 DEF PInv
<1>3. n \in Nat /\ v \in Cleanings \cup Chosen \cup {None}
  BY <1>2 DEF PlanRows
<1> HIDE DEF n, v
<1>4. HasFields(k) /\ k.pc = "override" /\ k.id = n /\ k.type = t /\ k.derived = v
  BY DEF HasFields, Steps
<1> HIDE DEF k
<1>5. Fits(k, plan, told, beds, fails, expected, here)
  BY <1>3, <1>4 DEF Fits, Merges, Tasks, Expects
<1> QED BY <1>1, <1>4, <1>5, GoesIdle

LEMMA WriteOverrideStep ==
  ASSUME PInv, NEW c \in Clerks, WriteOverride(c)
  PROVE  PInv' /\ job'[c].pc = "idle" /\ \A d \in Clerks \ {c} : Alike(job[d], job'[d])
<1> DEFINE k == job[c]
           r == k.room
           t == k.type
           o == ~(k.type = k.derived)
           f == IF k.type = k.derived THEN None ELSE k.derived
<1>1. /\ k.pc = "override" /\ Continue(c, Idle) /\ UNCHANGED <<ids, told, here, expected, beds, fails>>
      /\ \/ plan' = plan
         \/ /\ plan[r] # None
            /\ plan' = [plan EXCEPT ![r].type = t, ![r].overridden = o, ![r].derived = f]
  BY DEF WriteOverride, SameRow
<1>2. t \in Chosen /\ o \in BOOLEAN /\ f \in Cleanings \cup Chosen \cup {None}
  BY <1>1 DEF PInv, Fits, Merges
<1>3. plan \in [Rooms -> PlanRows \cup {None}]
  BY DEF PInv
<1> HIDE DEF r, t, o, f
<1>4. plan' \in [Rooms -> PlanRows \cup {None}]
  <2>1. CASE plan' = plan
    BY <1>3, <2>1
  <2>2. CASE r \in Rooms /\ plan' # plan
    <3> DEFINE row == plan[r]
               v == [row EXCEPT !.type = t, !.overridden = o, !.derived = f]
    <3>1. row \in PlanRows
      BY <1>1, <1>3, <2>2
    <3>2. plan' = [plan EXCEPT ![r] = v]
      BY <1>1, <2>2
    <3> HIDE DEF row
    <3>3. v \in PlanRows
      BY <1>2, <3>1 DEF PlanRows
    <3> HIDE DEF v
    <3> QED BY <1>3, <3>2, <3>3
  <2>3. CASE r \notin Rooms
    BY <1>1, <1>3, <2>3
  <2> QED BY <2>1, <2>2, <2>3
<1>5. TypedDay' /\ told \subseteq told'
  BY <1>1, <1>4 DEF PInv, TypedDay
<1> QED BY <1>1, <1>5, FitsIdle, GoesWithoutTraces

LEMMA ReadBoardStep ==
  ASSUME PInv, NEW c \in Clerks, ReadBoard(c)
  PROVE  PInv' /\ job'[c].pc = "board" /\ \A d \in Clerks \ {c} : Alike(job[d], job'[d])
<1> DEFINE w == Types
           a == Arriving
           k == [pc |-> "board", types |-> w, arriving |-> a, stale |-> {}]
<1>1. /\ job[c].pc = "idle" /\ Continue(c, k)
      /\ UNCHANGED <<plan, ids, told, here, expected, checkout, beds, fails>>
  BY DEF ReadBoard, Begin
<1>2. a \subseteq Rooms /\ a = Named(plan)
  BY DEF Arriving, Named
<1> HIDE DEF w, a
<1>3. HasFields(k) /\ k.pc = "board" /\ k.arriving = a
  BY DEF HasFields, Steps
<1> HIDE DEF k
<1>4. Fits(k, plan, told, beds, fails, expected, here)
  BY <1>2, <1>3 DEF Fits, Merges, Tasks, Expects
<1> QED BY <1>1, <1>3, <1>4, GoesIdle

LEMMA WriteBoardStep ==
  ASSUME PInv, NEW c \in Clerks, NEW complete \in BOOLEAN, WriteBoard(c, complete)
  PROVE  PInv' /\ job'[c].pc = "clear" /\ \A d \in Clerks \ {c} : Alike(job[d], job'[d])
<1> DEFINE a == job[c].arriving
           s == job[c].stale
           k == [pc |-> "clear", arriving |-> a, stale |-> s]
<1>1. /\ job[c].pc = "board" /\ Continue(c, k) /\ UNCHANGED <<plan, ids, told, here, expected, beds, fails>>
  BY DEF WriteBoard
<1>2. a \subseteq Rooms /\ ("plan" \notin s => a = Named(plan))
  BY <1>1 DEF PInv, Fits, Expects
<1> HIDE DEF a, s
<1>3. HasFields(k) /\ k.pc = "clear" /\ k.arriving = a /\ k.stale = s
  BY DEF HasFields, Steps
<1> HIDE DEF k
<1>4. Fits(k, plan', told', beds', fails', expected', here')
  BY <1>1, <1>2, <1>3 DEF Fits, Merges, Tasks, Expects
<1>5. TypedDay' /\ told \subseteq told'
  BY <1>1 DEF PInv, TypedDay
<1> QED BY <1>1, <1>3, <1>4, <1>5, GoesWithoutTraces

LEMMA ClearStep ==
  ASSUME PInv, NEW c \in Clerks, ClearArrivals(c)
  PROVE  PInv' /\ job'[c].pc = "expect" /\ \A d \in Clerks \ {c} : Alike(job[d], job'[d])
<1> DEFINE a == job[c].arriving
           s == job[c].stale
           k == [pc |-> "expect", arriving |-> a, rest |-> a, stale |-> s]
<1>1. /\ job[c].pc = "clear" /\ Continue(c, k) /\ expected' = [r \in Rooms |-> 0]
      /\ UNCHANGED <<plan, ids, told, here, beds, fails>>
  BY DEF ClearArrivals, Expecting
<1>2. a \subseteq Rooms /\ ("plan" \notin s => a = Named(plan))
  BY <1>1 DEF PInv, Fits, Expects
<1> HIDE DEF a, s
<1>3. HasFields(k) /\ k.pc = "expect" /\ k.arriving = a /\ k.stale = s /\ k.rest = a
  BY DEF HasFields, Steps
<1> HIDE DEF k
<1>4. Expects(k, plan', expected', here')
  BY <1>1, <1>2, <1>3 DEF Expects, Looked
<1>5. Fits(k, plan', told', beds', fails', expected', here')
  BY <1>3, <1>4 DEF Fits, Merges, Tasks
<1>6. TypedDay' /\ told \subseteq told'
  BY <1>1 DEF PInv, TypedDay
<1> QED BY <1>1, <1>3, <1>5, <1>6, GoesWithoutTraces

LEMMA SkipStep ==
  ASSUME PInv, NEW c \in Clerks, NEW r \in Rooms, SkipArrival(c, r)
  PROVE  PInv' /\ job'[c].pc = "expect" /\ \A d \in Clerks \ {c} : Alike(job[d], job'[d])
<1> DEFINE k == job[c]
           a == k.arriving
           s == k.stale
           z == k.rest \ {r}
           l == [pc |-> "expect", arriving |-> a, rest |-> z, stale |-> s]
<1>1. k.pc = "expect" /\ r \in k.rest /\ r \in here /\ Continue(c, l) /\ UNCHANGED day
  BY DEF SkipArrival, Expecting
<1>2. Expects(k, plan, expected, here)
  BY DEF PInv, Fits
<1>3. \A q : q \in z <=> q \in k.rest /\ q # r
  OBVIOUS
<1> HIDE DEF z, a, s
<1>4. HasFields(l) /\ l.pc = "expect" /\ l.arriving = a /\ l.stale = s /\ l.rest = z
  BY DEF HasFields, Steps
<1> HIDE DEF l
<1>5. \A q : q \in Looked(l) /\ q \notin here <=> q \in Looked(k) /\ q \notin here
  BY <1>1, <1>3, <1>4 DEF Looked, a
<1>6. Expects(l, plan, expected, here)
  BY <1>1, <1>2, <1>3, <1>4, <1>5 DEF Expects, a, s
<1>7. Fits(l, plan, told, beds, fails, expected, here)
  BY <1>4, <1>6 DEF Fits, Merges, Tasks
<1> QED BY <1>1, <1>4, <1>7, GoesIdle

LEMMA ReadStayStep ==
  ASSUME PInv, NEW c \in Clerks, NEW r \in Rooms, ReadStay(c, r)
  PROVE  PInv' /\ job'[c].pc = "arrive" /\ \A d \in Clerks \ {c} : Alike(job[d], job'[d])
<1> DEFINE k == job[c]
           a == k.arriving
           s == k.stale
           z == k.rest \ {r}
           l == [pc |-> "arrive", arriving |-> a, rest |-> z, one |-> r, stale |-> s]
<1>1. k.pc = "expect" /\ r \in k.rest /\ r \notin here /\ Continue(c, l) /\ UNCHANGED day
  BY DEF ReadStay
<1>2. Expects(k, plan, expected, here)
  BY DEF PInv, Fits
<1>3. \A q : q \in z <=> q \in k.rest /\ q # r
  OBVIOUS
<1> HIDE DEF z, a, s
<1>4. HasFields(l) /\ l.pc = "arrive" /\ l.arriving = a /\ l.stale = s /\ l.rest = z /\ l.one = r
  BY DEF HasFields, Steps
<1> HIDE DEF l
<1>5. \A q : q \in Looked(l) <=> q \in Looked(k)
  BY <1>1, <1>3, <1>4 DEF Looked, a
<1>6. Expects(l, plan, expected, here)
  BY <1>1, <1>2, <1>3, <1>4, <1>5 DEF Expects, a, s
<1>7. Fits(l, plan, told, beds, fails, expected, here)
  BY <1>4, <1>6 DEF Fits, Merges, Tasks
<1> QED BY <1>1, <1>4, <1>7, GoesIdle

LEMMA ExpectStep ==
  ASSUME PInv, NEW c \in Clerks, ExpectArrival(c)
  PROVE  PInv' /\ job'[c].pc = "expect" /\ \A d \in Clerks \ {c} : Alike(job[d], job'[d])
<1> DEFINE k == job[c]
           a == k.arriving
           s == k.stale
           z == k.rest
           r == k.one
           l == [pc |-> "expect", arriving |-> a, rest |-> z, stale |-> s]
           n == IF expected[r] < 2 THEN expected[r] + 1 ELSE 2
<1>1. /\ k.pc = "arrive" /\ Continue(c, l) /\ UNCHANGED <<plan, ids, told, here, beds, fails>>
      /\ expected' = [expected EXCEPT ![r] = n]
  <2>1. [expected EXCEPT ![r] = IF @ < 2 THEN @ + 1 ELSE 2] = [expected EXCEPT ![r] = n]
    BY DEF PInv
  <2> QED BY <2>1 DEF ExpectArrival, Expecting
<1>2. Expects(k, plan, expected, here)
  BY DEF PInv, Fits
<1> HIDE DEF z, a, s
<1>3. HasFields(l) /\ l.pc = "expect" /\ l.arriving = a /\ l.stale = s /\ l.rest = z
  BY DEF HasFields, Steps
<1> HIDE DEF l
<1>4. DOMAIN expected = Rooms
  BY DEF PInv
<1>5. expected[r] = 0 => n = 1
  OBVIOUS
<1> HIDE DEF n
<1>6. r \in Rooms /\ r \in a /\ r \notin z /\ ("board" \notin s => r \notin here)
  BY <1>1, <1>2 DEF Expects, a, z, s
<1>7. \A q : q \in Looked(l) <=> q = r \/ q \in Looked(k)
  BY <1>1, <1>3, <1>6 DEF Looked, a, z
<1>8. r \notin Looked(k)
  BY <1>1 DEF Looked
<1> HIDE DEF r
<1>9. Expects(l, plan', expected', here')
  <2>1. ASSUME "board" \notin s, NEW q \in Rooms
        PROVE  expected'[q] = IF q \in Looked(l) /\ q \notin here THEN 1 ELSE 0
    <3>1. expected[q] = IF q \in Looked(k) /\ q \notin here THEN 1 ELSE 0
      BY <1>1, <1>2, <2>1 DEF Expects, s
    <3>2. CASE q = r
      BY <1>1, <1>4, <1>5, <1>6, <1>7, <1>8, <2>1, <3>1, <3>2
    <3>3. CASE q # r
      BY <1>1, <1>4, <1>7, <3>1, <3>3
    <3> QED BY <3>2, <3>3
  <2> QED BY <1>1, <1>2, <1>3, <2>1 DEF Expects, a, s, z
<1>10. Fits(l, plan', told', beds', fails', expected', here')
  BY <1>3, <1>9 DEF Fits, Merges, Tasks
<1>11. TypedDay' /\ told \subseteq told'
  BY <1>1 DEF PInv, TypedDay
<1> QED BY <1>1, <1>3, <1>10, <1>11, GoesWithoutTraces DEF k

LEMMA FailStep ==
  ASSUME PInv, NEW c \in Clerks, Fail(c)
  PROVE  PInv' /\ fails' # fails /\ \A d \in Clerks \ {c} : Alike(job[d], job'[d])
<1>1. /\ Continue(c, Idle) /\ fails' = fails + 1 /\ UNCHANGED <<plan, ids, told, here, expected, beds>>
      /\ fails \in Nat
  BY DEF Fail, PInv
<1>2. TypedDay'
  BY <1>1 DEF PInv, TypedDay
<1>3. fails' # 0 /\ fails' # fails
  BY <1>1
<1>4. Grows
  BY <1>1, <1>3 DEF Grows
<1>5. Fits(Idle, plan', told', beds', fails', expected', here')
  BY FitsIdle
<1> QED BY <1>1, <1>2, <1>3, <1>4, <1>5, GoesDay

LEMMA ListsStep ==
  ASSUME PInv, ImportNext, UNCHANGED day
  PROVE  PInv' /\ \A d \in Clerks : job'[d].pc = job[d].pc \/ job'[d].pc = "apply" \/ job[d].pc = "apply"
<1>1. /\ job' = [d \in Clerks |-> job'[d]]
      /\ \A d \in Clerks : \/ job'[d] = job[d]
                           \/ job[d].pc = "idle" /\ HasFields(job'[d]) /\ job'[d].pc = "apply"
                           \/ job[d].pc = "apply" /\ HasFields(job'[d]) /\ job'[d].pc = "idle"
  <2>0. job = [d \in Clerks |-> job[d]]
    BY DEF PInv
  <2>1. CASE UNCHANGED job
    BY <2>0, <2>1
  <2>2. ASSUME NEW c \in Clerks, NEW i, ReadApply(c, i)
        PROVE  <1>1!:
    <3> DEFINE k == [pc |-> "apply", id |-> i]
    <3>1. HasFields(k) /\ k.pc = "apply"
      BY DEF HasFields, Steps
    <3>2. job[c].pc = "idle" /\ job' = [job EXCEPT ![c] = k]
      BY <2>2 DEF ReadApply
    <3> HIDE DEF k
    <3> QED BY <2>0, <3>1, <3>2
  <2>3. ASSUME NEW c \in Clerks, CommitApply(c)
        PROVE  <1>1!:
    <3>1. HasFields(Idle) /\ Idle.pc = "idle"
      BY FitsIdle DEF Fits
    <3>2. job[c].pc = "apply" /\ job' = [job EXCEPT ![c] = Idle]
      BY <2>3 DEF CommitApply
    <3> QED BY <2>0, <3>1, <3>2
  <2> QED BY <2>1, <2>2, <2>3 DEF ImportNext, StoreBatch, RejectBatch, PurgeRows
<1>2. UNCHANGED <<plan, ids, told, here, expected, beds, fails>>
  BY DEF day
<1>3. ASSUME NEW d \in Clerks
      PROVE  Fits(job[d], plan, told, beds, fails, expected, here)'
  <2>1. CASE job'[d] = job[d]
    BY <1>2, <2>1 DEF PInv
  <2>2. CASE HasFields(job'[d]) /\ job'[d].pc \in {"idle", "apply"}
    BY <2>2, FitsPlain
  <2> QED BY <1>1, <2>1, <2>2
<1>4. TasksLinked'
  BY <1>1, <1>2 DEF PInv, TasksLinked, Links
<1> QED BY <1>1, <1>2, <1>3, <1>4 DEF PInv

\* A step of request c, and what it was.
LEMMA ServeStep ==
  ASSUME PInv, NEW c \in Clerks, Serve(c)
  PROVE  /\ PInv' /\ \A d \in Clerks \ {c} : Alike(job[d], job'[d])
         /\ job'[c].pc = "pending" => StoreTraces(c)
         /\ job'[c].pc = "link" => \E r \in Rooms : CreateTask(c, r)
         /\ job[c].pc = "expect" /\ job'[c].pc = "idle" /\ fails' = fails => FinishBoard(c)
         /\ plan' # plan => WriteOverride(c) \/ \E r \in Rooms : WriteRow(c, r)
<1>1. CASE ReadDepartures(c)
  BY <1>1, DepartureStep DEF ReadDepartures
<1>2. CASE ReadArrivals(c)
  BY <1>2, ArrivalsStep DEF ReadArrivals, day
<1>3. CASE ReadPlan(c)
  BY <1>3, PlanStep DEF ReadPlan, day
<1>4. CASE TellChanges(c)
  BY <1>4, TellStep DEF TellChanges
<1>5. CASE \E r \in Rooms : WriteRow(c, r)
  BY <1>5, RowStep
<1>6. CASE \E r \in Rooms : MergeFails(c, r)
  BY <1>6, MergeFailsStep DEF MergeFails, day
<1>7. CASE \E r \in Rooms : CreateTask(c, r)
  BY <1>7, TaskStep DEF CreateTask
<1>8. CASE ExpectArrival(c)
  BY <1>8, ExpectStep DEF ExpectArrival
<1>9. CASE StoreTraces(c)
  BY <1>9, TracesStep DEF StoreTraces
<1>10. CASE ReadPending(c)
  BY <1>10, PendingStep DEF ReadPending, day
<1>11. CASE LinkTask(c)
  BY <1>11, LinkStep DEF LinkTask
<1>12. CASE FinishMerge(c)
  BY <1>12, FinishSteps DEF FinishMerge, day
<1>13. CASE \E r \in Rooms, t \in Chosen : ReadOverride(c, r, t)
  BY <1>13, ReadOverrideStep DEF ReadOverride
<1>14. CASE WriteOverride(c)
  BY <1>14, WriteOverrideStep DEF WriteOverride
<1>15. CASE ReadBoard(c)
  BY <1>15, ReadBoardStep DEF ReadBoard
<1>16. CASE ClearArrivals(c)
  BY <1>16, ClearStep DEF ClearArrivals
<1>17. CASE FinishBoard(c)
  BY <1>17, FinishSteps DEF FinishBoard, day
<1>18. CASE Fail(c)
  <2>1. job'[c] = Idle
    BY <1>18 DEF Fail, Continue, Notice
  <2> QED BY <1>18, <2>1, FailStep, FitsIdle DEF Fail
<1>19. CASE \E complete \in BOOLEAN : WriteBoard(c, complete)
  BY <1>19, WriteBoardStep DEF WriteBoard
<1>20. CASE \E r \in Rooms : WriteStay(c, r)
  BY <1>20, StayStep DEF WriteStay
<1>21. CASE \E r \in Rooms : SkipArrival(c, r)
  BY <1>21, SkipStep DEF SkipArrival, day
<1>22. CASE \E r \in Rooms : ReadStay(c, r)
  BY <1>22, ReadStayStep DEF ReadStay, day
<1> QED BY <1>1, <1>2, <1>3, <1>4, <1>5, <1>6, <1>7, <1>8, <1>9, <1>10, <1>11, <1>12, <1>13, <1>14,
           <1>15, <1>16, <1>17, <1>18, <1>19, <1>20, <1>21, <1>22 DEF Serve

LEMMA DayStarts == DayInit => PInv
<1> SUFFICES ASSUME DayInit PROVE PInv
  OBVIOUS
<1>1. plan \in [Rooms -> PlanRows \cup {None}]
  <2>1. PICK dep, arr : \/ plan = [r \in Rooms |-> None]
                        \/ plan = [r \in Rooms |-> IF Type(dep, arr, r) = None THEN None
                                                    ELSE Row(0, Type(dep, arr, r))]
    BY DEF DayInit
  <2>2. ASSUME NEW r \in Rooms, Type(dep, arr, r) # None
        PROVE  Row(0, Type(dep, arr, r)) \in PlanRows
    <3> DEFINE t == Type(dep, arr, r)
    <3>1. t \in Cleanings
      BY <2>2, TypeIs
    <3> HIDE DEF t
    <3>2. Row(0, t) \in PlanRows
      BY <3>1 DEF Row, PlanRows
    <3> QED BY <3>2 DEF t
  <2> QED BY <2>1, <2>2
<1>2. /\ beds = [r \in Rooms |-> None] /\ expected = [r \in Rooms |-> 0] /\ ids = 0 /\ fails = 0
      /\ job = [c \in Clerks |-> Idle]
  BY DEF DayInit
<1>3. \A c \in Clerks : Fits(job[c], plan, told, beds, fails, expected, here)
  BY <1>2, FitsIdle
<1> QED BY <1>1, <1>2, <1>3 DEF PInv, TasksLinked

LEMMA DayMoves == PInv /\ [DayNext]_all => PInv'
<1> SUFFICES ASSUME PInv, [DayNext]_all PROVE PInv'
  OBVIOUS
<1>1. CASE ImportNext /\ UNCHANGED day
  BY <1>1, ListsStep
<1>2. CASE \E c \in Clerks : Serve(c)
  BY <1>2, ServeStep
<1>3. CASE UNCHANGED all
  BY <1>3 DEF all, day, PInv, TypedDay, TasksLinked, Links
<1> QED BY <1>1, <1>2, <1>3 DEF DayNext

LEMMA DayInv == DaySpec => []PInv
BY DayStarts, DayMoves, PTL DEF DaySpec

\* A step in which request c goes from one step to another is its own.
LEMMA Actor ==
  ASSUME PInv, [DayNext]_all, NEW c \in Clerks, job[c].pc # job'[c].pc,
         job[c].pc # "apply", job'[c].pc # "apply"
  PROVE  Serve(c)
<1>1. ~UNCHANGED all
  BY DEF all
<1>2. ~(ImportNext /\ UNCHANGED day)
  BY ListsStep
<1>3. PICK d \in Clerks : Serve(d)
  BY <1>1, <1>2 DEF DayNext
<1>4. d = c
  BY <1>3, ServeStep DEF Alike
<1> QED BY <1>3, <1>4

-----------------------------------------------------------------------------
\* mergeDay: a merge that nothing has overtaken leaves exactly what the lists say.
THEOREM PlanFollows == DaySpec => PlanFollowsLists
<1> DEFINE A == \A c \in Clerks :
       job[c].pc = "rows" /\ job'[c].pc = "pending" /\ "plan" \notin job[c].stale =>
         \A r \in Rooms :
           LET t == job[c].new[r] IN
           IF plan[r] = None THEN t = None
           ELSE /\ IF plan[r].overridden THEN t \in {None, plan[r].derived} ELSE t = plan[r].type
                /\ t # None => plan[r].arriving = (t \in Arrives)
<1>1. PInv /\ [DayNext]_all => A
  <2> SUFFICES ASSUME PInv, [DayNext]_all, NEW c \in Clerks, job[c].pc = "rows",
                      job'[c].pc = "pending", "plan" \notin job[c].stale, NEW r \in Rooms
               PROVE  Follows(job[c].new[r], plan[r])
    BY DEF Follows
  <2>1. job[c].rest = {}
    BY Actor, ServeStep DEF StoreTraces
  <2> QED BY <2>1 DEF PInv, Fits, Merges
<1> QED BY <1>1, DayInv, PTL DEF DaySpec, PlanFollowsLists

\* mergeDay: an override outlives every merge that could have read it, and whoever an assigned room
\* was given to is told before its type changes.
THEOREM MergesRespect == DaySpec => MergeRespects
<1> DEFINE A == /\ \A r \in Rooms : OverrideStays(r)
                /\ \A c \in Clerks, r \in Assigned : AssignedTold(c, r)
<1>1. PInv /\ [DayNext]_all => A
  <2> SUFFICES ASSUME PInv, [DayNext]_all PROVE A
    OBVIOUS
  <2>1. CASE plan' = plan
    BY <2>1, RoomsAssumption DEF OverrideStays, AssignedTold
  <2>2. CASE plan' # plan
    <3>1. ~UNCHANGED all /\ ~UNCHANGED day
      BY <2>2 DEF all, day
    <3>2. PICK e \in Clerks : Serve(e)
      BY <3>1 DEF DayNext
    <3>3. CASE WriteOverride(e)
      <4>1. job[e].pc = "override"
        BY <3>3 DEF WriteOverride
      <4>2. \A r \in Rooms : OverrideStays(r)
        BY <4>1 DEF OverrideStays
      <4>3. ASSUME NEW c \in Clerks, NEW r \in Assigned
            PROVE  AssignedTold(c, r)
        <5>1. CASE c = e
          BY <4>1, <5>1 DEF AssignedTold
        <5>2. CASE c # e
          BY <3>2, <5>2, ServeStep DEF AssignedTold, Alike
        <5> QED BY <5>1, <5>2
      <4> QED BY <4>2, <4>3
    <3>4. ASSUME NEW q \in Rooms, WriteRow(e, q)
          PROVE  A
      <4> DEFINE k == job[e]
      <4>1. /\ k.pc = "rows" /\ q \in k.rest
            /\ \A r \in Rooms \ {q} : plan'[r] = plan[r]
            /\ "plan" \notin k.stale =>
                 /\ plan[q] = k.old[q]
                 /\ Overridden(plan[q]) => Overridden(plan'[q]) /\ plan'[q].type = plan[q].type
                 /\ plan[q] # None /\ ~Overridden(plan[q]) /\ (plan'[q] = None \/ plan'[q].type # plan[q].type)
                    => k.new[q] # plan[q].type
        BY <3>4, RowWritten
      <4>2. \A r \in Rooms : OverrideStays(r)
        BY <4>1 DEF OverrideStays
      <4>3. ASSUME NEW c \in Clerks, NEW r \in Assigned
            PROVE  AssignedTold(c, r)
        <5>1. CASE c = e
          <6> SUFFICES ASSUME "plan" \notin k.stale, plan[r] # None, ~Overridden(plan[r]),
                              plan'[r] = None \/ plan'[r].type # plan[r].type
                       PROVE  <<r, k.new[r]>> \in told
            BY <5>1 DEF AssignedTold
          <6>1. r = q
            BY <4>1, RoomsAssumption
          <6>2. r \in Changed(k)
            BY <4>1, <6>1 DEF Changed
          <6> QED BY <4>1, <6>2 DEF PInv, Fits, Merges
        <5>2. CASE c # e
          BY <3>2, <5>2, ServeStep DEF AssignedTold, Alike
        <5> QED BY <5>1, <5>2
      <4> QED BY <4>2, <4>3
    <3> QED BY <2>2, <3>2, <3>3, <3>4, ServeStep
  <2> QED BY <2>1, <2>2
<1> QED BY <1>1, DayInv, PTL DEF DaySpec, MergeRespects

\* mergeDay and applyDayPlanToBoard are idempotent: a trace gets one task and a room one expected arrival
\* where the plan names a guest who arrives and is not in the house, overridden or not, unless two requests overlapped or one died between.
THEOREM CreatesOnce == DaySpec => CreatedOnce
<1> DEFINE A == \A c \in Clerks : OneBedTask(c) /\ ArrivalsOnce(c)
<1>1. PInv /\ [DayNext]_all => A
  <2> SUFFICES ASSUME PInv, [DayNext]_all, NEW c \in Clerks
               PROVE  OneBedTask(c) /\ ArrivalsOnce(c)
    OBVIOUS
  <2>1. OneBedTask(c)
    <3> SUFFICES ASSUME job[c].pc = "task", job'[c].pc = "link", "beds" \notin job[c].stale, fails = 0
                 PROVE  beds'[job'[c].one].tasks = 1
      BY DEF OneBedTask
    <3>1. PICK r \in Rooms : CreateTask(c, r)
      BY Actor, ServeStep
    <3>2. r \in job[c].rest /\ job'[c].one = r
      BY <3>1, TaskStep, TaskCreated
    <3>3. beds[r].tasks = 0
      BY <3>2 DEF PInv, Fits, Tasks
    <3> QED BY <3>1, <3>2, <3>3, TaskCreated
  <2>2. ArrivalsOnce(c)
    <3> SUFFICES ASSUME job[c].pc = "expect", job'[c].pc = "idle", fails' = fails
                 PROVE  /\ "board" \notin job[c].stale =>
                             \A r \in Rooms : expected[r] = IF r \in job[c].arriving \ here THEN 1 ELSE 0
                        /\ "plan" \notin job[c].stale => job[c].arriving = Arriving
      BY DEF ArrivalsOnce
    <3>1. job[c].rest = {}
      BY Actor, ServeStep DEF FinishBoard
    <3>2. Looked(job[c]) = job[c].arriving
      BY <3>1 DEF Looked
    <3> QED BY <3>2 DEF PInv, Fits, Expects, Named, Arriving
  <2> QED BY <2>1, <2>2
<1> QED BY <1>1, DayInv, PTL DEF DaySpec, CreatedOnce

-----------------------------------------------------------------------------
(***************************************************************************)
(* The reading of a printed list: every row is a line as it was printed,   *)
(* every line is a row or accounted for, and of two readings of its dates  *)
(* none is taken that the list was not printed in.                         *)
(***************************************************************************)

Dates == (1..Months) \X (1..Days)
Cells == [iso : BOOLEAN, a : Nat, b : Nat]
PrintedLines ==
  [kind : {"room", "group", "total", "day", "trace"}, arr : PrintDates \cup {NoDate},
   dep : PrintDates \cup {NoDate}, harm : Harms, resolved : BOOLEAN, page : Nat]
RawRows ==
  [line : Nat, arr : Cells, dep : Cells, grp : Cells, wd : SUBSET Int,
   traces : Seq([line : Nat, date : Cells])]

\* What dates of the list look like that came through.
GoodCells == {Cell(date, paper.fmt) : date \in PrintDates}
RowKind == IF TwoDates THEN "room" ELSE IF paper.type = "FORECAST" THEN "day" ELSE "trace"
AllThere == \A p \in DOMAIN pages : pages[p]

ReaderType ==
  /\ paper \in Papers
  /\ printed \in Seq(PrintedLines)
  /\ pages \in Seq(BOOLEAN) /\ Len(pages) >= 1 /\ (paper.kind # "pdf" => AllThere)
  /\ \A i \in DOMAIN printed : printed[i].page \in DOMAIN pages
  /\ raws \in Seq(RawRows) /\ cur \in 0..Len(raws)
  /\ sums \in Nat /\ group \in Cells /\ group \in GoodCells \cup {NoCell}
  /\ issues \subseteq {"CRITICAL", "WARNING"} \X {"ROW_UNREADABLE", "TOTAL_MISMATCH"}
  /\ confirmed \in Formats \cup {"none"}

\* A row says what its line says, or that it did not come through.
AsPrinted(raw) ==
  /\ raw.line \in DOMAIN printed /\ There(raw.line)
  /\ printed[raw.line].kind = RowKind /\ printed[raw.line].arr \in PrintDates
  /\ raw.arr = IF paper.type = "TRACES" /\ printed[raw.line].harm = "odd" THEN OddDate
               ELSE IF paper.type = "TRACES" /\ printed[raw.line].harm = "dates" THEN EmptyCell
               ELSE Cell(printed[raw.line].arr, paper.fmt)
  /\ TwoDates =>
       /\ printed[raw.line].dep \in PrintDates
       /\ raw.dep = IF printed[raw.line].harm = "odd" THEN OddDate
                    ELSE Cell(printed[raw.line].dep, paper.fmt)
  /\ raw.wd \subseteq {Weekday(printed[raw.line].arr)}
  /\ raw.grp \in GoodCells \cup {NoCell}
  /\ \A t \in DOMAIN raw.traces : raw.traces[t].date \in GoodCells
  /\ paper.type = "TRACES" => ~printed[raw.line].resolved

RawsRead == \A k \in DOMAIN raws : AsPrinted(raws[k])

\* A line has become a row, or why it has not.
Accounted(i) ==
  /\ There(i) /\ printed[i].kind = RowKind /\ (paper.type = "TRACES" => ~printed[i].resolved)
  => \/ \E k \in DOMAIN raws : raws[k].line = i
     \/ printed[i].harm = "room"
     \/ printed[i].harm = "dates" /\ paper.type = "ARRIVALS"
     \/ printed[i].harm = "dates" /\ paper.type = "TRACES" /\ paper.kind = "pdf"
     \/ /\ printed[i].harm = "counts" /\ paper.type = "FORECAST"
        /\ <<"WARNING", "ROW_UNREADABLE">> \in issues
     \/ <<"CRITICAL", "ROW_UNREADABLE">> \in issues

LinesRead == \A i \in DOMAIN printed : Accounted(i)

\* The sum of a group is that of its lines read.
Counted == {i \in DOMAIN printed : InGroup(i) /\ printed[i].harm \in {"none", "odd"}}

TotalsTold ==
  /\ \A t \in DOMAIN printed : printed[t].kind = "total" => paper.type = "DEPARTURES"
  /\ paper.type = "DEPARTURES" /\ AllThere =>
       /\ sums = Cardinality(Counted)
       /\ \A t \in DOMAIN printed : \A i \in 1..t :
            /\ printed[t].kind = "total" /\ printed[i].kind = "room" /\ printed[i].harm = "room"
            /\ \A j \in i..t : printed[j].kind # "group"
            => <<"WARNING", "TOTAL_MISMATCH">> \in issues

\* Between the guest a detail goes to and the detail no line of another was read.
NoneBetween(from, to) ==
  \A i \in DOMAIN printed :
    from < i /\ i <= to /\ printed[i].kind = "room" /\ There(i) => printed[i].harm \in {"room", "dates"}

TracesPlaced ==
  /\ paper.type = "ARRIVALS" /\ cur # 0 => NoneBetween(raws[cur].line, Len(printed))
  /\ \A k \in DOMAIN raws : \A t \in DOMAIN raws[k].traces :
       /\ paper.type = "ARRIVALS"
       /\ raws[k].traces[t].line \in DOMAIN printed
       /\ NoneBetween(raws[k].line, raws[k].traces[t].line)

Scan == [format |-> "none", rows |-> {}, issues |-> {<<"CRITICAL", "NO_TEXT">>}]
Returned ==
  /\ Reading => confirmed = "none"
  /\ result \in {Unfinished, Scan, Outcome(confirmed)}

ReaderInv == ReaderType /\ RawsRead /\ LinesRead /\ TotalsTold /\ TracesPlaced /\ Returned

-----------------------------------------------------------------------------
LEMMA CellMade ==
  \A x, y \in Nat : /\ [iso |-> FALSE, a |-> x, b |-> y] \in Cells
                    /\ [iso |-> TRUE, a |-> x, b |-> y] \in Cells
BY DEF Cells

\* What a printed date says, and the cells that say none.
LEMMA CellsSay ==
  /\ NoDate \notin Dates /\ PrintDates \subseteq Dates
  /\ \A d \in Dates : /\ \A f \in Formats : /\ ToIso(Cell(d, f), f) = d
                                            /\ ToIso(Cell(d, "ISO"), f) = d
                      /\ \A f \in Formats \cup {"ISO"} :
                           /\ Cell(d, f) # NoCell /\ Cell(d, f) \in Cells
                           /\ Cell(d, f).iso <=> f = "ISO"
  /\ \A f \in Formats : ToIso(OddDate, f) = NoDate /\ ToIso(EmptyCell, f) = NoDate
  /\ OddDate # NoCell /\ EmptyCell # NoCell /\ NoCell.iso
  /\ EmptyCell.iso = FALSE /\ (OddDate.iso <=> paper.fmt = "ISO")
  /\ OddDate \in Cells /\ EmptyCell \in Cells /\ NoCell \in Cells
<1>1. Months \in Nat \ {0} /\ Days \in Nat \ {0}
  BY ReaderAssumption
<1>2. \A d \in Dates : /\ d = <<d[1], d[2]>> /\ d[1] \in Nat /\ d[2] \in Nat /\ d[1] >= 1 /\ d[2] >= 1
  BY <1>1 DEF Dates
<1>3. NoDate \notin Dates
  <2>1. \A d \in Dates : d # <<>>
    BY <1>2
  <2> QED BY <2>1 DEF NoDate
<1>4. PrintDates \subseteq Dates
  BY ReaderAssumption DEF Dates
<1>5. ASSUME NEW d \in Dates
      PROVE  /\ \A f \in Formats : /\ ToIso(Cell(d, f), f) = d /\ ToIso(Cell(d, "ISO"), f) = d
             /\ \A f \in Formats \cup {"ISO"} :
                  /\ Cell(d, f) # NoCell /\ Cell(d, f) \in Cells
                  /\ Cell(d, f).iso <=> f = "ISO"
  <2>1. d # NoDate
    BY <1>3
  <2>2. /\ Cell(d, "DMY") = [iso |-> FALSE, a |-> d[2], b |-> d[1]]
        /\ Cell(d, "MDY") = [iso |-> FALSE, a |-> d[1], b |-> d[2]]
        /\ Cell(d, "ISO") = [iso |-> TRUE, a |-> d[1], b |-> d[2]]
    BY <2>1 DEF Cell
  <2>3. <<d[1], d[2]>> = d /\ d \in (1..Months) \X (1..Days)
    BY <1>2 DEF Dates
  <2>4. ToIso(Cell(d, "DMY"), "DMY") = d /\ ToIso(Cell(d, "MDY"), "MDY") = d
    BY <2>2, <2>3 DEF ToIso
  <2>5. \A f \in Formats : ToIso(Cell(d, "ISO"), f) = d
    BY <2>2, <2>3 DEF ToIso
  <2>6. \A f \in Formats \cup {"ISO"} :
          Cell(d, f) # NoCell /\ Cell(d, f) \in Cells /\ (Cell(d, f).iso <=> f = "ISO")
    <3>0. PICK x \in Nat, y \in Nat : x = d[1] /\ y = d[2] /\ x # 0 /\ y # 0
      BY <1>2
    <3>1. /\ Cell(d, "DMY").a # 0 /\ Cell(d, "DMY") \in Cells /\ Cell(d, "DMY").iso = FALSE
      <4>1. Cell(d, "DMY") = [iso |-> FALSE, a |-> y, b |-> x]
        BY <2>2, <3>0
      <4>2. Cell(d, "DMY") \in Cells
        BY <3>0, <4>1, CellMade
      <4>3. Cell(d, "DMY").a # 0
        BY <3>0, <4>1
      <4>4. Cell(d, "DMY").iso = FALSE
        BY <4>1
      <4> QED BY <4>2, <4>3, <4>4
    <3>2. /\ Cell(d, "MDY").a # 0 /\ Cell(d, "MDY") \in Cells /\ Cell(d, "MDY").iso = FALSE
      <4>1. Cell(d, "MDY") = [iso |-> FALSE, a |-> x, b |-> y]
        BY <2>2, <3>0
      <4>2. Cell(d, "MDY") \in Cells
        BY <3>0, <4>1, CellMade
      <4>3. Cell(d, "MDY").a # 0
        BY <3>0, <4>1
      <4>4. Cell(d, "MDY").iso = FALSE
        BY <4>1
      <4> QED BY <4>2, <4>3, <4>4
    <3>3. /\ Cell(d, "ISO").a # 0 /\ Cell(d, "ISO") \in Cells /\ Cell(d, "ISO").iso = TRUE
      <4>1. Cell(d, "ISO") = [iso |-> TRUE, a |-> x, b |-> y]
        BY <2>2, <3>0
      <4>2. Cell(d, "ISO") \in Cells
        BY <3>0, <4>1, CellMade
      <4>3. Cell(d, "ISO").a # 0
        BY <3>0, <4>1
      <4>4. Cell(d, "ISO").iso = TRUE
        BY <4>1
      <4> QED BY <4>2, <4>3, <4>4
    <3>4. NoCell.a = 0
      BY DEF NoCell
    <3> QED BY <3>1, <3>2, <3>3, <3>4 DEF Formats
  <2> QED BY <2>4, <2>5, <2>6 DEF Formats
<1>6. \A x, y \in Nat : <<x, y>> \in (1..Months) \X (1..Days) => x >= 1 /\ x <= Months
  BY <1>1
<1>7. /\ OddDate.a = Months + Days /\ OddDate.b = Months + Days /\ (OddDate.iso <=> paper.fmt = "ISO")
      /\ EmptyCell.a = 0 /\ EmptyCell.b = 0 /\ EmptyCell.iso = FALSE
      /\ OddDate \in Cells /\ EmptyCell \in Cells /\ NoCell \in Cells
      /\ NoCell.a = 0 /\ NoCell.iso
  <2>1. Months + Days \in Nat /\ (paper.fmt = "ISO") \in BOOLEAN
    BY <1>1
  <2>2. OddDate \in Cells
    BY <2>1 DEF OddDate, Cells
  <2>3. EmptyCell \in Cells /\ NoCell \in Cells
    BY DEF EmptyCell, NoCell, Cells
  <2>4. OddDate.a = Months + Days /\ OddDate.b = Months + Days
    BY DEF OddDate
  <2>5. OddDate.iso <=> paper.fmt = "ISO"
    BY DEF OddDate
  <2>6. /\ EmptyCell.a = 0 /\ EmptyCell.b = 0 /\ EmptyCell.iso = FALSE
        /\ NoCell.a = 0 /\ NoCell.iso = TRUE
    BY DEF EmptyCell, NoCell
  <2> QED BY <2>2, <2>3, <2>4, <2>5, <2>6
<1>8. \A f \in Formats : ToIso(OddDate, f) = NoDate /\ ToIso(EmptyCell, f) = NoDate
  <2>1. <<Months + Days, Months + Days>> \notin (1..Months) \X (1..Days)
    BY <1>1, <1>6
  <2>2. <<0, 0>> \notin (1..Months) \X (1..Days)
    BY <1>6
  <2> QED BY <1>7, <2>1, <2>2 DEF ToIso
<1>9. OddDate # NoCell /\ EmptyCell # NoCell
  BY <1>1, <1>7
<1> QED BY <1>3, <1>4, <1>5, <1>7, <1>8, <1>9

\* How many readings a set of readings is.
LEMMA FormatsCount ==
  ASSUME NEW S \in SUBSET Formats
  PROVE  /\ Cardinality(S) > 1 => S = Formats
         /\ Cardinality(S) = 1 => \E f \in Formats : S = {f}
         /\ S = {} \/ Cardinality(S) = 1 \/ S = Formats
         /\ \A f : Cardinality({f}) = 1
         /\ Cardinality(Formats) = 2 /\ Cardinality({}) = 0
<1>1. Cardinality({}) = 0 /\ IsFiniteSet({})
  BY FS_EmptySet
<1>2. \A f : Cardinality({f}) = 1
  BY FS_Singleton
<1>3. Cardinality({"MDY", "DMY"}) = 2
  <2>1. {"MDY", "DMY"} = {"MDY"} \cup {"DMY"} /\ "DMY" \notin {"MDY"}
    OBVIOUS
  <2>2. IsFiniteSet({"MDY"}) /\ Cardinality({"MDY"}) = 1
    BY FS_Singleton
  <2> QED BY <2>1, <2>2, FS_AddElement
<1>4. S \in {{}, {"MDY"}, {"DMY"}, Formats}
  BY DEF Formats
<1>5. Formats = {"MDY", "DMY"} /\ "MDY" \in Formats /\ "DMY" \in Formats
  BY DEF Formats
<1>6. Cardinality(Formats) = 2
  BY <1>3, <1>5
<1>7. \/ S = {} /\ Cardinality(S) = 0
      \/ Cardinality(S) = 1 /\ \E f \in Formats : S = {f}
      \/ S = Formats /\ Cardinality(S) = 2
  BY <1>1, <1>2, <1>4, <1>5, <1>6
<1>8. Cardinality(S) > 1 => S = Formats
  BY <1>7
<1>9. (Cardinality(S) = 1 => \E f \in Formats : S = {f}) /\ (S = {} \/ Cardinality(S) = 1 \/ S = Formats)
  <2>1. CASE S = {} /\ Cardinality(S) = 0
    BY <2>1
  <2>2. CASE Cardinality(S) = 1 /\ \E f \in Formats : S = {f}
    BY <2>2
  <2>3. CASE S = Formats /\ Cardinality(S) = 2
    BY <2>3
  <2> QED BY <1>7, <2>1, <2>2, <2>3
<1> QED BY <1>1, <1>2, <1>6, <1>8, <1>9

\* Which readings are left: none if a date was illegible, otherwise the one the list was
\* printed in is among them.
LEMMA LeftOver ==
  ASSUME ReaderType, RawsRead
  PROVE  /\ Left \subseteq Formats /\ Hit \subseteq Left
         /\ \A x \in AllDates : x \in Cells /\ x # NoCell
         /\ Left # {} => \A x \in AllDates : x \in GoodCells \cup {HeadDate, FootDate}
         /\ Left = {} => \E x \in AllDates : x \in {OddDate, EmptyCell}
         /\ Left # {} /\ paper.fmt # "ISO" => paper.fmt \in Left
         /\ paper.fmt # "ISO" => \A x \in AllDates : ~x.iso
         /\ paper.header # NoDate => HeadDate # NoCell /\ HeadDate = Cell(paper.header, paper.fmt)
         /\ paper.header = NoDate => HeadDate = NoCell
<1>1. /\ paper.fmt \in Formats \cup {"ISO"} /\ paper.header \in PrintDates \cup {NoDate}
      /\ paper.foot \in PrintDates \cup {NoDate} /\ paper.type # "x"
  BY ReaderAssumption DEF ReaderType
<1>2. /\ NoDate \notin PrintDates /\ PrintDates \subseteq Dates
      /\ \A d \in PrintDates : Cell(d, paper.fmt) \in Cells
      /\ \A d \in PrintDates : Cell(d, paper.fmt) # NoCell
      /\ \A d \in PrintDates : (paper.fmt # "ISO" => ~Cell(d, paper.fmt).iso)
      /\ \A f \in Formats : ToIso(OddDate, f) = NoDate /\ ToIso(EmptyCell, f) = NoDate
      /\ OddDate # NoCell /\ EmptyCell # NoCell
      /\ EmptyCell.iso = FALSE /\ (OddDate.iso <=> paper.fmt = "ISO")
      /\ OddDate \in Cells /\ EmptyCell \in Cells
  BY <1>1, CellsSay
<1>3. /\ HeadDate = NoCell \/ \E d \in PrintDates : HeadDate = Cell(d, paper.fmt)
      /\ FootDate = NoCell \/ \E d \in PrintDates : FootDate = Cell(d, paper.fmt)
      /\ paper.header # NoDate => HeadDate # NoCell /\ HeadDate = Cell(paper.header, paper.fmt)
      /\ paper.header = NoDate => HeadDate = NoCell
  <2>1. Cell(NoDate, paper.fmt) = NoCell
    BY DEF Cell
  <2>2. HeadDate = Cell(paper.header, paper.fmt) /\ FootDate = Cell(paper.foot, paper.fmt)
    BY DEF HeadDate, FootDate
  <2>3. CASE paper.header \in PrintDates
    <3>1. HeadDate = Cell(paper.header, paper.fmt) /\ HeadDate # NoCell /\ paper.header # NoDate
      BY <1>2, <2>2, <2>3
    <3>2. FootDate = NoCell \/ \E d \in PrintDates : FootDate = Cell(d, paper.fmt)
      BY <1>1, <2>1, <2>2
    <3> QED BY <2>3, <3>1, <3>2
  <2>4. CASE paper.header = NoDate
    BY <1>1, <1>2, <2>1, <2>2, <2>4
  <2> QED BY <1>1, <2>3, <2>4
<1>4. ASSUME NEW k \in DOMAIN raws, NEW x \in RowDates(raws[k])
      PROVE  x \in GoodCells \/ x \in {OddDate, EmptyCell}
  <2>1. AsPrinted(raws[k])
    BY DEF RawsRead
  <2>2. raws[k].arr \in GoodCells \/ raws[k].arr \in {OddDate, EmptyCell}
    BY <2>1 DEF AsPrinted, GoodCells
  <2>3. TwoDates => /\ raws[k].dep \in GoodCells \/ raws[k].dep \in {OddDate, EmptyCell}
                    /\ raws[k].grp # NoCell => raws[k].grp \in GoodCells
                    /\ \A t \in DOMAIN raws[k].traces : raws[k].traces[t].date \in GoodCells
    BY <2>1 DEF AsPrinted, GoodCells
  <2>4. \/ x = raws[k].arr
        \/ TwoDates /\ x = raws[k].dep
        \/ TwoDates /\ x = raws[k].grp /\ x # NoCell
        \/ TwoDates /\ \E t \in DOMAIN raws[k].traces : x = raws[k].traces[t].date
    BY DEF RowDates
  <2> QED BY <2>2, <2>3, <2>4
<1>5. \A x \in AllDates : \/ \E k \in DOMAIN raws : x \in RowDates(raws[k])
                          \/ (x \in {HeadDate, FootDate} /\ x # NoCell)
  <2> SUFFICES ASSUME NEW x \in AllDates, ~(x \in {HeadDate, FootDate} /\ x # NoCell)
               PROVE  \E k \in DOMAIN raws : x \in RowDates(raws[k])
    OBVIOUS
  <2>1. \/ x \in UNION {RowDates(raws[k]) : k \in DOMAIN raws}
        \/ x \in {HeadDate, FootDate} \ {NoCell}
    BY DEF AllDates
  <2> QED BY <2>1
<1>6. \A x \in AllDates : \/ x \in {OddDate, EmptyCell}
                          \/ \E d \in PrintDates : x = Cell(d, paper.fmt)
  BY <1>3, <1>4, <1>5 DEF GoodCells
<1>7. \A x \in AllDates : x \in GoodCells \/ x \in {HeadDate, FootDate, OddDate, EmptyCell}
  BY <1>4, <1>5
<1>8. Valid \subseteq Formats /\ (Left = Valid \/ (Left = Fitting(Valid) /\ Fitting(Valid) # {}))
      /\ Left \subseteq Valid /\ Hit \subseteq Left
  BY DEF Valid, Left, Fitting, Hit
<1>9. ASSUME NEW x \in AllDates, x \in {OddDate, EmptyCell} PROVE Left = {}
  <2>1. Valid = {}
    BY <1>2, <1>9 DEF Valid
  <2> QED BY <1>8, <2>1
<1>10. ASSUME \A x \in AllDates : x \notin {OddDate, EmptyCell}
       PROVE  Left # {} /\ (paper.fmt # "ISO" => paper.fmt \in Left)
  <2>1. \A x \in AllDates : \E d \in PrintDates : x = Cell(d, paper.fmt)
    BY <1>6, <1>10
  <2>2. \A f \in Formats : f = paper.fmt \/ paper.fmt = "ISO" =>
          \A d \in PrintDates : ToIso(Cell(d, paper.fmt), f) = d
    BY <1>1, <1>2, CellsSay
  <2>3. \A f \in Formats : f = paper.fmt \/ paper.fmt = "ISO" => f \in Valid
    BY <1>2, <2>1, <2>2 DEF Valid
  <2>4. paper.fmt \in Formats \/ paper.fmt = "ISO"
    BY <1>1
  <2>5. Valid # {}
    BY <2>3, <2>4 DEF Formats
  <2>6. ASSUME paper.fmt # "ISO", paper.type = "FORECAST" PROVE paper.fmt \in Fitting(Valid)
    <3>1. paper.fmt \in Valid /\ paper.fmt \in Formats
      BY <2>3, <2>4, <2>6
    <3>2. ASSUME NEW k \in DOMAIN raws, NEW wd \in raws[k].wd
          PROVE  Weekday(ToIso(raws[k].arr, paper.fmt)) = wd
      <4>1. AsPrinted(raws[k])
        BY DEF RawsRead
      <4>2. PICK d \in PrintDates : raws[k].arr = Cell(d, paper.fmt) /\ wd = Weekday(d)
        BY <2>6, <4>1 DEF AsPrinted
      <4> QED BY <2>2, <3>1, <4>2
    <3> QED BY <3>1, <3>2 DEF Fitting
  <2> QED BY <1>8, <2>3, <2>4, <2>5, <2>6 DEF Left
<1>11. ASSUME NEW x \in AllDates
       PROVE  x \in Cells /\ x # NoCell /\ (paper.fmt # "ISO" => ~x.iso)
  <2>1. CASE x = OddDate
    BY <1>2, <2>1
  <2>2. CASE x = EmptyCell
    BY <1>2, <2>2
  <2>3. CASE \E d \in PrintDates : x = Cell(d, paper.fmt)
    <3>1. PICK d \in PrintDates : x = Cell(d, paper.fmt)
      BY <2>3
    <3>2. Cell(d, paper.fmt) \in Cells /\ Cell(d, paper.fmt) # NoCell
      BY <1>2
    <3>3. paper.fmt # "ISO" => ~Cell(d, paper.fmt).iso
      BY <1>2
    <3> QED BY <3>1, <3>2, <3>3
  <2> QED BY <1>6, <2>1, <2>2, <2>3
<1> QED BY <1>3, <1>7, <1>8, <1>9, <1>10, <1>11

\* Rows are read in the format the list was printed in, or in the confirmed one.
LEMMA FormatSound == ASSUME ReaderInv, Done PROVE FormatIsPrinted
<1> SUFFICES ASSUME result.rows # {}, ~RightlyRead, result.format # confirmed,
                    paper.header # NoDate => paper.userDay = paper.header
             PROVE  FALSE
  BY DEF FormatIsPrinted
<1> DEFINE f == ResolveDateFormat(confirmed)
<1>1. result = Outcome(confirmed)
  BY DEF ReaderInv, Returned, Done, Scan
<1>2. result.format = f /\ result.rows = Rows(f)
  BY <1>1 DEF Outcome
<1>3. paper.fmt # "ISO" /\ paper.fmt # f /\ f # "none"
  BY <1>2 DEF RightlyRead, Rows
<1>4. PICK k \in DOMAIN raws : TRUE
  BY <1>2, <1>3 DEF Rows
<1>5. raws[k].arr \in AllDates
  <2>1. raws[k].arr \in RowDates(raws[k])
    BY DEF RowDates
  <2>2. RowDates(raws[k]) \in {RowDates(raws[i]) : i \in DOMAIN raws}
    OBVIOUS
  <2>3. raws[k].arr \in UNION {RowDates(raws[i]) : i \in DOMAIN raws}
    BY <2>1, <2>2
  <2> QED BY <2>3 DEF AllDates
<1>6. /\ Left \subseteq Formats /\ Hit \subseteq Left
      /\ (Left # {} => paper.fmt \in Left) /\ ~raws[k].arr.iso
      /\ paper.header # NoDate => HeadDate # NoCell /\ HeadDate = Cell(paper.header, paper.fmt)
      /\ paper.header = NoDate => HeadDate = NoCell
  BY <1>3, <1>5, LeftOver DEF ReaderInv
<1>7. ~(\A x \in AllDates : x.iso)
  BY <1>5, <1>6
<1>8. f = IF Cardinality(Left) > 1 /\ Cardinality(Hit) = 1 THEN CHOOSE g \in Hit : TRUE
          ELSE IF Cardinality(Left) = 1 THEN CHOOSE g \in Left : TRUE
          ELSE IF confirmed \in Left THEN confirmed ELSE "none"
  BY <1>7 DEF ResolveDateFormat
<1> HIDE DEF f
<1>9. CASE Cardinality(Left) > 1 /\ Cardinality(Hit) = 1
  <2>1. Left = Formats
    BY <1>6, <1>9, FormatsCount
  <2>2. PICK g \in Formats : Hit = {g}
    BY <1>6, <1>9, FormatsCount
  <2>3. HeadDate # NoCell /\ paper.userDay = paper.header /\ paper.header # NoDate
    BY <1>6, <2>2 DEF Hit
  <2>4. paper.fmt \in Formats /\ paper.header \in Dates
    BY <1>3, <2>3, ReaderAssumption, CellsSay DEF ReaderInv, ReaderType
  <2>5. ToIso(HeadDate, paper.fmt) = paper.userDay
    BY <1>6, <2>3, <2>4, CellsSay
  <2>6. paper.fmt \in Hit
    BY <2>1, <2>3, <2>4, <2>5 DEF Hit
  <2>7. f = g
    BY <1>8, <1>9, <2>2
  <2> QED BY <1>3, <2>2, <2>6, <2>7
<1>10. CASE Cardinality(Left) = 1 /\ ~(Cardinality(Left) > 1 /\ Cardinality(Hit) = 1)
  <2>1. PICK g \in Formats : Left = {g}
    BY <1>6, <1>10, FormatsCount
  <2>2. f = g
    BY <1>8, <1>10, <2>1
  <2> QED BY <1>3, <1>6, <2>1, <2>2
<1>11. CASE Cardinality(Left) # 1 /\ ~(Cardinality(Left) > 1 /\ Cardinality(Hit) = 1)
  BY <1>2, <1>3, <1>8, <1>11
<1> QED BY <1>9, <1>10, <1>11

-----------------------------------------------------------------------------
LEMMA FormatOf ==
  ASSUME ReaderType, RawsRead, NEW conf \in Formats \cup {"none"}
  PROVE  /\ ResolveDateFormat(conf) \in Formats \cup {"none"}
         /\ ResolveDateFormat(conf) = "none" /\ conf # "none" => Left = {}
<1> DEFINE f == ResolveDateFormat(conf)
<1>1. Left \subseteq Formats /\ Hit \subseteq Left
  BY LeftOver
<1>2. "MDY" \in Formats /\ "none" \notin Formats
  BY DEF Formats
<1>3. CASE \A x \in AllDates : x.iso
  BY <1>2, <1>3 DEF ResolveDateFormat
<1>4. CASE ~(\A x \in AllDates : x.iso) /\ Cardinality(Left) > 1 /\ Cardinality(Hit) = 1
  <2>1. PICK g \in Formats : Hit = {g}
    BY <1>1, <1>4, FormatsCount
  <2>2. f = g
    BY <1>4, <2>1 DEF ResolveDateFormat
  <2> QED BY <1>2, <2>2
<1>5. CASE ~(\A x \in AllDates : x.iso) /\ Cardinality(Left) = 1
  <2>1. PICK g \in Formats : Left = {g}
    BY <1>1, <1>5, FormatsCount
  <2>2. f = g
    BY <1>5, <2>1 DEF ResolveDateFormat
  <2> QED BY <1>2, <2>2
<1>6. CASE /\ ~(\A x \in AllDates : x.iso) /\ Cardinality(Left) # 1
           /\ ~(Cardinality(Left) > 1 /\ Cardinality(Hit) = 1)
  <2>1. f = IF conf \in Left THEN conf ELSE "none"
    BY <1>6 DEF ResolveDateFormat
  <2>2. Left = {} \/ Left = Formats
    BY <1>1, <1>6, FormatsCount
  <2> QED BY <1>1, <1>2, <2>1, <2>2
<1> QED BY <1>3, <1>4, <1>5, <1>6

\* Which findings a reading in the format f has.
LEMMA FindingsOf ==
  ASSUME ReaderType, NEW f
  PROVE  /\ issues \subseteq Findings(f)
         /\ f = "none" <=> <<"CRITICAL", "DATE_AMBIGUOUS">> \in Findings(f)
         /\ ~AllThere => <<"WARNING", "PAGE_MISSING">> \in Findings(f)
         /\ \A k \in DOMAIN raws : ~Legible(raws[k], f) /\ f # "none" /\ paper.type # "FORECAST" =>
              <<IF paper.type = "TRACES" THEN "WARNING" ELSE "CRITICAL", "ROW_UNREADABLE">> \in Findings(f)
         /\ paper.type = "FORECAST" /\ f # "none" /\ Today(f) = NoDate =>
              <<"CRITICAL", "TODAY_UNKNOWN">> \in Findings(f)
<1>1. issues \subseteq Findings(f)
  BY DEF Findings
<1>2. f = "none" => <<"CRITICAL", "DATE_AMBIGUOUS">> \in Findings(f)
  BY DEF Findings
<1>3. <<"CRITICAL", "DATE_AMBIGUOUS">> \in Findings(f) => f = "none"
  <2>1. <<"CRITICAL", "DATE_AMBIGUOUS">> \notin issues
    BY DEF ReaderType
  <2> QED BY <2>1 DEF Findings
<1>4. ~AllThere => <<"WARNING", "PAGE_MISSING">> \in Findings(f)
  BY DEF Findings, AllThere, ReaderType
<1>5. ASSUME NEW k \in DOMAIN raws, ~Legible(raws[k], f), f # "none", paper.type # "FORECAST"
      PROVE  <<IF paper.type = "TRACES" THEN "WARNING" ELSE "CRITICAL", "ROW_UNREADABLE">>
               \in Findings(f)
  <2>1. {i \in DOMAIN raws : f # "none" /\ ~Legible(raws[i], f)} # {}
    BY <1>5
  <2> QED BY <1>5, <2>1 DEF Findings
<1>6. paper.type = "FORECAST" /\ f # "none" /\ Today(f) = NoDate =>
        <<"CRITICAL", "TODAY_UNKNOWN">> \in Findings(f)
  BY DEF Findings
<1> QED BY <1>1, <1>2, <1>3, <1>4, <1>5, <1>6

LEMMA ConfirmSound == ASSUME ReaderInv, Done PROVE ConfirmSettles
<1> SUFFICES ASSUME confirmed # "none", <<"CRITICAL", "DATE_AMBIGUOUS">> \in result.issues
             PROVE  \E i \in DOMAIN printed : printed[i].harm \in {"odd", "dates"}
  BY DEF ConfirmSettles
<1> DEFINE f == ResolveDateFormat(confirmed)
<1>1. result = Outcome(confirmed) \/ result = Scan
  BY DEF ReaderInv, Returned, Done
<1>2. result # Scan
  BY DEF Scan
<1>3. <<"CRITICAL", "DATE_AMBIGUOUS">> \in Findings(f)
  BY <1>1, <1>2 DEF Outcome
<1>4. f = "none"
  BY <1>3, FindingsOf DEF ReaderInv
<1>5. Left = {}
  BY <1>4, FormatOf DEF ReaderInv, ReaderType
<1>6. PICK x \in AllDates : x \in {OddDate, EmptyCell}
  BY <1>5, LeftOver DEF ReaderInv
<1>7. paper.fmt \in Formats \cup {"ISO"} /\ {paper.header, paper.foot} \subseteq PrintDates \cup {NoDate}
  BY ReaderAssumption DEF ReaderInv, ReaderType
<1>8. \A d \in PrintDates : Cell(d, paper.fmt) \notin {OddDate, EmptyCell}
  <2> SUFFICES ASSUME NEW d \in PrintDates PROVE Cell(d, paper.fmt) \notin {OddDate, EmptyCell}
    OBVIOUS
  <2>1. PICK g \in Formats : paper.fmt \in {g, "ISO"}
    BY <1>7 DEF Formats
  <2>2. ToIso(Cell(d, paper.fmt), g) = d /\ d # NoDate
    BY <2>1, CellsSay
  <2>3. ToIso(OddDate, g) = NoDate /\ ToIso(EmptyCell, g) = NoDate
    BY <2>1, CellsSay
  <2> QED BY <2>2, <2>3
<1>9. x # HeadDate /\ x # FootDate
  <2>1. \A d \in PrintDates \cup {NoDate} : Cell(d, paper.fmt) \notin {OddDate, EmptyCell}
    BY <1>8, CellsSay DEF Cell
  <2> QED BY <1>6, <1>7, <2>1 DEF HeadDate, FootDate
<1>10. PICK k \in DOMAIN raws : x \in RowDates(raws[k])
  BY <1>9 DEF AllDates
<1>11. AsPrinted(raws[k])
  BY DEF ReaderInv, RawsRead
<1>12. x \notin GoodCells
  BY <1>6, <1>8 DEF GoodCells
<1>13. x = raws[k].arr \/ (TwoDates /\ x = raws[k].dep)
  BY <1>10, <1>11, <1>12 DEF RowDates, AsPrinted
<1> QED BY <1>6, <1>8, <1>11, <1>13 DEF AsPrinted

LEMMA CriticalScan == result = Scan => Critical
<1> SUFFICES ASSUME result = Scan PROVE Critical
  OBVIOUS
<1>1. <<"CRITICAL", "NO_TEXT">> \in result.issues
  BY DEF Scan
<1> QED BY <1>1 DEF Critical

LEMMA TotalsSound == ASSUME ReaderInv, Done PROVE TotalsTell
<1> SUFFICES ASSUME ~Critical,
                    NEW t \in DOMAIN printed, NEW i \in 1..t,
                    printed[t].kind = "total", There(t), printed[i].kind = "room",
                    printed[i].harm = "room", There(i),
                    \A j \in i..t : printed[j].kind # "group"
             PROVE  {<<"WARNING", "TOTAL_MISMATCH">>, <<"WARNING", "PAGE_MISSING">>}
                      \cap result.issues # {}
  BY DEF TotalsTell
<1> DEFINE f == ResolveDateFormat(confirmed)
<1>1. result = Outcome(confirmed) \/ result = Scan
  BY DEF ReaderInv, Returned, Done
<1>2. result # Scan
  BY CriticalScan
<1>3. result.issues = Findings(f)
  BY <1>1, <1>2 DEF Outcome
<1>4. CASE AllThere
  <2>1. <<"WARNING", "TOTAL_MISMATCH">> \in issues
    BY <1>4 DEF ReaderInv, TotalsTold
  <2> QED BY <1>3, <2>1, FindingsOf DEF ReaderInv
<1>5. CASE ~AllThere
  BY <1>3, <1>5, FindingsOf DEF ReaderInv
<1> QED BY <1>4, <1>5

LEMMA TracesSound == ASSUME ReaderInv, Done PROVE TracesKeepGuest
<1> SUFFICES ASSUME NEW r \in result.rows, NEW tr \in r.traces, NEW i \in r.line + 1..tr.line,
                    printed[i].kind = "room", There(i)
             PROVE  Slips(i)
  BY DEF TracesKeepGuest
<1> DEFINE f == ResolveDateFormat(confirmed)
<1>1. result = Outcome(confirmed) \/ result = Scan
  BY DEF ReaderInv, Returned, Done
<1>2. result.rows = Rows(f)
  BY <1>1 DEF Scan, Outcome
<1>3. PICK k \in DOMAIN raws : r = RowOf(raws[k], f)
  BY <1>2 DEF Rows
<1>4. r.line = raws[k].line /\ r.traces = IF TwoDates THEN Range(raws[k].traces) ELSE {}
  BY <1>3 DEF RowOf
<1>5. PICK t \in DOMAIN raws[k].traces : tr = raws[k].traces[t]
  BY <1>4 DEF Range
<1>6. /\ paper.type = "ARRIVALS" /\ tr.line \in DOMAIN printed
      /\ NoneBetween(raws[k].line, tr.line)
  BY <1>5 DEF ReaderInv, TracesPlaced
<1>7. raws[k].line \in DOMAIN printed
  BY DEF ReaderInv, RawsRead, AsPrinted
<1>8. i \in DOMAIN printed /\ raws[k].line < i /\ i <= tr.line
  <2>1. DOMAIN printed = 1..Len(printed) /\ Len(printed) \in Nat
    BY DEF ReaderInv, ReaderType
  <2> QED BY <1>4, <1>6, <1>7, <2>1
<1>9. printed[i].harm \in {"room", "dates"}
  BY <1>6, <1>8 DEF NoneBetween
<1> QED BY <1>6, <1>9 DEF Slips

InARow(i) ==
  \E r \in result.rows : r.line = i /\ r.arr = printed[i].arr /\ (TwoDates => r.dep = printed[i].dep)

LEMMA RowsSound == ASSUME ReaderInv, Done PROVE RowsArePrinted
<1> SUFFICES ASSUME RightlyRead, ~Critical
             PROVE  /\ \A i \in DOMAIN printed : Due(i) => Slips(i) \/ InARow(i)
                    /\ \A r \in result.rows : Due(r.line)
  BY DEF RowsArePrinted, InARow
<1> DEFINE f == ResolveDateFormat(confirmed)
<1>1. result = Outcome(confirmed) \/ result = Scan
  BY DEF ReaderInv, Returned, Done
<1>2. result # Scan
  BY CriticalScan
<1>3. result.issues = Findings(f) /\ result.rows = Rows(f) /\ result.format = f
  BY <1>1, <1>2 DEF Outcome
<1>4. f # "none"
  BY <1>3, FindingsOf DEF ReaderInv, Critical
<1>5. f \in Formats
  BY <1>4, FormatOf DEF ReaderInv, ReaderType
<1>6. paper.fmt \in {"ISO", f} /\ paper.type \in {"DEPARTURES", "INHOUSE", "ARRIVALS", "FORECAST", "TRACES"}
  BY <1>3, ReaderAssumption DEF RightlyRead, ReaderInv, ReaderType
<1>7. /\ \A d \in PrintDates : /\ IsoOf(Cell(d, paper.fmt), f) = d /\ d # NoDate
      /\ IsoOf(OddDate, f) = NoDate /\ IsoOf(EmptyCell, f) = NoDate
  <2>1. ASSUME NEW d \in PrintDates PROVE IsoOf(Cell(d, paper.fmt), f) = d /\ d # NoDate
    <3>1. d \in Dates /\ d # NoDate
      BY CellsSay
    <3>2. ToIso(Cell(d, paper.fmt), f) = d /\ Cell(d, paper.fmt) # NoCell
      BY <1>5, <1>6, <3>1, CellsSay
    <3> QED BY <1>4, <3>1, <3>2 DEF IsoOf
  <2> QED BY <1>5, <2>1, CellsSay DEF IsoOf
<1>8. \A k \in DOMAIN raws : AsPrinted(raws[k])
  BY DEF ReaderInv, RawsRead
<1>9. paper.type \notin {"TRACES", "FORECAST"} => \A k \in DOMAIN raws : Legible(raws[k], f)
  <2> SUFFICES ASSUME paper.type \notin {"TRACES", "FORECAST"}, NEW k \in DOMAIN raws,
                      ~Legible(raws[k], f)
               PROVE  FALSE
    OBVIOUS
  <2>1. <<"CRITICAL", "ROW_UNREADABLE">> \in Findings(f)
    BY <1>4, FindingsOf DEF ReaderInv
  <2> QED BY <1>3, <2>1 DEF Critical
<1>10. paper.type = "FORECAST" => Today(f) # NoDate
  <2>1. paper.type = "FORECAST" /\ Today(f) = NoDate => <<"CRITICAL", "TODAY_UNKNOWN">> \in Findings(f)
    BY <1>4, FindingsOf DEF ReaderInv
  <2> QED BY <1>3, <2>1 DEF Critical
<1> HIDE DEF f
<1>11. ASSUME NEW k \in DOMAIN raws, Wanted(raws[k], f)
       PROVE  Due(raws[k].line)
  <2>1. AsPrinted(raws[k])
    BY <1>8
  <2>2. paper.type = "FORECAST" => ~Before(printed[raws[k].line].arr, Today(result.format))
    <3> SUFFICES ASSUME paper.type = "FORECAST"
                 PROVE  ~Before(printed[raws[k].line].arr, Today(result.format))
      OBVIOUS
    <3>1. IsoOf(raws[k].arr, f) = printed[raws[k].line].arr
      BY <1>7, <2>1 DEF AsPrinted
    <3> QED BY <1>3, <1>11, <3>1 DEF Wanted
  <2> QED BY <2>1, <2>2 DEF Due, AsPrinted, RowKind
<1>12. \A r \in result.rows : Due(r.line)
  <2> SUFFICES ASSUME NEW r \in result.rows PROVE Due(r.line)
    OBVIOUS
  <2>1. PICK k \in DOMAIN raws : Wanted(raws[k], f) /\ r = RowOf(raws[k], f)
    BY <1>3, <1>4 DEF Rows
  <2>2. r.line = raws[k].line
    BY <2>1 DEF RowOf
  <2> QED BY <1>11, <2>1, <2>2
<1>13. ASSUME NEW k \in DOMAIN raws, Due(raws[k].line)
       PROVE  Slips(raws[k].line) \/ InARow(raws[k].line)
  <2> DEFINE i == raws[k].line
             r == RowOf(raws[k], f)
  <2>1. AsPrinted(raws[k])
    BY <1>8
  <2>2. /\ r.line = i /\ r.arr = IsoOf(raws[k].arr, f)
        /\ r.dep = IF TwoDates THEN IsoOf(raws[k].dep, f) ELSE NoDate
    BY DEF RowOf
  <2>3. Wanted(raws[k], f) => r \in result.rows
    BY <1>3, <1>4 DEF Rows
  <2>4. CASE TwoDates
    <3>1. Legible(raws[k], f) /\ paper.type \notin {"TRACES", "FORECAST"}
      BY <1>9, <2>4 DEF TwoDates
    <3>2. IsoOf(raws[k].dep, f) # NoDate /\ Wanted(raws[k], f)
      BY <2>4, <3>1 DEF Legible, Wanted
    <3>3. printed[i].harm # "odd"
      BY <1>7, <2>1, <2>4, <3>2 DEF AsPrinted
    <3>4. IsoOf(raws[k].arr, f) = printed[i].arr /\ IsoOf(raws[k].dep, f) = printed[i].dep
      BY <1>7, <2>1, <2>4, <3>1, <3>3 DEF AsPrinted
    <3> QED BY <2>2, <2>3, <2>4, <3>2, <3>4 DEF InARow
  <2>5. CASE paper.type = "FORECAST"
    <3>1. IsoOf(raws[k].arr, f) = printed[i].arr /\ printed[i].arr # NoDate /\ ~TwoDates
      BY <1>7, <2>1, <2>5 DEF AsPrinted, TwoDates
    <3>2. ~Before(printed[i].arr, Today(f))
      BY <1>3, <1>13, <2>5 DEF Due
    <3>3. Wanted(raws[k], f)
      BY <1>10, <2>5, <3>1, <3>2 DEF Wanted, Legible
    <3> QED BY <2>2, <2>3, <3>1, <3>3 DEF InARow
  <2>6. CASE paper.type = "TRACES"
    <3>1. ~TwoDates
      BY <2>6 DEF TwoDates
    <3>2. CASE printed[i].harm \in {"odd", "dates"}
      <4>1. IsoOf(raws[k].arr, f) = NoDate
        BY <1>7, <2>1, <2>6, <3>2 DEF AsPrinted
      <4>2. ~Legible(raws[k], f)
        BY <4>1 DEF Legible
      <4>3. <<"WARNING", "ROW_UNREADABLE">> \in result.issues
        BY <1>3, <1>4, <2>6, <4>2, FindingsOf DEF ReaderInv, f
      <4> QED BY <2>6, <3>2, <4>3 DEF Slips
    <3>3. CASE printed[i].harm \notin {"odd", "dates"}
      <4>1. IsoOf(raws[k].arr, f) = printed[i].arr /\ printed[i].arr # NoDate
        BY <1>7, <2>1, <2>6, <3>3 DEF AsPrinted
      <4>2. Wanted(raws[k], f)
        BY <2>6, <3>1, <4>1 DEF Wanted, Legible
      <4> QED BY <2>2, <2>3, <3>1, <4>1, <4>2 DEF InARow
    <3> QED BY <3>2, <3>3
  <2> QED BY <1>6, <2>4, <2>5, <2>6 DEF TwoDates
<1>14. ASSUME NEW i \in DOMAIN printed, Due(i)
       PROVE  Slips(i) \/ InARow(i)
  <2>1. Accounted(i)
    BY DEF ReaderInv, LinesRead
  <2>2. issues \subseteq result.issues
    BY <1>3, FindingsOf DEF ReaderInv, f
  <2>3. <<"CRITICAL", "ROW_UNREADABLE">> \notin issues
    BY <2>2 DEF Critical
  <2>4. CASE \E k \in DOMAIN raws : raws[k].line = i
    BY <1>13, <1>14, <2>4
  <2>5. CASE ~\E k \in DOMAIN raws : raws[k].line = i
    BY <1>14, <2>1, <2>2, <2>3, <2>5 DEF Accounted, Due, RowKind, Slips
  <2> QED BY <2>4, <2>5
<1> QED BY <1>12, <1>14

LEMMA InvSuffices == ReaderInv => ReadAsPrinted
BY FormatSound, RowsSound, TotalsSound, TracesSound, ConfirmSound DEF ReadAsPrinted

-----------------------------------------------------------------------------
\* What a list is stands while it is read.
LEMMA PaperStands ==
  ASSUME paper' = paper
  PROVE  /\ GoodCells' = GoodCells /\ (TwoDates' <=> TwoDates) /\ RowKind' = RowKind
         /\ OddDate' = OddDate /\ HeadDate' = HeadDate /\ FootDate' = FootDate
<1>1. TwoDates' <=> TwoDates
  BY DEF TwoDates
<1> QED BY <1>1 DEF GoodCells, RowKind, OddDate, HeadDate, FootDate

\* What is returned depends on nothing but what was read.
LEMMA OutcomeStands ==
  ASSUME UNCHANGED <<paper, printed, pages, raws, issues>>, NEW c
  PROVE  Outcome(c)' = Outcome(c)
<1>1. /\ (TwoDates' <=> TwoDates) /\ HeadDate' = HeadDate /\ FootDate' = FootDate
  BY PaperStands
<1>2. AllDates' = AllDates
  <2>1. \A raw : RowDates(raw)' = RowDates(raw)
    BY <1>1 DEF RowDates
  <2> QED BY <1>1, <2>1 DEF AllDates
<1>3. Valid' = Valid /\ \A fs : Fitting(fs)' = Fitting(fs)
  BY <1>2 DEF Valid, Fitting
<1>4. Left' = Left
  BY <1>3 DEF Left
<1>5. Hit' = Hit
  BY <1>1, <1>4 DEF Hit
<1>6. ResolveDateFormat(c)' = ResolveDateFormat(c)
  BY <1>2, <1>4, <1>5 DEF ResolveDateFormat
<1>7. \A f : Today(f)' = Today(f) /\ ReportDate(f)' = ReportDate(f)
  BY <1>1 DEF Today, ReportDate
<1>8. \A raw, f : /\ Legible(raw, f)' <=> Legible(raw, f)
                  /\ RowOf(raw, f)' = RowOf(raw, f)
  BY <1>1 DEF Legible, RowOf
<1>9. \A raw, f : Wanted(raw, f)' <=> Wanted(raw, f)
  BY <1>7, <1>8 DEF Wanted
<1>10. \A f : Rows(f)' = Rows(f)
  BY <1>8, <1>9 DEF Rows
<1>11. \A f : Findings(f)' = Findings(f)
  BY <1>1, <1>7, <1>8, <1>10 DEF Findings
<1> QED BY <1>6, <1>10, <1>11 DEF Outcome

\* The next line is printed, and not yet read.
Adds(l) ==
  /\ Reading /\ l \in PrintedLines /\ l.page = Len(pages) /\ printed' = Append(printed, l)
  /\ UNCHANGED <<paper, pages, confirmed, result>>

LEMMA Grown ==
  ASSUME ReaderType, NEW l, Adds(l)
  PROVE  /\ Len(printed) \in Nat /\ DOMAIN printed = 1..Len(printed)
         /\ DOMAIN printed' = 1..(Len(printed) + 1) /\ Len(printed') = Len(printed) + 1
         /\ printed' \in Seq(PrintedLines)
         /\ \A i \in 1..Len(printed) : printed'[i] = printed[i] /\ (There(i)' <=> There(i))
         /\ printed'[Len(printed) + 1] = l
         /\ \A n : n = Len(printed) + 1 => (There(n)' <=> Here)
         /\ \A i \in DOMAIN printed' : printed'[i].page \in DOMAIN pages'
         /\ \A i \in DOMAIN printed' : i \in 1..Len(printed) \/ i = Len(printed) + 1
         /\ (AllThere' <=> AllThere) /\ (AllThere => Here)
         /\ Reading' /\ (Returned => Returned')
<1>1. /\ printed \in Seq(PrintedLines) /\ l \in PrintedLines /\ printed' = Append(printed, l)
      /\ paper' = paper /\ pages' = pages /\ l.page = Len(pages)
      /\ result' = result /\ confirmed' = confirmed /\ Reading
  BY DEF Adds, ReaderType
<1>2. /\ Len(printed) \in Nat /\ DOMAIN printed = 1..Len(printed)
      /\ DOMAIN printed' = 1..(Len(printed) + 1) /\ Len(printed') = Len(printed) + 1
      /\ printed' \in Seq(PrintedLines)
      /\ \A i \in 1..Len(printed) : printed'[i] = printed[i]
      /\ printed'[Len(printed) + 1] = l
  BY <1>1
<1>3. \A i \in 1..Len(printed) : There(i)' <=> There(i)
  BY <1>1, <1>2 DEF There
<1>4. \A n : n = Len(printed) + 1 => (There(n)' <=> Here)
  <2> SUFFICES ASSUME NEW n, n = Len(printed) + 1 PROVE There(n)' <=> Here
    OBVIOUS
  <2>1. printed'[n].page = Len(pages)
    BY <1>1, <1>2
  <2> QED BY <1>1, <2>1 DEF There, Here
<1>5. \A i \in 1..(Len(printed) + 1) : i \in 1..Len(printed) \/ i = Len(printed) + 1
  BY <1>2
<1>6. Len(pages) \in DOMAIN pages
  BY DEF ReaderType
<1>7. \A i \in DOMAIN printed' : printed'[i].page \in DOMAIN pages'
  BY <1>1, <1>2, <1>5, <1>6 DEF ReaderType
<1>8. (AllThere' <=> AllThere) /\ (AllThere => Here)
  BY <1>1, <1>6 DEF AllThere, Here
<1>9. Reading' /\ (Returned => Returned')
  BY <1>1 DEF Reading, Returned
<1> QED BY <1>2, <1>3, <1>4, <1>5, <1>7, <1>8, <1>9

LEMMA RowStands ==
  ASSUME ReaderType, NEW l, Adds(l), NEW raw, AsPrinted(raw)
  PROVE  AsPrinted(raw)'
<1>1. /\ GoodCells' = GoodCells /\ (TwoDates' <=> TwoDates) /\ RowKind' = RowKind
      /\ OddDate' = OddDate /\ paper' = paper
  BY PaperStands DEF Adds
<1>2. /\ raw.line \in DOMAIN printed' /\ printed'[raw.line] = printed[raw.line]
      /\ There(raw.line)'
  BY Grown DEF AsPrinted
<1> QED BY <1>1, <1>2 DEF AsPrinted

\* The rows are those there were, or one more.
LEMMA RawsKeep ==
  ASSUME ReaderType, RawsRead, NEW l, Adds(l), raws' = raws
  PROVE  RawsRead'
BY RowStands DEF RawsRead

LEMMA RawsGrow ==
  ASSUME ReaderType, RawsRead, NEW l, Adds(l), NEW r \in RawRows, raws' = Append(raws, r),
         AsPrinted(r)'
  PROVE  /\ RawsRead' /\ raws' \in Seq(RawRows) /\ Len(raws) \in Nat
         /\ Len(raws') = Len(raws) + 1 /\ DOMAIN raws = 1..Len(raws)
         /\ DOMAIN raws' = 1..(Len(raws) + 1) /\ raws'[Len(raws) + 1] = r
         /\ \A k \in 1..Len(raws) : raws'[k] = raws[k]
         /\ \A k \in DOMAIN raws' : k \in 1..Len(raws) \/ k = Len(raws) + 1
<1>1. raws \in Seq(RawRows)
  BY DEF ReaderType
<1>2. /\ raws' \in Seq(RawRows) /\ Len(raws) \in Nat
      /\ Len(raws') = Len(raws) + 1 /\ DOMAIN raws = 1..Len(raws)
      /\ DOMAIN raws' = 1..(Len(raws) + 1) /\ raws'[Len(raws) + 1] = r
      /\ \A k \in 1..Len(raws) : raws'[k] = raws[k]
  BY <1>1
<1>3. \A k \in 1..(Len(raws) + 1) : k \in 1..Len(raws) \/ k = Len(raws) + 1
  BY <1>2
<1>4. \A k \in 1..Len(raws) : AsPrinted(raws[k])'
  <2>1. \A k \in 1..Len(raws) : AsPrinted(raws[k])
    BY <1>2 DEF RawsRead
  <2> SUFFICES ASSUME NEW k \in 1..Len(raws) PROVE AsPrinted(raws[k])'
    OBVIOUS
  <2>2. PICK raw : raw = raws[k]
    OBVIOUS
  <2>3. AsPrinted(raw)'
    BY <2>1, <2>2, RowStands
  <2>4. raws'[k] = raw
    BY <1>2, <2>2
  <2> QED BY <2>3, <2>4
<1> QED BY <1>2, <1>3, <1>4 DEF RawsRead

\* A line stays accounted for.
LEMMA LinesKeep ==
  ASSUME ReaderType, LinesRead, NEW l, Adds(l), issues \subseteq issues',
         \A k \in DOMAIN raws : k \in DOMAIN raws' /\ raws'[k].line = raws[k].line,
         \A n : n = Len(printed) + 1 => Accounted(n)'
  PROVE  LinesRead'
<1>1. paper' = paper /\ RowKind' = RowKind
  BY PaperStands DEF Adds
<1>2. ASSUME NEW i \in 1..Len(printed)
      PROVE  Accounted(i)'
  <2>1. printed'[i] = printed[i] /\ (There(i)' <=> There(i)) /\ i \in DOMAIN printed
    BY Grown
  <2>2. Accounted(i)
    BY <2>1 DEF LinesRead
  <2> QED BY <1>1, <2>1, <2>2 DEF Accounted
<1>3. \A i \in DOMAIN printed' : i \in 1..Len(printed) \/ i = Len(printed) + 1
  BY Grown
<1>4. \A i \in DOMAIN printed' : Accounted(i)'
  BY <1>2, <1>3
<1> QED BY <1>4 DEF LinesRead

\* What the group holds once a line is added.
LEMMA GroupGrows ==
  ASSUME ReaderType, NEW l, Adds(l)
  PROVE  /\ \A i \in 1..Len(printed) : InGroup(i)' <=> InGroup(i) /\ l.kind # "group"
         /\ \A n : n = Len(printed) + 1 => (InGroup(n)' <=> l.kind = "room")
         /\ Counted \subseteq 1..Len(printed) /\ IsFiniteSet(Counted)
<1>1. /\ Len(printed) \in Nat /\ DOMAIN printed = 1..Len(printed)
      /\ Len(printed') = Len(printed) + 1
      /\ \A i \in 1..Len(printed) : printed'[i] = printed[i]
      /\ printed'[Len(printed) + 1] = l
  BY Grown
<1>2. ASSUME NEW i \in 1..Len(printed)
      PROVE  InGroup(i)' <=> InGroup(i) /\ l.kind # "group"
  <2>1. \A j : j \in i..Len(printed)' <=> j \in i..Len(printed) \/ j = Len(printed) + 1
    BY <1>1
  <2>2. \A j \in i..Len(printed) : printed'[j] = printed[j]
    BY <1>1
  <2>3. InGroup(i)' <=> /\ printed[i].kind = "room" /\ l.kind # "group"
                        /\ \A j \in i..Len(printed) : printed[j].kind # "group"
    BY <1>1, <2>1, <2>2 DEF InGroup
  <2> QED BY <2>3 DEF InGroup
<1>3. ASSUME NEW n, n = Len(printed) + 1
      PROVE  InGroup(n)' <=> l.kind = "room"
  <2>1. \A j : j \in n..Len(printed)' <=> j = n
    BY <1>1, <1>3
  <2>2. printed'[n] = l
    BY <1>1, <1>3
  <2> QED BY <2>1, <2>2 DEF InGroup
<1>4. Counted \subseteq 1..Len(printed)
  BY <1>1 DEF Counted
<1>5. IsFiniteSet(1..Len(printed))
  BY <1>1, FS_Interval
<1>6. IsFiniteSet(Counted)
  BY <1>4, <1>5, FS_Subset
<1> QED BY <1>2, <1>3, <1>4, <1>6

LEMMA CountedGrows ==
  ASSUME ReaderType, NEW l, Adds(l)
  PROVE  /\ l.kind = "group" => Counted' = {}
         /\ l.kind # "group" /\ ~(l.kind = "room" /\ l.harm \in {"none", "odd"}) => Counted' = Counted
         /\ l.kind = "room" /\ l.harm \in {"none", "odd"} =>
              Cardinality(Counted') = Cardinality(Counted) + 1
<1>1. /\ Len(printed) \in Nat /\ DOMAIN printed = 1..Len(printed)
      /\ DOMAIN printed' = 1..(Len(printed) + 1)
      /\ \A i \in 1..Len(printed) : printed'[i] = printed[i]
      /\ printed'[Len(printed) + 1] = l
      /\ \A i \in DOMAIN printed' : i \in 1..Len(printed) \/ i = Len(printed) + 1
  BY Grown
<1>2. PICK n : n = Len(printed) + 1
  OBVIOUS
<1>3. /\ \A i \in 1..Len(printed) : InGroup(i)' <=> InGroup(i) /\ l.kind # "group"
      /\ InGroup(n)' <=> l.kind = "room"
      /\ Counted \subseteq 1..Len(printed) /\ IsFiniteSet(Counted)
  BY <1>2, GroupGrows
<1>4. /\ \A i \in 1..Len(printed) : i \in Counted' <=> i \in Counted /\ l.kind # "group"
      /\ n \in Counted' <=> l.kind = "room" /\ l.harm \in {"none", "odd"}
      /\ \A i \in Counted' : i \in 1..Len(printed) \/ i = n
      /\ n \notin 1..Len(printed)
  <2>1. \A i \in 1..Len(printed) : i \in Counted' <=> i \in Counted /\ l.kind # "group"
    <3> SUFFICES ASSUME NEW i \in 1..Len(printed)
                 PROVE  i \in Counted' <=> i \in Counted /\ l.kind # "group"
      OBVIOUS
    <3>1. i \in DOMAIN printed' /\ i \in DOMAIN printed /\ printed'[i] = printed[i]
      BY <1>1
    <3>2. InGroup(i)' <=> InGroup(i) /\ l.kind # "group"
      BY <1>3
    <3> QED BY <3>1, <3>2 DEF Counted
  <2>2. n \in Counted' <=> l.kind = "room" /\ l.harm \in {"none", "odd"}
    <3>1. n \in DOMAIN printed' /\ printed'[n] = l
      BY <1>1, <1>2
    <3> QED BY <1>3, <3>1 DEF Counted
  <2>3. Counted' \subseteq DOMAIN printed'
    BY DEF Counted
  <2> QED BY <1>1, <1>2, <2>1, <2>2, <2>3
<1>5. l.kind = "group" => Counted' = {}
  BY <1>4
<1>6. l.kind # "group" /\ ~(l.kind = "room" /\ l.harm \in {"none", "odd"}) => Counted' = Counted
  BY <1>3, <1>4
<1>7. ASSUME l.kind = "room", l.harm \in {"none", "odd"}
      PROVE  Cardinality(Counted') = Cardinality(Counted) + 1
  <2>1. Counted' = Counted \cup {n} /\ n \notin Counted
    BY <1>3, <1>4, <1>7
  <2> QED BY <1>3, <2>1, FS_AddElement
<1> QED BY <1>5, <1>6, <1>7

\* Totals that told of a line keep telling; only a new total has to tell anew.
LEMMA TotalsKeep ==
  ASSUME ReaderType, TotalsTold, NEW l, Adds(l), issues \subseteq issues',
         l.kind = "total" => paper.type = "DEPARTURES",
         paper.type = "DEPARTURES" /\ AllThere => sums' = Cardinality(Counted'),
         paper.type = "DEPARTURES" /\ AllThere /\ l.kind = "total" =>
           \A i \in 1..Len(printed) :
             InGroup(i) /\ printed[i].harm = "room" => <<"WARNING", "TOTAL_MISMATCH">> \in issues'
  PROVE  TotalsTold'
<1>1. /\ Len(printed) \in Nat /\ DOMAIN printed = 1..Len(printed)
      /\ DOMAIN printed' = 1..(Len(printed) + 1)
      /\ \A i \in 1..Len(printed) : printed'[i] = printed[i]
      /\ printed'[Len(printed) + 1] = l
      /\ \A i \in DOMAIN printed' : i \in 1..Len(printed) \/ i = Len(printed) + 1
      /\ (AllThere' <=> AllThere) /\ paper' = paper
  BY Grown DEF Adds
<1>2. \A t \in DOMAIN printed' : printed'[t].kind = "total" => paper'.type = "DEPARTURES"
  BY <1>1 DEF TotalsTold
<1>3. ASSUME paper.type = "DEPARTURES", AllThere,
             NEW t \in DOMAIN printed', NEW i \in 1..t,
             printed'[t].kind = "total", printed'[i].kind = "room", printed'[i].harm = "room",
             \A j \in i..t : printed'[j].kind # "group"
      PROVE  <<"WARNING", "TOTAL_MISMATCH">> \in issues'
  <2>1. CASE t \in 1..Len(printed)
    <3>1. \A j \in 1..t : printed'[j] = printed[j]
      BY <1>1, <2>1
    <3>2. \A j \in i..t : j \in 1..t
      BY <1>1, <2>1
    <3>3. \A j \in i..t : printed[j].kind # "group"
      BY <1>3, <3>1, <3>2
    <3>4. printed[t].kind = "total" /\ printed[i].kind = "room" /\ printed[i].harm = "room"
      BY <1>1, <1>3, <2>1, <3>1
    <3>5. <<"WARNING", "TOTAL_MISMATCH">> \in issues
      BY <1>1, <1>3, <2>1, <3>3, <3>4 DEF TotalsTold
    <3> QED BY <3>5
  <2>2. CASE t = Len(printed) + 1
    <3>1. l.kind = "total"
      BY <1>1, <1>3, <2>2
    <3>2. i \in 1..Len(printed)
      <4>1. i # t
        BY <1>3
      <4> QED BY <1>1, <2>2, <4>1
    <3>3. printed[i].kind = "room" /\ printed[i].harm = "room"
      BY <1>1, <1>3, <3>2
    <3>4. \A j \in i..Len(printed) : printed[j].kind # "group"
      <4>1. \A j \in i..Len(printed) : j \in i..t /\ j \in 1..Len(printed)
        BY <1>1, <2>2, <3>2
      <4> QED BY <1>1, <1>3, <4>1
    <3>5. InGroup(i)
      BY <3>3, <3>4 DEF InGroup
    <3> QED BY <1>3, <3>1, <3>2, <3>3, <3>5
  <2> QED BY <1>1, <2>1, <2>2
<1> QED BY <1>1, <1>2, <1>3 DEF TotalsTold

\* The total of a group with a line that was passed over does not add up.
LEMMA TotalTells ==
  ASSUME ReaderType, NEW i \in 1..Len(printed), InGroup(i), printed[i].harm = "room"
  PROVE  Cardinality(Counted) # GroupSize
<1> DEFINE G == {j \in DOMAIN printed : InGroup(j)}
<1>1. Len(printed) \in Nat /\ DOMAIN printed = 1..Len(printed)
  BY DEF ReaderType
<1>2. IsFiniteSet(1..Len(printed))
  BY <1>1, FS_Interval
<1>3. IsFiniteSet(G)
  BY <1>1, <1>2, FS_Subset
<1>4. Counted \subseteq G /\ i \in G /\ i \notin Counted
  BY <1>1 DEF Counted
<1>5. Cardinality(Counted) < Cardinality(G)
  <2>1. IsFiniteSet(Counted) /\ Cardinality(Counted) <= Cardinality(G)
    BY <1>3, <1>4, FS_Subset
  <2>2. Cardinality(Counted) # Cardinality(G)
    BY <1>3, <1>4, FS_Subset
  <2>3. Cardinality(Counted) \in Nat /\ Cardinality(G) \in Nat
    BY <1>3, <2>1, FS_CardinalityType
  <2> QED BY <2>1, <2>2, <2>3
<1>6. GroupSize = Cardinality(G) /\ Cardinality(G) \in Nat
  BY <1>3, FS_CardinalityType DEF GroupSize
<1>7. Cardinality(Counted) \in Nat
  BY <1>3, <1>4, FS_Subset, FS_CardinalityType
<1> QED BY <1>5, <1>6, <1>7

\* Where a detail stands does not change; the next line may come between.
LEMMA NoneStands ==
  ASSUME ReaderType, NEW l, Adds(l), NEW from
  PROVE  /\ \A to \in 1..Len(printed) : NoneBetween(from, to) => NoneBetween(from, to)'
         /\ \A n : /\ n = Len(printed) + 1 /\ NoneBetween(from, Len(printed))
                   /\ l.kind = "room" /\ Here => l.harm \in {"room", "dates"}
                   => NoneBetween(from, n)'
         /\ \A n : n = Len(printed) + 1 => NoneBetween(n, n)'
<1>1. /\ Len(printed) \in Nat /\ DOMAIN printed = 1..Len(printed)
      /\ \A i \in 1..Len(printed) : printed'[i] = printed[i] /\ (There(i)' <=> There(i))
      /\ printed'[Len(printed) + 1] = l
      /\ \A i \in DOMAIN printed' : i \in 1..Len(printed) \/ i = Len(printed) + 1
      /\ DOMAIN printed' = 1..(Len(printed) + 1)
      /\ \A n : n = Len(printed) + 1 => (There(n)' <=> Here)
  BY Grown
<1>2. ASSUME NEW to \in 1..Len(printed), NoneBetween(from, to)
      PROVE  NoneBetween(from, to)'
  <2>1. \A i \in DOMAIN printed' : i <= to => i \in 1..Len(printed)
    BY <1>1
  <2>2. \A i \in 1..Len(printed) :
          /\ from < i /\ i <= to /\ printed'[i].kind = "room" /\ There(i)'
          => printed'[i].harm \in {"room", "dates"}
    BY <1>1, <1>2 DEF NoneBetween
  <2> QED BY <2>1, <2>2 DEF NoneBetween
<1>3. ASSUME NEW n, n = Len(printed) + 1, NoneBetween(from, Len(printed)),
             l.kind = "room" /\ Here => l.harm \in {"room", "dates"}
      PROVE  NoneBetween(from, n)'
  <2>1. \A i \in 1..Len(printed) :
          /\ from < i /\ printed'[i].kind = "room" /\ There(i)'
          => printed'[i].harm \in {"room", "dates"}
    BY <1>1, <1>3 DEF NoneBetween
  <2>2. printed'[n].kind = "room" /\ There(n)' => printed'[n].harm \in {"room", "dates"}
    BY <1>1, <1>3
  <2> QED BY <1>1, <1>3, <2>1, <2>2 DEF NoneBetween
<1>4. \A n : n = Len(printed) + 1 => NoneBetween(n, n)'
  BY <1>1 DEF NoneBetween
<1> QED BY <1>2, <1>3, <1>4

\* Every row is one of before, at most with the trace the next line is.
LEMMA TracesKeep ==
  ASSUME ReaderType, RawsRead, TracesPlaced, NEW l, Adds(l),
         \A k \in DOMAIN raws' :
           \/ raws'[k].traces = <<>>
           \/ k \in DOMAIN raws /\ raws'[k] = raws[k],
         \/ paper.type # "ARRIVALS"
         \/ cur' = 0
         \/ raws'[cur'].line = Len(printed) + 1
         \/ /\ cur' = cur /\ raws'[cur].line = raws[cur].line
            /\ l.kind = "room" /\ Here => l.harm \in {"room", "dates"}
  PROVE  TracesPlaced'
<1>1. /\ Len(printed) \in Nat /\ DOMAIN printed = 1..Len(printed)
      /\ DOMAIN printed' = 1..(Len(printed) + 1) /\ Len(printed') = Len(printed) + 1
  BY Grown
<1>2. paper' = paper
  BY DEF Adds
<1>3. ASSUME NEW k \in DOMAIN raws', NEW t \in DOMAIN raws'[k].traces
      PROVE  /\ paper'.type = "ARRIVALS" /\ raws'[k].traces[t].line \in DOMAIN printed'
             /\ NoneBetween(raws[k].line, raws[k].traces[t].line)'
  <2>1. k \in DOMAIN raws /\ raws'[k] = raws[k]
    BY <1>3
  <2>2. PICK from, to : from = raws[k].line /\ to = raws[k].traces[t].line
    OBVIOUS
  <2>3. /\ paper.type = "ARRIVALS" /\ to \in DOMAIN printed
        /\ NoneBetween(from, to)
    BY <1>3, <2>1, <2>2 DEF TracesPlaced
  <2>4. NoneBetween(from, to)'
    BY <1>1, <2>3, NoneStands
  <2>5. from = raws'[k].line /\ to = raws'[k].traces[t].line
    BY <2>1, <2>2
  <2> QED BY <1>1, <1>2, <2>3, <2>4, <2>5
<1>4. ASSUME paper.type = "ARRIVALS", cur' # 0
      PROVE  NoneBetween(raws[cur].line, Len(printed))'
  <2>1. PICK n : n = Len(printed) + 1 /\ n = Len(printed')
    BY <1>1
  <2>2. CASE raws'[cur'].line = n
    <3>1. NoneBetween(n, n)'
      BY <2>1, NoneStands
    <3> QED BY <2>1, <2>2, <3>1
  <2>3. CASE /\ cur' = cur /\ raws'[cur].line = raws[cur].line
             /\ l.kind = "room" /\ Here => l.harm \in {"room", "dates"}
    <3>1. PICK from : from = raws[cur].line
      OBVIOUS
    <3>2. NoneBetween(from, Len(printed))
      BY <1>4, <2>3, <3>1 DEF TracesPlaced
    <3>3. NoneBetween(from, n)'
      BY <2>1, <2>3, <3>2, NoneStands
    <3>4. from = raws'[cur'].line
      BY <2>3, <3>1
    <3> QED BY <2>1, <3>3, <3>4
  <2> QED BY <1>4, <2>1, <2>2, <2>3
<1> QED BY <1>2, <1>3, <1>4 DEF TracesPlaced

Finds == {"CRITICAL", "WARNING"} \X {"ROW_UNREADABLE", "TOTAL_MISMATCH"}

\* A line that becomes no row.
LEMMA KeptRows ==
  ASSUME ReaderInv, NEW l, Adds(l), raws' = raws, cur' \in {0, cur},
         sums' \in Nat, group' \in Cells, group' \in GoodCells \cup {NoCell},
         issues \subseteq issues', issues' \subseteq Finds,
         \A n : n = Len(printed) + 1 => Accounted(n)',
         TotalsTold',
         paper.type = "ARRIVALS" /\ cur' # 0 /\ l.kind = "room" /\ Here => l.harm \in {"room", "dates"}
  PROVE  ReaderInv'
<1>1. ReaderType'
  <2>1. /\ printed' \in Seq(PrintedLines)
        /\ \A i \in DOMAIN printed' : printed'[i].page \in DOMAIN pages'
        /\ (AllThere' <=> AllThere)
    BY Grown DEF ReaderInv
  <2>2. GoodCells' = GoodCells
    BY PaperStands DEF Adds
  <2>3. paper' = paper /\ pages' = pages /\ confirmed' = confirmed
    BY DEF Adds
  <2>4. cur' \in 0..Len(raws')
    BY DEF ReaderInv, ReaderType
  <2> QED BY <2>1, <2>2, <2>3, <2>4 DEF ReaderInv, ReaderType, Finds
<1>2. RawsRead'
  BY RawsKeep DEF ReaderInv
<1>3. LinesRead'
  BY LinesKeep DEF ReaderInv
<1>4. TracesPlaced'
  BY TracesKeep DEF ReaderInv
<1>5. Returned'
  BY Grown DEF ReaderInv
<1> QED BY <1>1, <1>2, <1>3, <1>4, <1>5 DEF ReaderInv

\* A line that becomes a row.
LEMMA NewRow ==
  ASSUME ReaderInv, NEW l, Adds(l), NEW r \in RawRows, raws' = Append(raws, r),
         r.line = Len(printed) + 1, r.traces = <<>>, AsPrinted(r)',
         cur' = IF paper.type = "ARRIVALS" THEN Len(raws) + 1 ELSE cur,
         sums' \in Nat, group' = group, issues' = issues, TotalsTold'
  PROVE  ReaderInv'
<1>1. /\ RawsRead' /\ raws' \in Seq(RawRows) /\ Len(raws) \in Nat
      /\ Len(raws') = Len(raws) + 1 /\ DOMAIN raws = 1..Len(raws)
      /\ DOMAIN raws' = 1..(Len(raws) + 1) /\ raws'[Len(raws) + 1] = r
      /\ \A k \in 1..Len(raws) : raws'[k] = raws[k]
      /\ \A k \in DOMAIN raws' : k \in 1..Len(raws) \/ k = Len(raws) + 1
  BY RawsGrow DEF ReaderInv
<1>2. ReaderType'
  <2>1. /\ printed' \in Seq(PrintedLines)
        /\ \A i \in DOMAIN printed' : printed'[i].page \in DOMAIN pages'
        /\ (AllThere' <=> AllThere)
    BY Grown DEF ReaderInv
  <2>2. GoodCells' = GoodCells
    BY PaperStands DEF Adds
  <2>3. paper' = paper /\ pages' = pages /\ confirmed' = confirmed
    BY DEF Adds
  <2>4. cur' \in 0..Len(raws')
    <3>1. cur \in 0..Len(raws)
      BY DEF ReaderInv, ReaderType
    <3> QED BY <1>1, <3>1
  <2> QED BY <1>1, <2>1, <2>2, <2>3, <2>4 DEF ReaderInv, ReaderType
<1>3. \A n : n = Len(printed) + 1 => Accounted(n)'
  <2> SUFFICES ASSUME NEW n, n = Len(printed) + 1 PROVE Accounted(n)'
    OBVIOUS
  <2>1. \E k \in DOMAIN raws' : raws'[k].line = n
    <3>1. Len(raws) + 1 \in DOMAIN raws'
      BY <1>1
    <3> QED BY <1>1, <3>1
  <2> QED BY <2>1 DEF Accounted
<1>4. LinesRead'
  <2>1. \A k \in DOMAIN raws : k \in DOMAIN raws' /\ raws'[k].line = raws[k].line
    BY <1>1
  <2> QED BY <1>3, <2>1, LinesKeep DEF ReaderInv
<1>5. TracesPlaced'
  <2>1. \A k \in DOMAIN raws' : \/ raws'[k].traces = <<>>
                                \/ k \in DOMAIN raws /\ raws'[k] = raws[k]
    BY <1>1
  <2>2. paper.type = "ARRIVALS" => raws'[cur'].line = Len(printed) + 1
    BY <1>1
  <2> QED BY <2>1, <2>2, TracesKeep DEF ReaderInv
<1>6. Returned'
  BY Grown DEF ReaderInv
<1> QED BY <1>1, <1>2, <1>4, <1>5, <1>6 DEF ReaderInv

-----------------------------------------------------------------------------
\* The lines the steps print.
LEMMA LinesAre ==
  ASSUME ReaderType
  PROVE  /\ \A stay \in Stays, harm \in Harms :
              /\ RoomLine(stay[1], stay[2], harm) \in PrintedLines
              /\ RoomLine(stay[1], stay[2], harm).page = Len(pages)
              /\ RoomLine(stay[1], stay[2], harm).kind = "room"
              /\ RoomLine(stay[1], stay[2], harm).arr \in PrintDates
              /\ RoomLine(stay[1], stay[2], harm).dep \in PrintDates
              /\ RoomLine(stay[1], stay[2], harm).harm = harm
         /\ \A kind \in {"group", "total", "trace"} :
              /\ OtherLine(kind) \in PrintedLines /\ OtherLine(kind).page = Len(pages)
              /\ OtherLine(kind).kind = kind /\ OtherLine(kind).harm = "none"
         /\ \A kind \in {"day", "trace"}, date \in PrintDates, harm \in Harms, resolved \in BOOLEAN :
              /\ LineOf(kind, date, NoDate, harm, resolved) \in PrintedLines
              /\ LineOf(kind, date, NoDate, harm, resolved).page = Len(pages)
              /\ LineOf(kind, date, NoDate, harm, resolved).kind = kind
              /\ LineOf(kind, date, NoDate, harm, resolved).arr = date
              /\ LineOf(kind, date, NoDate, harm, resolved).harm = harm
              /\ LineOf(kind, date, NoDate, harm, resolved).resolved <=> resolved
<1>1. Len(pages) \in Nat
  BY DEF ReaderType
<1>2. \A stay \in Stays : stay[1] \in PrintDates /\ stay[2] \in PrintDates
  BY ReaderAssumption
<1>3. "none" \in Harms /\ FALSE \in BOOLEAN
  BY DEF Harms
<1>4. ASSUME NEW kind \in {"room", "group", "total", "day", "trace"},
             NEW arr \in PrintDates \cup {NoDate}, NEW dep \in PrintDates \cup {NoDate},
             NEW harm \in Harms, NEW resolved \in BOOLEAN
      PROVE  /\ LineOf(kind, arr, dep, harm, resolved) \in PrintedLines
             /\ LineOf(kind, arr, dep, harm, resolved).page = Len(pages)
             /\ LineOf(kind, arr, dep, harm, resolved).kind = kind
             /\ LineOf(kind, arr, dep, harm, resolved).arr = arr
             /\ LineOf(kind, arr, dep, harm, resolved).dep = dep
             /\ LineOf(kind, arr, dep, harm, resolved).harm = harm
             /\ LineOf(kind, arr, dep, harm, resolved).resolved <=> resolved
  <2>1. LineOf(kind, arr, dep, harm, resolved) \in PrintedLines
    BY <1>1, <1>4 DEF LineOf, PrintedLines
  <2>2. LineOf(kind, arr, dep, harm, resolved).resolved <=> resolved
    BY DEF LineOf
  <2>3. /\ LineOf(kind, arr, dep, harm, resolved).page = Len(pages)
        /\ LineOf(kind, arr, dep, harm, resolved).kind = kind
        /\ LineOf(kind, arr, dep, harm, resolved).arr = arr
        /\ LineOf(kind, arr, dep, harm, resolved).dep = dep
        /\ LineOf(kind, arr, dep, harm, resolved).harm = harm
    BY DEF LineOf
  <2> QED BY <2>1, <2>2, <2>3
<1>5. \A stay \in Stays, harm \in Harms :
        /\ RoomLine(stay[1], stay[2], harm) \in PrintedLines
        /\ RoomLine(stay[1], stay[2], harm).page = Len(pages)
        /\ RoomLine(stay[1], stay[2], harm).kind = "room"
        /\ RoomLine(stay[1], stay[2], harm).arr \in PrintDates
        /\ RoomLine(stay[1], stay[2], harm).dep \in PrintDates
        /\ RoomLine(stay[1], stay[2], harm).harm = harm
  <2> SUFFICES ASSUME NEW stay \in Stays, NEW harm \in Harms
               PROVE  /\ RoomLine(stay[1], stay[2], harm) \in PrintedLines
                      /\ RoomLine(stay[1], stay[2], harm).page = Len(pages)
                      /\ RoomLine(stay[1], stay[2], harm).kind = "room"
                      /\ RoomLine(stay[1], stay[2], harm).arr \in PrintDates
                      /\ RoomLine(stay[1], stay[2], harm).dep \in PrintDates
                      /\ RoomLine(stay[1], stay[2], harm).harm = harm
    OBVIOUS
  <2>1. PICK arr \in PrintDates, dep \in PrintDates : arr = stay[1] /\ dep = stay[2]
    BY <1>2
  <2>2. RoomLine(stay[1], stay[2], harm) =
          [kind |-> "room", arr |-> arr, dep |-> dep, harm |-> harm, resolved |-> FALSE,
           page |-> Len(pages)]
    BY <2>1 DEF RoomLine, LineOf
  <2>3. RoomLine(stay[1], stay[2], harm) \in PrintedLines
    BY <1>1, <2>2 DEF PrintedLines
  <2> QED BY <2>2, <2>3
<1>6. \A kind \in {"group", "total", "trace"} :
        /\ OtherLine(kind) \in PrintedLines /\ OtherLine(kind).page = Len(pages)
        /\ OtherLine(kind).kind = kind /\ OtherLine(kind).harm = "none"
  <2> SUFFICES ASSUME NEW kind \in {"group", "total", "trace"}
               PROVE  /\ OtherLine(kind) \in PrintedLines /\ OtherLine(kind).page = Len(pages)
                      /\ OtherLine(kind).kind = kind /\ OtherLine(kind).harm = "none"
    OBVIOUS
  <2>1. OtherLine(kind) =
          [kind |-> kind, arr |-> NoDate, dep |-> NoDate, harm |-> "none", resolved |-> FALSE,
           page |-> Len(pages)]
    BY DEF OtherLine, LineOf
  <2>2. OtherLine(kind) \in PrintedLines
    BY <1>1, <1>3, <2>1 DEF PrintedLines
  <2> QED BY <2>1, <2>2
<1>7. \A kind \in {"day", "trace"}, date \in PrintDates, harm \in Harms, resolved \in BOOLEAN :
        /\ LineOf(kind, date, NoDate, harm, resolved) \in PrintedLines
        /\ LineOf(kind, date, NoDate, harm, resolved).page = Len(pages)
        /\ LineOf(kind, date, NoDate, harm, resolved).kind = kind
        /\ LineOf(kind, date, NoDate, harm, resolved).arr = date
        /\ LineOf(kind, date, NoDate, harm, resolved).harm = harm
        /\ LineOf(kind, date, NoDate, harm, resolved).resolved <=> resolved
  BY SMTT(60), <1>4
<1> QED BY <1>5, <1>6, <1>7

LEMMA LineAdds ==
  ASSUME NEW types, NEW l \in PrintedLines, l.page = Len(pages), Line(types, l)
  PROVE  Adds(l) /\ paper.type \in types
BY DEF Line, Adds

\* A line that is passed over.
LEMMA PassedOver ==
  ASSUME ReaderInv, NEW l, Adds(l), UNCHANGED <<raws, sums, group>>, cur' \in {0, cur},
         issues \subseteq issues', issues' \subseteq Finds,
         l.kind \notin {"group", "total"} \/ ~Here, l.kind = "total" => paper.type = "DEPARTURES",
         paper.type = "DEPARTURES" /\ Here => l.harm \notin {"none", "odd"},
         paper.type = "ARRIVALS" /\ cur' # 0 /\ l.kind = "room" /\ Here => l.harm \in {"room", "dates"},
         \A n : n = Len(printed) + 1 => Accounted(n)'
  PROVE  ReaderInv'
<1>1. paper.type = "DEPARTURES" /\ AllThere => sums' = Cardinality(Counted')
  <2> SUFFICES ASSUME paper.type = "DEPARTURES", AllThere PROVE sums' = Cardinality(Counted')
    OBVIOUS
  <2>1. Here
    BY Grown DEF ReaderInv
  <2>2. Counted' = Counted
    BY <2>1, CountedGrows DEF ReaderInv
  <2>3. sums = Cardinality(Counted)
    BY DEF ReaderInv, TotalsTold
  <2> QED BY <2>2, <2>3
<1>2. ~(paper.type = "DEPARTURES" /\ AllThere /\ l.kind = "total")
  BY Grown DEF ReaderInv
<1>3. TotalsTold'
  BY <1>1, <1>2, TotalsKeep DEF ReaderInv
<1>4. sums' \in Nat /\ group' \in Cells /\ group' \in GoodCells \cup {NoCell}
  BY DEF ReaderInv, ReaderType
<1> QED BY <1>3, <1>4, KeptRows

\* A line on a page that is missing.
LEMMA MissedKeeps ==
  ASSUME ReaderInv, NEW l, Adds(l), Missed, l.kind = "total" => paper.type = "DEPARTURES"
  PROVE  ReaderInv'
<1>1. ~Here /\ UNCHANGED <<raws, cur, sums, group, issues>>
  BY DEF Missed
<1>2. \A n : n = Len(printed) + 1 => Accounted(n)'
  BY <1>1, Grown DEF ReaderInv, Accounted
<1>3. issues' \subseteq Finds /\ issues \subseteq issues'
  BY <1>1 DEF ReaderInv, ReaderType, Finds
<1> QED BY <1>1, <1>2, <1>3, PassedOver

\* A new row that counts with its group.
LEMMA RowCounts ==
  ASSUME ReaderInv, NEW l, Adds(l), l.kind = "room", l.harm \in {"none", "odd"}, sums' = sums + 1,
         issues' = issues
  PROVE  TotalsTold' /\ sums' \in Nat
<1>1. paper.type = "DEPARTURES" /\ AllThere => sums' = Cardinality(Counted')
  <2> SUFFICES ASSUME paper.type = "DEPARTURES", AllThere PROVE sums' = Cardinality(Counted')
    OBVIOUS
  <2>1. Cardinality(Counted') = Cardinality(Counted) + 1
    BY CountedGrows DEF ReaderInv
  <2>2. sums = Cardinality(Counted)
    BY DEF ReaderInv, TotalsTold
  <2> QED BY <2>1, <2>2
<1>2. sums' \in Nat
  BY DEF ReaderInv, ReaderType
<1> QED BY <1>1, <1>2, TotalsKeep DEF ReaderInv

\* A row as read, of what its line printed.
LEMMA RawIs ==
  ASSUME ReaderInv, NEW arr \in Cells, NEW dep \in Cells, NEW wd \in SUBSET Int
  PROVE  /\ Raw(arr, dep, wd) \in RawRows
         /\ Raw(arr, dep, wd).line = Len(printed) + 1 /\ Raw(arr, dep, wd).traces = <<>>
         /\ Raw(arr, dep, wd).arr = arr /\ Raw(arr, dep, wd).dep = dep
         /\ Raw(arr, dep, wd).wd = wd /\ Raw(arr, dep, wd).grp = group
<1>1. Len(printed) \in Nat /\ group \in Cells
  BY DEF ReaderInv, ReaderType
<1>2. <<>> \in Seq([line : Nat, date : Cells])
  OBVIOUS
<1>3. Raw(arr, dep, wd) \in RawRows
  BY <1>1, <1>2 DEF Raw, RawRows
<1> QED BY <1>3 DEF Raw

LEMMA RoomRow ==
  ASSUME ReaderInv, NEW l, Adds(l), Here, TwoDates, l.kind = "room", l.harm \in {"none", "odd"},
         l.arr \in PrintDates, l.dep \in PrintDates
  PROVE  \E r \in RawRows : /\ r = RawOf(l) /\ r.line = Len(printed) + 1 /\ r.traces = <<>>
                            /\ AsPrinted(r)'
<1>1. paper.fmt \in Formats \cup {"ISO"}
  BY ReaderAssumption DEF ReaderInv, ReaderType
<1>2. /\ l.arr \in Dates /\ l.dep \in Dates
      /\ Cell(l.arr, paper.fmt) \in Cells /\ Cell(l.dep, paper.fmt) \in Cells /\ OddDate \in Cells
  BY <1>1, CellsSay
<1>3. PICK dep \in Cells : dep = IF l.harm = "odd" THEN OddDate ELSE Cell(l.dep, paper.fmt)
  BY <1>2
<1>4. PICK arr \in Cells : arr = Cell(l.arr, paper.fmt)
  BY <1>2
<1>5. PICK r : r = RawOf(l)
  OBVIOUS
<1>6. /\ r \in RawRows /\ r.line = Len(printed) + 1 /\ r.traces = <<>>
      /\ r.arr = arr /\ r.dep = dep /\ r.wd = {} /\ r.grp = group
  BY <1>3, <1>4, <1>5, RawIs DEF RawOf
<1>7. /\ GoodCells' = GoodCells /\ (TwoDates' <=> TwoDates) /\ RowKind' = RowKind
      /\ OddDate' = OddDate /\ paper' = paper
  BY PaperStands DEF Adds
<1>8. /\ r.line \in DOMAIN printed' /\ printed'[r.line] = l /\ There(r.line)'
  BY <1>6, Grown DEF ReaderInv
<1>9. RowKind = "room" /\ paper.type \notin {"TRACES", "FORECAST"}
  BY DEF RowKind, TwoDates
<1>10. group \in GoodCells \cup {NoCell}
  BY DEF ReaderInv, ReaderType
<1>11. AsPrinted(r)'
  BY <1>3, <1>4, <1>6, <1>7, <1>8, <1>9, <1>10 DEF AsPrinted
<1> QED BY <1>5, <1>6, <1>11

LEMMA RoomLineKeeps ==
  ASSUME ReaderInv, NEW l \in PrintedLines, l.page = Len(pages), l.kind = "room",
         l.arr \in PrintDates, l.dep \in PrintDates, ReadRoomLine(l)
  PROVE  ReaderInv'
<1>1. Adds(l) /\ paper.type \in {"DEPARTURES", "INHOUSE"}
  BY LineAdds DEF ReadRoomLine
<1>2. issues \subseteq Finds /\ <<"CRITICAL", "ROW_UNREADABLE">> \in Finds
  BY DEF ReaderInv, ReaderType, Finds
<1>3. \A n : n = Len(printed) + 1 => printed'[n] = l
  BY <1>1, Grown DEF ReaderInv
<1>4. CASE Missed
  BY <1>1, <1>4, MissedKeeps
<1>5. CASE Here /\ l.harm = "room" /\ UNCHANGED <<raws, cur, sums, group, issues>>
  <2>1. \A n : n = Len(printed) + 1 => Accounted(n)'
    BY <1>3, <1>5 DEF Accounted
  <2> QED BY <1>1, <1>2, <1>5, <2>1, PassedOver
<1>6. CASE Here /\ l.harm \in {"dates", "counts"} /\ Unreadable /\ UNCHANGED <<raws, cur, sums, group>>
  <2>1. issues' = issues \cup {<<"CRITICAL", "ROW_UNREADABLE">>}
    BY <1>6 DEF Unreadable
  <2>2. \A n : n = Len(printed) + 1 => Accounted(n)'
    BY <2>1 DEF Accounted
  <2>3. issues \subseteq issues' /\ issues' \subseteq Finds
    BY <1>2, <2>1
  <2> QED BY <1>1, <1>6, <2>2, <2>3, PassedOver
<1>7. CASE /\ Here /\ l.harm \in {"none", "odd"} /\ raws' = Append(raws, RawOf(l)) /\ sums' = sums + 1
           /\ UNCHANGED <<cur, group, issues>>
  <2>1. PICK r \in RawRows : /\ r = RawOf(l) /\ r.line = Len(printed) + 1 /\ r.traces = <<>>
                             /\ AsPrinted(r)'
    BY <1>1, <1>7, RoomRow DEF TwoDates
  <2>2. TotalsTold' /\ sums' \in Nat
    BY <1>1, <1>7, RowCounts
  <2> QED BY <1>1, <1>7, <2>1, <2>2, NewRow
<1> QED BY <1>4, <1>5, <1>6, <1>7 DEF ReadRoomLine

LEMMA GroupKeeps ==
  ASSUME ReaderInv, NEW date \in PrintDates, ReadGroup(date)
  PROVE  ReaderInv'
<1>1. PICK l : l = OtherLine("group")
  OBVIOUS
<1>2. l \in PrintedLines /\ l.page = Len(pages) /\ l.kind = "group"
  BY <1>1, LinesAre DEF ReaderInv
<1>3. Adds(l) /\ paper.type = "DEPARTURES"
  BY <1>1, <1>2, LineAdds DEF ReadGroup
<1>4. CASE Missed
  BY <1>2, <1>3, <1>4, MissedKeeps
<1>5. CASE Here /\ group' = Cell(date, paper.fmt) /\ sums' = 0 /\ UNCHANGED <<raws, cur, issues>>
  <2>1. TotalsTold'
    <3>1. Cardinality(Counted') = 0
      BY <1>2, <1>3, CountedGrows, FS_EmptySet DEF ReaderInv
    <3> QED BY <1>2, <1>3, <1>5, <3>1, TotalsKeep DEF ReaderInv
  <2>2. \A n : n = Len(printed) + 1 => Accounted(n)'
    <3> SUFFICES ASSUME NEW n, n = Len(printed) + 1 PROVE Accounted(n)'
      OBVIOUS
    <3>1. printed'[n].kind = "group"
      BY <1>2, <1>3, Grown DEF ReaderInv
    <3>2. RowKind' = "room"
      BY <1>3, PaperStands DEF Adds, RowKind, TwoDates
    <3> QED BY <3>1, <3>2 DEF Accounted
  <2>3. group' \in Cells /\ group' \in GoodCells
    <3>1. paper.fmt \in Formats \cup {"ISO"} /\ date \in Dates
      BY ReaderAssumption, CellsSay DEF ReaderInv, ReaderType
    <3> QED BY <1>5, <3>1, CellsSay DEF GoodCells
  <2>4. issues' \subseteq Finds
    BY <1>5 DEF ReaderInv, ReaderType, Finds
  <2>5. sums' \in Nat
    BY <1>5
  <2> QED BY <1>2, <1>3, <1>5, <2>1, <2>2, <2>3, <2>4, <2>5, KeptRows
<1> QED BY <1>4, <1>5 DEF ReadGroup

LEMMA TotalKeeps ==
  ASSUME ReaderInv, ReadTotal
  PROVE  ReaderInv'
<1>1. PICK l : l = OtherLine("total")
  OBVIOUS
<1>2. l \in PrintedLines /\ l.page = Len(pages) /\ l.kind = "total"
  BY <1>1, LinesAre DEF ReaderInv
<1>3. Adds(l) /\ paper.type = "DEPARTURES"
  BY <1>1, <1>2, LineAdds DEF ReadTotal
<1>4. CASE Missed
  BY <1>2, <1>3, <1>4, MissedKeeps
<1>5. CASE /\ Here
           /\ issues' = IF sums # GroupSize THEN issues \cup {<<"WARNING", "TOTAL_MISMATCH">>} ELSE issues
           /\ UNCHANGED <<raws, cur, sums, group>>
  <2>1. issues \subseteq issues' /\ issues' \subseteq Finds
    <3>1. issues \subseteq Finds
      BY DEF ReaderInv, ReaderType, Finds
    <3>2. <<"WARNING", "TOTAL_MISMATCH">> \in Finds
      BY DEF Finds
    <3> QED BY <1>5, <3>1, <3>2
  <2>2. paper.type = "DEPARTURES" /\ AllThere => sums' = Cardinality(Counted')
    <3>1. Counted' = Counted
      BY <1>2, <1>3, CountedGrows DEF ReaderInv
    <3> QED BY <1>5, <3>1 DEF ReaderInv, TotalsTold
  <2>3. AllThere => \A i \in 1..Len(printed) :
          InGroup(i) /\ printed[i].harm = "room" => <<"WARNING", "TOTAL_MISMATCH">> \in issues'
    <3> SUFFICES ASSUME AllThere, NEW i \in 1..Len(printed), InGroup(i), printed[i].harm = "room"
                 PROVE  <<"WARNING", "TOTAL_MISMATCH">> \in issues'
      OBVIOUS
    <3>1. Cardinality(Counted) # GroupSize
      BY TotalTells DEF ReaderInv
    <3>2. sums = Cardinality(Counted)
      BY <1>3 DEF ReaderInv, TotalsTold
    <3> QED BY <1>5, <3>1, <3>2
  <2>4. TotalsTold'
    BY <1>2, <1>3, <2>1, <2>2, <2>3, TotalsKeep DEF ReaderInv
  <2>5. \A n : n = Len(printed) + 1 => Accounted(n)'
    <3> SUFFICES ASSUME NEW n, n = Len(printed) + 1 PROVE Accounted(n)'
      OBVIOUS
    <3>1. printed'[n].kind = "total"
      BY <1>2, <1>3, Grown DEF ReaderInv
    <3>2. RowKind' = "room"
      BY <1>3, PaperStands DEF Adds, RowKind, TwoDates
    <3> QED BY <3>1, <3>2 DEF Accounted
  <2>6. sums' \in Nat /\ group' \in Cells /\ group' \in GoodCells \cup {NoCell}
    BY <1>5 DEF ReaderInv, ReaderType
  <2> QED BY <1>2, <1>3, <1>5, <2>1, <2>4, <2>5, <2>6, KeptRows
<1> QED BY <1>4, <1>5 DEF ReadTotal

LEMMA ArrivalKeeps ==
  ASSUME ReaderInv, NEW l \in PrintedLines, l.page = Len(pages), l.kind = "room",
         l.arr \in PrintDates, l.dep \in PrintDates, ReadArrival(l)
  PROVE  ReaderInv'
<1>1. Adds(l) /\ paper.type = "ARRIVALS"
  BY LineAdds DEF ReadArrival
<1>2. issues \subseteq Finds /\ <<"CRITICAL", "ROW_UNREADABLE">> \in Finds
  BY DEF ReaderInv, ReaderType, Finds
<1>3. \A n : n = Len(printed) + 1 => printed'[n] = l
  BY <1>1, Grown DEF ReaderInv
<1>4. CASE Missed
  BY <1>1, <1>4, MissedKeeps
<1>5. CASE Here /\ l.harm \in {"room", "dates"} /\ UNCHANGED <<raws, cur, sums, group, issues>>
  <2>1. paper' = paper
    BY <1>1 DEF Adds
  <2>2. \A n : n = Len(printed) + 1 => Accounted(n)'
    BY <1>1, <1>3, <1>5, <2>1 DEF Accounted
  <2> QED BY <1>1, <1>2, <1>5, <2>2, PassedOver
<1>6. CASE Here /\ l.harm = "counts" /\ Unreadable /\ cur' = 0 /\ UNCHANGED <<raws, sums, group>>
  <2>1. issues' = issues \cup {<<"CRITICAL", "ROW_UNREADABLE">>}
    BY <1>6 DEF Unreadable
  <2>2. \A n : n = Len(printed) + 1 => Accounted(n)'
    BY <2>1 DEF Accounted
  <2>3. issues \subseteq issues' /\ issues' \subseteq Finds
    BY <1>2, <2>1
  <2> QED BY <1>1, <1>6, <2>2, <2>3, PassedOver
<1>7. CASE /\ Here /\ l.harm \in {"none", "odd"} /\ raws' = Append(raws, RawOf(l))
           /\ cur' = Len(raws) + 1 /\ UNCHANGED <<sums, group, issues>>
  <2>1. PICK r \in RawRows : /\ r = RawOf(l) /\ r.line = Len(printed) + 1 /\ r.traces = <<>>
                             /\ AsPrinted(r)'
    BY <1>1, <1>7, RoomRow DEF TwoDates
  <2>2. TotalsTold'
    BY <1>1, <1>7, TotalsKeep DEF ReaderInv
  <2>3. sums' \in Nat
    BY <1>7 DEF ReaderInv, ReaderType
  <2> QED BY <1>1, <1>7, <2>1, <2>2, <2>3, NewRow
<1> QED BY <1>4, <1>5, <1>6, <1>7 DEF ReadArrival

\* A row gets a trace: the row, and then the list.
LEMMA TraceTaken ==
  ASSUME ReaderInv, NEW l, Adds(l), Here, paper.type = "ARRIVALS", l.kind = "trace", cur # 0,
         NEW d \in Cells, d \in GoodCells,
         raws' = [raws EXCEPT ![cur].traces = Append(@, [line |-> Len(printed) + 1, date |-> d])],
         UNCHANGED <<cur, sums, group, issues>>
  PROVE  ReaderInv'
<1>1. /\ raws \in Seq(RawRows) /\ cur \in DOMAIN raws /\ DOMAIN raws' = DOMAIN raws
      /\ Len(printed) \in Nat /\ Len(raws) \in Nat /\ DOMAIN raws = 1..Len(raws)
      /\ DOMAIN printed = 1..Len(printed) /\ DOMAIN printed' = 1..(Len(printed) + 1)
      /\ Len(printed') = Len(printed) + 1
  BY Grown DEF ReaderInv, ReaderType
<1>2. PICK tr : tr = [line |-> Len(printed) + 1, date |-> d]
  OBVIOUS
<1>3. tr \in [line : Nat, date : Cells] /\ tr.line = Len(printed) + 1 /\ tr.date = d
  BY <1>1, <1>2
<1>4. PICK row \in RawRows : row = [raws[cur] EXCEPT !.traces = Append(raws[cur].traces, tr)]
  <2>1. raws[cur] \in RawRows
    BY <1>1
  <2>2. Append(raws[cur].traces, tr) \in Seq([line : Nat, date : Cells])
    <3>1. raws[cur].traces \in Seq([line : Nat, date : Cells])
      BY <2>1 DEF RawRows
    <3> QED BY <1>3, <3>1
  <2>3. [raws[cur] EXCEPT !.traces = Append(raws[cur].traces, tr)] \in RawRows
    BY <2>1, <2>2 DEF RawRows
  <2> QED BY <2>3
<1>5. /\ raws' = [raws EXCEPT ![cur] = row] /\ raws'[cur] = row
      /\ \A k \in DOMAIN raws : k # cur => raws'[k] = raws[k]
  BY <1>1, <1>2, <1>4
<1>6. /\ row.line = raws[cur].line /\ row.arr = raws[cur].arr /\ row.dep = raws[cur].dep
      /\ row.grp = raws[cur].grp /\ row.wd = raws[cur].wd
      /\ row.traces = Append(raws[cur].traces, tr)
  BY <1>1, <1>4 DEF RawRows
<1>7. /\ DOMAIN row.traces = DOMAIN raws[cur].traces \cup {Len(raws[cur].traces) + 1}
      /\ \A t \in DOMAIN raws[cur].traces : row.traces[t] = raws[cur].traces[t]
      /\ row.traces[Len(raws[cur].traces) + 1] = tr
  <2>0. raws[cur] \in RawRows
    BY <1>1
  <2>1. PICK ts \in Seq([line : Nat, date : Cells]) : ts = raws[cur].traces
    BY <2>0 DEF RawRows
  <2>2. row.traces = Append(ts, tr) /\ Len(ts) \in Nat /\ DOMAIN ts = 1..Len(ts)
    BY <1>6, <2>1
  <2>3. DOMAIN row.traces = 1..(Len(ts) + 1) /\ row.traces[Len(ts) + 1] = tr
    BY <1>3, <2>1, <2>2
  <2>4. \A t \in 1..Len(ts) : row.traces[t] = ts[t]
    BY <1>3, <2>1, <2>2
  <2>5. DOMAIN row.traces = DOMAIN ts \cup {Len(ts) + 1}
    BY <2>2, <2>3
  <2> QED BY <2>1, <2>2, <2>3, <2>4, <2>5
<1>8. raws' \in Seq(RawRows) /\ Len(raws') = Len(raws)
  <2>1. PICK rs \in Seq(RawRows) : rs = raws
    BY <1>1
  <2>c. PICK c \in DOMAIN rs : c = cur
    BY <1>1, <2>1
  <2>2. raws' = [rs EXCEPT ![c] = row]
    BY <1>5, <2>1, <2>c
  <2>3. [rs EXCEPT ![c] = row] \in Seq(RawRows) /\ Len([rs EXCEPT ![c] = row]) = Len(rs)
    OBVIOUS
  <2> QED BY <2>1, <2>2, <2>3
<1>9. ReaderType'
  <2>1. /\ printed' \in Seq(PrintedLines)
        /\ \A i \in DOMAIN printed' : printed'[i].page \in DOMAIN pages'
        /\ (AllThere' <=> AllThere)
    BY Grown DEF ReaderInv
  <2>2. GoodCells' = GoodCells
    BY PaperStands DEF Adds
  <2>3. paper' = paper /\ pages' = pages /\ confirmed' = confirmed
    BY DEF Adds
  <2> QED BY <1>8, <2>1, <2>2, <2>3 DEF ReaderInv, ReaderType
<1>10. RawsRead'
  <2>1. ASSUME NEW k \in DOMAIN raws, k # cur PROVE AsPrinted(raws[k])'
    <3>1. PICK raw : raw = raws[k]
      OBVIOUS
    <3>2. AsPrinted(raw)
      BY <3>1 DEF ReaderInv, RawsRead
    <3>3. AsPrinted(raw)'
      BY <3>2, RowStands DEF ReaderInv
    <3> QED BY <1>5, <2>1, <3>1, <3>3
  <2>2. AsPrinted(row)
    <3>1. AsPrinted(raws[cur])
      BY <1>1 DEF ReaderInv, RawsRead
    <3>2. \A t \in DOMAIN row.traces : row.traces[t].date \in GoodCells
      BY <1>3, <1>7, <3>1 DEF AsPrinted
    <3> QED BY <1>6, <3>1, <3>2 DEF AsPrinted
  <2>3. AsPrinted(row)'
    BY <2>2, RowStands DEF ReaderInv
  <2>4. \A k \in DOMAIN raws' : AsPrinted(raws[k])'
    BY <1>1, <1>5, <2>1, <2>3
  <2> QED BY <2>4 DEF RawsRead
<1>11. LinesRead'
  <2>1. \A k \in DOMAIN raws : k \in DOMAIN raws' /\ raws'[k].line = raws[k].line
    BY <1>1, <1>5, <1>6
  <2>2. \A n : n = Len(printed) + 1 => Accounted(n)'
    <3> SUFFICES ASSUME NEW n, n = Len(printed) + 1 PROVE Accounted(n)'
      OBVIOUS
    <3>1. printed'[n].kind = "trace"
      BY Grown DEF ReaderInv
    <3>2. RowKind' = "room"
      BY PaperStands DEF Adds, RowKind, TwoDates
    <3> QED BY <3>1, <3>2 DEF Accounted
  <2> QED BY <2>1, <2>2, LinesKeep DEF ReaderInv
<1>12. TotalsTold'
  BY TotalsKeep DEF ReaderInv
<1>13. \A from : NoneBetween(from, Len(printed)) =>
         \A n : n = Len(printed) + 1 => NoneBetween(from, n)'
  BY NoneStands DEF ReaderInv
<1>14. NoneBetween(raws[cur].line, Len(printed))
  BY DEF ReaderInv, TracesPlaced
<1>15. PICK from : from = raws[cur].line
  OBVIOUS
<1>16. PICK n : n = Len(printed) + 1 /\ NoneBetween(from, n)' /\ n = tr.line /\ n \in DOMAIN printed'
  BY <1>1, <1>3, <1>13, <1>14, <1>15
<1>17. ASSUME NEW k \in DOMAIN raws', NEW t \in DOMAIN raws'[k].traces
       PROVE  /\ paper'.type = "ARRIVALS" /\ raws'[k].traces[t].line \in DOMAIN printed'
              /\ NoneBetween(raws[k].line, raws[k].traces[t].line)'
  <2>1. paper'.type = "ARRIVALS"
    BY DEF Adds
  <2>2. CASE k \in DOMAIN raws /\ t \in DOMAIN raws[k].traces /\ raws'[k].line = raws[k].line
             /\ raws'[k].traces[t] = raws[k].traces[t]
    <3>1. PICK x, y : x = raws[k].line /\ y = raws[k].traces[t].line
      OBVIOUS
    <3>2. y \in DOMAIN printed /\ NoneBetween(x, y)
      BY <2>2, <3>1 DEF ReaderInv, TracesPlaced
    <3>3. NoneBetween(x, y)'
      BY <1>1, <3>2, NoneStands DEF ReaderInv
    <3>4. x = raws'[k].line /\ y = raws'[k].traces[t].line
      BY <2>2, <3>1
    <3> QED BY SMTT(60), <1>1, <2>1, <3>2, <3>3, <3>4
  <2>3. CASE k = cur /\ raws'[k].traces[t] = tr
    <3>1. from = raws'[k].line /\ n = raws'[k].traces[t].line
      BY <1>5, <1>6, <1>15, <1>16, <2>3
    <3> QED BY <1>16, <2>1, <3>1
  <2>4. CASE k # cur
    BY <1>1, <1>5, <1>17, <2>2, <2>4
  <2>5. CASE k = cur
    <3>1. t \in DOMAIN row.traces
      BY <1>5, <1>17, <2>5
    <3>2. CASE t \in DOMAIN raws[cur].traces
      BY <1>1, <1>5, <1>6, <1>7, <2>2, <2>5, <3>2
    <3>3. CASE t = Len(raws[cur].traces) + 1
      BY <1>5, <1>7, <2>3, <2>5, <3>3
    <3> QED BY <1>7, <3>1, <3>2, <3>3
  <2> QED BY <2>4, <2>5
<1>18. NoneBetween(raws[cur].line, Len(printed))'
  <2>1. from = raws'[cur].line /\ n = Len(printed') /\ cur' = cur
    BY <1>1, <1>5, <1>6, <1>15, <1>16
  <2> QED BY <1>16, <2>1
<1>19. TracesPlaced'
  BY <1>17, <1>18 DEF TracesPlaced
<1>20. Returned'
  BY Grown DEF ReaderInv
<1> QED BY <1>9, <1>10, <1>11, <1>12, <1>19, <1>20 DEF ReaderInv

LEMMA GuestTraceKeeps ==
  ASSUME ReaderInv, NEW date \in PrintDates, ReadGuestTrace(date)
  PROVE  ReaderInv'
<1>1. PICK l : l = OtherLine("trace")
  OBVIOUS
<1>2. l \in PrintedLines /\ l.page = Len(pages) /\ l.kind = "trace"
  BY <1>1, LinesAre DEF ReaderInv
<1>3. Adds(l) /\ paper.type = "ARRIVALS"
  BY <1>1, <1>2, LineAdds DEF ReadGuestTrace
<1>4. CASE Missed
  BY <1>2, <1>3, <1>4, MissedKeeps
<1>5. CASE Here /\ cur = 0 /\ UNCHANGED <<raws, cur, sums, group, issues>>
  <2>1. \A n : n = Len(printed) + 1 => Accounted(n)'
    <3> SUFFICES ASSUME NEW n, n = Len(printed) + 1 PROVE Accounted(n)'
      OBVIOUS
    <3>1. printed'[n].kind = "trace"
      BY <1>2, <1>3, Grown DEF ReaderInv
    <3>2. RowKind' = "room"
      BY <1>3, PaperStands DEF Adds, RowKind, TwoDates
    <3> QED BY <3>1, <3>2 DEF Accounted
  <2>2. issues' \subseteq Finds /\ issues \subseteq issues'
    BY <1>5 DEF ReaderInv, ReaderType, Finds
  <2> QED BY <1>2, <1>3, <1>5, <2>1, <2>2, PassedOver
<1>6. CASE /\ Here /\ cur # 0
           /\ raws' = [raws EXCEPT ![cur].traces =
                         Append(@, [line |-> Len(printed) + 1, date |-> Cell(date, paper.fmt)])]
           /\ UNCHANGED <<cur, sums, group, issues>>
  <2>1. PICK d \in Cells : d \in GoodCells /\ d = Cell(date, paper.fmt)
    <3>1. paper.fmt \in Formats \cup {"ISO"} /\ date \in Dates
      BY ReaderAssumption, CellsSay DEF ReaderInv, ReaderType
    <3> QED BY <3>1, CellsSay DEF GoodCells
  <2> QED BY <1>2, <1>3, <1>6, <2>1, TraceTaken
<1> QED BY <1>4, <1>5, <1>6 DEF ReadGuestTrace

LEMMA ForecastDayKeeps ==
  ASSUME ReaderInv, NEW date \in PrintDates, NEW harm \in Harms \ {"odd"}, ReadForecastDay(date, harm)
  PROVE  ReaderInv'
<1>1. PICK l : l = [kind |-> "day", arr |-> date, dep |-> NoDate, harm |-> harm, resolved |-> FALSE,
                    page |-> Len(pages)]
  OBVIOUS
<1>2. l \in PrintedLines /\ l.page = Len(pages) /\ l.kind = "day" /\ l.arr = date /\ l.harm = harm
  <2>1. Len(pages) \in Nat
    BY DEF ReaderInv, ReaderType
  <2> QED BY <1>1, <2>1 DEF PrintedLines
<1>3. Adds(l) /\ paper.type = "FORECAST"
  <2>1. Line({"FORECAST"}, l)
    BY <1>1 DEF ReadForecastDay, LineOf
  <2> QED BY <1>2, <2>1, LineAdds
<1>4. issues \subseteq Finds /\ <<"WARNING", "ROW_UNREADABLE">> \in Finds
  BY DEF ReaderInv, ReaderType, Finds
<1>5. \A n : n = Len(printed) + 1 => printed'[n] = l
  BY <1>3, Grown DEF ReaderInv
<1>6. paper' = paper
  BY <1>3 DEF Adds
<1>7. CASE Missed
  BY <1>2, <1>3, <1>7, MissedKeeps
<1>8. CASE Here /\ harm = "room" /\ UNCHANGED <<raws, cur, sums, group, issues>>
  <2>1. \A n : n = Len(printed) + 1 => Accounted(n)'
    BY <1>2, <1>5, <1>8 DEF Accounted
  <2> QED BY <1>2, <1>3, <1>4, <1>8, <2>1, PassedOver
<1>9. CASE /\ Here /\ harm = "counts" /\ issues' = issues \cup {<<"WARNING", "ROW_UNREADABLE">>}
           /\ UNCHANGED <<raws, cur, sums, group>>
  <2>1. \A n : n = Len(printed) + 1 => Accounted(n)'
    BY <1>2, <1>3, <1>5, <1>6, <1>9 DEF Accounted
  <2>2. issues \subseteq issues' /\ issues' \subseteq Finds
    BY <1>4, <1>9
  <2> QED BY <1>2, <1>3, <1>9, <2>1, <2>2, PassedOver
<1>10. CASE /\ Here /\ harm \in {"none", "dates"}
            /\ raws' = Append(raws, Raw(Cell(date, paper.fmt), NoCell,
                                        IF harm = "none" THEN {Weekday(date)} ELSE {}))
            /\ UNCHANGED <<cur, sums, group, issues>>
  <2>1. date \in Dates /\ paper.fmt \in Formats \cup {"ISO"}
    BY ReaderAssumption, CellsSay DEF ReaderInv, ReaderType
  <2>2. PICK arr \in Cells, dep \in Cells : arr = Cell(date, paper.fmt) /\ dep = NoCell
    BY <2>1, CellsSay
  <2>3. Weekday(date) \in Int
    <3>1. PICK x \in Int, y \in Int : x = date[1] /\ y = date[2]
      BY <2>1, ReaderAssumption DEF Dates
    <3>2. Days \in Int /\ Week \in Nat \ {0}
      BY ReaderAssumption
    <3>3. PICK z \in Int : z = (x - 1) * Days
      BY <3>1, <3>2
    <3>4. (z + y) % Week \in Int
      BY <3>1, <3>2, <3>3
    <3> QED BY <3>1, <3>3, <3>4 DEF Weekday
  <2>4. PICK wd \in SUBSET Int : wd = IF harm = "none" THEN {Weekday(date)} ELSE {}
    BY <2>3
  <2>5. PICK r : r = Raw(arr, dep, wd)
    OBVIOUS
  <2>6. /\ r \in RawRows /\ r.line = Len(printed) + 1 /\ r.traces = <<>>
        /\ r.arr = arr /\ r.wd = wd /\ r.grp = group
    BY <2>5, RawIs
  <2>7. /\ GoodCells' = GoodCells /\ (TwoDates' <=> TwoDates) /\ RowKind' = RowKind
    BY <1>6, PaperStands
  <2>8. /\ r.line \in DOMAIN printed' /\ printed'[r.line] = l /\ There(r.line)'
    BY <1>3, <1>10, <2>6, Grown DEF ReaderInv
  <2>9. RowKind = "day" /\ ~TwoDates
    BY <1>3 DEF RowKind, TwoDates
  <2>10. group \in GoodCells \cup {NoCell}
    BY DEF ReaderInv, ReaderType
  <2>11. r.wd \subseteq {Weekday(date)}
    BY <2>4, <2>6
  <2>12. AsPrinted(r)'
    <3>1. Weekday(printed[r.line].arr)' = Weekday(date)
      BY <1>2, <2>8 DEF Weekday
    <3> QED BY <1>2, <1>3, <1>6, <2>2, <2>6, <2>7, <2>8, <2>9, <2>10, <2>11, <3>1 DEF AsPrinted
  <2>13. TotalsTold' /\ sums' \in Nat
    <3>1. TotalsTold'
      BY <1>2, <1>3, <1>10, TotalsKeep DEF ReaderInv
    <3> QED BY <1>10, <3>1 DEF ReaderInv, ReaderType
  <2>14. raws' = Append(raws, r)
    BY <1>10, <2>2, <2>4, <2>5
  <2> QED BY <1>2, <1>3, <1>10, <2>6, <2>12, <2>13, <2>14, NewRow
<1> QED BY <1>7, <1>8, <1>9, <1>10 DEF ReadForecastDay

LEMMA TraceLineKeeps ==
  ASSUME ReaderInv, NEW date \in PrintDates, NEW harm \in Harms \ {"counts"}, NEW resolved \in BOOLEAN,
         ReadTraceLine(date, harm, resolved)
  PROVE  ReaderInv'
<1>1. PICK l : l = LineOf("trace", date, NoDate, harm, resolved)
  OBVIOUS
<1>2. /\ l \in PrintedLines /\ l.page = Len(pages) /\ l.kind = "trace" /\ l.arr = date /\ l.harm = harm
  BY <1>1, LinesAre DEF ReaderInv
<1>r. l.resolved <=> resolved
  BY <1>1, LinesAre DEF ReaderInv
<1>3. Adds(l) /\ paper.type = "TRACES"
  BY <1>1, <1>2, LineAdds DEF ReadTraceLine
<1>4. \A n : n = Len(printed) + 1 => printed'[n] = l
  BY <1>3, Grown DEF ReaderInv
<1>5. paper' = paper
  BY <1>3 DEF Adds
<1>6. CASE Missed
  BY <1>2, <1>3, <1>6, MissedKeeps
<1>7. CASE Here /\ LeftOut(harm, resolved) /\ UNCHANGED <<raws, cur, sums, group, issues>>
  <2>1. \A n : n = Len(printed) + 1 => Accounted(n)'
    BY <1>2, <1>r, <1>3, <1>4, <1>5, <1>7 DEF Accounted, LeftOut
  <2>2. issues' \subseteq Finds /\ issues \subseteq issues'
    BY <1>7 DEF ReaderInv, ReaderType, Finds
  <2> QED BY <1>2, <1>3, <1>7, <2>1, <2>2, PassedOver
<1>8. CASE /\ Here /\ ~LeftOut(harm, resolved)
           /\ raws' = Append(raws, Raw(CASE harm = "odd" -> OddDate
                                          [] harm = "dates" -> EmptyCell
                                          [] OTHER -> Cell(date, paper.fmt), NoCell, {}))
           /\ UNCHANGED <<cur, sums, group, issues>>
  <2>1. date \in Dates /\ paper.fmt \in Formats \cup {"ISO"}
    BY ReaderAssumption, CellsSay DEF ReaderInv, ReaderType
  <2>2. PICK arr \in Cells : arr = CASE harm = "odd" -> OddDate
                                     [] harm = "dates" -> EmptyCell
                                     [] OTHER -> Cell(date, paper.fmt)
    <3>1. OddDate \in Cells /\ EmptyCell \in Cells /\ Cell(date, paper.fmt) \in Cells
      BY <2>1, CellsSay
    <3>2. (CASE harm = "odd" -> OddDate
             [] harm = "dates" -> EmptyCell
             [] OTHER -> Cell(date, paper.fmt)) \in Cells
      BY <3>1
    <3> QED BY <3>2
  <2>3. arr = IF harm = "odd" THEN OddDate ELSE IF harm = "dates" THEN EmptyCell
              ELSE Cell(date, paper.fmt)
    BY <2>2
  <2>4. PICK dep \in Cells : dep = NoCell
    BY CellsSay
  <2>5. PICK r : r = Raw(arr, dep, {})
    OBVIOUS
  <2>6. /\ r \in RawRows /\ r.line = Len(printed) + 1 /\ r.traces = <<>>
        /\ r.arr = arr /\ r.wd = {} /\ r.grp = group
    BY <2>5, RawIs
  <2>7. /\ GoodCells' = GoodCells /\ (TwoDates' <=> TwoDates) /\ RowKind' = RowKind
        /\ OddDate' = OddDate
    BY <1>5, PaperStands
  <2>8. /\ r.line \in DOMAIN printed' /\ printed'[r.line] = l /\ There(r.line)'
    BY <1>3, <1>8, <2>6, Grown DEF ReaderInv
  <2>9. RowKind = "trace" /\ ~TwoDates
    BY <1>3 DEF RowKind, TwoDates
  <2>10. group \in GoodCells \cup {NoCell}
    BY DEF ReaderInv, ReaderType
  <2>11. ~l.resolved
    BY <1>r, <1>8 DEF LeftOut
  <2>12. AsPrinted(r)'
    <3>1. EmptyCell' = EmptyCell /\ Cell(printed[r.line].arr, paper.fmt)' = Cell(date, paper.fmt)
      BY <1>2, <1>5, <2>8 DEF EmptyCell, Cell
    <3> QED BY <1>2, <1>3, <1>5, <2>3, <2>6, <2>7, <2>8, <2>9, <2>10, <2>11, <3>1 DEF AsPrinted
  <2>13. TotalsTold' /\ sums' \in Nat
    <3>1. TotalsTold'
      BY <1>2, <1>3, <1>8, TotalsKeep DEF ReaderInv
    <3> QED BY <1>8, <3>1 DEF ReaderInv, ReaderType
  <2>14. raws' = Append(raws, r)
    BY <1>8, <2>2, <2>4, <2>5
  <2> QED BY <1>2, <1>3, <1>8, <2>6, <2>12, <2>13, <2>14, NewRow
<1> QED BY <1>6, <1>7, <1>8 DEF ReadTraceLine

LEMMA AppendLast == \A S : \A s \in Seq(S) : \A e \in S : Append(s, e)[Len(s) + 1] = e
OBVIOUS

LEMMA TurnPageKeeps ==
  ASSUME ReaderInv, TurnPage
  PROVE  ReaderInv'
<1>1. /\ paper.kind = "pdf" /\ pages \in Seq(BOOLEAN) /\ Len(pages) \in Nat /\ Len(pages) >= 1
      /\ pages' = Append(pages, ~Here) /\ Reading
      /\ UNCHANGED <<paper, printed, raws, cur, sums, group, issues, confirmed, result>>
  BY DEF TurnPage, ReaderInv, ReaderType
<1>2. /\ pages' \in Seq(BOOLEAN) /\ Len(pages') >= 1
      /\ DOMAIN pages = 1..Len(pages) /\ DOMAIN pages' = 1..(Len(pages) + 1)
      /\ \A p \in DOMAIN pages : p \in DOMAIN pages'
  <2>1. (~Here) \in BOOLEAN
    OBVIOUS
  <2> QED BY <1>1, <2>1
<1>3. \A p \in DOMAIN pages : pages'[p] = pages[p]
  BY <1>1
<1>4. ~AllThere'
  <2>1. CASE Here
    <3>0. pages' = Append(pages, FALSE)
      BY <1>1, <2>1
    <3>1. Len(pages) + 1 \in DOMAIN pages'
      BY <1>1, <1>2
    <3>2. pages'[Len(pages) + 1] = FALSE
      <4>1. FALSE \in BOOLEAN
        OBVIOUS
      <4> QED BY <1>1, <3>0, <4>1, AppendLast, Zenon
    <3> QED BY <3>1, <3>2 DEF AllThere
  <2>2. CASE ~Here
    <3>1. Len(pages) \in DOMAIN pages /\ ~pages[Len(pages)]
      BY <1>1, <1>2, <2>2 DEF Here
    <3> QED BY <1>2, <1>3, <3>1 DEF AllThere
  <2> QED BY <2>1, <2>2
<1>5. GoodCells' = GoodCells /\ RowKind' = RowKind /\ (TwoDates' <=> TwoDates) /\ OddDate' = OddDate
  BY <1>1, PaperStands
<1>6. \A i \in DOMAIN printed : There(i)' <=> There(i)
  BY <1>1, <1>3 DEF ReaderInv, ReaderType, There
<1>7. ReaderType'
  <2>1. \A i \in DOMAIN printed' : printed'[i].page \in DOMAIN pages'
    BY <1>1, <1>2 DEF ReaderInv, ReaderType
  <2> QED BY <1>1, <1>2, <1>5, <2>1 DEF ReaderInv, ReaderType
<1>8. RawsRead'
  <2>1. ASSUME NEW raw, AsPrinted(raw) PROVE AsPrinted(raw)'
    <3>1. There(raw.line)' /\ raw.line \in DOMAIN printed
      BY <1>6, <2>1 DEF AsPrinted
    <3> QED BY <1>1, <1>5, <2>1, <3>1 DEF AsPrinted
  <2>2. \A k \in DOMAIN raws : AsPrinted(raws[k])'
    <3> SUFFICES ASSUME NEW k \in DOMAIN raws PROVE AsPrinted(raws[k])'
      OBVIOUS
    <3>1. PICK raw : raw = raws[k]
      OBVIOUS
    <3>2. AsPrinted(raw)'
      BY <2>1, <3>1 DEF ReaderInv, RawsRead
    <3> QED BY <1>1, <3>1, <3>2
  <2> QED BY <1>1, <2>2 DEF RawsRead
<1>9. LinesRead'
  <2>1. \A i \in DOMAIN printed : Accounted(i)'
    BY <1>1, <1>5, <1>6 DEF ReaderInv, LinesRead, Accounted
  <2> QED BY <1>1, <2>1 DEF LinesRead
<1>10. TotalsTold'
  BY <1>1, <1>4 DEF ReaderInv, TotalsTold
<1>11. TracesPlaced'
  <2>1. \A from, to : NoneBetween(from, to) => NoneBetween(from, to)'
    BY <1>1, <1>6 DEF NoneBetween
  <2>2. ASSUME NEW k \in DOMAIN raws, NEW t \in DOMAIN raws[k].traces
        PROVE  NoneBetween(raws[k].line, raws[k].traces[t].line)'
    <3>1. PICK x, y : x = raws[k].line /\ y = raws[k].traces[t].line
      OBVIOUS
    <3>2. NoneBetween(x, y)'
      BY <2>1, <3>1 DEF ReaderInv, TracesPlaced
    <3> QED BY <1>1, <3>1, <3>2
  <2>3. ASSUME paper.type = "ARRIVALS", cur # 0
        PROVE  NoneBetween(raws[cur].line, Len(printed))'
    <3>1. PICK x, y : x = raws[cur].line /\ y = Len(printed)
      OBVIOUS
    <3>2. NoneBetween(x, y)'
      BY <2>1, <2>3, <3>1 DEF ReaderInv, TracesPlaced
    <3> QED BY <1>1, <3>1, <3>2
  <2> QED BY <1>1, <2>2, <2>3 DEF ReaderInv, TracesPlaced
<1>12. Returned'
  BY <1>1 DEF Reading, ReaderInv, Returned
<1> QED BY <1>7, <1>8, <1>9, <1>10, <1>11, <1>12 DEF ReaderInv

LEMMA FirstReads == ReaderInit => ReaderInv
<1> SUFFICES ASSUME ReaderInit PROVE ReaderInv
  OBVIOUS
<1>1. /\ paper \in Papers /\ printed = <<>> /\ pages = <<TRUE>> /\ raws = <<>> /\ cur = 0
      /\ sums = 0 /\ group = NoCell /\ issues = {} /\ confirmed = "none" /\ result = Unfinished
  BY DEF ReaderInit
<1>2. ReaderType
  <2>1. printed \in Seq(PrintedLines) /\ raws \in Seq(RawRows) /\ cur \in 0..Len(raws)
    BY <1>1
  <2>2. pages \in Seq(BOOLEAN) /\ Len(pages) = 1 /\ AllThere
    <3>1. <<TRUE>> \in Seq(BOOLEAN) /\ Len(<<TRUE>>) = 1 /\ DOMAIN <<TRUE>> = {1}
      OBVIOUS
    <3>2. <<TRUE>>[1]
      OBVIOUS
    <3> QED BY <1>1, <3>1, <3>2 DEF AllThere
  <2>3. group \in Cells
    BY <1>1, CellsSay
  <2> QED BY <1>1, <2>1, <2>2, <2>3 DEF ReaderType
<1>3. RawsRead /\ LinesRead /\ TracesPlaced
  BY <1>1 DEF RawsRead, LinesRead, TracesPlaced
<1>4. TotalsTold
  <2>1. Counted = {}
    BY <1>1 DEF Counted
  <2> QED BY <1>1, <2>1, FS_EmptySet DEF TotalsTold
<1>5. Returned
  BY <1>1 DEF Returned
<1> QED BY <1>2, <1>3, <1>4, <1>5 DEF ReaderInv

\* The end of the list, and its second reading.
LEMMA ReturnKeeps ==
  ASSUME ReaderInv, UNCHANGED <<paper, printed, pages, raws, cur, sums, group, issues>>,
         Returned', confirmed' \in Formats \cup {"none"}
  PROVE  ReaderInv'
<1>1. /\ GoodCells' = GoodCells /\ RowKind' = RowKind /\ (TwoDates' <=> TwoDates)
      /\ OddDate' = OddDate
  BY PaperStands
<1>2. ReaderType'
  <2>1. AllThere' <=> AllThere
    BY DEF AllThere
  <2> QED BY <1>1, <2>1 DEF ReaderInv, ReaderType
<1>3. \A i : There(i)' <=> There(i)
  BY DEF There
<1>4. RawsRead'
  <2>1. \A raw : AsPrinted(raw)' <=> AsPrinted(raw)
    BY <1>1, <1>3 DEF AsPrinted
  <2> QED BY <2>1 DEF ReaderInv, RawsRead
<1>5. LinesRead'
  <2>1. \A i : Accounted(i)' <=> Accounted(i)
    BY <1>1, <1>3 DEF Accounted
  <2> QED BY <2>1 DEF ReaderInv, LinesRead
<1>6. TotalsTold'
  <2>1. \A i : InGroup(i)' <=> InGroup(i)
    BY DEF InGroup
  <2>2. Counted' = Counted
    BY <2>1 DEF Counted
  <2>3. AllThere' <=> AllThere
    BY DEF AllThere
  <2> QED BY <2>2, <2>3 DEF ReaderInv, TotalsTold
<1>7. TracesPlaced'
  <2>1. \A from, to : NoneBetween(from, to)' <=> NoneBetween(from, to)
    BY <1>3 DEF NoneBetween
  <2> QED BY <2>1 DEF ReaderInv, TracesPlaced
<1> QED BY <1>2, <1>4, <1>5, <1>6, <1>7 DEF ReaderInv

\* What is returned is what the list reads as.
LEMMA EndKeeps == ReaderInv /\ EndOfList => ReaderInv'
<1> SUFFICES ASSUME ReaderInv, EndOfList PROVE ReaderInv'
  OBVIOUS
<1>1. /\ result' = Outcome("none") /\ confirmed' = confirmed /\ confirmed = "none"
      /\ UNCHANGED <<paper, printed, pages, raws, cur, sums, group, issues>>
  BY DEF EndOfList, ReaderInv, Returned
<1>2. Outcome("none")' = Outcome("none")
  BY <1>1, OutcomeStands
<1>3. result' = Outcome(confirmed)'
  <2>1. PICK c : c = confirmed /\ c = "none" /\ c = confirmed'
    BY <1>1
  <2>2. Outcome(c)' = Outcome("none")'
    BY <2>1
  <2> QED BY <1>1, <1>2, <2>1, <2>2
<1>4. Returned' /\ confirmed' \in Formats \cup {"none"}
  BY <1>1, <1>3 DEF Returned, ReaderInv, ReaderType
<1> QED BY <1>1, <1>4, ReturnKeeps

LEMMA ScanKeeps == ReaderInv /\ EndOfScan => ReaderInv'
<1> SUFFICES ASSUME ReaderInv, EndOfScan PROVE ReaderInv'
  OBVIOUS
<1>1. /\ result' = Scan /\ confirmed' \in Formats
      /\ UNCHANGED <<paper, printed, pages, raws, cur, sums, group, issues>>
  BY DEF EndOfScan, Scan
<1>2. Scan # Unfinished
  <2>1. Scan.format = "none" /\ Unfinished.format = "unfinished"
    BY DEF Scan, Unfinished
  <2> QED BY <2>1
<1>3. Scan' = Scan /\ Unfinished' = Unfinished
  BY DEF Scan, Unfinished
<1>4. Returned'
  BY <1>1, <1>2, <1>3 DEF Returned, Reading
<1> QED BY <1>1, <1>4, ReturnKeeps

LEMMA ConfirmKeeps ==
  ASSUME ReaderInv, NEW f \in Formats, Confirm(f)
  PROVE  ReaderInv'
<1>1. /\ result' = Outcome(f) /\ confirmed' = f
      /\ UNCHANGED <<paper, printed, pages, raws, cur, sums, group, issues>>
  BY DEF Confirm
<1>2. Outcome(f).format # "unfinished"
  <2>1. ResolveDateFormat(f) \in Formats \cup {"none"}
    BY FormatOf DEF ReaderInv
  <2>2. Outcome(f).format = ResolveDateFormat(f)
    BY DEF Outcome
  <2> QED BY <2>1, <2>2 DEF Formats
<1>3. Outcome(f) # Unfinished
  <2>1. Unfinished.format = "unfinished"
    BY DEF Unfinished
  <2> QED BY <1>2, <2>1
<1>4. Outcome(f)' = Outcome(f)
  BY <1>1, OutcomeStands
<1>5. result' = Outcome(confirmed)'
  <2>1. PICK c : c = f /\ c = confirmed'
    BY <1>1
  <2> QED BY <1>1, <1>4, <2>1
<1>6. result' # Unfinished'
  BY <1>1, <1>3 DEF Unfinished
<1>7. Returned'
  BY <1>5, <1>6 DEF Returned, Reading
<1> QED BY <1>1, <1>7, ReturnKeeps

-----------------------------------------------------------------------------
\* readFile.ts, parsers.ts and dates.ts, whatever is printed, whatever of it did not come
\* through and whichever pages are missing: dates are read as they were printed unless the
\* supervisor says otherwise, every line due is a row or accounted for, no row is made up,
\* totals and traces hold (ReadAsPrinted).
THEOREM ReadSound == ReaderInit /\ [][ReaderNext]_readerVars => []ReadAsPrinted
<1>1. ReaderInit => ReaderInv
  BY FirstReads
<1>2. ReaderInv /\ [ReaderNext]_readerVars => ReaderInv'
  <2> SUFFICES ASSUME ReaderInv, [ReaderNext]_readerVars PROVE ReaderInv'
    OBVIOUS
  <2>1. CASE ReadTotal
    BY <2>1, TotalKeeps
  <2>2. CASE TurnPage
    BY <2>2, TurnPageKeeps
  <2>3. CASE EndOfList \/ EndOfScan
    BY <2>3, EndKeeps, ScanKeeps
  <2>4. CASE \E f \in Formats : Confirm(f)
    BY <2>4, ConfirmKeeps
  <2>5. CASE \E date \in PrintDates : ReadGroup(date) \/ ReadGuestTrace(date)
    BY <2>5, GroupKeeps, GuestTraceKeeps
  <2>6. CASE \E date \in PrintDates, harm \in Harms \ {"odd"} : ReadForecastDay(date, harm)
    BY <2>6, ForecastDayKeeps
  <2>7. CASE \E harm \in Harms, stay \in Stays :
                \/ ReadRoomLine(RoomLine(stay[1], stay[2], harm))
                \/ ReadArrival(RoomLine(stay[1], stay[2], harm))
    <3>1. PICK harm \in Harms, stay \in Stays :
            \/ ReadRoomLine(RoomLine(stay[1], stay[2], harm))
            \/ ReadArrival(RoomLine(stay[1], stay[2], harm))
      BY <2>7
    <3>2. PICK l : l = RoomLine(stay[1], stay[2], harm)
      OBVIOUS
    <3>3. /\ l \in PrintedLines /\ l.page = Len(pages) /\ l.kind = "room"
          /\ l.arr \in PrintDates /\ l.dep \in PrintDates
      BY <3>2, LinesAre DEF ReaderInv
    <3>4. ReadRoomLine(l) \/ ReadArrival(l)
      BY <3>1, <3>2
    <3> QED BY <3>3, <3>4, RoomLineKeeps, ArrivalKeeps
  <2>8. CASE \E date \in PrintDates, harm \in Harms \ {"counts"}, resolved \in BOOLEAN :
               ReadTraceLine(date, harm, resolved)
    BY <2>8, TraceLineKeeps
  <2>9. CASE UNCHANGED readerVars
    <3>1. UNCHANGED <<paper, printed, pages, raws, cur, sums, group, issues, confirmed, result>>
      BY <2>9 DEF readerVars
    <3>2. Outcome(confirmed)' = Outcome(confirmed)
      <4>1. PICK c : c = confirmed /\ c = confirmed'
        BY <3>1
      <4>2. Outcome(c)' = Outcome(c)
        BY <3>1, OutcomeStands
      <4> QED BY <4>1, <4>2
    <3>3. Returned' /\ confirmed' \in Formats \cup {"none"}
      BY <3>1, <3>2 DEF ReaderInv, ReaderType, Returned, Reading, Scan, Unfinished
    <3> QED BY <3>1, <3>3, ReturnKeeps
  <2> QED BY <2>1, <2>2, <2>3, <2>4, <2>5, <2>6, <2>7, <2>8, <2>9 DEF ReaderNext
<1> QED BY <1>1, <1>2, InvSuffices, PTL
=============================================================================
