--------------------------- MODULE AutoPlanProofs ---------------------------
(***************************************************************************)
(* Proofs about AutoPlan and the routes it plans on, those of Assignment,  *)
(* for any number of rooms, attendants and requests.                       *)
(* A confirmation does not look at its draft again; that two of them leave *)
(* one plan rests on the transaction that takes down whatever is confirmed *)
(* by then, and on nothing else that ever makes a plan CONFIRMED.          *)
(* A move writes what it read before its transaction; that its route has   *)
(* no place twice rests on what a request knows as long as no other wrote  *)
(* meanwhile: the list it renumbers is the route without the room, and the *)
(* place it takes is above every place of the target.                      *)
(* What a check, a decision or a move does rests on what its request has   *)
(* read: Looks and Answers say what is true of it as long as no other      *)
(* wrote the suggestions or the board, Takes that the room it takes was    *)
(* not begun when it looked.                                               *)
(* The pages over the floor plan rest on a request that is alone on its    *)
(* way: what it will make of its room is what the page shows.              *)
(***************************************************************************)
EXTENDS AutoPlan, FloorPanel, TLAPS, FiniteSetTheorems, SequenceTheorems

Drafts(F, C) == [status : {"DRAFT", "CONFIRMED", "SUPERSEDED"}, fixed : F, crew : C]

\* The table of the proposals, whatever they fix and for whom.
Table == \E F, C : proposals \in Seq(Drafts(F, C))

IInv == Table /\ OneConfirmedPlan

-----------------------------------------------------------------------------
LEMMA InitInv == AutoInit => IInv
<1> SUFFICES ASSUME AutoInit PROVE IInv
  OBVIOUS
<1> DEFINE p == [status |-> "CONFIRMED", fixed |-> [r \in Rooms |-> None], crew |-> Attendants]
           F == {[r \in Rooms |-> None]}
           C == {Attendants}
<1>1. proposals = <<>> \/ proposals = <<p>>
  <2>1. \/ proposals = <<>>
        \/ proposals = <<[status |-> "CONFIRMED", fixed |-> [r \in Rooms |-> None],
                          crew |-> Attendants]>>
    BY DEF AutoInit
  <2> QED BY <2>1
<1>2. p \in Drafts(F, C)
  BY DEF Drafts
<1> HIDE DEF p, F, C
<1>3. proposals \in Seq(Drafts(F, C)) /\ \A i \in DOMAIN proposals : i = 1
  <2>1. CASE proposals = <<>>
    BY <2>1
  <2>2. CASE proposals = <<p>>
    BY <1>2, <2>2
  <2> QED BY <1>1, <2>1, <2>2
<1> QED BY <1>3 DEF IInv, Table, OneConfirmedPlan

LEMMA RetireInv == ASSUME IInv, NEW c \in Calls, RetireDrafts(c) PROVE IInv'
<1>1. PICK F, C : proposals \in Seq(Drafts(F, C))
  BY DEF IInv, Table
<1>2. proposals' = [i \in DOMAIN proposals |->
                      [proposals[i] EXCEPT !.status = IF @ = "DRAFT" THEN "SUPERSEDED" ELSE @]]
  BY DEF RetireDrafts
<1>3. Len(proposals) \in Nat /\ DOMAIN proposals = 1..Len(proposals)
  BY <1>1
<1>4. \A i \in DOMAIN proposals : proposals[i] \in Drafts(F, C)
  BY <1>1, <1>3
<1>5. \A i \in DOMAIN proposals :
        /\ proposals'[i] \in Drafts(F, C)
        /\ proposals'[i].status = "CONFIRMED" => proposals[i].status = "CONFIRMED"
  BY <1>2, <1>4 DEF Drafts
<1>6. DOMAIN proposals' = DOMAIN proposals /\ proposals' \in [1..Len(proposals) -> Drafts(F, C)]
  BY <1>2, <1>3, <1>5
<1>7. proposals' \in Seq(Drafts(F, C))
  BY <1>3, <1>6
<1>8. OneConfirmedPlan'
  BY <1>5, <1>6 DEF IInv, OneConfirmedPlan
<1>9. Table'
  BY <1>7 DEF Table, Drafts
<1> QED BY <1>8, <1>9 DEF IInv

LEMMA StoreInv == ASSUME IInv, NEW c \in Calls, StoreDraft(c) PROVE IInv'
<1>1. PICK F, C : proposals \in Seq(Drafts(F, C))
  BY DEF IInv, Table
<1> DEFINE p == [status |-> "DRAFT", fixed |-> desk[c].plan, crew |-> desk[c].crew]
           G == F \cup {desk[c].plan}
           D == C \cup {desk[c].crew}
<1>2. proposals' = Append(proposals, p)
  BY DEF StoreDraft
<1>3. p \in Drafts(G, D) /\ p.status = "DRAFT"
  BY DEF Drafts
<1>4. Drafts(F, C) \subseteq Drafts(G, D)
  BY DEF Drafts
<1> HIDE DEF p, G, D
<1>5. Len(proposals) \in Nat /\ proposals \in [1..Len(proposals) -> Drafts(F, C)]
  BY <1>1
<1>6. proposals \in [1..Len(proposals) -> Drafts(G, D)]
  BY <1>4, <1>5
<1>7. proposals \in Seq(Drafts(G, D))
  BY <1>5, <1>6
<1>8. /\ proposals' \in Seq(Drafts(G, D)) /\ DOMAIN proposals' = 1..(Len(proposals) + 1)
      /\ DOMAIN proposals = 1..Len(proposals)
      /\ \A i \in DOMAIN proposals : proposals'[i] = proposals[i]
      /\ proposals'[Len(proposals) + 1] = p
  BY <1>2, <1>3, <1>7
<1>9. \A i \in DOMAIN proposals' :
        proposals'[i].status = "CONFIRMED" =>
          i \in DOMAIN proposals /\ proposals[i].status = "CONFIRMED"
  <2>1. \A i \in DOMAIN proposals' : i \in DOMAIN proposals \/ i = Len(proposals) + 1
    BY <1>5, <1>8
  <2> QED BY <1>3, <1>8, <2>1
<1>10. OneConfirmedPlan'
  BY <1>9 DEF IInv, OneConfirmedPlan
<1>11. Table'
  BY <1>8 DEF Table, Drafts
<1> QED BY <1>10, <1>11 DEF IInv

LEMMA ConfirmInv ==
  ASSUME IInv, NEW c \in Calls, NEW s, CommitConfirm(c, s)
  PROVE  IInv'
<1> DEFINE n == desk[c].id
<1>1. PICK F, C : proposals \in Seq(Drafts(F, C))
  BY DEF IInv, Table
<1>2. proposals' = Confirmed(n)
  BY DEF CommitConfirm
<1> HIDE DEF n
<1>3. Len(proposals) \in Nat /\ DOMAIN proposals = 1..Len(proposals)
  BY <1>1
<1>4. \A i \in DOMAIN proposals : proposals[i] \in Drafts(F, C)
  BY <1>1, <1>3
<1>5. \A i \in DOMAIN proposals :
        /\ proposals'[i] \in Drafts(F, C)
        /\ i # n => proposals'[i].status # "CONFIRMED"
  BY <1>2, <1>4 DEF Drafts, Confirmed
<1>6. DOMAIN proposals' = DOMAIN proposals /\ proposals' \in [1..Len(proposals) -> Drafts(F, C)]
  BY <1>2, <1>3, <1>5 DEF Confirmed
<1>7. proposals' \in Seq(Drafts(F, C))
  BY <1>3, <1>6
<1>8. OneConfirmedPlan'
  BY <1>5, <1>6 DEF OneConfirmedPlan
<1>9. Table'
  BY <1>7 DEF Table, Drafts
<1> QED BY <1>8, <1>9 DEF IInv

LEMMA NextInv == IInv /\ [AutoNext]_all => IInv'
<1> SUFFICES ASSUME IInv, [AutoNext]_all PROVE IInv'
  OBVIOUS
<1>1. ASSUME proposals' = proposals PROVE IInv'
  BY <1>1 DEF IInv, Table, OneConfirmedPlan
<1>2. CASE Attend
  BY <1>1, <1>2 DEF Attend
<1>3. CASE \E r \in Rooms : Start(r)
  BY <1>1, <1>3 DEF Start
<1>4. CASE UNCHANGED all
  BY <1>1, <1>4 DEF all, auto
<1>5. ASSUME NEW c \in Calls, Supervise(c) PROVE IInv'
  <2>1. CASE RetireDrafts(c) \/ StoreDraft(c) \/ \E s \in Arrangements(Rooms) : CommitConfirm(c, s)
    BY <2>1, RetireInv, StoreInv, ConfirmInv
  <2>2. CASE \E crew \in SUBSET Attendants : Propose(c, crew)
    BY <1>1, <2>2 DEF Propose
  <2>3. CASE \E i \in DOMAIN proposals :
               \E f \in [DOMAIN proposals[i].fixed -> proposals[i].crew \cup {None}] : ReadDraft(c, i, f)
    BY <1>1, <2>3 DEF ReadDraft
  <2>4. CASE CheckLoad(c) \/ CheckCompare(c)
    BY <1>1, <2>4 DEF CheckLoad, CheckCompare
  <2>5. CASE Supersede(c) \/ \E x \in desk[c].found : Create(c, x)
    BY <1>1, <2>5 DEF Supersede, Create
  <2>6. CASE \E i \in DOMAIN suggestions : ReadSuggestion(c, i)
    BY <1>1, <2>6 DEF ReadSuggestion
  <2>7. CASE Reject(c) \/ MarkConfirmed(c)
    BY <1>1, <2>7 DEF Reject, MarkConfirmed, Decide
  <2>8. CASE SkipMove(c) \/ MoveAssigned(c) \/ ReadLast(c)
    BY <1>1, <2>8 DEF SkipMove, MoveAssigned, ReadLast
  <2>9. CASE PlaceLast(c)
    BY <1>1, <2>9 DEF PlaceLast
  <2>10. CASE \E a \in Attendants : SetAbsent(c, a) \/ SetBack(c, a)
    BY <1>1, <2>10 DEF SetAbsent, SetBack
  <2>11. CASE Withdraw(c) \/ Fail(c)
    BY <1>1, <2>11 DEF Withdraw, Fail
  <2> QED
    BY <1>5, <2>1, <2>2, <2>3, <2>4, <2>5, <2>6, <2>7, <2>8, <2>9, <2>10, <2>11 DEF Supervise
<1> QED BY <1>2, <1>3, <1>4, <1>5 DEF AutoNext

\* confirmProposal: however many drafts are stored and confirmed at once, by
\* however many supervisors, a date has at most one confirmed plan.
THEOREM OnePlan == AutoSpec => []OneConfirmedPlan
<1>1. IInv => OneConfirmedPlan
  BY DEF IInv
<1> QED BY <1>1, InitInv, NextInv, PTL DEF AutoSpec
-----------------------------------------------------------------------------
(***************************************************************************)
(* The routes of Assignment.                                               *)
(***************************************************************************)

\* The rooms of s are in the order of their places p, those without one first.
InTurn(s, p) ==
  \A i, j \in DOMAIN s : i < j /\ p[s[i]] # None => p[s[j]] # None /\ p[s[i]] <= p[s[j]]

\* What a call k knows of the routes w and places p, as long as it was not overtaken.
Knows(k, w, p) ==
  /\ k.pc \in {"move", "assign"} => w[k.room] = k.from
  /\ k.pc = "move" /\ "from" \in k.knows =>
       Items(k.list) = {r \in Rooms : w[r] = k.from} \ {k.room} /\ InTurn(k.list, p)
  /\ k.pc = "move" /\ "to" \in k.knows =>
       \A r \in Rooms : w[r] = k.to /\ p[r] # None => p[r] < k.next
  /\ k.pc = "reorder" => k.knows = {"from"} /\ \A r \in Items(k.list) : w[r] = k.from

\* What holds of a call k.
Holds(k, w, p) ==
  /\ IsInjective(k.list)
  /\ k.pc \in {"move", "assign"} => k.room \in Rooms
  /\ k.pc = "move" => k.to \in Attendants /\ k.to # k.from
  /\ k.pc = "tell" => k.tell # <<>>
  /\ k.pc = "reorder" => k.from \in Attendants
  /\ k.stale = {} => Knows(k, w, p)

RInv == RouteInv /\ \A c \in Calls : Holds(call[c], who, place)

CallRecs == [pc : {"idle", "move", "reorder", "assign", "tell"},
             room : Rooms \cup {None}, from : Attendants \cup {None},
             to : Attendants \cup {None}, knows : SUBSET {"to", "from"},
             next : Nat, list : Seq(Rooms), tell : Seq(Attendants),
             stale : SUBSET {"stale"}]

-----------------------------------------------------------------------------
(***************************************************************************)
(* Lists, places and the largest of them.                                  *)
(***************************************************************************)

\* A finite set of integers has a largest element: the one above which least is.
LEMMA Largest ==
  ASSUME NEW S \in SUBSET Int, IsFiniteSet(S), S # {}
  PROVE  \E m \in S : \A n \in S : n <= m
<1> DEFINE above(m) == {n \in S : n > m}
           T == {above(m) : m \in S}
<1>1. T \subseteq FiniteSubsetsOf(S) /\ T # {}
  <2>1. FiniteSubsetsOf(S) = SUBSET S
    BY FS_FiniteSubsetsOfFinite
  <2>2. \A m \in S : above(m) \in SUBSET S /\ above(m) \in T
    OBVIOUS
  <2>3. PICK m : m \in S
    OBVIOUS
  <2>4. T # {}
    BY <2>2, <2>3
  <2>5. T \subseteq SUBSET S
    BY <2>2
  <2> QED BY <2>1, <2>4, <2>5
<1>2. PICK X \in T : \A Y \in T : <<Y, X>> \notin StrictSubsetOrdering(S)
  <2> HIDE DEF T
  <2> QED BY <1>1, FS_StrictSubsetOrderingWellFounded, WFMin
<1>3. PICK m \in S : X = above(m)
  BY <1>2
<1>4. ASSUME NEW n \in S, n > m PROVE FALSE
  <2>1. n \in above(m) /\ n \notin above(n)
    BY <1>4
  <2>2. \A x \in S : x > n => x > m
    BY <1>4
  <2>3. above(n) \subseteq above(m)
    BY <2>2
  <2>4. <<above(n), above(m)>> \in StrictSubsetOrdering(S)
    BY <2>1, <2>3 DEF StrictSubsetOrdering
  <2> QED BY <1>2, <1>3, <2>4
<1> QED BY <1>4

LEMMA NextPlaceFree ==
  ASSUME who \in [Rooms -> Attendants \cup {None}], place \in [Rooms -> Nat \cup {None}],
         NEW a \in Attendants
  PROVE  /\ NextPlace(a) \in Nat
         /\ \A r \in Route(a) : place[r] # None => place[r] < NextPlace(a)
<1> DEFINE R == Route(a)
           img == {place[r] : r \in R}
           taken == {-1} \cup (img \ {None})
<1>1. IsFiniteSet(R)
  BY DayBound, FS_Subset DEF Route
<1>2. IsFiniteSet(img)
  <2> DEFINE f == [r \in R |-> place[r]]
  <2>1. f \in Surjection(R, img)
    BY DEF Surjection
  <2> HIDE DEF f, img, R
  <2> QED BY <1>1, <2>1, FS_Surjection
<1>3. IsFiniteSet(taken)
  <2>1. IsFiniteSet(img \ {None})
    <3> HIDE DEF img
    <3> QED BY <1>2, FS_RemoveElement
  <2>2. IsFiniteSet((img \ {None}) \cup {-1})
    <3> HIDE DEF img
    <3> QED BY <2>1, FS_AddElement
  <2>3. taken = (img \ {None}) \cup {-1}
    OBVIOUS
  <2> HIDE DEF taken
  <2> QED BY <2>2, <2>3
<1>4. taken \subseteq Int /\ \A n \in taken : n >= -1
  BY DEF Route
<1>5. -1 \in taken
  OBVIOUS
<1>6. \A r \in R : place[r] # None => place[r] \in taken /\ place[r] \in Nat
  BY DEF Route
<1>7. NextPlace(a) = 1 + CHOOSE m \in taken : \A n \in taken : n <= m
  BY DEF NextPlace
<1> HIDE DEF taken, img
<1>8. \E m \in taken : \A n \in taken : n <= m
  BY <1>3, <1>4, <1>5, Largest
<1> DEFINE top == CHOOSE m \in taken : \A n \in taken : n <= m
<1>9. top \in taken /\ \A n \in taken : n <= top
  BY <1>8
<1>10. NextPlace(a) = 1 + top
  BY <1>7
<1> HIDE DEF top, R
<1>11. top \in Int /\ top >= -1
  BY <1>4, <1>9
<1>12. NextPlace(a) \in Nat
  BY <1>10, <1>11
<1>13. \A r \in R : place[r] # None => place[r] < NextPlace(a)
  BY <1>6, <1>9, <1>10, <1>11
<1> QED BY <1>12, <1>13 DEF R

\* An arrangement of rooms is a list of just these rooms, each of them once.
LEMMA Arranged ==
  ASSUME NEW S \in SUBSET Rooms, NEW s \in Arrangements(S)
  PROVE  s \in Seq(Rooms) /\ IsInjective(s) /\ Items(s) = S
<1> DEFINE n == Cardinality(S)
<1>1. IsFiniteSet(S) /\ n \in Nat
  BY DayBound, FS_Subset, FS_CardinalityType
<1>2. s \in [1..n -> S] /\ \A i, j \in 1..n : i # j => s[i] # s[j]
  BY DEF Arrangements
<1> HIDE DEF n
<1>3. s \in Seq(Rooms) /\ DOMAIN s = 1..n
  BY <1>1, <1>2
<1>4. IsInjective(s)
  BY <1>2, <1>3 DEF IsInjective
<1>5. Items(s) \subseteq S
  BY <1>2, <1>3 DEF Items
<1>6. s \in Bijection(1..n, Items(s))
  <2>1. s \in [1..n -> Items(s)] /\ \A r \in Items(s) : \E i \in 1..n : s[i] = r
    BY <1>2, <1>3 DEF Items
  <2> QED BY <1>4, <2>1 DEF Bijection, Injection, Surjection
<1>7. IsFiniteSet(1..n) /\ Cardinality(1..n) = n
  BY <1>1, FS_Interval
<1>8. Cardinality(Items(s)) = n
  BY <1>6, <1>7, FS_Bijection DEF ExistsBijection
<1>9. Items(s) = S
  BY <1>1, <1>5, <1>8, FS_Subset DEF n
<1> QED BY <1>3, <1>4, <1>9

\* Numbering gives the rooms of the list different places and leaves the others alone.
LEMMA NumberedApart ==
  ASSUME NEW s \in Seq(Rooms), IsInjective(s), place \in [Rooms -> Nat \cup {None}]
  PROVE  /\ Numbered(s) \in [Rooms -> Nat \cup {None}]
         /\ \A r \in Rooms : r \notin Items(s) => Numbered(s)[r] = place[r]
         /\ \A r \in Items(s) : r \in Rooms /\ Numbered(s)[r] \in Nat
         /\ \A q, r \in Items(s) : q # r => Numbered(s)[q] # Numbered(s)[r]
<1> DEFINE at(r) == CHOOSE i \in DOMAIN s : s[i] = r
<1>1. DOMAIN s = 1..Len(s) /\ Len(s) \in Nat /\ \A i \in DOMAIN s : s[i] \in Rooms
  OBVIOUS
<1>2. \A r \in Items(s) : at(r) \in DOMAIN s /\ s[at(r)] = r
  BY DEF Items
<1>3. \A r \in Rooms : Numbered(s)[r] = IF r \in Items(s) THEN at(r) - 1 ELSE place[r]
  BY DEF Numbered
<1>4. Numbered(s) = [r \in Rooms |-> Numbered(s)[r]]
  BY DEF Numbered
<1> HIDE DEF at
<1>5. \A r \in Items(s) : r \in Rooms /\ at(r) \in Nat /\ at(r) - 1 \in Nat
  BY <1>1, <1>2
<1>6. \A r \in Items(s) : Numbered(s)[r] = at(r) - 1
  BY <1>3, <1>5
<1>7. \A q, r \in Items(s) : q # r => Numbered(s)[q] # Numbered(s)[r]
  BY <1>2, <1>5, <1>6
<1>8. \A r \in Rooms : Numbered(s)[r] \in Nat \cup {None}
  BY <1>3, <1>5
<1>9. Numbered(s) \in [Rooms -> Nat \cup {None}]
  BY <1>4, <1>8
<1> QED BY <1>3, <1>5, <1>6, <1>7, <1>9

-----------------------------------------------------------------------------
(***************************************************************************)
(* The steps.                                                              *)
(***************************************************************************)

LEMMA Typed ==
  ASSUME RInv
  PROVE  /\ who \in [Rooms -> Attendants \cup {None}] /\ place \in [Rooms -> Nat \cup {None}]
         /\ call \in [Calls -> CallRecs] /\ untidy \subseteq Attendants /\ ops \in Nat
         /\ \A c \in Calls : Holds(call[c], who, place)
BY DEF RInv, RouteInv, TypeOK, CallRecs

\* A call that nothing has disturbed still knows what it knew.
LEMMA Undisturbed ==
  ASSUME RInv, NEW d \in Calls, ~Disturbs(call[d]),
         who' \in [Rooms -> Attendants \cup {None}], place' \in [Rooms -> Nat \cup {None}]
  PROVE  Holds(call[d], who', place')
<1> DEFINE k == call[d]
<1>1. Holds(k, who, place) /\ k \in CallRecs
  BY Typed
<1> HIDE DEF k
<1>2. \A r \in Rooms : who'[r] # who[r] \/ place'[r] # place[r] =>
        /\ r # k.room
        /\ "to" \in k.knows => k.to \notin {who[r], who'[r]}
        /\ "from" \in k.knows => k.from \notin {who[r], who'[r]}
  BY DEF Disturbs, k
<1>3. k.stale = {} => Knows(k, who', place')
  <2> SUFFICES ASSUME k.stale = {}, Knows(k, who, place) PROVE Knows(k, who', place')
    BY <1>1 DEF Holds
  <2>1. k.pc \in {"move", "assign"} => who'[k.room] = k.from
    BY <1>1, <1>2 DEF Holds, Knows
  <2>2. "from" \in k.knows => \A r \in Rooms : who'[r] = k.from <=> who[r] = k.from
    BY <1>2
  <2>3. k.pc = "move" /\ "from" \in k.knows =>
          Items(k.list) = {r \in Rooms : who'[r] = k.from} \ {k.room}
    BY <2>2 DEF Knows
  <2>31. k.pc = "move" /\ "from" \in k.knows => InTurn(k.list, place')
    <3> SUFFICES ASSUME k.pc = "move", "from" \in k.knows PROVE InTurn(k.list, place')
      OBVIOUS
    <3>1. \A i \in DOMAIN k.list : k.list[i] \in Rooms /\ who[k.list[i]] = k.from
      BY DEF Knows, Items
    <3>2. \A i \in DOMAIN k.list : place'[k.list[i]] = place[k.list[i]]
      BY <1>2, <3>1
    <3> QED BY <3>2 DEF Knows, InTurn
  <2>4. k.pc = "move" /\ "to" \in k.knows =>
          \A r \in Rooms : who'[r] = k.to /\ place'[r] # None => place'[r] < k.next
    BY <1>2 DEF Knows
  <2>5. Items(k.list) \subseteq Rooms
    BY <1>1 DEF CallRecs, Items
  <2>6. k.pc = "reorder" => k.knows = {"from"} /\ \A r \in Items(k.list) : who'[r] = k.from
    BY <2>2, <2>5 DEF Knows
  <2> QED BY <2>1, <2>3, <2>31, <2>4, <2>6 DEF Knows
<1> QED BY <1>1, <1>3 DEF Holds, k

LEMMA OvertakenHolds ==
  ASSUME RInv, NEW d \in Calls,
         who' \in [Rooms -> Attendants \cup {None}], place' \in [Rooms -> Nat \cup {None}]
  PROVE  Overtaken[d] \in CallRecs /\ Holds(Overtaken[d], who', place')
<1> DEFINE k == call[d]
           m == [k EXCEPT !.stale = {"stale"}]
<1>1. Holds(k, who, place) /\ k \in CallRecs
  BY Typed
<1>2. Overtaken[d] = IF k.pc \in {"move", "reorder", "assign"} /\ Disturbs(k) THEN m ELSE k
  BY DEF Overtaken
<1>3. CASE k.pc \in {"move", "reorder", "assign"} /\ Disturbs(k)
  <2>1. /\ m \in CallRecs /\ m.stale = {"stale"} /\ m.list = k.list /\ m.pc = k.pc
        /\ m.room = k.room /\ m.to = k.to /\ m.from = k.from /\ m.tell = k.tell
    BY <1>1 DEF CallRecs
  <2> HIDE DEF m
  <2>2. Holds(m, who', place')
    BY <1>1, <2>1 DEF Holds
  <2> QED BY <1>2, <1>3, <2>1, <2>2
<1>4. CASE ~Disturbs(k)
  BY <1>1, <1>2, <1>4, Undisturbed
<1>5. CASE k.pc \notin {"move", "reorder", "assign"}
  BY <1>1, <1>2, <1>5 DEF Holds, Knows
<1> QED BY <1>3, <1>4, <1>5

\* A write of the routes after which call c goes on as k.
LEMMA Written ==
  ASSUME RInv, NEW c \in Calls, NEW k \in CallRecs, Proceed(c, k),
         Holds(k, who', place'),
         who' \in [Rooms -> Attendants \cup {None}], place' \in [Rooms -> Nat \cup {None}],
         untidy' \subseteq Attendants, ops' \in Nat, RoutesInOrder'
  PROVE  RInv'
<1>1. \A d \in Calls : call'[d] = IF d = c THEN k ELSE Overtaken[d]
  BY DEF Proceed, Overtaken
<1>2. call' = [d \in Calls |-> call'[d]]
  BY DEF Proceed, Overtaken
<1>3. \A d \in Calls : call'[d] \in CallRecs /\ Holds(call'[d], who', place')
  BY <1>1, OvertakenHolds
<1>4. call' \in [Calls -> CallRecs]
  BY <1>2, <1>3
<1>5. TypeOK'
  BY <1>4 DEF TypeOK, CallRecs
<1> QED BY <1>3, <1>5 DEF RInv, RouteInv

\* A step of call c that writes no route.
LEMMA OnlyCall ==
  ASSUME RInv, NEW c \in Calls, NEW k \in CallRecs, call' = [call EXCEPT ![c] = k],
         UNCHANGED <<who, place, untidy>>, ops' \in Nat, Holds(k, who, place)
  PROVE  RInv'
<1>1. \A d \in Calls : call'[d] = IF d = c THEN k ELSE call[d]
  BY Typed
<1>2. call' \in [Calls -> CallRecs]
  BY Typed
<1>3. \A d \in Calls : Holds(call'[d], who', place')
  BY <1>1, Typed
<1>4. TypeOK'
  BY <1>2 DEF RInv, RouteInv, TypeOK, CallRecs
<1>5. RoutesInOrder'
  BY DEF RInv, RouteInv, RoutesInOrder, Route
<1> QED BY <1>3, <1>4, <1>5 DEF RInv, RouteInv

\* A call that is done, or has only to tell, knows nothing that matters.
LEMMA Quiet ==
  ASSUME NEW k \in CallRecs, k.pc \in {"idle", "tell"}, k.list = <<>>,
         k.pc = "tell" => k.tell # <<>>
  PROVE  Holds(k, who, place) /\ Holds(k, who', place')
<1>1. IsInjective(k.list)
  BY DEF IsInjective
<1> QED BY <1>1 DEF Holds, Knows

LEMMA IdleCall ==
  Idle \in CallRecs /\ Idle.pc = "idle" /\ Idle.list = <<>> /\ Idle.knows = {}
BY DEF Idle, CallRecs

LEMMA InformingCall ==
  ASSUME NEW k \in CallRecs, k.room \in Rooms
  PROVE  /\ Informing(k) \in CallRecs /\ Informing(k).pc \in {"idle", "tell"}
         /\ Informing(k).list = <<>> /\ (Informing(k).pc = "tell" => Informing(k).tell # <<>>)
<1> DEFINE t == Heirs(k.from, k.to)
           m == [Idle EXCEPT !.pc = "tell", !.room = k.room, !.tell = t]
<1>1. t \in Seq(Attendants)
  BY DEF Heirs, CallRecs
<1>2. Informing(k) = IF t = <<>> THEN Idle ELSE m
  BY DEF Informing
<1> HIDE DEF t
<1>3. m \in CallRecs /\ m.pc = "tell" /\ m.list = <<>> /\ m.tell = t
  <2> DEFINE x == [Idle EXCEPT !.pc = "tell", !.room = k.room]
  <2>1. x \in CallRecs /\ x.pc = "tell" /\ x.list = <<>>
    BY IdleCall DEF CallRecs
  <2>2. m = [x EXCEPT !.tell = t]
    BY DEF Idle
  <2> HIDE DEF x, m
  <2> QED BY <1>1, <2>1, <2>2 DEF CallRecs
<1> HIDE DEF m
<1> QED BY <1>2, <1>3, IdleCall

\* What is left to tell, if there is more than one.
LEMMA RestToTell ==
  ASSUME NEW S, NEW q \in Seq(S), q # <<>>, Len(q) # 1
  PROVE  Tail(q) \in Seq(S) /\ Tail(q) # <<>>
<1>1. Len(q) \in Nat /\ Len(q) # 0
  BY EmptySeq
<1>2. Tail(q) \in Seq(S) /\ Len(Tail(q)) = Len(q) - 1
  BY HeadTailProperties
<1>3. Len(Tail(q)) # 0
  BY <1>1, <1>2
<1> QED BY <1>2, <1>3, EmptySeq

LEMMA TellInv == ASSUME RInv, NEW c \in Calls, Tell(c) PROVE RInv'
<1> DEFINE k == call[c]
           m == [k EXCEPT !.tell = Tail(k.tell)]
<1>1. k \in CallRecs /\ k.pc = "tell" /\ Holds(k, who, place)
  BY Typed DEF Tell
<1>2. UNCHANGED <<who, place, untidy, ops>> /\ ops' \in Nat
  BY Typed DEF Tell
<1>3. CASE Len(k.tell) = 1
  <2>1. call' = [call EXCEPT ![c] = Idle]
    BY <1>3 DEF Tell
  <2> QED BY <1>2, <2>1, IdleCall, Quiet, OnlyCall
<1>4. CASE Len(k.tell) # 1
  <2>1. call' = [call EXCEPT ![c] = m]
    BY <1>4 DEF Tell
  <2>2. k.tell \in Seq(Attendants) /\ k.tell # <<>>
    <3> HIDE DEF k
    <3> QED BY <1>1 DEF CallRecs, Holds
  <2>3. Tail(k.tell) \in Seq(Attendants) /\ Tail(k.tell) # <<>>
    BY <1>4, <2>2, RestToTell
  <2>5. /\ m \in CallRecs /\ m.pc = "tell" /\ m.list = k.list /\ m.tell = Tail(k.tell)
    BY <1>1, <2>3 DEF CallRecs
  <2> HIDE DEF m, k
  <2>6. Holds(m, who, place)
    BY <1>1, <2>3, <2>5 DEF Holds, Knows
  <2> QED BY <1>2, <2>1, <2>5, <2>6, OnlyCall
<1> QED BY <1>3, <1>4

LEMMA ReadMoveInv ==
  ASSUME RInv, NEW c \in Calls, NEW r \in Rooms, NEW to \in Attendants,
         StartMove(c, r, to), ops' \in Nat
  PROVE  RInv'
<1> DEFINE x == [Idle EXCEPT !.pc = "move", !.room = r]
           k == [Idle EXCEPT !.pc = "move", !.room = r, !.from = who[r], !.to = to]
<1>1. call' = [call EXCEPT ![c] = k] /\ UNCHANGED <<who, place, untidy>>
      /\ who[r] \in Attendants /\ who[r] # to
  BY Typed DEF StartMove
<1>2. x \in CallRecs /\ x.pc = "move" /\ x.list = <<>> /\ x.room = r /\ x.knows = {}
  BY IdleCall DEF CallRecs
<1>3. k = [x EXCEPT !.from = who[r], !.to = to]
  BY DEF Idle
<1> HIDE DEF x, k
<1>4. /\ k \in CallRecs /\ k.pc = "move" /\ k.list = <<>> /\ k.room = r /\ k.knows = {}
      /\ k.from = who[r] /\ k.to = to
  BY <1>1, <1>2, <1>3 DEF CallRecs
<1>5. IsInjective(k.list)
  BY <1>4 DEF IsInjective
<1>6. Holds(k, who, place)
  BY <1>1, <1>4, <1>5 DEF Holds, Knows
<1> QED BY <1>1, <1>4, <1>6, OnlyCall

LEMMA ReadTargetInv == ASSUME RInv, NEW c \in Calls, ReadTarget(c) PROVE RInv'
<1> DEFINE k == call[c]
           m == [k EXCEPT !.next = NextPlace(k.to), !.knows = k.knows \cup {"to"}]
<1>1. k \in CallRecs /\ k.pc = "move" /\ Holds(k, who, place)
  BY Typed DEF ReadTarget
<1>2. UNCHANGED <<who, place, untidy, ops>> /\ ops' \in Nat /\ call' = [call EXCEPT ![c] = m]
  BY Typed DEF ReadTarget
<1>3. /\ NextPlace(k.to) \in Nat
      /\ \A r \in Route(k.to) : place[r] # None => place[r] < NextPlace(k.to)
  BY <1>1, Typed, NextPlaceFree DEF Holds
<1>4. /\ m \in CallRecs /\ m.pc = "move" /\ m.list = k.list /\ m.room = k.room
      /\ m.knows = k.knows \cup {"to"} /\ m.from = k.from /\ m.to = k.to
      /\ m.next = NextPlace(k.to) /\ m.stale = k.stale
  <2>1. k.knows \cup {"to"} \in SUBSET {"to", "from"}
    BY <1>1 DEF CallRecs
  <2> QED BY <1>1, <1>3, <2>1 DEF CallRecs
<1> HIDE DEF m, k
<1>5. Holds(m, who, place)
  BY <1>1, <1>3, <1>4 DEF Holds, Knows, Route
<1> QED BY <1>2, <1>4, <1>5, OnlyCall

LEMMA ReadSourceInv == ASSUME RInv, NEW c \in Calls, ReadSource(c) PROVE RInv'
<1> DEFINE k == call[c]
           S == Route(k.from) \ {k.room}
<1>1. k \in CallRecs /\ k.pc = "move" /\ Holds(k, who, place)
  BY Typed DEF ReadSource
<1>2. PICK s \in InOrder(S) :
        call' = [call EXCEPT ![c].list = s, ![c].knows = @ \cup {"from"}]
  BY DEF ReadSource
<1> DEFINE m == [k EXCEPT !.list = s, !.knows = k.knows \cup {"from"}]
<1>3. UNCHANGED <<who, place, untidy, ops>> /\ ops' \in Nat /\ call' = [call EXCEPT ![c] = m]
  BY <1>2, Typed DEF ReadSource
<1>4. s \in Arrangements(S) /\ S \subseteq Rooms
  BY DEF InOrder, Route
<1>5. s \in Seq(Rooms) /\ IsInjective(s) /\ Items(s) = S
  BY <1>4, Arranged
<1>6. /\ m \in CallRecs /\ m.pc = "move" /\ m.list = s /\ m.room = k.room
      /\ m.knows = k.knows \cup {"from"} /\ m.from = k.from /\ m.to = k.to
      /\ m.next = k.next /\ m.stale = k.stale
  <2>1. k.knows \cup {"from"} \in SUBSET {"to", "from"}
    BY <1>1 DEF CallRecs
  <2> QED BY <1>1, <1>5, <2>1 DEF CallRecs
<1>7. S = {r \in Rooms : who[r] = k.from} \ {k.room}
  BY DEF Route
<1> HIDE DEF m, k, S
<1>8. InTurn(s, place)
  BY DEF InOrder, InTurn
<1>9. Holds(m, who, place)
  BY <1>1, <1>5, <1>6, <1>7, <1>8 DEF Holds, Knows
<1> QED BY <1>3, <1>6, <1>9, OnlyCall

LEMMA ReadReorderInv ==
  ASSUME RInv, NEW c \in Calls, NEW a \in Attendants, NEW s \in Lists, ReadReorder(c, a, s)
  PROVE  RInv'
<1> DEFINE x == [Idle EXCEPT !.pc = "reorder", !.from = a]
           k == [Idle EXCEPT !.pc = "reorder", !.from = a, !.knows = {"from"}, !.list = s]
<1>1. call' = [call EXCEPT ![c] = k] /\ UNCHANGED <<who, place, untidy>>
      /\ Items(s) \subseteq Route(a) /\ ops' \in Nat
  BY Typed DEF ReadReorder, Begin
<1>2. s \in Seq(Rooms) /\ IsInjective(s)
  <2>1. PICK S \in SUBSET Rooms : s \in Arrangements(S)
    BY DEF Lists
  <2> QED BY <2>1, Arranged
<1>3. x \in CallRecs /\ x.pc = "reorder" /\ x.from = a
  BY IdleCall DEF CallRecs
<1>4. k = [x EXCEPT !.knows = {"from"}, !.list = s]
  BY DEF Idle
<1> HIDE DEF x, k
<1>5. /\ k \in CallRecs /\ k.pc = "reorder" /\ k.list = s /\ k.knows = {"from"}
      /\ k.from = a
  BY <1>2, <1>3, <1>4 DEF CallRecs
<1>6. Holds(k, who, place)
  BY <1>1, <1>2, <1>5 DEF Holds, Knows, Route
<1> QED BY <1>1, <1>5, <1>6, OnlyCall

LEMMA ReadAssignInv ==
  ASSUME RInv, NEW c \in Calls, NEW r \in Rooms, NEW to \in Attendants \cup {None},
         ReadAssign(c, r, to)
  PROVE  RInv'
<1> DEFINE x == [Idle EXCEPT !.pc = "assign", !.room = r]
           k == [Idle EXCEPT !.pc = "assign", !.room = r, !.from = who[r], !.to = to]
<1>1. call' = [call EXCEPT ![c] = k] /\ UNCHANGED <<who, place, untidy>> /\ ops' \in Nat
      /\ who[r] \in Attendants \cup {None}
  BY Typed DEF ReadAssign, Begin
<1>2. x \in CallRecs /\ x.pc = "assign" /\ x.list = <<>> /\ x.room = r
  BY IdleCall DEF CallRecs
<1>3. k = [x EXCEPT !.from = who[r], !.to = to]
  BY DEF Idle
<1> HIDE DEF x, k
<1>4. k \in CallRecs /\ k.pc = "assign" /\ k.list = <<>> /\ k.room = r /\ k.from = who[r]
  BY <1>1, <1>2, <1>3 DEF CallRecs
<1>5. Holds(k, who, place)
  <2>1. IsInjective(k.list)
    BY <1>4 DEF IsInjective
  <2> QED BY <1>4, <2>1 DEF Holds, Knows
<1> QED BY <1>1, <1>4, <1>5, OnlyCall

\* A route none of whose rooms is written, and that no room joins, stays as it is.
LEMMA RouteUnwritten ==
  ASSUME RInv, NEW a \in Attendants, a \notin untidy,
         \A r \in Rooms : who'[r] = a => who[r] = a /\ place'[r] = place[r]
  PROVE  \A q, r \in Route(a)' : q # r /\ place'[q] # None => place'[q] # place'[r]
BY DEF RInv, RouteInv, RoutesInOrder, Route

LEMMA CommitMoveInv == ASSUME RInv, NEW c \in Calls, CommitMove(c) PROVE RInv'
<1> DEFINE k == call[c]
           N == Numbered(k.list)
<1>1. k \in CallRecs /\ k.pc = "move" /\ k.knows = {"to", "from"} /\ Holds(k, who, place)
  BY Typed DEF CommitMove
<1>2. /\ who' = [who EXCEPT ![k.room] = k.to]
      /\ place' = [N EXCEPT ![k.room] = k.next]
      /\ Proceed(c, Informing(k)) /\ ops' = ops
      /\ untidy' = IF k.stale = {} THEN untidy \ {k.from}
                   ELSE untidy \cup ({who'[r] : r \in Items(k.list) \cup {k.room}} \ {None})
  BY DEF CommitMove
<1> HIDE DEF k
<1>3. /\ k.room \in Rooms /\ k.to \in Attendants /\ k.to # k.from /\ k.next \in Nat
      /\ k.list \in Seq(Rooms) /\ IsInjective(k.list)
  BY <1>1 DEF Holds, CallRecs
<1>4. /\ N \in [Rooms -> Nat \cup {None}]
      /\ \A r \in Rooms : r \notin Items(k.list) => N[r] = place[r]
      /\ \A r \in Items(k.list) : r \in Rooms /\ N[r] \in Nat
      /\ \A q, r \in Items(k.list) : q # r => N[q] # N[r]
  BY <1>3, Typed, NumberedApart
<1> HIDE DEF N
<1>5. /\ who' \in [Rooms -> Attendants \cup {None}] /\ place' \in [Rooms -> Nat \cup {None}]
      /\ \A r \in Rooms : who'[r] = IF r = k.room THEN k.to ELSE who[r]
      /\ \A r \in Rooms : place'[r] = IF r = k.room THEN k.next ELSE N[r]
  BY <1>2, <1>3, <1>4, Typed
<1>6. untidy' \subseteq Attendants
  BY <1>2, <1>4, <1>5, <1>3, Typed
<1>7. ASSUME k.stale = {} PROVE RoutesInOrder'
  <2>1. /\ Items(k.list) = {r \in Rooms : who[r] = k.from} \ {k.room}
        /\ \A r \in Rooms : who[r] = k.to /\ place[r] # None => place[r] < k.next
        /\ who[k.room] = k.from
    BY <1>1, <1>7 DEF Holds, Knows
  <2>2. ASSUME NEW a \in Attendants, a \notin untidy'
        PROVE  \A q, r \in Route(a)' : q # r /\ place'[q] # None => place'[q] # place'[r]
    <3>1. a = k.from \/ a \notin untidy
      BY <1>2, <1>7, <2>2
    <3>2. CASE a = k.from
      <4>1. \A r \in Route(a)' : r \in Items(k.list) /\ place'[r] = N[r]
        BY <1>3, <1>5, <2>1, <3>2 DEF Route
      <4> QED BY <1>4, <4>1
    <3>3. CASE a = k.to
      <4>1. a \notin untidy
        BY <1>3, <3>1, <3>3
      <4>2. \A r \in Route(a)' : r # k.room => r \in Route(a) /\ place'[r] = place[r]
        BY <1>3, <1>4, <1>5, <2>1, <3>3 DEF Route
      <4>3. \A r \in Route(a) : place[r] # None => place[r] # k.next
        <5>1. \A r \in Route(a) : r \in Rooms /\ who[r] = k.to /\ place[r] \in Nat \cup {None}
          BY <3>3, Typed DEF Route
        <5> QED BY <1>3, <2>1, <5>1
      <4>4. place'[k.room] = k.next /\ k.next # None
        BY <1>3, <1>5, NobodyAssumption
      <4>5. \A q, r \in Route(a) : q # r /\ place[q] # None => place[q] # place[r]
        BY <4>1 DEF RInv, RouteInv, RoutesInOrder
      <4> SUFFICES ASSUME NEW q \in Route(a)', NEW r \in Route(a)', q # r, place'[q] # None
                   PROVE  place'[q] # place'[r]
        OBVIOUS
      <4>6. CASE q = k.room
        BY <4>2, <4>3, <4>4, <4>6
      <4>7. CASE q # k.room
        BY <4>2, <4>3, <4>4, <4>5, <4>7
      <4> QED BY <4>6, <4>7
    <3>4. CASE a # k.from /\ a # k.to
      <4>1. \A r \in Rooms : who'[r] = a => who[r] = a /\ place'[r] = place[r]
        BY <1>4, <1>5, <2>1, <3>4
      <4> QED BY <3>1, <3>4, <4>1, RouteUnwritten
    <3> QED BY <3>2, <3>3, <3>4
  <2> QED BY <2>2 DEF RoutesInOrder
<1>8. ASSUME k.stale # {} PROVE RoutesInOrder'
  <2>1. ASSUME NEW a \in Attendants, a \notin untidy'
        PROVE  \A q, r \in Route(a)' : q # r /\ place'[q] # None => place'[q] # place'[r]
    <3>1. a # None /\ a \notin untidy
      BY <1>2, <1>8, <2>1, NobodyAssumption
    <3>2. \A r \in Items(k.list) \cup {k.room} : who'[r] # a
      BY <1>2, <1>8, <2>1, <3>1
    <3>3. \A r \in Rooms : who'[r] = a => who[r] = a /\ place'[r] = place[r]
      BY <1>4, <1>5, <3>2
    <3> QED BY <3>1, <3>3, RouteUnwritten
  <2> QED BY <2>1 DEF RoutesInOrder
<1>9. Informing(k) \in CallRecs /\ Holds(Informing(k), who', place')
  BY <1>1, <1>3, InformingCall, Quiet
<1> QED BY <1>2, <1>5, <1>6, <1>7, <1>8, <1>9, Typed, Written

LEMMA CommitReorderInv == ASSUME RInv, NEW c \in Calls, CommitReorder(c) PROVE RInv'
<1> DEFINE k == call[c]
           N == Numbered(k.list)
<1>1. k \in CallRecs /\ k.pc = "reorder" /\ Holds(k, who, place)
  BY Typed DEF CommitReorder
<1>2. /\ place' = N /\ who' = who /\ ops' = ops /\ Proceed(c, Idle)
      /\ untidy' = IF k.stale = {} THEN TidyOrNot(k.from, Items(k.list))
                   ELSE untidy \cup ({who[r] : r \in Items(k.list)} \ {None})
  BY DEF CommitReorder
<1> HIDE DEF k
<1>3. k.list \in Seq(Rooms) /\ IsInjective(k.list) /\ k.from \in Attendants
  BY <1>1 DEF Holds, CallRecs
<1>4. /\ N \in [Rooms -> Nat \cup {None}]
      /\ \A r \in Rooms : r \notin Items(k.list) => N[r] = place[r]
      /\ \A r \in Items(k.list) : r \in Rooms /\ N[r] \in Nat
      /\ \A q, r \in Items(k.list) : q # r => N[q] # N[r]
  BY <1>3, Typed, NumberedApart
<1> HIDE DEF N
<1>5. who' \in [Rooms -> Attendants \cup {None}] /\ place' \in [Rooms -> Nat \cup {None}]
  BY <1>2, <1>4, Typed
<1>6. untidy' \subseteq Attendants
  BY <1>2, <1>3, <1>4, Typed DEF TidyOrNot
<1>7. ASSUME k.stale = {} PROVE RoutesInOrder'
  <2>1. \A r \in Items(k.list) : who[r] = k.from
    BY <1>1, <1>7 DEF Holds, Knows
  <2>2. untidy' = TidyOrNot(k.from, Items(k.list))
    BY <1>2, <1>7
  <2>3. ASSUME NEW a \in Attendants, a \notin untidy'
        PROVE  \A q, r \in Route(a)' : q # r /\ place'[q] # None => place'[q] # place'[r]
    <3>1. CASE a = k.from
      <4>1. \A r \in Rooms : who'[r] = a /\ place'[r] # None => r \in Items(k.list)
        BY <2>2, <2>3, <3>1 DEF TidyOrNot
      <4> SUFFICES ASSUME NEW q \in Route(a)', NEW r \in Route(a)', q # r,
                          place'[q] # None, place'[r] # None
                   PROVE  place'[q] # place'[r]
        OBVIOUS
      <4>2. q \in Items(k.list) /\ r \in Items(k.list)
        BY <4>1 DEF Route
      <4> QED BY <1>2, <1>4, <4>2
    <3>2. CASE a # k.from
      <4>1. a \notin untidy
        BY <2>2, <2>3, <3>2 DEF TidyOrNot
      <4>2. \A r \in Rooms : who'[r] = a => who[r] = a /\ place'[r] = place[r]
        BY <1>2, <1>4, <2>1, <3>2
      <4> QED BY <4>1, <4>2, RouteUnwritten
    <3> QED BY <3>1, <3>2
  <2> QED BY <2>3 DEF RoutesInOrder
<1>8. ASSUME k.stale # {} PROVE RoutesInOrder'
  <2>1. ASSUME NEW a \in Attendants, a \notin untidy'
        PROVE  \A q, r \in Route(a)' : q # r /\ place'[q] # None => place'[q] # place'[r]
    <3>1. a # None /\ a \notin untidy
      BY <1>2, <1>8, <2>1, NobodyAssumption
    <3>2. \A r \in Items(k.list) : who[r] # a
      BY <1>2, <1>8, <2>1, <3>1
    <3>3. \A r \in Rooms : who'[r] = a => who[r] = a /\ place'[r] = place[r]
      BY <1>2, <1>4, <3>2
    <3> QED BY <3>1, <3>3, RouteUnwritten
  <2> QED BY <2>1 DEF RoutesInOrder
<1>9. Holds(Idle, who', place')
  BY IdleCall, Quiet
<1> QED BY <1>2, <1>5, <1>6, <1>7, <1>8, <1>9, IdleCall, Typed, Written

LEMMA CommitAssignInv == ASSUME RInv, NEW c \in Calls, CommitAssign(c) PROVE RInv'
<1> DEFINE k == call[c]
<1>1. k \in CallRecs /\ k.pc = "assign" /\ Holds(k, who, place)
  BY Typed DEF CommitAssign
<1>2. /\ who' = [who EXCEPT ![k.room] = k.to] /\ place' = place /\ ops' = ops
      /\ Proceed(c, Informing(k))
      /\ untidy' = IF k.to = None \/ place[k.room] = None THEN untidy ELSE untidy \cup {k.to}
  BY DEF CommitAssign
<1> HIDE DEF k
<1>3. k.room \in Rooms /\ k.to \in Attendants \cup {None}
  BY <1>1 DEF Holds, CallRecs
<1>4. /\ who' \in [Rooms -> Attendants \cup {None}] /\ place' \in [Rooms -> Nat \cup {None}]
      /\ \A r \in Rooms : who'[r] = IF r = k.room THEN k.to ELSE who[r]
      /\ untidy' \subseteq Attendants
  BY <1>2, <1>3, Typed
<1>5. ASSUME NEW a \in Attendants, a \notin untidy'
      PROVE  \A q, r \in Route(a)' : q # r /\ place'[q] # None => place'[q] # place'[r]
  <2>1. a \notin untidy /\ a # None
    BY <1>2, <1>5, NobodyAssumption
  <2>2. CASE a = k.to
    <3>1. place[k.room] = None
      BY <1>2, <1>5, <2>1, <2>2
    <3>2. \A r \in Route(a)' : r = k.room \/ r \in Route(a)
      BY <1>4 DEF Route
    <3>3. \A q, r \in Route(a) : q # r /\ place[q] # None => place[q] # place[r]
      BY <2>1 DEF RInv, RouteInv, RoutesInOrder
    <3> QED BY <1>2, <3>1, <3>2, <3>3
  <2>3. CASE a # k.to
    <3>1. \A r \in Rooms : who'[r] = a => who[r] = a /\ place'[r] = place[r]
      BY <1>2, <1>4, <2>3
    <3> QED BY <2>1, <3>1, RouteUnwritten
  <2> QED BY <2>2, <2>3
<1>6. RoutesInOrder'
  BY <1>5 DEF RoutesInOrder
<1>7. Informing(k) \in CallRecs /\ Holds(Informing(k), who', place')
  BY <1>1, <1>3, InformingCall, Quiet
<1> QED BY <1>2, <1>4, <1>6, <1>7, Typed, Written

LEMMA ApplyPlanInv == ASSUME RInv, NEW p \in Plans, ApplyPlan(p) PROVE RInv'
<1> DEFINE heir(r) == {a \in Attendants : r \in Items(p[a])}
           of(r) == CHOOSE a \in heir(r) : TRUE
<1>1. \A a \in Attendants : /\ p[a] \in Seq(Rooms) /\ IsInjective(p[a])
                            /\ \A b \in Attendants : a # b => Items(p[a]) \cap Items(p[b]) = {}
  <2> SUFFICES ASSUME NEW a \in Attendants PROVE p[a] \in Seq(Rooms) /\ IsInjective(p[a])
    BY DEF Plans
  <2>1. p[a] \in Lists
    BY DEF Plans
  <2>2. PICK S \in SUBSET Rooms : p[a] \in Arrangements(S)
    BY <2>1 DEF Lists
  <2> QED BY <2>2, Arranged
<1>2. /\ who' = [r \in Rooms |-> IF heir(r) = {} THEN who[r] ELSE of(r)]
      /\ place' = [r \in Rooms |->
                     IF heir(r) = {} THEN place[r]
                     ELSE (CHOOSE i \in DOMAIN p[of(r)] : p[of(r)][i] = r) - 1]
      /\ untidy' = {a \in Attendants :
                      \/ a \in untidy /\ \E r \in Rooms : who'[r] = a /\ place'[r] # None
                                                         /\ r \notin Items(p[a])
                      \/ p[a] # <<>> /\ \E r \in Rooms : who'[r] = a /\ place'[r] # None
                                                        /\ r \notin Items(p[a])}
      /\ call' = Overtaken /\ ops' = ops + 1
  BY DEF ApplyPlan, Planned, Begin
<1>3. \A r \in Rooms : heir(r) # {} => of(r) \in Attendants /\ r \in Items(p[of(r)])
  OBVIOUS
<1>4. \A r \in Rooms, a \in Attendants : r \in Items(p[a]) => heir(r) # {} /\ of(r) = a
  <2> SUFFICES ASSUME NEW r \in Rooms, NEW a \in Attendants, r \in Items(p[a])
               PROVE  heir(r) # {} /\ of(r) = a
    OBVIOUS
  <2>1. a \in heir(r)
    OBVIOUS
  <2>2. of(r) \in Attendants /\ r \in Items(p[of(r)])
    BY <1>3, <2>1
  <2> HIDE DEF of
  <2> QED BY <1>1, <2>1, <2>2
<1>5. \A r \in Rooms : heir(r) # {} =>
        (CHOOSE i \in DOMAIN p[of(r)] : p[of(r)][i] = r) - 1 = Numbered(p[of(r)])[r]
  BY <1>3 DEF Numbered
<1>6. \A r \in Rooms : /\ who'[r] = IF heir(r) = {} THEN who[r] ELSE of(r)
                       /\ place'[r] = IF heir(r) = {} THEN place[r] ELSE Numbered(p[of(r)])[r]
  BY <1>2, <1>5
<1>7. /\ who' = [r \in Rooms |-> who'[r]] /\ place' = [r \in Rooms |-> place'[r]]
  BY <1>2
<1>8. \A r \in Rooms : heir(r) = {} <=> \A a \in Attendants : r \notin Items(p[a])
  OBVIOUS
<1> HIDE DEF of, heir
<1>9. \A a \in Attendants :
        /\ \A r \in Items(p[a]) : r \in Rooms /\ Numbered(p[a])[r] \in Nat
        /\ \A q, r \in Items(p[a]) : q # r => Numbered(p[a])[q] # Numbered(p[a])[r]
  BY <1>1, Typed, NumberedApart
<1>10. /\ who' \in [Rooms -> Attendants \cup {None}] /\ place' \in [Rooms -> Nat \cup {None}]
  <2>1. \A r \in Rooms : who'[r] \in Attendants \cup {None} /\ place'[r] \in Nat \cup {None}
    BY <1>3, <1>6, <1>9, Typed
  <2> QED BY <1>7, <2>1
<1>11. ASSUME NEW a \in Attendants, a \notin untidy'
       PROVE  \A q, r \in Route(a)' : q # r /\ place'[q] # None => place'[q] # place'[r]
  <2>1. \A r \in Items(p[a]) : r \in Rooms /\ place'[r] = Numbered(p[a])[r]
    BY <1>4, <1>6, <1>9
  <2>2. \A r \in Rooms : who'[r] = a /\ r \notin Items(p[a]) => who[r] = a /\ place'[r] = place[r]
    BY <1>3, <1>6
  <2>3. CASE \A r \in Rooms : who'[r] = a /\ place'[r] # None => r \in Items(p[a])
    <3> SUFFICES ASSUME NEW q \in Route(a)', NEW r \in Route(a)', q # r,
                        place'[q] # None, place'[r] # None
                 PROVE  place'[q] # place'[r]
      OBVIOUS
    <3>1. q \in Items(p[a]) /\ r \in Items(p[a])
      BY <2>3 DEF Route
    <3> QED BY <1>9, <2>1, <3>1
  <2>4. CASE \E r \in Rooms : who'[r] = a /\ place'[r] # None /\ r \notin Items(p[a])
    <3>1. a \notin untidy /\ p[a] = <<>>
      BY <1>2, <1>11, <2>4
    <3>2. Items(p[a]) = {}
      BY <3>1 DEF Items
    <3> QED BY <2>2, <3>1, <3>2, RouteUnwritten
  <2> QED BY <2>3, <2>4
<1>12. RoutesInOrder'
  BY <1>11 DEF RoutesInOrder
<1>13. \A d \in Calls : call'[d] \in CallRecs /\ Holds(call'[d], who', place')
  BY <1>2, <1>10, OvertakenHolds
<1>14. call' \in [Calls -> CallRecs]
  <2>1. call' = [d \in Calls |-> call'[d]]
    BY <1>2 DEF Overtaken
  <2> QED BY <1>13, <2>1
<1>15. TypeOK'
  <2>1. untidy' \subseteq Attendants
    BY <1>2, Typed
  <2>2. ops' \in Nat
    BY <1>2, Typed
  <2> QED BY <1>10, <1>14, <2>1, <2>2 DEF TypeOK, CallRecs
<1> QED BY <1>12, <1>13, <1>15 DEF RInv, RouteInv

LEMMA InitRoutes == Init => RInv
<1> SUFFICES ASSUME Init PROVE RInv
  OBVIOUS
<1>1. \A c \in Calls : call[c] = Idle
  BY DEF Init
<1>2. call \in [Calls -> CallRecs] /\ \A c \in Calls : Holds(call[c], who, place)
  BY <1>1, IdleCall, Quiet DEF Init
<1>3. TypeOK
  BY <1>2 DEF Init, TypeOK, CallRecs
<1>4. RoutesInOrder
  BY DEF Init, RoutesInOrder, Route
<1> QED BY <1>2, <1>3, <1>4 DEF RInv, RouteInv

LEMMA NextRoutes == RInv /\ [Next]_vars => RInv'
<1> SUFFICES ASSUME RInv, [Next]_vars PROVE RInv'
  OBVIOUS
<1>1. ASSUME NEW c \in Calls, Request(c) PROVE RInv'
  <2>1. ASSUME NEW r \in Rooms, NEW to \in Attendants, ReadMove(c, r, to) PROVE RInv'
    <3>1. ops' \in Nat
      BY <2>1, Typed DEF ReadMove, Begin
    <3> QED BY <2>1, <3>1, ReadMoveInv DEF ReadMove
  <2> QED BY <1>1, <2>1, ReadAssignInv, ReadReorderInv DEF Request
<1>2. ASSUME NEW c \in Calls, Serve(c) PROVE RInv'
  BY <1>2, ReadTargetInv, ReadSourceInv, CommitMoveInv, CommitReorderInv, CommitAssignInv,
     TellInv DEF Serve
<1>3. CASE \E p \in Plans : ApplyPlan(p)
  BY <1>3, ApplyPlanInv
<1>4. CASE UNCHANGED vars
  BY <1>4 DEF vars, RInv, RouteInv, TypeOK, RoutesInOrder, Route, Holds, Knows
<1> QED BY <1>1, <1>2, <1>3, <1>4 DEF Next

\* Two rooms of a route have different places, for any number of rooms, attendants
\* and requests, unless the route was written in one of the ways that leave it untidy.
THEOREM RoutesSound == Spec => []RouteInv
<1>1. RInv => RouteInv
  BY DEF RInv
<1> QED BY <1>1, InitRoutes, NextRoutes, PTL DEF Spec

-----------------------------------------------------------------------------
(***************************************************************************)
(* What a request that nothing has overtaken leaves.                       *)
(***************************************************************************)

\* The places of a list of all rooms of S are the numbers below the size of S.
LEMMA NumberedAll ==
  ASSUME NEW S \in SUBSET Rooms, NEW s \in Seq(Rooms), IsInjective(s), Items(s) = S
  PROVE  {Numbered(s)[r] : r \in S} = 0..(Cardinality(S) - 1)
<1> DEFINE n == Len(s)
<1>1. n \in Nat /\ DOMAIN s = 1..n
  OBVIOUS
<1>2. s \in Bijection(1..n, S)
  <2>1. s \in [1..n -> S] /\ \A r \in S : \E i \in 1..n : s[i] = r
    BY <1>1 DEF Items
  <2> QED BY <1>1, <2>1 DEF Bijection, Injection, Surjection, IsInjective
<1>3. Cardinality(S) = n
  <2>1. IsFiniteSet(1..n) /\ Cardinality(1..n) = n
    BY <1>1, FS_Interval
  <2> QED BY SMTT(60), <1>2, <2>1, FS_Bijection DEF ExistsBijection
<1>4. \A i \in 1..n : s[i] \in S /\ Numbered(s)[s[i]] = i - 1
  <2> SUFFICES ASSUME NEW i \in 1..n PROVE s[i] \in S /\ Numbered(s)[s[i]] = i - 1
    OBVIOUS
  <2>1. s[i] \in S /\ s[i] \in Rooms
    BY <1>1 DEF Items
  <2>2. \A j \in DOMAIN s : s[j] = s[i] => j = i
    BY <1>1 DEF IsInjective
  <2>3. (CHOOSE j \in DOMAIN s : s[j] = s[i]) = i
    BY <1>1, <2>2
  <2> QED BY <2>1, <2>3 DEF Numbered
<1>5. \A r \in S : \E i \in 1..n : s[i] = r
  BY <1>1 DEF Items
<1>6. {Numbered(s)[r] : r \in S} \subseteq 0..(n - 1)
  BY <1>1, <1>4, <1>5
<1>7. ASSUME NEW m \in 0..(n - 1) PROVE m \in {Numbered(s)[r] : r \in S}
  <2>1. m + 1 \in 1..n /\ (m + 1) - 1 = m
    BY <1>1
  <2> QED BY <1>4, <2>1
<1> HIDE DEF n
<1> QED BY <1>3, <1>6, <1>7

\* Numbering keeps the order in which the list is.
LEMMA NumberedInTurn ==
  ASSUME NEW s \in Seq(Rooms), IsInjective(s), place \in [Rooms -> Nat \cup {None}], InTurn(s, place),
         NEW q \in Items(s), NEW r \in Items(s), place[q] # None, place[r] # None, place[q] < place[r]
  PROVE  Numbered(s)[q] < Numbered(s)[r]
<1>1. DOMAIN s = 1..Len(s) /\ Len(s) \in Nat /\ \A i \in DOMAIN s : s[i] \in Rooms
  OBVIOUS
<1>2. PICK i \in DOMAIN s : s[i] = q
  BY DEF Items
<1>3. PICK j \in DOMAIN s : s[j] = r
  BY DEF Items
<1>4. (CHOOSE x \in DOMAIN s : s[x] = q) = i /\ (CHOOSE x \in DOMAIN s : s[x] = r) = j
  BY <1>2, <1>3 DEF IsInjective
<1>5. Numbered(s)[q] = i - 1 /\ Numbered(s)[r] = j - 1
  BY <1>1, <1>2, <1>3, <1>4 DEF Numbered
<1>6. place[q] \in Nat /\ place[r] \in Nat
  BY <1>1, <1>2, <1>3
<1>7. i < j
  <2>1. i # j
    BY <1>2, <1>3, <1>6
  <2>2. ~ (j < i)
    BY <1>2, <1>3, <1>6 DEF InTurn
  <2> QED BY <1>1, <2>1, <2>2
<1> QED BY <1>1, <1>5, <1>7

LEMMA HeirsAre ==
  ASSUME NEW from \in Attendants \cup {None}, NEW to \in Attendants \cup {None}
  PROVE  Items(Heirs(from, to)) = IF from = to THEN {} ELSE {from, to} \ {None}
<1>1. \A x : Items(<<>>) = {} /\ Items(<<x>>) = {x}
  <2> SUFFICES ASSUME NEW x PROVE Items(<<>>) = {} /\ Items(<<x>>) = {x}
    OBVIOUS
  <2>1. DOMAIN <<x>> = {1} /\ <<x>>[1] = x
    OBVIOUS
  <2>2. Items(<<x>>) = {x}
    BY <2>1, Zenon DEF Items
  <2> QED BY <2>2 DEF Items
<1> DEFINE S == Attendants \cup {None}
           s == IF to = None THEN <<>> ELSE <<to>>
           t == IF from = None THEN <<>> ELSE <<from>>
<1>2. Items(s) = {to} \ {None} /\ Items(t) = {from} \ {None}
  BY <1>1
<1>3. s \in Seq(S) /\ t \in Seq(S)
  <2>1. <<>> \in Seq(S) /\ \A x \in S : <<x>> \in Seq(S)
    OBVIOUS
  <2>2. from \in S /\ to \in S
    OBVIOUS
  <2> HIDE DEF S
  <2> QED BY <2>1, <2>2
<1>4. Heirs(from, to) = IF from = to THEN <<>> ELSE s \o t
  BY DEF Heirs
<1> HIDE DEF s, t, S
<1>5. Items(s \o t) = Items(s) \cup Items(t)
  <2>1. \A q : Items(q) = Range(q)
    BY DEF Items, Range
  <2>2. Range(s \o t) = Range(s) \cup Range(t)
    BY <1>3, RangeConcatenation
  <2> QED BY <2>1, <2>2
<1> QED BY <1>1, <1>2, <1>4, <1>5

LEMMA InformingTells ==
  ASSUME NEW k \in CallRecs, k.room \in Rooms
  PROVE  Items(Informing(k).tell) = Items(Heirs(k.from, k.to))
<1> DEFINE t == Heirs(k.from, k.to)
<1>1. CASE t = <<>>
  BY <1>1 DEF Informing, Idle
<1>2. CASE t # <<>>
  <2>1. Informing(k) = [Idle EXCEPT !.pc = "tell", !.room = k.room, !.tell = t]
    BY <1>2 DEF Informing
  <2> HIDE DEF t
  <2>2. Informing(k).tell = t
    BY <2>1 DEF Idle
  <2> QED BY <2>2 DEF t
<1> QED BY <1>1, <1>2

LEMMA MoveKeepsOrder ==
  ASSUME RInv, NEW c \in Calls, CommitMove(c), call[c].stale = {}
  PROVE  LET k == call[c]
             rest == Route(k.from) \ {k.room}
         IN /\ \A r \in Route(k.to) : place[r] # None => place'[r] < place'[k.room]
            /\ {place'[r] : r \in rest} = 0..(Cardinality(rest) - 1)
            /\ \A q, r \in rest :
                 place[q] # None /\ place[r] # None /\ place[q] < place[r] =>
                   place'[q] < place'[r]
            /\ \A r \in Rooms : place'[r] # place[r] => who[r] = k.from
            /\ \A r \in Rooms : who'[r] = IF r = k.room THEN k.to ELSE who[r]
            /\ who[k.room] = k.from
<1> DEFINE k == call[c]
           N == Numbered(k.list)
           rest == Route(k.from) \ {k.room}
<1>1. k \in CallRecs /\ k.pc = "move" /\ k.knows = {"to", "from"} /\ Holds(k, who, place)
  BY Typed DEF CommitMove
<1>2. who' = [who EXCEPT ![k.room] = k.to] /\ place' = [N EXCEPT ![k.room] = k.next]
  BY DEF CommitMove
<1>21. k.stale = {}
  OBVIOUS
<1> HIDE DEF k
<1>3. /\ k.room \in Rooms /\ k.to \in Attendants /\ k.to # k.from /\ k.next \in Nat
      /\ k.list \in Seq(Rooms) /\ IsInjective(k.list)
  BY <1>1 DEF Holds, CallRecs
<1>4. /\ who[k.room] = k.from
      /\ Items(k.list) = rest /\ InTurn(k.list, place)
      /\ \A r \in Route(k.to) : place[r] # None => place[r] < k.next
  BY <1>1, <1>21 DEF Holds, Knows, Route
<1>5. /\ N \in [Rooms -> Nat \cup {None}]
      /\ \A r \in Rooms : r \notin Items(k.list) => N[r] = place[r]
  BY <1>3, Typed, NumberedApart
<1>6. {N[r] : r \in rest} = 0..(Cardinality(rest) - 1)
  <2>1. rest \in SUBSET Rooms
    BY DEF Route
  <2> HIDE DEF rest
  <2> QED BY <1>3, <1>4, <2>1, NumberedAll
<1>7. \A q, r \in rest : place[q] # None /\ place[r] # None /\ place[q] < place[r] => N[q] < N[r]
  BY <1>3, <1>4, Typed, NumberedInTurn
<1> HIDE DEF N
<1>8. \A r \in Rooms : /\ place'[r] = IF r = k.room THEN k.next ELSE N[r]
                       /\ who'[r] = IF r = k.room THEN k.to ELSE who[r]
  BY <1>2, <1>5, Typed
<1>9. \A r \in rest : r \in Rooms /\ place'[r] = N[r] /\ r # k.room /\ who[r] = k.from
  BY <1>8 DEF Route
<1>10. \A r \in Route(k.to) : place[r] # None => place'[r] < place'[k.room]
  <2>1. \A r \in Route(k.to) : r \in Rooms /\ r \notin rest /\ r # k.room
    BY <1>3, <1>4 DEF Route
  <2> QED BY <1>3, <1>4, <1>5, <1>8, <2>1
<1>11. {place'[r] : r \in rest} = 0..(Cardinality(rest) - 1)
  <2> HIDE DEF rest
  <2>1. {place'[r] : r \in rest} = {N[r] : r \in rest}
    BY <1>9
  <2> QED BY <1>6, <2>1
<1>12. \A r \in Rooms : place'[r] # place[r] => who[r] = k.from
  BY <1>4, <1>5, <1>8, <1>9
<1> HIDE DEF rest
<1>13. \A q, r \in rest : place[q] # None /\ place[r] # None /\ place[q] < place[r] => place'[q] < place'[r]
  BY <1>7, <1>9
<1> QED BY <1>4, <1>8, <1>10, <1>11, <1>12, <1>13 DEF k, rest

\* Request c writes what its routes are and is done.
LEMMA MoveSound ==
  ASSUME RInv, NEW c \in Calls, CommitMove(c)
  PROVE  MovesInOrder /\ OwnRoutesOnly /\ BothTold
<1>1. \A d \in Calls : d # c => call'[d].pc = call[d].pc
  BY ZenonT(60), Typed DEF CommitMove, Proceed, Overtaken, CallRecs
<1>2. call'[c] = Informing(call[c]) /\ call[c] \in CallRecs /\ call[c].pc = "move" /\ Holds(call[c], who, place)
  BY Typed DEF CommitMove, Proceed, Overtaken
<1>3. MovesInOrder
  BY <1>1, MoveKeepsOrder DEF MovesInOrder, Moves
<1>4. OwnRoutesOnly
  BY <1>1, MoveKeepsOrder DEF OwnRoutesOnly
<1>5. BothTold
  <2>1. ASSUME call[c].stale = {}, who'[call[c].room] # who[call[c].room]
        PROVE  Items(call'[c].tell) = {who[call[c].room], who'[call[c].room]} \ {None}
    <3>1. /\ call[c].room \in Rooms /\ call[c].from \in Attendants \cup {None} /\ call[c].to \in Attendants \cup {None}
      BY <1>2 DEF Holds, CallRecs
    <3>2. who[call[c].room] = call[c].from /\ who'[call[c].room] = call[c].to
      BY <2>1, <3>1, MoveKeepsOrder
    <3> QED BY <1>2, <2>1, <3>1, <3>2, HeirsAre, InformingTells
  <2> QED BY <1>1, <2>1 DEF BothTold
<1> QED BY <1>3, <1>4, <1>5

LEMMA ReorderSound ==
  ASSUME RInv, NEW c \in Calls, CommitReorder(c)
  PROVE  MovesInOrder /\ OwnRoutesOnly /\ BothTold
<1>1. \A d \in Calls : d # c => call'[d].pc = call[d].pc
  BY Typed DEF CommitReorder, Proceed, Overtaken, CallRecs
<1>2. call[c] \in CallRecs /\ call[c].pc = "reorder" /\ Holds(call[c], who, place)
  BY Typed DEF CommitReorder
<1>3. ASSUME call[c].stale = {}, NEW r \in Rooms, place'[r] # place[r] PROVE who[r] = call[c].from
  <2>1. place'[r] = Numbered(call[c].list)[r]
    BY DEF CommitReorder
  <2>2. r \in Items(call[c].list)
    BY <1>2, <1>3, <2>1, Typed, NumberedApart DEF Holds, CallRecs
  <2> QED BY <1>2, <1>3, <2>2 DEF Holds, Knows
<1> QED BY <1>1, <1>2, <1>3 DEF MovesInOrder, Moves, OwnRoutesOnly, BothTold

LEMMA AssignSound ==
  ASSUME RInv, NEW c \in Calls, CommitAssign(c)
  PROVE  MovesInOrder /\ OwnRoutesOnly /\ BothTold
<1>1. \A d \in Calls : d # c => call'[d].pc = call[d].pc
  BY Typed DEF CommitAssign, Proceed, Overtaken, CallRecs
<1>2. /\ call'[c] = Informing(call[c]) /\ call[c] \in CallRecs /\ call[c].pc = "assign"
      /\ Holds(call[c], who, place) /\ place' = place
  BY Typed DEF CommitAssign, Proceed, Overtaken
<1>3. BothTold
  <2>1. ASSUME call[c].stale = {}, who'[call[c].room] # who[call[c].room]
        PROVE  Items(call'[c].tell) = {who[call[c].room], who'[call[c].room]} \ {None}
    <3>1. /\ call[c].room \in Rooms /\ call[c].from \in Attendants \cup {None} /\ call[c].to \in Attendants \cup {None}
      BY <1>2 DEF Holds, CallRecs
    <3>2. who[call[c].room] = call[c].from
      BY <1>2, <2>1 DEF Holds, Knows
    <3>3. who'[call[c].room] = call[c].to
      BY <3>1, Typed DEF CommitAssign
    <3> QED BY <1>2, <2>1, <3>1, <3>2, <3>3, HeirsAre, InformingTells
  <2> QED BY <1>1, <2>1 DEF BothTold
<1> QED BY <1>1, <1>2, <1>3 DEF MovesInOrder, Moves, OwnRoutesOnly

\* The other steps end no request.
LEMMA NoneEnds ==
  ASSUME \A d \in Calls : call[d].pc \in {"move", "reorder", "assign"} => call'[d].pc = call[d].pc
  PROVE  MovesInOrder /\ OwnRoutesOnly /\ BothTold
BY DEF MovesInOrder, Moves, OwnRoutesOnly, BothTold

LEMMA StepSound == RInv /\ [Next]_vars => MovesInOrder /\ OwnRoutesOnly /\ BothTold
<1> SUFFICES ASSUME RInv, [Next]_vars PROVE MovesInOrder /\ OwnRoutesOnly /\ BothTold
  OBVIOUS
<1>1. ASSUME NEW c \in Calls, CommitMove(c) \/ CommitReorder(c) \/ CommitAssign(c)
      PROVE  MovesInOrder /\ OwnRoutesOnly /\ BothTold
  BY <1>1, MoveSound, ReorderSound, AssignSound
<1>2. ASSUME NEW c \in Calls, Request(c) \/ Tell(c)
      PROVE  MovesInOrder /\ OwnRoutesOnly /\ BothTold
  <2>1. call[c].pc \in {"idle", "tell"} /\ \E k : call' = [call EXCEPT ![c] = k]
    BY <1>2 DEF Request, Tell, ReadMove, StartMove, ReadAssign, ReadReorder
  <2> QED BY <2>1, Typed, NoneEnds
<1>3. ASSUME NEW c \in Calls, ReadTarget(c) \/ ReadSource(c)
      PROVE  MovesInOrder /\ OwnRoutesOnly /\ BothTold
  BY <1>3, Typed, NoneEnds DEF ReadTarget, ReadSource, CallRecs
<1>4. CASE \E p \in Plans : ApplyPlan(p)
  BY <1>4, Typed, NoneEnds DEF ApplyPlan, Overtaken, CallRecs
<1>5. CASE UNCHANGED vars
  BY <1>5, NoneEnds DEF vars
<1> QED BY <1>1, <1>2, <1>3, <1>4, <1>5 DEF Next, Serve

\* For any number of rooms, attendants and requests: a move that nothing has overtaken puts its
\* room last and closes the gap behind it, no such request writes a foreign route, and both
\* attendants are told.
THEOREM MovesSound == Spec => OnlyOvertakenScrambles
<1>1. RInv /\ [Next]_vars => [MovesInOrder /\ OwnRoutesOnly /\ BothTold]_vars
  BY StepSound
<1> QED BY <1>1, InitRoutes, NextRoutes, PTL DEF Spec, OnlyOvertakenScrambles

-----------------------------------------------------------------------------
(***************************************************************************)
(* Decisions and begun rooms.                                              *)
(***************************************************************************)

DeskFields == {"pc", "id", "plan", "crew", "todo", "rows", "found", "rest", "stale"}
CallFields == {"pc", "room", "from", "to", "knows", "next", "list", "tell", "stale"}

Kinds == {"ABSENT", "UNASSIGNED", "EARLY_FINISH"}

Stored(F, M) == [kind : Kinds, from : F, moves : M,
                 status : {"OPEN", "REJECTED", "CONFIRMED", "SUPERSEDED"}, hasty : BOOLEAN]

\* What request k has read of the suggestions S, as long as no other wrote them.
Looks(k, S) ==
  "rows" \notin k.stale =>
    /\ k.pc \in {"supersede", "withdraw"} =>
         \A i \in k.rows : i \in DOMAIN S /\ S[i].status = "OPEN"
    /\ k.pc \in {"supersede", "create"} =>
         \A x \in k.found, i \in DOMAIN S :
           S[i].status \in {"OPEN", "REJECTED"} => Signature(S[i]) # Signature(x)
    /\ k.pc \in {"reject", "moving", "place"} => k.id \in DOMAIN S /\ S[k.id].status = "OPEN"

\* No finding comes twice, and each is of a known kind.
Differ(k) ==
  k.pc \in {"compare", "supersede", "create"} =>
    \A x, y \in k.found : x.kind \in Kinds /\ (Signature(x) = Signature(y) => x = y)

\* The room that request k takes, with the move j it makes, was not begun.
Takes(k, j) ==
  /\ k.pc = "place" => Head(k.rest)[1] \in k.todo
  /\ j.pc = "move" => k.pc = "moving" /\ j.room \in k.todo
  /\ j.pc \in {"idle", "move", "tell"}

Shelf == \E F, M : suggestions \in Seq(Stored(F, M))

Sound(k, j, S) ==
  DOMAIN k = DeskFields /\ DOMAIN j = CallFields /\ Looks(k, S) /\ Differ(k) /\ Takes(k, j)

DInv ==
  /\ Shelf
  /\ started \subseteq Rooms
  /\ who = [r \in Rooms |-> who[r]]
  /\ desk = [c \in Calls |-> desk[c]]
  /\ call = [c \in Calls |-> call[c]]
  /\ \A c \in Calls : Sound(desk[c], call[c], suggestions)

\* A check has its findings in hand.
Checking == {"compare", "supersede", "create"}

LEMMA Unnoticed ==
  ASSUME NEW k, DOMAIN k = DeskFields, NEW N
  PROVE  LET l == [k EXCEPT !.stale = @ \cup N]
         IN /\ DOMAIN l = DeskFields
            /\ l.pc = k.pc /\ l.id = k.id /\ l.todo = k.todo /\ l.rows = k.rows
            /\ l.found = k.found /\ l.rest = k.rest /\ l.stale = k.stale \cup N
            /\ l.crew = k.crew /\ l.plan = k.plan
BY DEF DeskFields

LEMMA FreeShape ==
  DOMAIN Free = DeskFields /\ Free.pc = "free" /\ Free.stale = {}
BY DEF Free, DeskFields

\* A fresh request that keeps up to three things in mind.
LEMMA FreeWith ==
  ASSUME NEW p, NEW v
  PROVE  LET k == [Free EXCEPT !.pc = p]
             l == [Free EXCEPT !.pc = p, !.id = v]
             n == [Free EXCEPT !.pc = p, !.crew = v]
         IN /\ DOMAIN k = DeskFields /\ k.pc = p
            /\ DOMAIN l = DeskFields /\ l.pc = p /\ l.id = v /\ l.stale = {}
            /\ DOMAIN n = DeskFields /\ n.pc = p
BY DEF Free, DeskFields

LEMMA DraftShape ==
  ASSUME NEW p, NEW v, NEW w, NEW x
  PROVE  LET k == [Free EXCEPT !.pc = p, !.crew = v, !.plan = w]
             l == [Free EXCEPT !.pc = p, !.id = v, !.plan = w, !.todo = x]
         IN /\ DOMAIN k = DeskFields /\ k.pc = p
            /\ DOMAIN l = DeskFields /\ l.pc = p
BY DEF Free, DeskFields

LEMMA IdleShape ==
  DOMAIN Idle = CallFields /\ Idle.pc = "idle"
BY DEF Idle, CallFields

\* A call that is not served: at most found out of date.
Same(j, l) == DOMAIN l = DOMAIN j /\ l.pc = j.pc /\ l.room = j.room

\* A call that is served: the move it makes stays the same until it is done.
Later(j, l) ==
  DOMAIN l = DOMAIN j /\ ((l.pc = j.pc /\ l.room = j.room) \/ l.pc \in {"idle", "tell"})

LEMMA OvertakenSame ==
  ASSUME NEW d \in Calls, DOMAIN call[d] = CallFields
  PROVE  Same(call[d], Overtaken[d])
BY DEF Overtaken, Same, CallFields

\* Whoever looks on.
LEMMA Bystander ==
  ASSUME NEW d \in Calls, Sound(desk[d], call[d], suggestions), Later(call[d], call'[d]),
         desk'[d] = IF desk[d].pc = "free" THEN Free ELSE [desk[d] EXCEPT !.stale = @ \cup News]
  PROVE  desk'[d].pc = desk[d].pc /\ Sound(desk'[d], call'[d], suggestions')
<1>1. CASE desk[d].pc = "free"
  <2>1. desk'[d] = Free /\ call'[d].pc # "move" /\ call'[d].pc \in {"idle", "tell"}
    BY <1>1 DEF Sound, Takes, Later
  <2> QED BY <1>1, <2>1, FreeShape DEF Sound, Looks, Differ, Takes, Later
<1>2. CASE desk[d].pc # "free"
  <2> DEFINE k == desk[d]
             l == [k EXCEPT !.stale = @ \cup News]
  <2>1. desk'[d] = l
    BY <1>2
  <2>2. DOMAIN k = DeskFields /\ Looks(k, suggestions) /\ Differ(k) /\ Takes(k, call[d])
    BY DEF Sound
  <2>3. /\ DOMAIN l = DeskFields
        /\ l.pc = k.pc /\ l.id = k.id /\ l.todo = k.todo /\ l.rows = k.rows
        /\ l.found = k.found /\ l.rest = k.rest /\ l.stale = k.stale \cup News
    BY <2>2, Unnoticed
  <2> HIDE DEF k, l
  <2>4. Looks(l, suggestions')
    <3>1. CASE suggestions' = suggestions
      BY <2>2, <2>3, <3>1 DEF Looks
    <3>2. CASE suggestions' # suggestions
      BY <2>3, <3>2 DEF Looks, News
    <3> QED BY <3>1, <3>2
  <2>5. Differ(l) /\ Takes(l, call'[d])
    BY <2>2, <2>3 DEF Differ, Takes, Later
  <2> QED BY <2>1, <2>3, <2>4, <2>5 DEF Sound, Later, k
<1> QED BY <1>1, <1>2

\* Request c goes on as k.
LEMMA Goes ==
  ASSUME DInv, NEW c \in Calls, NEW k, Continue(c, k), Sound(k, call'[c], suggestions'),
         Shelf', started' \subseteq Rooms, who' = [r \in Rooms |-> who'[r]],
         call' = [d \in Calls |-> call'[d]],
         \A d \in Calls \ {c} : Same(call[d], call'[d])
  PROVE  /\ DInv'
         /\ \A d \in Calls \ {c} : desk'[d].pc = desk[d].pc /\ call'[d].pc = call[d].pc
         /\ desk'[c] = k
<1>1. desk' = [d \in Calls |-> desk'[d]] /\ desk'[c] = k
  BY DEF Continue
<1>2. ASSUME NEW d \in Calls, d # c
      PROVE  desk'[d].pc = desk[d].pc /\ Sound(desk'[d], call'[d], suggestions')
  <2>1. desk'[d] = IF desk[d].pc = "free" THEN Free ELSE [desk[d] EXCEPT !.stale = @ \cup News]
    BY <1>2 DEF Continue
  <2> QED BY <1>2, <2>1, Bystander DEF DInv, Same, Later
<1>3. \A d \in Calls : Sound(desk'[d], call'[d], suggestions')
  BY <1>1, <1>2
<1> QED BY <1>1, <1>2, <1>3 DEF DInv, Same

\* The board and the suggestions stay as they are.
LEMMA GoesQuietly ==
  ASSUME DInv, NEW c \in Calls, NEW k, Continue(c, k), Sound(k, call[c], suggestions),
         UNCHANGED <<who, call, suggestions>>, started' = started
  PROVE  /\ DInv'
         /\ \A d \in Calls \ {c} : desk'[d].pc = desk[d].pc /\ call'[d].pc = call[d].pc
         /\ desk'[c] = k
<1>1. Shelf' /\ started' \subseteq Rooms /\ who' = [r \in Rooms |-> who'[r]]
      /\ call' = [d \in Calls |-> call'[d]]
  BY DEF DInv, Shelf, Stored
<1>2. Sound(k, call'[c], suggestions') /\ \A d \in Calls : Same(call[d], call'[d])
  BY DEF Same
<1> QED BY <1>1, <1>2, Goes

LEMMA Harmless ==
  ASSUME NEW k, NEW j, NEW S, DOMAIN k = DeskFields, DOMAIN j = CallFields,
         k.pc \in {"free", "retire", "draft", "confirm", "check", "return"},
         j.pc \in {"idle", "tell"}
  PROVE  Sound(k, j, S)
BY DEF Sound, Looks, Differ, Takes

\* Whoever is not in a decision has no move under way.
LEMMA NoMove ==
  ASSUME DInv, NEW c \in Calls, desk[c].pc # "moving"
  PROVE  DOMAIN call[c] = CallFields /\ call[c].pc \in {"idle", "tell"}
BY DEF DInv, Sound, Takes

LEMMA PlanSteps ==
  ASSUME DInv, NEW c \in Calls,
         \/ \E crew \in SUBSET Attendants : Propose(c, crew)
         \/ RetireDrafts(c) \/ StoreDraft(c)
         \/ \E i \in DOMAIN proposals :
              \E f \in [DOMAIN proposals[i].fixed -> proposals[i].crew \cup {None}] : ReadDraft(c, i, f)
  PROVE  /\ DInv' /\ \A d \in Calls \ {c} : desk'[d].pc = desk[d].pc /\ call'[d].pc = call[d].pc
         /\ desk'[c].pc \notin Checking
<1>1. UNCHANGED <<who, call, suggestions, started>>
  BY DEF Propose, RetireDrafts, StoreDraft, ReadDraft, Board
<1>2. desk[c].pc # "moving" /\ DOMAIN desk[c] = DeskFields
  BY DEF Propose, RetireDrafts, StoreDraft, ReadDraft, IsFree, DInv, Sound
<1>3. PICK k : Continue(c, k) /\ DOMAIN k = DeskFields /\ k.pc \in {"free", "retire", "draft", "confirm"}
  <2>1. CASE \E crew \in SUBSET Attendants : Propose(c, crew)
    <3>1. PICK crew \in SUBSET Attendants : Propose(c, crew)
      BY <2>1
    <3> DEFINE w == [r \in {q \in Rooms : InPlan(q)} |-> who[r]]
    <3> DEFINE k == [Free EXCEPT !.pc = "retire", !.crew = crew, !.plan = w]
    <3>2. Continue(c, k)
      BY <3>1 DEF Propose
    <3> HIDE DEF w
    <3>3. DOMAIN k = DeskFields /\ k.pc = "retire"
      BY DraftShape
    <3> HIDE DEF k
    <3> QED BY ZenonT(60), <3>2, <3>3
  <2>2. CASE RetireDrafts(c)
    BY <1>2, <2>2 DEF RetireDrafts, DeskFields
  <2>3. CASE StoreDraft(c)
    BY <2>3, FreeShape DEF StoreDraft
  <2>4. CASE \E i \in DOMAIN proposals :
               \E f \in [DOMAIN proposals[i].fixed -> proposals[i].crew \cup {None}] : ReadDraft(c, i, f)
    <3>1. PICK i, f : ReadDraft(c, i, f)
      BY <2>4
    <3> DEFINE x == DOMAIN f \ started
    <3> DEFINE k == [Free EXCEPT !.pc = "confirm", !.id = i, !.plan = f, !.todo = x]
    <3>2. Continue(c, k)
      BY <3>1 DEF ReadDraft
    <3> HIDE DEF x
    <3>3. DOMAIN k = DeskFields /\ k.pc = "confirm"
      BY DraftShape
    <3> HIDE DEF k
    <3> QED BY <3>2, <3>3
  <2> QED BY <2>1, <2>2, <2>3, <2>4
<1>4. Sound(k, call[c], suggestions)
  BY <1>2, <1>3, NoMove, Harmless
<1> QED BY <1>1, <1>3, <1>4, GoesQuietly DEF Checking

LEMMA ConfirmStep ==
  ASSUME DInv, NEW c \in Calls, NEW s, CommitConfirm(c, s)
  PROVE  /\ DInv' /\ \A d \in Calls \ {c} : desk'[d].pc = desk[d].pc /\ call'[d].pc = call[d].pc
         /\ desk'[c].pc \notin Checking
<1>1. /\ suggestions' = suggestions /\ started' = started
      /\ who' = [r \in Rooms |-> who'[r]] /\ call' = Overtaken
      /\ Continue(c, Free)
  BY DEF CommitConfirm
<1>2. \A d \in Calls : Same(call[d], call'[d])
  BY <1>1, OvertakenSame DEF DInv, Sound
<1>3. Sound(Free, call'[c], suggestions')
  BY <1>2, NoMove, FreeShape, Harmless DEF Same, CommitConfirm
<1>4. Shelf' /\ started' \subseteq Rooms /\ call' = [d \in Calls |-> call'[d]]
  BY <1>1 DEF DInv, Shelf, Stored, Overtaken
<1> QED BY <1>1, <1>2, <1>3, <1>4, FreeShape, Goes DEF Checking

LEMMA ReturnSteps ==
  ASSUME DInv, NEW c \in Calls, \E a \in Attendants : SetAbsent(c, a) \/ SetBack(c, a)
  PROVE  /\ DInv' /\ \A d \in Calls \ {c} : desk'[d].pc = desk[d].pc /\ call'[d].pc = call[d].pc
         /\ desk'[c].pc \notin Checking
<1>1. UNCHANGED <<who, call, suggestions, started>>
  BY DEF SetAbsent, SetBack, Board
<1>2. desk[c].pc # "moving"
  BY DEF SetAbsent, SetBack, IsFree
<1>3. PICK k : Continue(c, k) /\ DOMAIN k = DeskFields /\ k.pc \in {"check", "return"}
  <2>1. CASE \E a \in Attendants : SetAbsent(c, a)
    BY <2>1, FreeWith DEF SetAbsent
  <2>2. CASE \E a \in Attendants : SetBack(c, a)
    <3>1. PICK a : SetBack(c, a)
      BY <2>2
    <3> DEFINE v == {a}
               k == [Free EXCEPT !.pc = "return", !.crew = v]
    <3>2. Continue(c, k)
      BY <3>1 DEF SetBack
    <3> HIDE DEF v
    <3>3. DOMAIN k = DeskFields /\ k.pc = "return"
      BY FreeWith
    <3> HIDE DEF k
    <3> QED BY <3>2, <3>3
  <2> QED BY <2>1, <2>2
<1>4. Sound(k, call[c], suggestions)
  BY <1>2, <1>3, NoMove, Harmless
<1> QED BY <1>1, <1>3, <1>4, GoesQuietly DEF Checking

LEMMA FailStep ==
  ASSUME DInv, NEW c \in Calls, Fail(c)
  PROVE  /\ DInv' /\ \A d \in Calls \ {c} : desk'[d].pc = desk[d].pc /\ call'[d].pc = call[d].pc
         /\ desk'[c].pc \notin Checking
<1>1. /\ suggestions' = suggestions /\ started' = started /\ who' = who
      /\ call' = [call EXCEPT ![c] = Idle] /\ Continue(c, Free)
  BY DEF Fail
<1>2. call' = [d \in Calls |-> call'[d]] /\ call'[c] = Idle /\ \A d \in Calls \ {c} : Same(call[d], call'[d])
  BY <1>1 DEF DInv, Same
<1>3. Sound(Free, call'[c], suggestions')
  BY <1>2, FreeShape, IdleShape, Harmless
<1>4. Shelf' /\ started' \subseteq Rooms /\ who' = [r \in Rooms |-> who'[r]]
  BY <1>1 DEF DInv, Shelf, Stored
<1> QED BY <1>1, <1>2, <1>3, <1>4, FreeShape, Goes DEF Checking

\* What of the rooms of attendant a a check must find a place for.
Due(a) == Takeable(Left(a))

\* The places for a set of rooms are for just those somebody may take, and there are some.
LEMMA PlacedRooms ==
  ASSUME NEW S, NEW f \in Placements(S)
  PROVE  DOMAIN f = Takeable(S) /\ Takeable(S) # {}
BY DEF Placements

LEMMA FindingsDiffer ==
  ASSUME NEW F \in Findings, NEW x \in F, NEW y \in F
  PROVE  x.kind \in Kinds /\ (Signature(x) = Signature(y) => x = y)
<1> DEFINE options == ({SuggestAbsent(a) : a \in absent}
                       \cup {SuggestUnassigned, SuggestEarlyFinish}) \ {{}}
<1>1. PICK p \in [options -> UNION options] :
        (\A O \in options : p[O] \in O) /\ F = {p[O] : O \in options}
  BY DEF Findings
<1>2. PICK O \in options : x = p[O]
  BY <1>1
<1>3. PICK Q \in options : y = p[Q]
  BY <1>1
<1>4. x \in O /\ y \in Q
  BY <1>1, <1>2, <1>3
<1>5. \A u \in SuggestUnassigned : u.kind = "UNASSIGNED"
  <2> SUFFICES ASSUME NEW u \in SuggestUnassigned PROVE u.kind = "UNASSIGNED"
    OBVIOUS
  <2>1. \E f : u = Suggestion("UNASSIGNED", None, f)
    BY DEF SuggestUnassigned
  <2> QED BY <2>1 DEF Suggestion
<1>6. \A u \in SuggestEarlyFinish : u.kind = "EARLY_FINISH"
  <2> SUFFICES ASSUME NEW u \in SuggestEarlyFinish PROVE u.kind = "EARLY_FINISH"
    OBVIOUS
  <2>1. \E f : u = Suggestion("EARLY_FINISH", None, f)
    BY DEF SuggestEarlyFinish
  <2> QED BY <2>1 DEF Suggestion
<1>7. \A a \in absent : \A u \in SuggestAbsent(a) :
        u.kind = "ABSENT" /\ DOMAIN u.moves = Due(a) /\ Due(a) # {}
  <2> SUFFICES ASSUME NEW a \in absent, NEW u \in SuggestAbsent(a)
               PROVE  u.kind = "ABSENT" /\ DOMAIN u.moves = Due(a) /\ Due(a) # {}
    OBVIOUS
  <2>1. PICK f \in Placements(Left(a)) : u = Suggestion("ABSENT", a, f)
    BY DEF SuggestAbsent
  <2>2. u.kind = "ABSENT" /\ u.moves = f
    BY <2>1 DEF Suggestion
  <2> QED BY <2>2, PlacedRooms DEF Due
<1>8. \A a, b \in absent : Due(a) = Due(b) /\ Due(a) # {} => a = b
  BY DEF Due, Takeable, Left, Route
<1>9. ASSUME Signature(x) = Signature(y) PROVE O = Q
  <2>1. x.kind = y.kind /\ x.moves = y.moves
    BY <1>9 DEF Signature
  <2>2. CASE \E a \in absent : O = SuggestAbsent(a)
    <3>1. PICK a \in absent : O = SuggestAbsent(a)
      BY <2>2
    <3>2. x.kind = "ABSENT"
      BY <1>4, <1>7, <2>1, <3>1
    <3>3. PICK b \in absent : Q = SuggestAbsent(b)
      BY <1>4, <1>5, <1>6, <2>1, <3>2
    <3> HIDE DEF options
    <3>4. a = b
      BY <1>4, <1>7, <1>8, <2>1, <3>1, <3>3
    <3> QED BY <3>1, <3>3, <3>4
  <2>3. CASE O = SuggestUnassigned
    BY <1>4, <1>5, <1>6, <1>7, <2>1, <2>3
  <2>4. CASE O = SuggestEarlyFinish
    BY <1>4, <1>5, <1>6, <1>7, <2>1, <2>4
  <2> QED BY <2>2, <2>3, <2>4
<1>10. x.kind \in Kinds
  <2> HIDE DEF options
  <2>1. (\E a \in absent : O = SuggestAbsent(a)) \/ O = SuggestUnassigned \/ O = SuggestEarlyFinish
    BY DEF options
  <2> QED BY <1>4, <1>5, <1>6, <1>7, <2>1 DEF Kinds
<1> QED BY <1>2, <1>3, <1>9, <1>10

LEMMA CheckLoadStep ==
  ASSUME DInv, NEW c \in Calls, CheckLoad(c)
  PROVE  DInv' /\ \A d \in Calls \ {c} : desk'[d].pc = desk[d].pc /\ call'[d].pc = call[d].pc
<1>1. UNCHANGED <<who, call, suggestions, started>>
  BY DEF CheckLoad, Board
<1>2. DOMAIN call[c] = CallFields /\ call[c].pc \in {"idle", "tell"}
  BY NoMove DEF CheckLoad, IsFree
<1>3. PICK k : Continue(c, k) /\ Sound(k, call[c], suggestions)
  <2>1. CASE Continue(c, Free)
    BY <1>2, <2>1, FreeShape, Harmless
  <2>2. CASE \E f \in Findings : Continue(c, [Free EXCEPT !.pc = "compare", !.found = f])
    <3>1. PICK f \in Findings : Continue(c, [Free EXCEPT !.pc = "compare", !.found = f])
      BY <2>2
    <3> DEFINE k == [Free EXCEPT !.pc = "compare", !.found = f]
    <3>2. DOMAIN k = DeskFields /\ k.pc = "compare" /\ k.found = f
      BY FreeShape DEF Free
    <3> HIDE DEF k
    <3>3. Differ(k)
      BY <3>2, FindingsDiffer DEF Differ
    <3>4. Sound(k, call[c], suggestions)
      BY <1>2, <3>2, <3>3 DEF Sound, Looks, Takes
    <3> QED BY <3>1, <3>4 DEF k
  <2> QED BY <2>1, <2>2 DEF CheckLoad
<1> QED BY <1>1, <1>3, GoesQuietly

LEMMA CompareStep ==
  ASSUME DInv, NEW c \in Calls, CheckCompare(c)
  PROVE  DInv' /\ \A d \in Calls \ {c} : desk'[d].pc = desk[d].pc /\ call'[d].pc = call[d].pc
<1> DEFINE k == desk[c]
           sigs == {Signature(suggestions[i]) : i \in Known}
           left == {x \in k.found : Signature(x) \notin sigs}
           old == {i \in Known : /\ suggestions[i].status = "OPEN"
                                 /\ \A x \in k.found : Signature(suggestions[i]) # Signature(x)}
           l == [k EXCEPT !.pc = "supersede", !.stale = @ \ {"rows"}, !.found = left, !.rows = old]
<1>1. k.pc = "compare" /\ DOMAIN k = DeskFields /\ Differ(k)
  BY DEF CheckCompare, DInv, Sound
<1>2. DOMAIN call[c] = CallFields /\ call[c].pc \in {"idle", "tell"}
  BY <1>1, NoMove
<1>3. DOMAIN l = DeskFields /\ l.pc = "supersede" /\ l.found = left /\ l.rows = old
  BY <1>1 DEF DeskFields
<1>4. Continue(c, l) /\ UNCHANGED <<who, call, suggestions, started>>
  <2>1. [k EXCEPT !.pc = "supersede", !.stale = @ \ {"rows"},
                  !.found = {x \in @ : Signature(x) \notin sigs}, !.rows = old] = l
    <3> HIDE DEF sigs, old
    <3> QED BY <1>1 DEF DeskFields
  <2> QED BY <2>1 DEF CheckCompare, Board
<1> HIDE DEF l
<1>5. Looks(l, suggestions)
  <2>1. \A i \in l.rows : i \in DOMAIN suggestions /\ suggestions[i].status = "OPEN"
    BY <1>3 DEF Known
  <2>2. ASSUME NEW x \in l.found, NEW i \in DOMAIN suggestions,
               suggestions[i].status \in {"OPEN", "REJECTED"}
        PROVE  Signature(suggestions[i]) # Signature(x)
    <3>1. i \in Known
      BY <2>2 DEF Known
    <3> QED BY <1>3, <3>1
  <2> QED BY <1>3, <2>1, <2>2 DEF Looks
<1>6. Differ(l)
  BY <1>1, <1>3 DEF Differ
<1>7. Sound(l, call[c], suggestions)
  BY <1>2, <1>3, <1>5, <1>6 DEF Sound, Takes
<1> QED BY <1>4, <1>7, GoesQuietly

\* The fields of a stored suggestion.
LEMMA StoredShape ==
  ASSUME NEW F, NEW M, NEW s \in Stored(F, M), NEW st \in {"OPEN", "REJECTED", "CONFIRMED", "SUPERSEDED"}
  PROVE  LET t == [s EXCEPT !.status = st]
         IN t \in Stored(F, M) /\ t.status = st /\ Signature(t) = Signature(s)
BY DEF Stored, Signature

LEMMA SupersedeEffect ==
  ASSUME DInv, NEW c \in Calls, Supersede(c)
  PROVE  /\ Shelf' /\ DOMAIN suggestions' = DOMAIN suggestions /\ Len(suggestions') = Len(suggestions)
         /\ \A i \in DOMAIN suggestions :
              /\ Signature(suggestions'[i]) = Signature(suggestions[i])
              /\ i \in desk[c].rows => suggestions'[i].status = "SUPERSEDED"
              /\ i \notin desk[c].rows => suggestions'[i] = suggestions[i]
<1>1. PICK F, M : suggestions \in Seq(Stored(F, M))
  BY DEF DInv, Shelf
<1>2. Len(suggestions) \in Nat /\ DOMAIN suggestions = 1..Len(suggestions)
      /\ \A i \in DOMAIN suggestions : suggestions[i] \in Stored(F, M)
  BY <1>1
<1>3. suggestions' = [i \in DOMAIN suggestions |->
                        IF i \in desk[c].rows THEN [suggestions[i] EXCEPT !.status = "SUPERSEDED"]
                        ELSE suggestions[i]]
  BY DEF Supersede
<1>4. \A i \in DOMAIN suggestions :
        /\ suggestions'[i] \in Stored(F, M)
        /\ Signature(suggestions'[i]) = Signature(suggestions[i])
        /\ i \in desk[c].rows => suggestions'[i].status = "SUPERSEDED"
        /\ i \notin desk[c].rows => suggestions'[i] = suggestions[i]
  <2> SUFFICES ASSUME NEW i \in DOMAIN suggestions
               PROVE  /\ suggestions'[i] \in Stored(F, M)
                      /\ Signature(suggestions'[i]) = Signature(suggestions[i])
                      /\ i \in desk[c].rows => suggestions'[i].status = "SUPERSEDED"
                      /\ i \notin desk[c].rows => suggestions'[i] = suggestions[i]
    OBVIOUS
  <2>1. CASE i \in desk[c].rows
    <3> DEFINE s == suggestions[i]
               t == [s EXCEPT !.status = "SUPERSEDED"]
    <3>1. suggestions'[i] = t
      BY <1>3, <2>1
    <3>2. s \in Stored(F, M)
      BY <1>2
    <3> HIDE DEF s
    <3>3. t \in Stored(F, M) /\ t.status = "SUPERSEDED" /\ Signature(t) = Signature(s)
      BY <3>2 DEF Stored, Signature
    <3> HIDE DEF t
    <3> QED BY <2>1, <3>1, <3>3 DEF s
  <2>2. CASE i \notin desk[c].rows
    BY <1>2, <1>3, <2>2
  <2> QED BY <2>1, <2>2
<1>5. DOMAIN suggestions' = DOMAIN suggestions /\ suggestions' \in [1..Len(suggestions) -> Stored(F, M)]
  BY <1>2, <1>3, <1>4
<1>6. suggestions' \in Seq(Stored(F, M)) /\ Len(suggestions') = Len(suggestions)
  BY <1>2, <1>5
<1>7. Shelf'
  BY <1>6 DEF Shelf, Stored
<1> QED BY <1>4, <1>5, <1>6, <1>7

LEMMA SupersedeStep ==
  ASSUME DInv, NEW c \in Calls, Supersede(c)
  PROVE  /\ DInv' /\ \A d \in Calls \ {c} : desk'[d].pc = desk[d].pc /\ call'[d].pc = call[d].pc
         /\ desk'[c].pc # desk[c].pc
<1> DEFINE k == desk[c]
           l == IF k.pc = "withdraw" THEN [Free EXCEPT !.pc = "check"]
                ELSE IF k.found = {} THEN Free ELSE [k EXCEPT !.pc = "create"]
<1>1. k.pc \in {"supersede", "withdraw"} /\ DOMAIN k = DeskFields /\ Differ(k) /\ Looks(k, suggestions)
  BY DEF Supersede, DInv, Sound
<1>2. DOMAIN call[c] = CallFields /\ call[c].pc \in {"idle", "tell"}
  BY <1>1, NoMove
<1>3. Continue(c, l) /\ UNCHANGED <<who, call, started>>
  BY DEF Supersede, Board
<1>4. Sound(l, call[c], suggestions')
  <2>1. CASE k.pc = "withdraw"
    <3>1. DOMAIN l = DeskFields /\ l.pc = "check"
      BY <2>1, FreeShape DEF Free
    <3> QED BY <1>2, <3>1, Harmless
  <2>2. CASE k.pc # "withdraw" /\ k.found = {}
    BY <1>2, <2>2, FreeShape, Harmless
  <2>3. CASE k.pc # "withdraw" /\ k.found # {}
    <3>1. /\ DOMAIN l = DeskFields /\ l.pc = "create" /\ l.found = k.found /\ l.stale = k.stale
      BY <1>1, <2>3 DEF DeskFields
    <3> HIDE DEF k, l
    <3>2. Looks(l, suggestions')
      <4> SUFFICES ASSUME "rows" \notin k.stale, NEW x \in k.found, NEW i \in DOMAIN suggestions,
                          suggestions'[i].status \in {"OPEN", "REJECTED"}
                   PROVE  Signature(suggestions'[i]) # Signature(x)
        BY <3>1, SupersedeEffect DEF Looks
      <4>1. suggestions'[i] = suggestions[i]
        BY SupersedeEffect
      <4> QED BY <1>1, <2>3, <4>1 DEF Looks
    <3>3. Differ(l) /\ Takes(l, call[c])
      BY <1>1, <1>2, <2>3, <3>1 DEF Differ, Takes
    <3> QED BY <1>2, <3>1, <3>2, <3>3 DEF Sound
  <2> QED BY <2>1, <2>2, <2>3
<1>5. l.pc # k.pc
  BY <1>1, FreeShape DEF Free, DeskFields
<1> HIDE DEF l
<1>6. /\ started' \subseteq Rooms /\ who' = [r \in Rooms |-> who'[r]]
      /\ call' = [d \in Calls |-> call'[d]] /\ call'[c] = call[c] /\ \A d \in Calls : Same(call[d], call'[d])
  BY <1>3 DEF DInv, Same
<1> QED BY <1>3, <1>4, <1>5, <1>6, SupersedeEffect, Goes

LEMMA CreateEffect ==
  ASSUME DInv, NEW c \in Calls, NEW x, Create(c, x),
         x.kind \in Kinds
  PROVE  LET n == Len(suggestions) + 1
         IN /\ Shelf' /\ DOMAIN suggestions' = DOMAIN suggestions \cup {n} /\ Len(suggestions') = n
            /\ n \notin DOMAIN suggestions
            /\ \A i \in DOMAIN suggestions : suggestions'[i] = suggestions[i]
            /\ Signature(suggestions'[n]) = Signature(x)
            /\ suggestions'[n].hasty = ("rows" \in desk[c].stale)
<1>1. PICK F, M : suggestions \in Seq(Stored(F, M))
  BY DEF DInv, Shelf
<1> DEFINE h == "rows" \in desk[c].stale
           s == [kind |-> x.kind, from |-> x.from, moves |-> x.moves, status |-> "OPEN", hasty |-> h]
           G == F \cup {x.from}
           N == M \cup {x.moves}
<1>2. suggestions' = Append(suggestions, s)
  BY DEF Create
<1>3. h \in BOOLEAN
  OBVIOUS
<1>4. s.hasty = h /\ Signature(s) = Signature(x)
  BY DEF Signature
<1>5. s \in Stored(G, N)
  <2> HIDE DEF h
  <2> QED BY <1>3 DEF Stored
<1>6. Stored(F, M) \subseteq Stored(G, N)
  BY DEF Stored
<1> HIDE DEF s, G, N, h
<1>7. Len(suggestions) \in Nat /\ suggestions \in [1..Len(suggestions) -> Stored(F, M)]
  BY <1>1
<1>8. suggestions \in [1..Len(suggestions) -> Stored(G, N)]
  BY <1>6, <1>7
<1>9. suggestions \in Seq(Stored(G, N))
  BY <1>7, <1>8
<1>10. /\ suggestions' \in Seq(Stored(G, N)) /\ DOMAIN suggestions' = 1..(Len(suggestions) + 1)
       /\ DOMAIN suggestions = 1..Len(suggestions) /\ Len(suggestions') = Len(suggestions) + 1
       /\ \A i \in DOMAIN suggestions : suggestions'[i] = suggestions[i]
       /\ suggestions'[Len(suggestions) + 1] = s
  BY <1>2, <1>5, <1>9
<1>11. Shelf'
  BY <1>10 DEF Shelf, Stored
<1>12. DOMAIN suggestions' = DOMAIN suggestions \cup {Len(suggestions) + 1}
       /\ Len(suggestions) + 1 \notin DOMAIN suggestions
  BY <1>7, <1>10
<1> QED BY <1>4, <1>10, <1>11, <1>12 DEF h

LEMMA CreateStep ==
  ASSUME DInv, NEW c \in Calls, NEW x \in desk[c].found, Create(c, x),
         x.kind \in Kinds
  PROVE  DInv' /\ \A d \in Calls \ {c} : desk'[d].pc = desk[d].pc /\ call'[d].pc = call[d].pc
<1> DEFINE k == desk[c]
           rest == k.found \ {x}
           l == IF k.found = {x} THEN Free ELSE [k EXCEPT !.found = rest]
<1>1. k.pc = "create" /\ DOMAIN k = DeskFields /\ Differ(k) /\ Looks(k, suggestions)
  BY DEF Create, DInv, Sound
<1>2. DOMAIN call[c] = CallFields /\ call[c].pc \in {"idle", "tell"}
  BY <1>1, NoMove
<1>3. Continue(c, l) /\ UNCHANGED <<who, call, started>>
  <2>1. [k EXCEPT !.found = @ \ {x}] = [k EXCEPT !.found = rest]
    BY <1>1 DEF DeskFields
  <2> QED BY <2>1 DEF Create, Board
<1>4. Sound(l, call[c], suggestions')
  <2>1. CASE k.found = {x}
    BY <1>2, <2>1, FreeShape, Harmless
  <2>2. CASE k.found # {x}
    <3>1. DOMAIN l = DeskFields /\ l.pc = "create" /\ l.found = rest /\ l.stale = k.stale
      <4> HIDE DEF rest
      <4> QED BY <1>1, <2>2 DEF DeskFields
    <3>2. Looks(l, suggestions')
      <4> SUFFICES ASSUME "rows" \notin k.stale, NEW y \in rest, NEW i \in DOMAIN suggestions',
                          suggestions'[i].status \in {"OPEN", "REJECTED"}
                   PROVE  Signature(suggestions'[i]) # Signature(y)
        <5> HIDE DEF l, k, rest
        <5> QED BY <3>1 DEF Looks
      <4>1. CASE i \in DOMAIN suggestions
        BY <1>1, <4>1, CreateEffect DEF Looks
      <4>2. CASE i \notin DOMAIN suggestions
        <5>1. Signature(suggestions'[i]) = Signature(x)
          BY <4>2, CreateEffect
        <5> QED BY <1>1, <5>1 DEF Differ
      <4> QED BY <4>1, <4>2
    <3>3. Differ(l) /\ Takes(l, call[c])
      <4> HIDE DEF l
      <4> QED BY <1>1, <1>2, <3>1 DEF Differ, Takes
    <3> HIDE DEF l
    <3> QED BY <1>2, <3>1, <3>2, <3>3 DEF Sound
  <2> QED BY <2>1, <2>2
<1> HIDE DEF l
<1>6. /\ started' \subseteq Rooms /\ who' = [r \in Rooms |-> who'[r]]
      /\ call' = [d \in Calls |-> call'[d]] /\ call'[c] = call[c] /\ \A d \in Calls : Same(call[d], call'[d])
  BY <1>3 DEF DInv, Same
<1> QED BY <1>3, <1>4, <1>6, CreateEffect, Goes

LEMMA DecideEffect ==
  ASSUME DInv, NEW c \in Calls, NEW st \in {"REJECTED", "CONFIRMED"}, NEW pc, Decide(c, st, pc)
  PROVE  /\ Shelf' /\ DOMAIN suggestions' = DOMAIN suggestions /\ Len(suggestions') = Len(suggestions)
         /\ \A i \in DOMAIN suggestions \ {desk[c].id} : suggestions'[i] = suggestions[i]
<1>1. PICK F, M : suggestions \in Seq(Stored(F, M))
  BY DEF DInv, Shelf
<1>2. Len(suggestions) \in Nat /\ DOMAIN suggestions = 1..Len(suggestions)
      /\ \A i \in DOMAIN suggestions : suggestions[i] \in Stored(F, M)
  BY <1>1
<1> DEFINE n == desk[c].id
<1>3. suggestions' = [suggestions EXCEPT ![n].status = st]
  BY DEF Decide
<1> HIDE DEF n
<1>4. DOMAIN suggestions' = DOMAIN suggestions
      /\ \A i \in DOMAIN suggestions \ {n} : suggestions'[i] = suggestions[i]
  BY <1>3
<1>5. ASSUME n \in DOMAIN suggestions PROVE suggestions'[n] \in Stored(F, M)
  <2> DEFINE s == suggestions[n]
             t == [s EXCEPT !.status = st]
  <2>1. suggestions'[n] = t
    BY <1>3, <1>5
  <2>2. s \in Stored(F, M)
    BY <1>2, <1>5
  <2> HIDE DEF s
  <2>3. t \in Stored(F, M)
    BY <2>2, StoredShape
  <2> QED BY <2>1, <2>3
<1>6. suggestions' \in [1..Len(suggestions) -> Stored(F, M)]
  <2>1. \A i \in DOMAIN suggestions : suggestions'[i] \in Stored(F, M)
    BY <1>2, <1>4, <1>5
  <2>2. suggestions' = [i \in DOMAIN suggestions' |-> suggestions'[i]]
    BY <1>3
  <2> QED BY <1>2, <1>4, <2>1, <2>2
<1>7. suggestions' \in Seq(Stored(F, M)) /\ Len(suggestions') = Len(suggestions)
  BY <1>2, <1>6
<1>8. Shelf'
  BY <1>7 DEF Shelf, Stored
<1> QED BY <1>4, <1>7, <1>8 DEF n

LEMMA DecideStep ==
  ASSUME DInv, NEW c \in Calls, Reject(c) \/ MarkConfirmed(c)
  PROVE  /\ DInv' /\ \A d \in Calls \ {c} : desk'[d].pc = desk[d].pc /\ call'[d].pc = call[d].pc
         /\ desk'[c].pc \notin Checking
         /\ desk'[c].pc # desk[c].pc
<1>1. PICK st \in {"REJECTED", "CONFIRMED"}, pc \in {"free", "check"} : Decide(c, st, pc)
  BY DEF Reject, MarkConfirmed
<1> DEFINE l == [Free EXCEPT !.pc = pc]
<1>2. DOMAIN call[c] = CallFields /\ call[c].pc \in {"idle", "tell"} /\ desk[c].pc \in {"reject", "moving"}
  BY NoMove DEF Reject, MarkConfirmed, DInv, Sound
<1>3. Continue(c, l) /\ UNCHANGED <<who, call, started>>
  BY <1>1 DEF Decide, Board
<1>4. DOMAIN l = DeskFields /\ l.pc = pc
  BY FreeWith
<1> HIDE DEF l
<1>5. Sound(l, call[c], suggestions')
  BY <1>2, <1>4, Harmless
<1>6. /\ started' \subseteq Rooms /\ who' = [r \in Rooms |-> who'[r]]
      /\ call' = [d \in Calls |-> call'[d]] /\ call'[c] = call[c] /\ \A d \in Calls : Same(call[d], call'[d])
  BY <1>3 DEF DInv, Same
<1>7. Shelf'
  BY <1>1, DecideEffect
<1>8. l.pc # desk[c].pc
  BY <1>2, <1>4
<1> QED BY <1>3, <1>4, <1>5, <1>6, <1>7, <1>8, Goes DEF Checking

LEMMA ReadSuggestionStep ==
  ASSUME DInv, NEW c \in Calls, NEW i \in DOMAIN suggestions, ReadSuggestion(c, i)
  PROVE  /\ DInv' /\ \A d \in Calls \ {c} : desk'[d].pc = desk[d].pc /\ call'[d].pc = call[d].pc
         /\ desk'[c].pc \notin Checking
<1>1. DOMAIN call[c] = CallFields /\ call[c].pc = "idle"
  BY NoMove DEF ReadSuggestion, IsFree
<1>2. UNCHANGED <<who, call, suggestions, started>> /\ suggestions[i].status = "OPEN"
  BY DEF ReadSuggestion, Board
<1>3. PICK k : Continue(c, k) /\ DOMAIN k = DeskFields /\ k.pc \in {"reject", "moving"} /\ k.id = i
  <2>1. CASE Continue(c, [Free EXCEPT !.pc = "reject", !.id = i])
    <3> DEFINE k == [Free EXCEPT !.pc = "reject", !.id = i]
    <3>1. Continue(c, k) /\ DOMAIN k = DeskFields /\ k.pc = "reject" /\ k.id = i
      BY <2>1, FreeWith
    <3> HIDE DEF k
    <3> QED BY <3>1
  <2>2. CASE \E v : Continue(c, [Free EXCEPT !.pc = "moving", !.id = i, !.rest = v])
    <3>1. PICK v : Continue(c, [Free EXCEPT !.pc = "moving", !.id = i, !.rest = v])
      BY <2>2
    <3> DEFINE k == [Free EXCEPT !.pc = "moving", !.id = i, !.rest = v]
    <3>2. DOMAIN k = DeskFields /\ k.pc = "moving" /\ k.id = i
      BY DEF Free, DeskFields
    <3> HIDE DEF k
    <3> QED BY <3>1, <3>2 DEF k
  <2> QED BY <2>1, <2>2 DEF ReadSuggestion
<1>4. Sound(k, call[c], suggestions)
  BY <1>1, <1>2, <1>3 DEF Sound, Looks, Differ, Takes
<1> QED BY <1>2, <1>3, <1>4, GoesQuietly DEF Checking

LEMMA WithdrawStep ==
  ASSUME DInv, NEW c \in Calls, Withdraw(c)
  PROVE  /\ DInv' /\ \A d \in Calls \ {c} : desk'[d].pc = desk[d].pc /\ call'[d].pc = call[d].pc
         /\ desk'[c].pc \notin Checking
<1> DEFINE old == {i \in DOMAIN suggestions : /\ suggestions[i].status = "OPEN"
                                              /\ suggestions[i].kind = "ABSENT"
                                              /\ suggestions[i].from \in desk[c].crew}
           k == [desk[c] EXCEPT !.pc = "withdraw", !.stale = {}, !.rows = old]
<1>1. desk[c].pc = "return" /\ DOMAIN desk[c] = DeskFields
  BY DEF Withdraw, DInv, Sound
<1>2. DOMAIN call[c] = CallFields /\ call[c].pc \in {"idle", "tell"}
  BY <1>1, NoMove
<1>3. Continue(c, k) /\ UNCHANGED <<who, call, suggestions, started>>
  BY DEF Withdraw, Board
<1>4. \A i \in old : i \in DOMAIN suggestions /\ suggestions[i].status = "OPEN"
  OBVIOUS
<1> HIDE DEF old
<1>5. DOMAIN k = DeskFields /\ k.pc = "withdraw" /\ k.rows = old
  BY <1>1 DEF DeskFields
<1> HIDE DEF k
<1>6. Sound(k, call[c], suggestions)
  BY <1>2, <1>4, <1>5 DEF Sound, Looks, Differ, Takes
<1> QED BY <1>3, <1>5, <1>6, GoesQuietly DEF Checking

\* The steps of a decision on its rooms, but for the move itself.
LEMMA SkipStep ==
  ASSUME DInv, NEW c \in Calls, SkipMove(c)
  PROVE  /\ DInv' /\ \A d \in Calls \ {c} : desk'[d].pc = desk[d].pc /\ call'[d].pc = call[d].pc
         /\ desk'[c].pc \notin Checking
<1> DEFINE k == desk[c]
           t == Tail(k.rest)
           l == [k EXCEPT !.rest = t]
<1>1. k.pc = "moving" /\ DOMAIN k = DeskFields /\ DOMAIN call[c] = CallFields /\ call[c].pc = "idle"
      /\ Looks(k, suggestions)
  BY DEF SkipMove, Turn, DInv, Sound
<1>2. Continue(c, l) /\ UNCHANGED <<who, call, suggestions, started>>
  <2>1. [k EXCEPT !.rest = Tail(@)] = l
    BY <1>1 DEF DeskFields
  <2> QED BY <2>1 DEF SkipMove, Board
<1> HIDE DEF t
<1>3. DOMAIN l = DeskFields /\ l.pc = "moving" /\ l.id = k.id /\ l.stale = k.stale
  BY <1>1 DEF DeskFields
<1> HIDE DEF l
<1>4. Sound(l, call[c], suggestions)
  BY <1>1, <1>3 DEF Sound, Looks, Differ, Takes
<1> QED BY <1>2, <1>3, <1>4, GoesQuietly DEF Checking

LEMMA ReadLastStep ==
  ASSUME DInv, NEW c \in Calls, ReadLast(c)
  PROVE  /\ DInv' /\ \A d \in Calls \ {c} : desk'[d].pc = desk[d].pc /\ call'[d].pc = call[d].pc
         /\ desk'[c].pc \notin Checking
<1> DEFINE k == desk[c]
           m == Head(k.rest)
           p == {NextPlace(m[2])}
           t == {m[1]} \ started
           l == [k EXCEPT !.pc = "place", !.rows = p, !.todo = t]
<1>1. k.pc = "moving" /\ DOMAIN k = DeskFields /\ DOMAIN call[c] = CallFields /\ call[c].pc = "idle"
      /\ Looks(k, suggestions)
  BY DEF ReadLast, Turn, DInv, Sound
<1>2. Continue(c, l) /\ UNCHANGED <<who, call, suggestions, started>>
  BY DEF ReadLast, Board
<1>3. m[1] \in t
  BY DEF ReadLast, Skips
<1> HIDE DEF m, p, t
<1>4. DOMAIN l = DeskFields /\ l.pc = "place" /\ l.id = k.id /\ l.stale = k.stale
      /\ l.rest = k.rest /\ l.todo = t
  BY <1>1 DEF DeskFields
<1> HIDE DEF l
<1>5. Takes(l, call[c])
  BY <1>1, <1>3, <1>4 DEF Takes, m
<1>6. Sound(l, call[c], suggestions)
  BY <1>1, <1>4, <1>5 DEF Sound, Looks, Differ
<1> QED BY <1>2, <1>4, <1>6, GoesQuietly DEF Checking

LEMMA PlaceLastStep ==
  ASSUME DInv, NEW c \in Calls, PlaceLast(c)
  PROVE  /\ DInv' /\ \A d \in Calls \ {c} : desk'[d].pc = desk[d].pc /\ call'[d].pc = call[d].pc
         /\ desk'[c].pc \notin Checking
<1> DEFINE k == desk[c]
           t == Tail(k.rest)
           l == [k EXCEPT !.pc = "moving", !.rest = t, !.rows = {}]
<1>1. k.pc = "place" /\ DOMAIN k = DeskFields /\ Looks(k, suggestions)
  BY DEF PlaceLast, DInv, Sound
<1>2. Continue(c, l) /\ call' = Overtaken /\ UNCHANGED <<suggestions, started>>
  <2>1. [k EXCEPT !.pc = "moving", !.rest = Tail(@), !.rows = {}] = l
    BY <1>1 DEF DeskFields
  <2> QED BY <2>1 DEF PlaceLast
<1>3. who' = [r \in Rooms |-> who'[r]]
  <2>1. \E r, a : who' = [who EXCEPT ![r] = a]
    BY DEF PlaceLast
  <2>2. DOMAIN who = Rooms
    BY DEF DInv
  <2> QED BY <2>1, <2>2
<1> HIDE DEF t
<1>4. DOMAIN l = DeskFields /\ l.pc = "moving" /\ l.id = k.id /\ l.stale = k.stale
  BY <1>1 DEF DeskFields
<1> HIDE DEF l
<1>5. \A d \in Calls : Same(call[d], call'[d])
  BY <1>2, OvertakenSame DEF DInv, Sound
<1>6. DOMAIN call'[c] = CallFields /\ call'[c].pc \in {"idle", "tell"}
  BY <1>1, <1>5, NoMove DEF Same
<1>7. Sound(l, call'[c], suggestions')
  BY <1>1, <1>2, <1>4, <1>6 DEF Sound, Looks, Differ, Takes
<1>8. Shelf' /\ started' \subseteq Rooms /\ call' = [d \in Calls |-> call'[d]]
  BY <1>2 DEF DInv, Shelf, Stored, Overtaken
<1> QED BY <1>2, <1>3, <1>4, <1>5, <1>7, <1>8, Goes DEF Checking

LEMMA MoveStep ==
  ASSUME DInv, NEW c \in Calls, MoveAssigned(c)
  PROVE  /\ DInv' /\ \A d \in Calls \ {c} : desk'[d].pc = desk[d].pc /\ call'[d].pc = call[d].pc
         /\ desk'[c].pc \notin Checking
<1> DEFINE k == desk[c]
           r == Head(k.rest)[1]
           to == Head(k.rest)[2]
           t == Tail(k.rest)
           d == {r} \ started
           l == [k EXCEPT !.rest = t, !.todo = d]
           w == who[r]
           j == [Idle EXCEPT !.pc = "move", !.room = r, !.from = w, !.to = to]
<1>1. k.pc = "moving" /\ DOMAIN k = DeskFields /\ Looks(k, suggestions)
  BY DEF MoveAssigned, Turn, DInv, Sound
<1>2. Continue(c, l) /\ UNCHANGED <<who, suggestions, started>>
  <2>1. Moved(c) = l
    BY <1>1 DEF DeskFields, Moved
  <2> QED BY <2>1 DEF MoveAssigned, StartMove
<1>3. call' = [call EXCEPT ![c] = j]
  BY DEF MoveAssigned, StartMove
<1>4. r \in d
  BY DEF MoveAssigned, Skips
<1> HIDE DEF t, d, r, to, w
<1>5. DOMAIN l = DeskFields /\ l.pc = "moving" /\ l.id = k.id /\ l.stale = k.stale /\ l.todo = d
  BY <1>1 DEF DeskFields
<1>6. DOMAIN j = CallFields /\ j.pc = "move" /\ j.room = r
  BY DEF Idle, CallFields
<1> HIDE DEF l, j
<1>7. call' = [x \in Calls |-> call'[x]] /\ call'[c] = j /\ \A x \in Calls \ {c} : Same(call[x], call'[x])
  BY <1>3 DEF DInv, Same
<1>8. Sound(l, call'[c], suggestions')
  BY <1>1, <1>2, <1>4, <1>5, <1>6, <1>7 DEF Sound, Looks, Differ, Takes
<1>9. Shelf' /\ started' \subseteq Rooms /\ who' = [x \in Rooms |-> who'[x]]
  BY <1>2 DEF DInv, Shelf, Stored
<1> QED BY <1>2, <1>5, <1>7, <1>8, <1>9, Goes DEF Checking

\* Nobody at the desk acts.
LEMMA Onlooking ==
  ASSUME DInv, Notice, Shelf', started' \subseteq Rooms, who' = [r \in Rooms |-> who'[r]],
         call' = [d \in Calls |-> call'[d]], \A d \in Calls : Later(call[d], call'[d])
  PROVE  DInv' /\ \A d \in Calls : desk'[d].pc = desk[d].pc
<1>1. ASSUME NEW d \in Calls
      PROVE  desk'[d].pc = desk[d].pc /\ Sound(desk'[d], call'[d], suggestions')
  <2>1. desk'[d] = IF desk[d].pc = "free" THEN Free ELSE [desk[d] EXCEPT !.stale = @ \cup News]
    BY DEF Notice
  <2> QED BY <2>1, Bystander DEF DInv
<1> QED BY <1>1 DEF DInv, Notice

LEMMA StartStep ==
  ASSUME DInv, NEW r \in Rooms, Start(r)
  PROVE  DInv' /\ \A d \in Calls : desk'[d].pc = desk[d].pc /\ call'[d].pc = call[d].pc
<1>1. who' = who /\ call' = call /\ suggestions' = suggestions /\ started' = started \cup {r} /\ Notice
  BY DEF Start, Board
<1>2. /\ Shelf' /\ started' \subseteq Rooms /\ who' = [x \in Rooms |-> who'[x]]
      /\ call' = [d \in Calls |-> call'[d]] /\ \A d \in Calls : Later(call[d], call'[d])
  BY <1>1 DEF DInv, Shelf, Stored, Later
<1> QED BY <1>1, <1>2, Onlooking

LEMMA InformingShape ==
  ASSUME NEW k
  PROVE  DOMAIN Informing(k) = CallFields /\ Informing(k).pc \in {"idle", "tell"}
<1> DEFINE t == Heirs(k.from, k.to)
           v == k.room
           l == [Idle EXCEPT !.pc = "tell", !.room = v, !.tell = t]
<1>1. Informing(k) = IF t = <<>> THEN Idle ELSE l
  BY DEF Informing
<1> HIDE DEF t, v
<1>2. DOMAIN l = CallFields /\ l.pc = "tell"
  BY DEF Idle, CallFields
<1> HIDE DEF l
<1> QED BY <1>1, <1>2, IdleShape

\* The moves that a decision asks for are all that is served.
LEMMA ServeEffect ==
  ASSUME DInv, NEW c \in Calls, Serve(c)
  PROVE  /\ who' = [r \in Rooms |-> who'[r]] /\ call' = [d \in Calls |-> call'[d]]
         /\ Later(call[c], call'[c]) /\ \A d \in Calls \ {c} : Same(call[d], call'[d])
         /\ who' = who \/ /\ desk[c].pc = "moving"
                          /\ \A r \in Rooms : who'[r] # who[r] => r \in desk[c].todo
<1> DEFINE j == call[c]
<1>1. DOMAIN j = CallFields /\ Takes(desk[c], j) /\ j.pc \notin {"reorder", "assign"}
  BY DEF DInv, Sound, Takes
<1>2. DOMAIN who = Rooms /\ DOMAIN call = Calls
  BY DEF DInv
<1>3. CASE ReadTarget(c)
  <2> DEFINE v == NextPlace(j.to)
             w == j.knows \cup {"to"}
  <2>1. who' = who /\ call' = [call EXCEPT ![c] = [j EXCEPT !.next = v, !.knows = w]]
    BY <1>1, <1>2, <1>3 DEF ReadTarget, CallFields
  <2> HIDE DEF v, w
  <2>2. Same(j, call'[c])
    BY <1>1, <1>2, <2>1 DEF Same, CallFields
  <2> QED BY <1>2, <2>1, <2>2 DEF Same, Later, DInv
<1>4. CASE ReadSource(c)
  <2> DEFINE w == j.knows \cup {"from"}
  <2>1. PICK s : who' = who /\ call' = [call EXCEPT ![c] = [j EXCEPT !.list = s, !.knows = w]]
    BY <1>1, <1>2, <1>4 DEF ReadSource, CallFields
  <2> HIDE DEF w
  <2>2. Same(j, call'[c])
    BY <1>1, <1>2, <2>1 DEF Same, CallFields
  <2> QED BY <1>2, <2>1, <2>2 DEF Same, Later, DInv
<1>5. CASE CommitMove(c)
  <2>1. /\ j.pc = "move" /\ who' = [who EXCEPT ![j.room] = j.to]
        /\ call' = [Overtaken EXCEPT ![c] = Informing(j)]
    BY <1>5 DEF CommitMove, Proceed
  <2>2. DOMAIN Overtaken = Calls
    BY DEF Overtaken
  <2>3. call'[c] = Informing(j) /\ call' = [d \in Calls |-> call'[d]]
        /\ \A d \in Calls \ {c} : call'[d] = Overtaken[d]
    BY <2>1, <2>2
  <2>4. \A d \in Calls \ {c} : Same(call[d], call'[d])
    BY <2>3, OvertakenSame DEF DInv, Sound
  <2>5. Later(j, call'[c])
    BY <1>1, <2>3, InformingShape DEF Later
  <2>6. who' = [r \in Rooms |-> who'[r]] /\ \A r \in Rooms : who'[r] # who[r] => r = j.room
    BY <1>2, <2>1
  <2>7. desk[c].pc = "moving" /\ j.room \in desk[c].todo
    BY <1>1, <2>1 DEF Takes
  <2> QED BY <2>3, <2>4, <2>5, <2>6, <2>7
<1>6. CASE Tell(c)
  <2> DEFINE t == Tail(j.tell)
             l == IF Len(j.tell) = 1 THEN Idle ELSE [j EXCEPT !.tell = t]
  <2>1. who' = who /\ j.pc = "tell" /\ call' = [call EXCEPT ![c] = l]
    BY <1>6 DEF Tell
  <2> HIDE DEF t
  <2>2. DOMAIN l = CallFields /\ l.pc \in {"idle", "tell"}
    BY <1>1, <2>1, IdleShape DEF CallFields
  <2> HIDE DEF l
  <2> QED BY <1>1, <1>2, <2>1, <2>2 DEF Same, Later, DInv
<1> QED BY <1>1, <1>3, <1>4, <1>5, <1>6 DEF Serve, CommitReorder, CommitAssign

LEMMA AttendStep ==
  ASSUME DInv, NEW c \in Calls, Serve(c), Notice, suggestions' = suggestions, started' = started
  PROVE  /\ DInv'
         /\ \A d \in Calls : desk'[d].pc = desk[d].pc
         /\ \A d \in Calls \ {c} : call'[d].pc = call[d].pc
<1>1. Shelf' /\ started' \subseteq Rooms
  BY DEF DInv, Shelf, Stored
<1>2. \A d \in Calls : Later(call[d], call'[d])
  BY ServeEffect DEF Same, Later
<1>3. \A d \in Calls \ {c} : call'[d].pc = call[d].pc
  BY ServeEffect DEF Same
<1> QED BY <1>1, <1>2, <1>3, ServeEffect, Onlooking

LEMMA AutoInitInv == AutoInit => DInv
<1> SUFFICES ASSUME AutoInit PROVE DInv
  OBVIOUS
<1>1. /\ suggestions = <<>> /\ started = {} /\ call = [c \in Calls |-> Idle] /\ desk = [c \in Calls |-> Free]
      /\ who = [r \in Rooms |-> who[r]]
  BY DEF AutoInit
<1>2. Shelf
  <2>1. suggestions \in Seq(Stored({}, {}))
    BY <1>1
  <2> QED BY <2>1 DEF Shelf
<1>3. \A c \in Calls : Sound(desk[c], call[c], suggestions)
  BY <1>1, FreeShape, IdleShape, Harmless
<1> QED BY <1>1, <1>2, <1>3 DEF DInv

\* Only who acts gets further.
LEMMA SuperviseInv ==
  ASSUME DInv, NEW c \in Calls, Supervise(c)
  PROVE  DInv' /\ \A d \in Calls \ {c} : desk'[d].pc = desk[d].pc /\ call'[d].pc = call[d].pc
<1>1. ASSUME NEW x \in desk[c].found, Create(c, x) PROVE x.kind \in Kinds
  BY <1>1 DEF Create, DInv, Sound, Differ
<1> QED BY <1>1, PlanSteps, ConfirmStep, ReturnSteps, FailStep, CheckLoadStep, CompareStep, SupersedeStep,
           CreateStep, DecideStep, ReadSuggestionStep, WithdrawStep, SkipStep, ReadLastStep,
           PlaceLastStep, MoveStep DEF Supervise

LEMMA AutoNextInv == DInv /\ [AutoNext]_all => DInv'
<1> SUFFICES ASSUME DInv, [AutoNext]_all PROVE DInv'
  OBVIOUS
<1>1. CASE UNCHANGED all
  <2>1. UNCHANGED <<who, call, desk, suggestions, started>>
    BY <1>1 DEF all, auto, vars
  <2> QED BY <2>1 DEF DInv, Shelf, Stored
<1>2. CASE Attend
  BY <1>2, AttendStep DEF Attend
<1> QED BY <1>1, <1>2, StartStep, SuperviseInv DEF AutoNext

-----------------------------------------------------------------------------
\* A step takes a room from its attendant only as a confirmation, as a placement or as a move.
LEMMA Taken ==
  ASSUME DInv, NEW c \in Calls, Supervise(c), NEW r \in Rooms, who'[r] # who[r]
  PROVE  r \in desk[c].todo
<1>1. CASE \E s \in Arrangements(Rooms) : CommitConfirm(c, s)
  BY <1>1 DEF CommitConfirm
<1>2. CASE PlaceLast(c)
  <2>1. /\ desk[c].pc = "place"
        /\ \E a : who' = [who EXCEPT ![Head(desk[c].rest)[1]] = a]
    BY <1>2 DEF PlaceLast
  <2>2. r = Head(desk[c].rest)[1]
    BY <2>1 DEF DInv
  <2> QED BY <2>1, <2>2 DEF DInv, Sound, Takes
<1>3. CASE who' = who
  BY <1>3
<1>4. CASE \/ \E crew \in SUBSET Attendants : Propose(c, crew)
           \/ RetireDrafts(c) \/ StoreDraft(c)
           \/ \E i \in DOMAIN proposals :
                \E f \in [DOMAIN proposals[i].fixed -> proposals[i].crew \cup {None}] : ReadDraft(c, i, f)
           \/ CheckLoad(c) \/ CheckCompare(c) \/ Supersede(c)
  BY <1>3, <1>4 DEF Propose, RetireDrafts, StoreDraft, ReadDraft, CheckLoad, CheckCompare, Supersede, Board
<1>5. CASE \/ \E x \in desk[c].found : Create(c, x)
           \/ \E i \in DOMAIN suggestions : ReadSuggestion(c, i)
           \/ Reject(c) \/ SkipMove(c) \/ MoveAssigned(c) \/ ReadLast(c) \/ MarkConfirmed(c)
           \/ \E a \in Attendants : SetAbsent(c, a) \/ SetBack(c, a)
           \/ Withdraw(c) \/ Fail(c)
  BY <1>3, <1>5 DEF Create, ReadSuggestion, Reject, MarkConfirmed, Decide, SkipMove, MoveAssigned, StartMove,
                    ReadLast, SetAbsent, SetBack, Withdraw, Fail, Board
<1> QED BY <1>1, <1>2, <1>4, <1>5 DEF Supervise

BegunStay ==
  \A c \in Calls, r \in started :
    /\ desk[c].pc \in {"confirm", "place", "moving"}
    /\ desk'[c].pc # desk[c].pc \/ call'[c].pc # call[c].pc
    /\ who[r] # None /\ who'[r] # who[r]
    => r \in desk[c].todo

LEMMA StepKeepsBegun == DInv /\ [AutoNext]_all => BegunStay
<1> SUFFICES ASSUME DInv, [AutoNext]_all, NEW c \in Calls, NEW r \in started,
                    desk'[c].pc # desk[c].pc \/ call'[c].pc # call[c].pc, who'[r] # who[r]
             PROVE  r \in desk[c].todo
  BY DEF BegunStay
<1>1. r \in Rooms
  BY DEF DInv
<1>2. ASSUME NEW d \in Calls, Supervise(d) PROVE r \in desk[c].todo
  <2>1. d = c
    BY <1>2, SuperviseInv
  <2> QED BY <1>1, <1>2, <2>1, Taken
<1>3. CASE Attend
  <2>1. PICK d \in Calls : Serve(d)
    BY <1>3 DEF Attend
  <2>2. d = c
    BY <1>3, <2>1, AttendStep DEF Attend
  <2> QED BY <1>1, <2>1, <2>2, ServeEffect
<1>4. CASE \E q \in Rooms : Start(q)
  BY <1>4 DEF Start, Board
<1>5. CASE UNCHANGED all
  BY <1>5 DEF all, vars
<1> QED BY <1>2, <1>3, <1>4, <1>5 DEF AutoNext

\* However many confirmations, decisions and moves overlap: none takes a begun room from its
\* attendant unless it was begun after they had looked.
THEOREM BegunSafe == AutoSpec => BegunRoomsStay
<1>1. DInv /\ [AutoNext]_all => [BegunStay]_all
  BY StepKeepsBegun
<1> QED BY <1>1, AutoInitInv, AutoNextInv, PTL DEF AutoSpec, BegunRoomsStay, BegunStay

-----------------------------------------------------------------------------
Stick ==
  /\ RejectedStaysAway
  /\ \A i \in DOMAIN suggestions :
       suggestions[i].status \in {"REJECTED", "CONFIRMED"}
         /\ suggestions'[i].status # suggestions[i].status
       => \E c \in Calls : desk'[c] # desk[c] /\ "rows" \in desk[c].stale

LEMMA SupersedeSticks ==
  ASSUME DInv, NEW c \in Calls, Supersede(c)
  PROVE  Stick
<1>1. desk'[c] # desk[c] /\ desk[c].pc \in {"supersede", "withdraw"} /\ Looks(desk[c], suggestions)
  BY SupersedeStep DEF Supersede, DInv, Sound
<1>2. Len(suggestions') = Len(suggestions)
  BY SupersedeEffect
<1>3. RejectedStaysAway
  <2>1. Len(suggestions) \in Nat
    BY DEF DInv, Shelf
  <2> QED BY <1>2, <2>1 DEF RejectedStaysAway
<1>4. ASSUME NEW i \in DOMAIN suggestions, suggestions[i].status \in {"REJECTED", "CONFIRMED"},
             suggestions'[i].status # suggestions[i].status
      PROVE  "rows" \in desk[c].stale
  <2>1. i \in desk[c].rows
    BY <1>4, SupersedeEffect
  <2> QED BY <1>1, <1>4, <2>1 DEF Looks
<1> QED BY <1>1, <1>3, <1>4 DEF Stick

LEMMA DecideSticks ==
  ASSUME DInv, NEW c \in Calls, Reject(c) \/ MarkConfirmed(c)
  PROVE  Stick
<1>1. PICK st, pc : st \in {"REJECTED", "CONFIRMED"} /\ Decide(c, st, pc)
  BY DEF Reject, MarkConfirmed
<1>2. desk'[c] # desk[c] /\ desk[c].pc \in {"reject", "moving"} /\ Looks(desk[c], suggestions)
  BY DecideStep DEF Reject, MarkConfirmed, DInv, Sound
<1>3. RejectedStaysAway
  <2>1. Len(suggestions) \in Nat
    BY DEF DInv, Shelf
  <2> QED BY <1>1, <2>1, DecideEffect DEF RejectedStaysAway
<1>4. ASSUME NEW i \in DOMAIN suggestions, suggestions[i].status \in {"REJECTED", "CONFIRMED"},
             suggestions'[i].status # suggestions[i].status
      PROVE  "rows" \in desk[c].stale
  <2>1. i = desk[c].id
    BY <1>1, <1>4, DecideEffect
  <2> QED BY <1>2, <1>4, <2>1 DEF Looks
<1> QED BY <1>2, <1>3, <1>4 DEF Stick

LEMMA CreateSticks ==
  ASSUME DInv, NEW c \in Calls, NEW x \in desk[c].found, Create(c, x)
  PROVE  Stick
<1>1. desk[c].pc = "create" /\ x.kind \in Kinds /\ Looks(desk[c], suggestions)
  BY DEF Create, DInv, Sound, Differ
<1> DEFINE n == Len(suggestions) + 1
<1>2. /\ Len(suggestions') = n /\ \A i \in DOMAIN suggestions : suggestions'[i] = suggestions[i]
      /\ Signature(suggestions'[n]) = Signature(x) /\ suggestions'[n].hasty = ("rows" \in desk[c].stale)
  BY <1>1, CreateEffect
<1> HIDE DEF n
<1>3. ASSUME "rows" \notin desk[c].stale, NEW i \in DOMAIN suggestions,
             suggestions[i].status \in {"OPEN", "REJECTED"}
      PROVE  Signature(suggestions[i]) # Signature(suggestions'[n])
  BY <1>1, <1>2, <1>3 DEF Looks
<1>4. RejectedStaysAway
  BY <1>2, <1>3 DEF RejectedStaysAway
<1> QED BY <1>2, <1>4 DEF Stick

LEMMA StepSticks == DInv /\ [AutoNext]_all => Stick
<1> SUFFICES ASSUME DInv, [AutoNext]_all PROVE Stick
  OBVIOUS
<1>1. ASSUME suggestions' = suggestions PROVE Stick
  <2>1. Len(suggestions) \in Nat
    BY DEF DInv, Shelf
  <2> QED BY <1>1, <2>1 DEF Stick, RejectedStaysAway
<1>2. CASE Attend \/ \E r \in Rooms : Start(r)
  BY <1>1, <1>2 DEF Attend, Start
<1>3. CASE UNCHANGED all
  BY <1>1, <1>3 DEF all, auto
<1>4. ASSUME NEW c \in Calls, Supervise(c) PROVE Stick
  <2>1. CASE \/ \E crew \in SUBSET Attendants : Propose(c, crew)
             \/ RetireDrafts(c) \/ StoreDraft(c)
             \/ \E i \in DOMAIN proposals :
                  \E f \in [DOMAIN proposals[i].fixed -> proposals[i].crew \cup {None}] : ReadDraft(c, i, f)
             \/ \E s \in Arrangements(Rooms) : CommitConfirm(c, s)
    BY <1>1, <2>1 DEF Propose, RetireDrafts, StoreDraft, ReadDraft, CommitConfirm
  <2>2. CASE \/ CheckLoad(c) \/ CheckCompare(c)
             \/ \E i \in DOMAIN suggestions : ReadSuggestion(c, i)
             \/ SkipMove(c) \/ MoveAssigned(c) \/ ReadLast(c) \/ PlaceLast(c)
    BY <1>1, <2>2 DEF CheckLoad, CheckCompare, ReadSuggestion, SkipMove, MoveAssigned, ReadLast, PlaceLast
  <2>3. CASE (\E a \in Attendants : SetAbsent(c, a) \/ SetBack(c, a)) \/ Withdraw(c) \/ Fail(c)
    BY <1>1, <2>3 DEF SetAbsent, SetBack, Withdraw, Fail
  <2> QED BY <1>4, <2>1, <2>2, <2>3, SupersedeSticks, CreateSticks, DecideSticks DEF Supervise
<1> QED BY <1>2, <1>3, <1>4 DEF AutoNext

\* However many checks and decisions overlap: a decision is only undone by a request that had read
\* the suggestions before, and what was rejected comes back only from such a one.
THEOREM DecisionsSafe == AutoSpec => DecisionsStick
<1>1. DInv /\ [AutoNext]_all => [Stick]_all
  BY StepSticks
<1> QED BY <1>1, AutoInitInv, AutoNextInv, PTL DEF AutoSpec, DecisionsStick, Stick

-----------------------------------------------------------------------------
(***************************************************************************)
(* What a check leaves.                                                    *)
(***************************************************************************)

\* The rooms of whoever is absent, as far as somebody may take them, are in what request k has
\* found, or in a suggestion that it leaves alone.
Answers(k) ==
  k.pc \in Checking /\ (IF k.pc = "compare" THEN "board" \notin k.stale ELSE k.stale = {})
    => \A a \in absent : \A r \in Due(a) :
         \/ \E x \in k.found : r \in DOMAIN x.moves
         \/ /\ k.pc # "compare"
            /\ \E i \in DOMAIN suggestions :
                 /\ k.pc = "supersede" => i \notin k.rows
                 /\ suggestions[i].status \in {"OPEN", "REJECTED"}
                 /\ r \in DOMAIN suggestions[i].moves

CInv == DInv /\ fails \in Nat /\ \A c \in Calls : Answers(desk[c])

\* Some number of a set is the least.
LEMMA Least ==
  ASSUME NEW S \in SUBSET Nat, S # {}
  PROVE  \E m \in S : \A n \in S : m <= n
<1>1. PICK m \in S : \A n \in S : <<n, m>> \notin OpToRel(<, Nat)
  BY NatLessThanWellFounded, WFMin
<1>2. \A n \in S : ~(n < m)
  BY <1>1 DEF OpToRel
<1> QED BY <1>2

\* There is a way to place rooms as long as somebody present may take one of them.
LEMMA PlacementsExist ==
  ASSUME NEW S \in SUBSET Rooms, Takeable(S) # {}
  PROVE  Placements(S) # {}
<1> DEFINE some == Takeable(S)
           load(f, a) == Cardinality(Route(a) \ S) + Cardinality({r \in some : f[r] = a})
           peak(f) == CHOOSE m \in {load(f, a) : a \in Present} :
                        \A a \in Present : load(f, a) <= m
           P == {f \in [some -> Present] : \A r \in some : Eligible(r, f[r])}
           N == Cardinality(Rooms) + Cardinality(Rooms)
<1>1. \A T \in SUBSET Rooms : Cardinality(T) \in 0..Cardinality(Rooms)
  <2> SUFFICES ASSUME NEW T \in SUBSET Rooms PROVE Cardinality(T) \in 0..Cardinality(Rooms)
    OBVIOUS
  <2>1. IsFiniteSet(T) /\ Cardinality(T) <= Cardinality(Rooms)
    BY DayBound, FS_Subset
  <2>2. Cardinality(T) \in Nat /\ Cardinality(Rooms) \in Nat
    BY <2>1, DayBound, FS_CardinalityType
  <2> QED BY <2>1, <2>2
<1>2. \A f, a : load(f, a) \in 0..N
  <2> SUFFICES ASSUME NEW f, NEW a PROVE load(f, a) \in 0..N
    OBVIOUS
  <2> DEFINE x == Cardinality(Route(a) \ S)
             y == Cardinality({r \in some : f[r] = a})
             z == Cardinality(Rooms)
  <2>1. x \in 0..z /\ y \in 0..z
    BY <1>1 DEF Route, Takeable
  <2>2. z \in Nat
    BY DayBound, FS_CardinalityType
  <2>3. load(f, a) = x + y /\ N = z + z
    OBVIOUS
  <2> HIDE DEF x, y, z, load, N
  <2> QED BY <2>1, <2>2, <2>3
<1>3. N \in Nat /\ IsFiniteSet(0..N)
  <2>1. N \in Nat
    BY DayBound, FS_CardinalityType
  <2> HIDE DEF N
  <2> QED BY <2>1, FS_Interval
<1>20. Present # {}
  BY DEF Takeable
<1> HIDE DEF load, N
<1>4. ASSUME NEW f PROVE peak(f) \in Nat
  <2> DEFINE L == {load(f, a) : a \in Present}
  <2>1. L \subseteq 0..N /\ L # {}
    BY <1>2, <1>20
  <2>2. IsFiniteSet(L)
    <3> HIDE DEF L
    <3> QED BY <1>3, <2>1, FS_Subset
  <2>3. L \in SUBSET Int /\ L \subseteq Nat
    <3> HIDE DEF L
    <3> QED BY <1>3, <2>1
  <2>4. \E m \in L : \A n \in L : n <= m
    <3> HIDE DEF L
    <3> QED BY <2>1, <2>2, <2>3, Largest
  <2>5. \E m \in L : \A a \in Present : load(f, a) <= m
    BY <2>4
  <2>6. peak(f) \in L
    BY <2>5
  <2> HIDE DEF L, peak
  <2> QED BY <2>3, <2>6
<1> HIDE DEF peak
<1>5. P # {}
  <2> DEFINE f == [r \in some |-> CHOOSE a \in Present : Eligible(r, a)]
  <2>1. \A r \in some : f[r] \in Present /\ Eligible(r, f[r])
    BY DEF Takeable
  <2>2. f \in P
    <3> HIDE DEF some
    <3> QED BY <2>1
  <2> QED BY <2>2
<1> DEFINE K == {peak(f) : f \in P}
<1>6. K \subseteq Nat /\ K # {}
  BY <1>4, <1>5
<1>7. \E m \in K : \A n \in K : m <= n
  <2> HIDE DEF K
  <2> QED BY <1>6, Least
<1>8. PICK f \in P : \A g \in P : peak(f) <= peak(g)
  BY <1>7
<1>9. f \in Placements(S)
  <2>1. Placements(S) = {h \in P : \A g \in P : peak(h) <= peak(g)}
    BY DEF Placements, peak, load, some
  <2> QED BY <1>8, <2>1
<1> QED BY <1>9

LEMMA FindingsAnswer ==
  ASSUME NEW F \in Findings, NEW a \in absent, NEW r \in Due(a)
  PROVE  \E x \in F : r \in DOMAIN x.moves
<1> DEFINE options == ({SuggestAbsent(b) : b \in absent}
                       \cup {SuggestUnassigned, SuggestEarlyFinish}) \ {{}}
           O == SuggestAbsent(a)
<1>1. PICK p \in [options -> UNION options] :
        (\A Q \in options : p[Q] \in Q) /\ F = {p[Q] : Q \in options}
  BY DEF Findings
<1>2. PICK f : f \in Placements(Left(a))
  <2>1. Left(a) \in SUBSET Rooms /\ Takeable(Left(a)) # {}
    BY DEF Due, Left, Route
  <2> QED BY <2>1, PlacementsExist
<1>3. Suggestion("ABSENT", a, f) \in O
  BY <1>2 DEF SuggestAbsent
<1>4. O \in options
  BY <1>3
<1>5. p[O] \in F /\ p[O] \in O
  <2> HIDE DEF O, options
  <2> QED BY <1>1, <1>4
<1> DEFINE x == p[O]
<1>6. PICK g \in Placements(Left(a)) : x = Suggestion("ABSENT", a, g)
  BY <1>5 DEF SuggestAbsent
<1>7. x.moves = g
  BY <1>6 DEF Suggestion
<1>8. r \in DOMAIN x.moves
  BY <1>7, PlacedRooms DEF Due
<1> QED BY <1>5, <1>8

LEMMA StillAnswers ==
  ASSUME NEW d \in Calls, DOMAIN desk[d] = DeskFields, Answers(desk[d]),
         desk'[d] = IF desk[d].pc = "free" THEN Free ELSE [desk[d] EXCEPT !.stale = @ \cup News]
  PROVE  Answers(desk[d])'
<1>1. CASE desk[d].pc = "free"
  BY <1>1, FreeShape DEF Answers, Checking
<1>2. CASE desk[d].pc # "free"
  <2> DEFINE k == desk[d]
             l == [k EXCEPT !.stale = @ \cup News]
  <2>1. /\ desk'[d] = l /\ l.pc = k.pc /\ l.rows = k.rows /\ l.found = k.found
        /\ l.stale = k.stale \cup News
    BY <1>2, Unnoticed
  <2> HIDE DEF l
  <2>2. CASE who' = who /\ started' = started /\ absent' = absent
    <3>1. absent' = absent /\ \A a : Due(a)' = Due(a)
      BY <2>2 DEF Due, Takeable, Present, Left, Route
    <3>2. CASE suggestions' = suggestions \/ k.pc = "compare"
      BY <2>1, <3>1, <3>2 DEF Answers
    <3>3. CASE suggestions' # suggestions /\ k.pc # "compare"
      BY <2>1, <3>3 DEF Answers, News
    <3> QED BY <3>2, <3>3
  <2>3. CASE ~(who' = who /\ started' = started /\ absent' = absent)
    BY <2>1, <2>3 DEF Answers, News
  <2> QED BY <2>2, <2>3
<1> QED BY <1>1, <1>2

LEMMA LoadAnswers ==
  ASSUME DInv, NEW c \in Calls, CheckLoad(c)
  PROVE  Answers(desk[c])'
<1>1. UNCHANGED <<who, started, absent>>
  BY DEF CheckLoad, Board
<1>2. CASE desk'[c] = Free
  BY <1>2, FreeShape DEF Answers, Checking
<1>3. CASE \E f \in Findings : desk'[c] = [Free EXCEPT !.pc = "compare", !.found = f]
  <2>1. PICK f \in Findings : desk'[c] = [Free EXCEPT !.pc = "compare", !.found = f]
    BY <1>3
  <2>2. desk'[c].pc = "compare" /\ desk'[c].found = f
    BY <2>1, FreeShape DEF Free
  <2>3. absent' = absent /\ \A a : Due(a)' = Due(a)
    BY <1>1 DEF Due, Takeable, Present, Left, Route
  <2>4. ASSUME NEW a \in absent, NEW r \in Due(a)
        PROVE  \E x \in f : r \in DOMAIN x.moves
    BY <2>4, FindingsAnswer
  <2> QED BY <2>2, <2>3, <2>4 DEF Answers
<1>4. \E k : Continue(c, k) /\ (k = Free \/ \E f \in Findings : k = [Free EXCEPT !.pc = "compare", !.found = f])
  BY DEF CheckLoad
<1> QED BY <1>2, <1>3, <1>4 DEF Continue

LEMMA CompareAnswers ==
  ASSUME CInv, NEW c \in Calls, CheckCompare(c)
  PROVE  Answers(desk[c])'
<1> DEFINE k == desk[c]
           sigs == {Signature(suggestions[i]) : i \in Known}
           left == {x \in k.found : Signature(x) \notin sigs}
           old == {i \in Known : /\ suggestions[i].status = "OPEN"
                                 /\ \A x \in k.found : Signature(suggestions[i]) # Signature(x)}
           free == k.stale \ {"rows"}
           l == [k EXCEPT !.pc = "supersede", !.stale = free, !.found = left, !.rows = old]
<1>1. k.pc = "compare" /\ DOMAIN k = DeskFields /\ Answers(k)
  BY DEF CheckCompare, CInv, DInv, Sound
<1>2. UNCHANGED <<who, started, absent, suggestions>>
  BY DEF CheckCompare, Board
<1>3. desk'[c] = l
  <2>1. [k EXCEPT !.pc = "supersede", !.stale = @ \ {"rows"},
                  !.found = {x \in @ : Signature(x) \notin sigs}, !.rows = old] = l
    <3> HIDE DEF sigs, old
    <3> QED BY <1>1 DEF DeskFields
  <2> QED BY <2>1 DEF CheckCompare, Continue
<1>4. l.pc = "supersede" /\ l.stale = free /\ l.found = left /\ l.rows = old
  <2> HIDE DEF free, left, old
  <2> QED BY <1>1 DEF DeskFields
<1> HIDE DEF l
<1>5. absent' = absent /\ \A a : Due(a)' = Due(a)
  BY <1>2 DEF Due, Takeable, Present, Left, Route
<1>6. ASSUME l.stale = {}, NEW a \in absent, NEW r \in Due(a)
      PROVE  \/ \E x \in left : r \in DOMAIN x.moves
             \/ \E i \in DOMAIN suggestions :
                  i \notin old /\ suggestions[i].status \in {"OPEN", "REJECTED"} /\ r \in DOMAIN suggestions[i].moves
  <2>1. "board" \notin k.stale
    BY <1>4, <1>6
  <2>2. PICK x \in k.found : r \in DOMAIN x.moves
    BY <1>1, <1>6, <2>1 DEF Answers, Checking
  <2>3. CASE x \in left
    BY <2>2, <2>3
  <2>4. CASE x \notin left
    <3>1. PICK i \in Known : Signature(x) = Signature(suggestions[i])
      BY <2>4
    <3>2. i \notin old
      BY <3>1
    <3>3. x.moves = suggestions[i].moves
      BY <3>1 DEF Signature
    <3> QED BY <2>2, <3>1, <3>2, <3>3 DEF Known
  <2> QED BY <2>3, <2>4
<1> HIDE DEF left, old
<1> QED BY <1>2, <1>3, <1>4, <1>5, <1>6 DEF Answers

LEMMA SupersedeAnswers ==
  ASSUME CInv, NEW c \in Calls, Supersede(c)
  PROVE  Answers(desk[c])'
<1> DEFINE k == desk[c]
           l == IF k.pc = "withdraw" THEN [Free EXCEPT !.pc = "check"]
                ELSE IF k.found = {} THEN Free ELSE [k EXCEPT !.pc = "create"]
<1>1. k.pc \in {"supersede", "withdraw"} /\ DOMAIN k = DeskFields /\ Answers(k)
  BY DEF Supersede, CInv, DInv, Sound
<1>2. UNCHANGED <<who, started, absent>> /\ desk'[c] = l
  BY DEF Supersede, Board, Continue
<1>3. CASE k.pc = "withdraw" \/ k.found = {}
  <2>1. l.pc \in {"check", "free"}
    BY <1>3, FreeShape DEF Free
  <2> HIDE DEF l
  <2> QED BY <1>2, <2>1 DEF Answers, Checking
<1>4. CASE k.pc = "supersede" /\ k.found # {}
  <2>1. l.pc = "create" /\ l.found = k.found /\ l.stale = k.stale
    BY <1>1, <1>4 DEF DeskFields
  <2> HIDE DEF l
  <2>2. absent' = absent /\ \A a : Due(a)' = Due(a)
    BY <1>2 DEF Due, Takeable, Present, Left, Route
  <2>3. /\ DOMAIN suggestions' = DOMAIN suggestions
        /\ \A i \in DOMAIN suggestions : i \notin k.rows => suggestions'[i] = suggestions[i]
    BY SupersedeEffect DEF CInv
  <2> HIDE DEF k
  <2> QED BY <1>1, <1>2, <1>4, <2>1, <2>2, <2>3 DEF Answers, Checking
<1> QED BY <1>1, <1>3, <1>4

\* A created suggestion is open, for the rooms it was found for.
LEMMA CreateOpens ==
  ASSUME DInv, NEW c \in Calls, NEW x, Create(c, x), x.kind \in Kinds
  PROVE  LET n == Len(suggestions) + 1
         IN n \in DOMAIN suggestions' /\ suggestions'[n].status = "OPEN" /\ suggestions'[n].moves = x.moves
<1> DEFINE n == Len(suggestions) + 1
           h == "rows" \in desk[c].stale
           s == [kind |-> x.kind, from |-> x.from, moves |-> x.moves, status |-> "OPEN", hasty |-> h]
<1>1. suggestions' = Append(suggestions, s)
  BY DEF Create
<1>2. PICK F, M : suggestions \in Seq(Stored(F, M))
  BY DEF DInv, Shelf
<1>3. n \in DOMAIN suggestions'
  BY CreateEffect
<1>4. s.status = "OPEN" /\ s.moves = x.moves
  OBVIOUS
<1> HIDE DEF s
<1>5. suggestions'[n] = s
  BY <1>1, <1>2
<1> QED BY <1>3, <1>4, <1>5

LEMMA CreateAnswers ==
  ASSUME CInv, NEW c \in Calls, NEW x \in desk[c].found, Create(c, x)
  PROVE  /\ Answers(desk[c])'
         /\ desk[c].stale = {} =>
              \A a \in absent : \A r \in Due(a) :
                \/ \E y \in desk[c].found \ {x} : r \in DOMAIN y.moves
                \/ \E i \in DOMAIN suggestions' :
                     suggestions'[i].status \in {"OPEN", "REJECTED"} /\ r \in DOMAIN suggestions'[i].moves
<1> DEFINE k == desk[c]
           rest == k.found \ {x}
           l == IF k.found = {x} THEN Free ELSE [k EXCEPT !.found = rest]
           n == Len(suggestions) + 1
<1>1. k.pc = "create" /\ DOMAIN k = DeskFields /\ Answers(k) /\ DInv /\ x.kind \in Kinds
  BY DEF Create, CInv, DInv, Sound, Differ
<1>2. UNCHANGED <<who, started, absent>> /\ desk'[c] = l
  <2>1. [k EXCEPT !.found = @ \ {x}] = [k EXCEPT !.found = rest]
    BY <1>1 DEF DeskFields
  <2> QED BY <2>1 DEF Create, Board, Continue
<1>3. /\ n \in DOMAIN suggestions' /\ suggestions'[n].status = "OPEN" /\ suggestions'[n].moves = x.moves
      /\ \A i \in DOMAIN suggestions : i \in DOMAIN suggestions' /\ suggestions'[i] = suggestions[i]
  BY <1>1, CreateOpens, CreateEffect
<1>4. ASSUME k.stale = {}, NEW a \in absent, NEW r \in Due(a)
      PROVE  \/ \E y \in rest : r \in DOMAIN y.moves
             \/ \E i \in DOMAIN suggestions' :
                  suggestions'[i].status \in {"OPEN", "REJECTED"} /\ r \in DOMAIN suggestions'[i].moves
  <2>1. \/ \E y \in k.found : r \in DOMAIN y.moves
        \/ \E i \in DOMAIN suggestions :
             suggestions[i].status \in {"OPEN", "REJECTED"} /\ r \in DOMAIN suggestions[i].moves
    BY <1>1, <1>4 DEF Answers, Checking
  <2>2. CASE \E i \in DOMAIN suggestions :
               suggestions[i].status \in {"OPEN", "REJECTED"} /\ r \in DOMAIN suggestions[i].moves
    BY <1>3, <2>2
  <2>3. CASE r \in DOMAIN x.moves
    BY <1>3, <2>3
  <2> QED BY <2>1, <2>2, <2>3
<1>5. Answers(desk[c])'
  <2>1. CASE k.found = {x}
    BY <1>2, <2>1, FreeShape DEF Answers, Checking
  <2>2. CASE k.found # {x}
    <3>1. l.pc = "create" /\ l.found = rest /\ l.stale = k.stale
      <4> HIDE DEF rest
      <4> QED BY <1>1, <2>2 DEF DeskFields
    <3> HIDE DEF l, rest
    <3>2. absent' = absent /\ \A a : Due(a)' = Due(a)
      BY <1>2 DEF Due, Takeable, Present, Left, Route
    <3> QED BY <1>2, <1>4, <3>1, <3>2 DEF Answers
  <2> QED BY <2>1, <2>2
<1> QED BY <1>4, <1>5

LEMMA CheckInit == AutoInit => CInv
<1> SUFFICES ASSUME AutoInit PROVE CInv
  OBVIOUS
<1>1. \A c \in Calls : desk[c] = Free
  BY DEF AutoInit
<1> QED BY <1>1, AutoInitInv, FreeShape DEF AutoInit, CInv, Answers, Checking

LEMMA CheckNext == CInv /\ [AutoNext]_all => CInv'
<1> SUFFICES ASSUME CInv, [AutoNext]_all PROVE CInv'
  OBVIOUS
<1>1. /\ DInv' /\ DInv
      /\ \A d \in Calls : DOMAIN desk[d] = DeskFields /\ Answers(desk[d])
  BY AutoNextInv DEF CInv, DInv, Sound
<1>11. fails' \in Nat
  <2>1. fails' = fails \/ fails' = fails + 1
    BY ZenonT(60) DEF AutoNext, Attend, Start, all, auto, Supervise, Propose, RetireDrafts, StoreDraft, ReadDraft, CommitConfirm,
           CheckLoad, CheckCompare, Supersede, Create, ReadSuggestion, Reject, MarkConfirmed, Decide, SkipMove,
           MoveAssigned, ReadLast, PlaceLast, SetAbsent, SetBack, Withdraw, Fail
  <2> QED BY <2>1 DEF CInv
<1>2. ASSUME Notice PROVE CInv'
  <2>1. ASSUME NEW d \in Calls PROVE Answers(desk[d])'
    <3>1. desk'[d] = IF desk[d].pc = "free" THEN Free ELSE [desk[d] EXCEPT !.stale = @ \cup News]
      BY <1>2 DEF Notice
    <3> QED BY <1>1, <3>1, StillAnswers
  <2> QED BY <1>1, <1>11, <2>1 DEF CInv
<1>3. CASE Attend \/ \E r \in Rooms : Start(r)
  BY <1>2, <1>3 DEF Attend, Start
<1>4. CASE UNCHANGED all
  <2>1. UNCHANGED <<who, desk, suggestions, started, absent>>
    BY <1>4 DEF all, auto, vars
  <2>2. \A a : Due(a)' = Due(a)
    BY <2>1 DEF Due, Takeable, Present, Left, Route
  <2>3. \A d \in Calls : Answers(desk[d])'
    BY <1>1, <2>1, <2>2 DEF Answers
  <2> QED BY <1>1, <1>11, <2>3 DEF CInv
<1>5. ASSUME NEW c \in Calls, Supervise(c) PROVE CInv'
  <2>1. PICK k : Continue(c, k)
    BY <1>5 DEF Supervise, Propose, RetireDrafts, StoreDraft, ReadDraft, CommitConfirm, CheckLoad, CheckCompare,
                Supersede, Create, ReadSuggestion, Reject, MarkConfirmed, Decide, SkipMove, MoveAssigned, ReadLast,
                PlaceLast, SetAbsent, SetBack, Withdraw, Fail
  <2>2. ASSUME NEW d \in Calls, d # c PROVE Answers(desk[d])'
    <3>1. desk'[d] = IF desk[d].pc = "free" THEN Free ELSE [desk[d] EXCEPT !.stale = @ \cup News]
      BY <2>1, <2>2 DEF Continue
    <3> QED BY <1>1, <3>1, StillAnswers
  <2>3. Answers(desk[c])'
    <3>1. ASSUME desk'[c].pc \notin Checking PROVE Answers(desk[c])'
      BY <3>1 DEF Answers
    <3> QED BY <1>1, <1>5, <3>1, LoadAnswers, CompareAnswers, SupersedeAnswers, CreateAnswers, PlanSteps, ConfirmStep,
               ReturnSteps, FailStep, DecideStep, ReadSuggestionStep, WithdrawStep, SkipStep, ReadLastStep,
               PlaceLastStep, MoveStep DEF Supervise
  <2> QED BY <1>1, <1>11, <2>2, <2>3 DEF CInv
<1> QED BY <1>3, <1>4, <1>5 DEF AutoNext

Answered ==
  \A c \in Calls :
    desk[c].pc \in {"supersede", "create"} /\ desk'[c].pc = "free"
      /\ desk[c].stale = {} /\ fails' = fails
    => \A a \in absent : \A r \in Due(a) : \E i \in DOMAIN suggestions' :
         /\ suggestions'[i].status \in {"OPEN", "REJECTED"}
         /\ r \in DOMAIN suggestions'[i].moves

LEMMA StepAnswers == CInv /\ [AutoNext]_all => Answered
<1> SUFFICES ASSUME CInv, [AutoNext]_all, NEW c \in Calls,
                    desk[c].pc \in {"supersede", "create"}, desk'[c].pc = "free",
                    desk[c].stale = {}, fails' = fails,
                    NEW a \in absent, NEW r \in Due(a)
             PROVE  \E i \in DOMAIN suggestions' :
                      suggestions'[i].status \in {"OPEN", "REJECTED"} /\ r \in DOMAIN suggestions'[i].moves
  BY DEF Answered
<1>1. DInv /\ fails \in Nat /\ Answers(desk[c]) /\ DOMAIN desk[c] = DeskFields
  BY DEF CInv, DInv, Sound
<1>2. CASE Attend
  BY <1>1, <1>2, AttendStep DEF Attend
<1>3. CASE \E q \in Rooms : Start(q)
  BY <1>1, <1>3, StartStep
<1>4. CASE UNCHANGED all
  BY <1>4 DEF all, auto
<1>5. ASSUME NEW d \in Calls, Supervise(d)
      PROVE  \E i \in DOMAIN suggestions' :
               suggestions'[i].status \in {"OPEN", "REJECTED"} /\ r \in DOMAIN suggestions'[i].moves
  <2>1. d = c
    BY <1>1, <1>5, SuperviseInv
  <2>2. Supersede(c) \/ \E x \in desk[c].found : Create(c, x)
    <3>1. ~Fail(c)
      BY <1>1 DEF Fail
    <3> QED BY <1>5, <2>1, <3>1 DEF Supervise, Propose, RetireDrafts, StoreDraft, ReadDraft, CommitConfirm, CheckLoad,
               CheckCompare, ReadSuggestion, Reject, MarkConfirmed, SkipMove, MoveAssigned, ReadLast, PlaceLast,
               SetAbsent, SetBack, Withdraw, IsFree, Turn
  <2>3. CASE Supersede(c)
    <3>1. desk[c].pc = "supersede" /\ desk[c].found = {}
      <4>1. CASE desk[c].found # {}
        <5>1. desk'[c] = [desk[c] EXCEPT !.pc = "create"]
          BY <2>3, <4>1 DEF Supersede, Continue
        <5> QED BY <1>1, <5>1 DEF DeskFields
      <4> QED BY <2>3, <4>1 DEF Supersede
    <3>2. PICK i \in DOMAIN suggestions :
            i \notin desk[c].rows /\ suggestions[i].status \in {"OPEN", "REJECTED"} /\ r \in DOMAIN suggestions[i].moves
      BY <1>1, <3>1 DEF Answers, Checking
    <3> QED BY <1>1, <2>3, <3>2, SupersedeEffect
  <2>4. CASE \E x \in desk[c].found : Create(c, x)
    <3>1. PICK x \in desk[c].found : Create(c, x)
      BY <2>4
    <3>2. desk[c].found = {x}
      <4>1. CASE desk[c].found # {x}
        <5> DEFINE rest == desk[c].found \ {x}
        <5>1. desk'[c] = [desk[c] EXCEPT !.found = rest]
          <6>1. [desk[c] EXCEPT !.found = @ \ {x}] = [desk[c] EXCEPT !.found = rest]
            BY <1>1 DEF DeskFields
          <6> QED BY <3>1, <4>1, <6>1 DEF Create, Continue
        <5> HIDE DEF rest
        <5>2. desk'[c].pc = desk[c].pc
          BY <1>1, <5>1 DEF DeskFields
        <5> QED BY <5>2
      <4> QED BY <4>1
    <3>3. ~\E y \in desk[c].found \ {x} : r \in DOMAIN y.moves
      BY <3>2
    <3> QED BY <3>1, <3>3, CreateAnswers
  <2> QED BY <2>2, <2>3, <2>4
<1> QED BY <1>2, <1>3, <1>4, <1>5 DEF AutoNext

\* For any number of rooms, attendants and requests, whoever may take which room: a check that
\* nothing has overtaken leaves no unbegun room of an absent attendant that somebody present may
\* take without a suggestion.
THEOREM AbsenceSafe == AutoSpec => AbsenceAnswered
<1>1. CInv /\ [AutoNext]_all => [Answered]_all
  BY StepAnswers
<1> QED BY <1>1, CheckInit, CheckNext, PTL DEF AutoSpec, AbsenceAnswered, Answered, Due

-----------------------------------------------------------------------------
(***************************************************************************)
(* The pages that assign rooms on the floor plan.  A request that is under *)
(* way alone will make the room what the panel shows; on the map one       *)
(* request is under way, and what was answered well is with whom the batch *)
(* is for.                                                                 *)
(***************************************************************************)

Someone == Attendants \cup {None}
Posts == [room : Rooms, to : Someone]
Batches == [rest : Seq(Rooms), rooms : SUBSET Rooms, to : Someone, ok : SUBSET Rooms]
Loadings == [Rooms -> Someone] \cup {None}

PanelType ==
  /\ page \in {"panel", "map"} /\ grid \in [Rooms -> Someone] /\ active \in Someone
  /\ session \subseteq Rooms /\ posted \subseteq Posts /\ unsure \subseteq Rooms
  /\ serving \in [Calls -> Posts \cup {NoPost}]
  /\ batch \in Batches /\ notice \in Batches
  /\ failed \in BOOLEAN

LoadType == loads \in Seq(Loadings) /\ late \in 0..Len(loads) /\ outdated \in BOOLEAN

\* A call does what the request it serves asks for; once it has, the room is as asked for.
ServesPost(c) ==
  /\ call[c].pc \in {"idle", "assign", "tell"}
  /\ serving[c] # NoPost =>
       /\ call[c].pc = "assign" => call[c].room = serving[c].room /\ call[c].to = serving[c].to
       /\ call[c].pc # "assign" /\ serving[c].room \notin unsure =>
            who[serving[c].room] = serving[c].to

\* At most one request is under way for a room whose requests have not crossed.
Alone ==
  \A r \in Rooms \ unsure :
    /\ \A p, q \in posted : p.room = r /\ q.room = r => p = q
    /\ \A p \in posted, c \in Calls : ~(p.room = r /\ serving[c].room = r)
    /\ \A c, d \in Calls : serving[c].room = r /\ serving[d].room = r => c = d

\* The panel shows what the request under way asks for, or what is.
ShowsAsked(r) ==
  /\ \A p \in posted : p.room = r => p.to = grid[r]
  /\ \A c \in Calls : serving[c].room = r => serving[c].to = grid[r]
  /\ (\A p \in posted : p.room # r) /\ (\A c \in Calls : serving[c].room # r) => grid[r] = who[r]

PanelPart ==
  page = "panel" =>
    /\ ~failed => \A r \in Rooms \ unsure : ShowsAsked(r)
    /\ picker => session = {}
    /\ SessionIsHers
    /\ batch = NoBatch /\ loads = <<>> /\ ~outdated

NextPost == [room |-> batch.rest[1], to |-> batch.to]

\* Off the unsure rooms, these are the rooms as they are.
AsIs(rooms) == \A r \in Rooms \ unsure : rooms[r] = who[r]

\* The last load that no later answer has overtaken reads the rooms as they are; once there
\* is none, that is what the page shows.
MapIdle ==
  /\ posted = {} /\ \A c \in Calls : serving[c] = NoPost
  /\ late < Len(loads) => loads[Len(loads)] = None \/ AsIs(loads[Len(loads)])
  /\ late = Len(loads) /\ ~outdated => AsIs(grid)
  /\ \A r \in notice.rooms \ unsure : who[r] = notice.to

MapBusy ==
  /\ batch.rest # <<>> /\ batch.to # None /\ notice = NoBatch
  /\ posted \subseteq {NextPost}
  /\ \A c \in Calls : serving[c] # NoPost => serving[c] = NextPost /\ posted = {}
  /\ \A c, d \in Calls : serving[c] # NoPost /\ serving[d] # NoPost => c = d
  /\ \A r \in batch.ok \ unsure : who[r] = batch.to

MapPart ==
  page = "map" => LoadType /\ (batch = NoBatch => MapIdle) /\ (batch # NoBatch => MapBusy)

GInv ==
  RInv /\ PanelType /\ (\A c \in Calls : ServesPost(c)) /\ Alone /\ PanelPart /\ MapPart

-----------------------------------------------------------------------------
LEMMA NoPostApart ==
  ASSUME PanelType
  PROVE  /\ \A c \in Calls : serving[c] # NoPost <=> serving[c] \in Posts
         /\ \A c \in Calls : serving[c] = NoPost <=> serving[c].room \notin Rooms
         /\ \A c \in Calls : serving[c] # NoPost => serving[c].room \in Rooms
         /\ NoPost \notin Posts /\ NoPost.room = None /\ None \notin Rooms
BY NobodyAssumption DEF PanelType, NoPost, Posts

LEMMA NoBatchIs ==
  /\ NoBatch \in Batches
  /\ NoBatch.rest = <<>> /\ NoBatch.rooms = {} /\ NoBatch.to = None /\ NoBatch.ok = {}
BY DEF NoBatch, Batches, Someone

\* What the pages do to the server is what anybody may do to it.
LEMMA PanelRoutes == ASSUME GInv, [PanelNext]_<<vars, panel>> PROVE RInv'
<1>1. \A c \in Calls : BeginPost(c) => [Next]_vars
  <2> SUFFICES ASSUME NEW c \in Calls, BeginPost(c) PROVE [Next]_vars
    OBVIOUS
  <2>1. PICK p \in posted : ReadAssign(c, p.room, p.to)
    BY DEF BeginPost
  <2>2. p.room \in Rooms /\ p.to \in Attendants \cup {None}
    BY DEF GInv, PanelType, Posts, Someone
  <2> QED BY <2>1, <2>2 DEF Next, Request
<1>2. \A c \in Calls : ServeCall(c) => [Next]_vars
  BY DEF ServeCall, Next, Request, Serve
<1>3. \/ UNCHANGED vars
      \/ \E c \in Calls : BeginPost(c) \/ ServeCall(c)
  BY DEF PanelNext, ChangeMode, StartAfresh, AssignSelected, ServeLoad, ShowRooms, LoadFails,
         PostLost, TapForActive,
         RemoveFromSession, ToggleRoom, PickFor, ToggleActive, ChooseTarget, Answer, AnswerLost,
         Panel, Map
<1>4. [Next]_vars
  BY <1>1, <1>2, <1>3
<1> QED BY <1>4, NextRoutes DEF GInv

LEMMA PanelBegins == Init /\ PanelInit => GInv
<1> SUFFICES ASSUME Init, PanelInit PROVE GInv
  OBVIOUS
<1>1. RInv
  BY InitRoutes
<1>2. PanelType
  BY NoBatchIs DEF Init, PanelInit, PanelType, Someone
<1>3. \A c \in Calls : ServesPost(c)
  BY DEF Init, PanelInit, ServesPost, Idle
<1>4. Alone
  BY <1>2, NoPostApart DEF Alone, PanelInit
<1>5. PanelPart
  BY <1>2, NoPostApart DEF PanelPart, PanelInit, ShowsAsked, SessionIsHers
<1>6. LoadType /\ Len(loads) = 0 /\ late = 0
  <2>1. loads = <<>> /\ late = 0 /\ outdated = FALSE
    BY DEF PanelInit
  <2>2. <<>> \in Seq(Loadings) /\ Len(<<>>) = 0
    BY EmptySeq
  <2>3. 0 \in 0..0
    OBVIOUS
  <2> QED BY <2>1, <2>2, <2>3 DEF LoadType
<1>7. MapIdle
  BY <1>6, NoBatchIs DEF MapIdle, PanelInit, AsIs
<1>8. MapPart
  BY <1>6, <1>7 DEF MapPart, PanelInit
<1> QED BY <1>1, <1>2, <1>3, <1>4, <1>5, <1>8 DEF GInv

-----------------------------------------------------------------------------
(***************************************************************************)
(* The panel.                                                              *)
(***************************************************************************)

\* A posted tap: nothing else is under way for its room, or the room is unsure.
LEMMA PostInv ==
  ASSUME GInv, Panel, NEW r \in Rooms, NEW to \in Someone, Post(r, to), RInv',
         active' \in Someone, session' \subseteq Rooms,
         picker' => session' = {}, \A q \in session' : active' # None /\ grid'[q] = active'
  PROVE  GInv'
<1>1. PanelType /\ Alone /\ page = "panel" /\ ~failed
  BY DEF GInv, Panel
<1>2. /\ grid' = [grid EXCEPT ![r] = to] /\ posted' = posted \cup {[room |-> r, to |-> to]}
      /\ unsure' = IF \E p \in UnderWay : p.room = r THEN unsure \cup {r} ELSE unsure \ {r}
  BY DEF Post
<1>3. /\ UNCHANGED <<who, place, call, page, serving, batch, notice, loads, late, outdated, failed>>
  BY DEF Panel, loading, vars
<1>4. PanelType'
  BY <1>1, <1>2, <1>3 DEF PanelType, Posts
<1>5. r \notin unsure' => (\A p \in posted : p.room # r) /\ \A c \in Calls : serving[c].room # r
  BY <1>1, <1>2, NoPostApart DEF UnderWay
<1>6. \A q \in Rooms \ {r} : q \in unsure' <=> q \in unsure
  BY <1>2
<1>7. \A p \in posted' : p.room # r => p \in posted
  BY <1>2
<1>8. \A c \in Calls : ServesPost(c)'
  BY <1>1, <1>3, <1>5, <1>6, NoPostApart DEF GInv, ServesPost
<1>9. Alone'
  <2> SUFFICES ASSUME NEW q \in Rooms \ unsure'
               PROVE  /\ \A p, s \in posted' : p.room = q /\ s.room = q => p = s
                      /\ \A p \in posted', c \in Calls : ~(p.room = q /\ serving[c].room = q)
                      /\ \A c, d \in Calls : serving[c].room = q /\ serving[d].room = q => c = d
    BY <1>3 DEF Alone
  <2>1. CASE q = r
    BY <1>2, <1>5, <2>1
  <2>2. CASE q # r
    BY <1>1, <1>6, <1>7, <2>2 DEF Alone
  <2> QED BY <2>1, <2>2
<1>10. \A q \in Rooms \ unsure' : ShowsAsked(q)'
  <2> SUFFICES ASSUME NEW q \in Rooms \ unsure' PROVE ShowsAsked(q)'
    OBVIOUS
  <2>1. CASE q = r
    <3>1. grid'[r] = to
      BY <1>1, <1>2 DEF PanelType
    <3>2. [room |-> r, to |-> to] \in posted'
      BY <1>2
    <3>3. \A p \in posted' : p.room = r => p = [room |-> r, to |-> to]
      BY <1>2, <1>5, <2>1
    <3> QED BY <1>3, <1>5, <2>1, <3>1, <3>2, <3>3 DEF ShowsAsked
  <2>2. CASE q # r
    <3>1. ShowsAsked(q)
      BY <1>1, <1>6, <2>2 DEF GInv, PanelPart
    <3>2. grid'[q] = grid[q] /\ who' = who /\ serving' = serving
      BY <1>1, <1>2, <1>3, <2>2 DEF PanelType
    <3>3. posted \subseteq posted'
      BY <1>2
    <3> QED BY <1>7, <2>2, <3>1, <3>2, <3>3 DEF ShowsAsked
  <2> QED BY <2>1, <2>2
<1>11. PanelPart'
  BY <1>1, <1>3, <1>10 DEF GInv, PanelPart, SessionIsHers
<1>12. MapPart'
  BY <1>1, <1>3 DEF MapPart
<1> QED BY <1>4, <1>8, <1>9, <1>11, <1>12 DEF GInv

\* A tap that posts nothing.
LEMMA ChooseInv ==
  ASSUME GInv, Panel, UNCHANGED <<grid, posted, unsure>>, RInv',
         active' \in Someone, session' = {}
  PROVE  GInv'
<1>1. /\ UNCHANGED <<who, place, call, page, serving, batch, notice, loads, late, outdated, failed>>
      /\ UNCHANGED <<grid, posted, unsure>>
  BY DEF Panel, loading, vars
<1>2. PanelType'
  BY <1>1 DEF GInv, PanelType
<1>3. (\A c \in Calls : ServesPost(c)') /\ Alone'
  BY <1>1 DEF GInv, ServesPost, Alone
<1>4. PanelPart'
  BY <1>1 DEF GInv, PanelPart, ShowsAsked, SessionIsHers
<1>5. MapPart'
  BY <1>1 DEF MapPart, Panel
<1> QED BY <1>2, <1>3, <1>4, <1>5 DEF GInv

LEMMA PanelSteps ==
  ASSUME GInv, RInv',
         \/ ChangeMode
         \/ \E r \in Rooms : TapForActive(r) \/ RemoveFromSession(r)
         \/ \E r \in Rooms, a \in Attendants : PickFor(r, a)
         \/ \E a \in Attendants : ToggleActive(a)
  PROVE  GInv'
<1>1. PanelType /\ PanelPart
  BY DEF GInv
<1>2. CASE \E r \in Rooms : TapForActive(r)
  <2>0. PICK r \in Rooms : TapForActive(r)
    BY <1>2
  <2>1. /\ Panel /\ ~picker /\ active # None /\ session' = session \cup {r} /\ Post(r, active)
        /\ UNCHANGED <<active, picker>>
    BY <2>0 DEF TapForActive
  <2>2. \A q \in session : grid[q] = active
    BY <1>1, <2>1 DEF Panel, PanelPart, SessionIsHers
  <2>3. \A q \in session' : active' # None /\ grid'[q] = active'
    BY <1>1, <2>1, <2>2 DEF Post, PanelType
  <2>4. active \in Someone /\ session' \subseteq Rooms
    BY <1>1, <2>1 DEF PanelType
  <2> QED BY <2>1, <2>3, <2>4, PostInv
<1>3. CASE \E r \in Rooms : RemoveFromSession(r)
  <2>0. PICK r \in Rooms : RemoveFromSession(r)
    BY <1>3
  <2>1. /\ Panel /\ session' = session \ {r} /\ Post(r, None) /\ UNCHANGED <<active, picker>>
    BY <2>0 DEF RemoveFromSession
  <2>2. (\A q \in session : active # None /\ grid[q] = active) /\ (picker => session = {})
    BY <1>1, <2>1 DEF Panel, PanelPart, SessionIsHers
  <2>3. \A q \in session' : active' # None /\ grid'[q] = active'
    BY <1>1, <2>1, <2>2 DEF Post, PanelType
  <2>4. active \in Someone /\ session' \subseteq Rooms /\ None \in Someone
    BY <1>1, <2>1 DEF PanelType, Someone
  <2> QED BY <2>1, <2>2, <2>3, <2>4, PostInv
<1>4. CASE \E r \in Rooms, a \in Attendants : PickFor(r, a)
  <2>0. PICK r \in Rooms, a \in Attendants : PickFor(r, a)
    BY <1>4
  <2>1. Panel /\ picker /\ Post(r, a) /\ UNCHANGED <<active, session, picker>>
    BY <2>0 DEF PickFor
  <2>2. session = {}
    BY <1>1, <2>1 DEF Panel, PanelPart
  <2>3. active \in Someone /\ a \in Someone
    BY <1>1 DEF PanelType, Someone
  <2> QED BY <2>1, <2>2, <2>3, PostInv
<1>5. CASE ChangeMode \/ \E a \in Attendants : ToggleActive(a)
  <2>1. Panel /\ session' = {} /\ UNCHANGED <<grid, posted, unsure>>
    BY <1>5 DEF ToggleActive, ChangeMode
  <2>2. active' \in Someone
    BY <1>1, <1>5 DEF ToggleActive, ChangeMode, PanelType, Someone
  <2> QED BY <2>1, <2>2, ChooseInv
<1> QED BY <1>2, <1>3, <1>4, <1>5

-----------------------------------------------------------------------------
(***************************************************************************)
(* The floor-plan page.                                                    *)
(***************************************************************************)

LEMMA MapSteps ==
  ASSUME GInv, RInv',
         \/ StartAfresh
         \/ \E r \in Rooms : ToggleRoom(r)
         \/ \E a \in Attendants : ChooseTarget(a)
  PROVE  GInv'
<1>1. /\ page = "map" /\ UNCHANGED <<who, place, call, page, grid, serving, failed, unsure>>
      /\ UNCHANGED <<posted, batch, loads, late, outdated>>
      /\ notice' \in {notice, NoBatch}
  BY DEF ToggleRoom, ChooseTarget, StartAfresh, Map, loading, vars
<1>2. active' \in Someone /\ session' \subseteq Rooms
  BY DEF GInv, PanelType, Someone, ToggleRoom, ChooseTarget, StartAfresh
<1>3. PanelType'
  BY <1>1, <1>2, NoBatchIs DEF GInv, PanelType
<1>4. (\A c \in Calls : ServesPost(c)') /\ Alone'
  BY <1>1 DEF GInv, ServesPost, Alone
<1>5. PanelPart'
  BY <1>1 DEF PanelPart
<1>6. batch = NoBatch => MapIdle'
  BY <1>1, NoBatchIs DEF GInv, MapPart, MapIdle, AsIs
<1>7. batch # NoBatch => MapBusy'
  BY <1>1 DEF GInv, MapPart, MapBusy, NextPost
<1>8. MapPart'
  BY <1>1, <1>6, <1>7 DEF GInv, MapPart, LoadType
<1> QED BY <1>3, <1>4, <1>5, <1>8 DEF GInv

LEMMA AssignSelectedInv == ASSUME GInv, RInv', AssignSelected PROVE GInv'
<1>1. PICK rest \in Arrangements(session) :
        /\ batch' = [rest |-> rest, rooms |-> session, to |-> active, ok |-> {}]
        /\ posted' = {[room |-> rest[1], to |-> active]}
  BY DEF AssignSelected
<1>2. /\ page = "map" /\ batch = NoBatch /\ session # {} /\ active # None
      /\ notice' = NoBatch /\ unsure' = {}
      /\ UNCHANGED <<who, place, call, page, grid, serving, failed, active, session, loads,
                     late, outdated>>
  BY DEF AssignSelected, loading, vars
<1>3. PanelType /\ MapIdle /\ LoadType
  BY <1>2 DEF GInv, MapPart
<1>4. rest \in Seq(Rooms) /\ Items(rest) = session
  BY <1>3, Arranged DEF PanelType
<1>5. rest # <<>>
  BY <1>2, <1>4 DEF Items
<1>6. rest[1] \in Rooms
  BY <1>4, <1>5
<1>7. PanelType'
  BY <1>1, <1>2, <1>3, <1>4, <1>6, NoBatchIs DEF PanelType, Posts, Batches
<1>8. \A c \in Calls : serving'[c] = NoPost
  BY <1>2, <1>3 DEF MapIdle
<1>9. (\A c \in Calls : ServesPost(c)') /\ Alone'
  BY <1>1, <1>2, <1>3, <1>8, NoPostApart DEF GInv, ServesPost, Alone
<1>10. batch'.rest = rest /\ batch'.to = active /\ batch'.ok = {}
  BY <1>1
<1>11. batch' # NoBatch
  BY <1>5, <1>10, NoBatchIs
<1>12. MapBusy'
  BY <1>1, <1>2, <1>5, <1>8, <1>10 DEF MapBusy, NextPost
<1>13. PanelPart' /\ MapPart'
  BY <1>2, <1>3, <1>11, <1>12 DEF PanelPart, MapPart, LoadType
<1> QED BY <1>7, <1>9, <1>13 DEF GInv

\* What is left of the loads without one of them.
LEMMA Removed ==
  ASSUME NEW S, loads \in Seq(S), NEW i \in DOMAIN loads
  PROVE  /\ Without(i) \in Seq(S) /\ Len(Without(i)) = Len(loads) - 1
         /\ i < Len(loads) => Without(i)[Len(loads) - 1] = loads[Len(loads)]
         /\ Len(loads) \in Nat /\ i \in 1..Len(loads)
<1>1. Len(loads) \in Nat /\ DOMAIN loads = 1..Len(loads) /\ i \in 1..Len(loads)
  OBVIOUS
<1>2. /\ Len(loads) - 1 \in Nat
      /\ \A j \in 1..Len(loads) - 1 : (IF j < i THEN loads[j] ELSE loads[j + 1]) \in S
  BY <1>1
<1>3. Without(i) \in Seq(S) /\ Len(Without(i)) = Len(loads) - 1
  BY <1>2, IsASeq, LenProperties DEF Without
<1>4. i < Len(loads) => Without(i)[Len(loads) - 1] = loads[Len(loads)]
  BY <1>1 DEF Without
<1> QED BY <1>1, <1>3, <1>4

LEMMA ServeLoadInv ==
  ASSUME GInv, RInv', NEW i \in DOMAIN loads, ServeLoad(i) PROVE GInv'
<1>1. /\ loads' = [loads EXCEPT ![i] = who]
      /\ UNCHANGED <<who, place, call, unsure, page, grid, active, session, picker, posted,
                     serving, batch, notice, late, outdated, failed>>
  BY DEF ServeLoad, vars
<1>2. PanelType /\ page = "map" /\ LoadType /\ who \in Loadings
  BY Typed DEF GInv, Someone, Loadings, PanelType, PanelPart, MapPart
<1>3. loads' \in Seq(Loadings) /\ Len(loads') = Len(loads)
  BY <1>1, <1>2 DEF LoadType
<1>4. PanelType' /\ LoadType'
  BY <1>1, <1>2, <1>3 DEF PanelType, LoadType
<1>5. (\A c \in Calls : ServesPost(c)') /\ Alone'
  BY <1>1 DEF GInv, ServesPost, Alone
<1>6. PanelPart'
  BY <1>1, <1>2 DEF PanelPart
<1>7. loads'[Len(loads)] = loads[Len(loads)] \/ loads'[Len(loads)] = who
  BY <1>1, <1>2 DEF LoadType
<1>8. batch = NoBatch => MapIdle'
  BY <1>1, <1>2, <1>3, <1>7 DEF GInv, MapPart, MapIdle, AsIs
<1>9. MapPart'
  BY <1>1, <1>4, <1>8 DEF GInv, MapPart, MapBusy, NextPost
<1> QED BY <1>4, <1>5, <1>6, <1>9 DEF GInv

LEMMA ShowRoomsInv ==
  ASSUME GInv, RInv', NEW i \in DOMAIN loads, ShowRooms(i) PROVE GInv'
<1>1. /\ page = "map" /\ loads[i] # None /\ grid' = loads[i] /\ loads' = Without(i)
      /\ outdated' = (i <= late) /\ late' = IF i <= late THEN late - 1 ELSE i - 1
      /\ UNCHANGED <<who, place, call, unsure, page, active, session, picker, posted, serving,
                     batch, notice, failed>>
  BY DEF ShowRooms, vars
<1>2. PanelType /\ LoadType
  BY <1>1 DEF GInv, MapPart
<1>3. /\ loads' \in Seq(Loadings) /\ Len(loads') = Len(loads) - 1
      /\ i < Len(loads) => loads'[Len(loads')] = loads[Len(loads)]
      /\ Len(loads) \in Nat /\ i \in 1..Len(loads)
  BY <1>1, <1>2, Removed DEF LoadType
<1>4. grid' \in [Rooms -> Someone]
  BY <1>1, <1>2 DEF LoadType, Loadings
<1>5. late' \in 0..Len(loads') /\ outdated' \in BOOLEAN
  BY <1>1, <1>2, <1>3 DEF LoadType
<1>6. PanelType' /\ LoadType'
  BY <1>1, <1>2, <1>3, <1>4, <1>5 DEF PanelType, LoadType
<1>7. (\A c \in Calls : ServesPost(c)') /\ Alone'
  BY <1>1 DEF GInv, ServesPost, Alone
<1>8. PanelPart'
  BY <1>1 DEF PanelPart
<1>9. ASSUME batch = NoBatch PROVE MapIdle'
  <2>1. MapIdle
    BY <1>1, <1>9 DEF GInv, MapPart
  <2>2. late' < Len(loads') => i < Len(loads) /\ late < Len(loads)
    BY <1>1, <1>2, <1>3 DEF LoadType
  <2>3. late' < Len(loads') => (loads[Len(loads)] = None \/ AsIs(loads[Len(loads)]))'
    BY <1>1, <1>3, <2>1, <2>2 DEF MapIdle, AsIs
  <2>4. late' = Len(loads') /\ ~outdated' => i = Len(loads) /\ late < Len(loads)
    <3>1. ~outdated' => ~(i <= late)
      BY <1>1
    <3>2. ~(i <= late) => late' = i - 1
      BY <1>1
    <3>3. late \in Int /\ Len(loads) \in Int /\ i \in Int /\ Len(loads') = Len(loads) - 1
      BY <1>2, <1>3 DEF LoadType
    <3>4. i <= Len(loads)
      BY <1>3
    <3> QED BY <3>1, <3>2, <3>3, <3>4
  <2>5. late' = Len(loads') /\ ~outdated' => AsIs(grid)'
    BY <1>1, <2>1, <2>4 DEF MapIdle, AsIs
  <2> QED BY <1>1, <2>1, <2>3, <2>5 DEF MapIdle
<1>10. MapPart'
  BY <1>1, <1>6, <1>9 DEF GInv, MapPart, MapBusy, NextPost
<1> QED BY <1>6, <1>7, <1>8, <1>10 DEF GInv

LEMMA LoadFailsInv == ASSUME GInv, RInv', LoadFails PROVE GInv'
<1>1. /\ loads # <<>> /\ failed' = TRUE
      /\ UNCHANGED <<who, place, call, unsure, page, grid, active, session, picker, posted,
                     serving, batch, notice, loads, late, outdated>>
  BY DEF LoadFails, loading, vars
<1>2. PanelType' /\ (\A c \in Calls : ServesPost(c)') /\ Alone'
  BY <1>1 DEF GInv, PanelType, ServesPost, Alone
<1>3. PanelPart' /\ MapPart'
  BY <1>1 DEF GInv, PanelPart, SessionIsHers, MapPart, MapIdle, MapBusy, NextPost, AsIs,
              LoadType
<1> QED BY <1>2, <1>3 DEF GInv

-----------------------------------------------------------------------------
(***************************************************************************)
(* Server and network.                                                     *)
(***************************************************************************)

\* The request of the batch is settled; if well, its room is with whom the batch is for.
LEMMA NextOfBatchInv ==
  ASSUME GInv, RInv', page = "map", batch # NoBatch, UNCHANGED vars, NEW ok \in BOOLEAN,
         \A c \in Calls : serving'[c] = NoPost, DOMAIN serving' = Calls,
         serving' = [c \in Calls |-> NoPost],
         ok /\ batch.rest[1] \notin unsure => who[batch.rest[1]] = batch.to,
         NextOfBatch(ok)
  PROVE  GInv'
<1> DEFINE done == IF ok THEN batch.ok \cup {batch.rest[1]} ELSE batch.ok
<1>1. PanelType /\ MapBusy /\ LoadType
  BY DEF GInv, MapPart
<1>2. UNCHANGED <<who, place, call, page, grid, late, outdated, failed, unsure>>
  BY DEF NextOfBatch, vars
<1>3. /\ batch \in Batches /\ batch.rest \in Seq(Rooms) /\ batch.rest # <<>>
      /\ batch.to \in Someone /\ batch.to # None
      /\ batch.rooms \subseteq Rooms
  BY <1>1 DEF PanelType, Batches, MapBusy
<1>4. Len(batch.rest) \in Nat /\ Len(batch.rest) >= 1 /\ batch.rest[1] \in Rooms
  BY <1>3
<1>5. done \subseteq Rooms /\ \A r \in done \ unsure : who[r] = batch.to
  BY <1>1, <1>4 DEF PanelType, Batches, MapBusy
<1>6. \A c \in Calls : ServesPost(c)'
  BY <1>2 DEF GInv, ServesPost
<1>7. PanelPart'
  BY <1>2 DEF PanelPart
<1>8. CASE Len(batch.rest) > 1
  <2>1. /\ batch' = [batch EXCEPT !.rest = Tail(batch.rest), !.ok = done]
        /\ posted' = {[room |-> batch.rest[2], to |-> batch.to]}
        /\ UNCHANGED <<active, session, notice, loads>>
    BY <1>8 DEF NextOfBatch
  <2> HIDE DEF done
  <2>2. /\ Tail(batch.rest) \in Seq(Rooms) /\ Tail(batch.rest) # <<>>
        /\ Tail(batch.rest)[1] = batch.rest[2] /\ batch.rest[2] \in Rooms
    <3> DEFINE s == batch.rest
    <3>1. s \in Seq(Rooms) /\ s # <<>> /\ Len(s) > 1
      BY <1>3, <1>8
    <3> HIDE DEF s
    <3>2. /\ Tail(s) \in Seq(Rooms) /\ Len(Tail(s)) = Len(s) - 1 /\ Tail(s)[1] = s[2]
          /\ s[2] \in Rooms /\ Len(s) \in Nat
      BY <3>1
    <3>3. Len(Tail(s)) # 0
      BY <3>1, <3>2
    <3>4. Tail(s) # <<>>
      BY <3>2, <3>3, EmptySeq
    <3> QED BY <3>2, <3>4 DEF s
  <2>3. /\ batch' \in Batches /\ batch'.rest = Tail(batch.rest) /\ batch'.to = batch.to
        /\ batch'.ok = done
    BY <1>3, <1>5, <2>1, <2>2 DEF Batches
  <2>4. PanelType'
    BY <1>1, <1>2, <1>3, <2>1, <2>2, <2>3 DEF PanelType, Posts
  <2>5. Alone'
    BY <2>1, <2>4, NoPostApart, NobodyAssumption DEF Alone, NoPost
  <2>6. batch' # NoBatch
    BY <2>2, <2>3, NoBatchIs
  <2>7. MapBusy'
    BY <1>1, <1>2, <1>3, <1>5, <2>1, <2>2, <2>3 DEF MapBusy, NextPost
  <2>8. MapPart'
    BY <1>1, <1>2, <2>1, <2>6, <2>7 DEF MapPart, LoadType
  <2> QED BY <1>6, <1>7, <2>4, <2>5, <2>8 DEF GInv
<1>9. CASE ~(Len(batch.rest) > 1)
  <2>1. /\ batch' = NoBatch /\ posted' = {}
        /\ notice' = IF done = batch.rooms THEN batch ELSE NoBatch
        /\ session' = {} /\ active' = None /\ loads' = Append(loads, None)
    BY <1>9 DEF NextOfBatch, Reload
  <2> HIDE DEF done
  <2>7. /\ loads' \in Seq(Loadings) /\ Len(loads') = Len(loads) + 1 /\ loads'[Len(loads')] = None
        /\ late \in 0..Len(loads) /\ Len(loads) \in Nat /\ late' \in 0..Len(loads')
        /\ late' < Len(loads')
    BY <1>1, <1>2, <2>1 DEF LoadType, Loadings
  <2>2. PanelType'
    BY <1>1, <1>2, <1>3, <2>1, NoBatchIs DEF PanelType, Someone
  <2>3. Alone'
    BY <2>1, NobodyAssumption DEF Alone, NoPost
  <2>4. MapIdle'
    BY <1>2, <1>5, <2>1, <2>7, NoBatchIs DEF MapIdle
  <2>5. MapPart'
    BY <1>1, <1>2, <2>1, <2>4, <2>7 DEF MapPart, LoadType
  <2> QED BY <1>6, <1>7, <2>2, <2>3, <2>5 DEF GInv
<1> QED BY <1>8, <1>9

LEMMA BeginPostInv == ASSUME GInv, RInv', NEW c \in Calls, BeginPost(c) PROVE GInv'
<1>1. PICK p \in posted :
        /\ serving[c] = NoPost /\ ReadAssign(c, p.room, p.to)
        /\ posted' = posted \ {p} /\ serving' = [serving EXCEPT ![c] = p]
        /\ UNCHANGED <<page, grid, active, session, picker, batch, notice, loads, late, outdated,
                       failed, unsure>>
  BY DEF BeginPost, loading
<1>2. PanelType /\ RInv /\ Alone
  BY DEF GInv
<1>3. p \in Posts /\ p.room \in Rooms /\ p.to \in Someone /\ p # NoPost
  BY <1>2, NoPostApart DEF PanelType, Posts
<1>4. /\ UNCHANGED <<who, place>>
      /\ call'[c].pc = "assign" /\ call'[c].room = p.room /\ call'[c].to = p.to
      /\ \A d \in Calls \ {c} : call'[d] = call[d]
  BY <1>1, <1>2, Typed DEF ReadAssign, Idle
<1>5. serving'[c] = p /\ \A d \in Calls \ {c} : serving'[d] = serving[d]
  BY <1>1, <1>2 DEF PanelType
<1>6. PanelType'
  BY <1>1, <1>2, <1>3 DEF PanelType
<1>7. \A d \in Calls : ServesPost(d)'
  BY <1>1, <1>4, <1>5 DEF GInv, ServesPost
<1>8. Alone'
  <2> SUFFICES ASSUME NEW r \in Rooms \ unsure
               PROVE  /\ \A q, s \in posted' : q.room = r /\ s.room = r => q = s
                      /\ \A q \in posted', d \in Calls : ~(q.room = r /\ serving'[d].room = r)
                      /\ \A d, e \in Calls :
                           serving'[d].room = r /\ serving'[e].room = r => d = e
    BY <1>1 DEF Alone
  <2>1. \A q \in posted' : q \in posted /\ q # p
    BY <1>1
  <2>2. CASE p.room = r
    <3>1. (\A q \in posted' : q.room # r) /\ \A d \in Calls \ {c} : serving'[d].room # r
      BY <1>2, <1>5, <2>1, <2>2 DEF Alone
    <3> QED BY <3>1
  <2>3. CASE p.room # r
    BY <1>2, <1>5, <2>1, <2>3, NoPostApart DEF Alone
  <2> QED BY <2>2, <2>3
<1>9. \A r \in Rooms \ unsure : ShowsAsked(r) => ShowsAsked(r)'
  <2> SUFFICES ASSUME NEW r \in Rooms \ unsure, ShowsAsked(r) PROVE ShowsAsked(r)'
    OBVIOUS
  <2>1. serving[c].room # r
    BY <1>1, <1>2, NoPostApart
  <2>2. CASE p.room = r
    BY <1>1, <1>5, <2>2 DEF ShowsAsked
  <2>3. CASE p.room # r
    BY <1>1, <1>4, <1>5, <2>1, <2>3 DEF ShowsAsked
  <2> QED BY <2>2, <2>3
<1>10. PanelPart'
  BY <1>1, <1>9 DEF GInv, PanelPart, SessionIsHers
<1>11. MapPart'
  <2> SUFFICES ASSUME page = "map" PROVE MapPart'
    BY <1>1 DEF MapPart
  <2>1. batch # NoBatch
    BY DEF GInv, MapPart, MapIdle
  <2>2. MapBusy
    BY <2>1 DEF GInv, MapPart
  <2>3. p = NextPost /\ posted' = {} /\ \A d \in Calls : serving[d] = NoPost
    BY <1>1, <2>2 DEF MapBusy
  <2>4. MapBusy'
    BY <1>1, <1>4, <1>5, <2>2, <2>3 DEF MapBusy, NextPost
  <2> QED BY <1>1, <2>1, <2>4 DEF GInv, MapPart, LoadType
<1> QED BY <1>6, <1>7, <1>8, <1>10, <1>11 DEF GInv

\* What one step of the server does, as far as the pages can tell.
LEMMA ServeCallEffect ==
  ASSUME GInv, NEW c \in Calls, ServeCall(c)
  PROVE  /\ UNCHANGED <<page, grid, active, session, picker, posted, serving, batch, notice,
                        loads, late, outdated, failed>>
         /\ unsure \subseteq unsure' /\ unsure' \subseteq Rooms
         /\ call'[c].pc \in {"idle", "assign", "tell"}
         /\ serving[c] # NoPost => call'[c].pc # "assign"
         /\ \A d \in Calls \ {c} : /\ call'[d].pc = call[d].pc /\ call'[d].room = call[d].room
                                   /\ call'[d].to = call[d].to
         /\ \A r \in Rooms \ unsure' :
              \/ who'[r] = who[r] /\ serving[c].room # r
              \/ serving[c].room = r /\ who'[r] = serving[c].to
<1> DEFINE k == call[c]
<1>1. RInv /\ PanelType /\ ServesPost(c)
  BY DEF GInv
<1>2. call \in [Calls -> CallRecs] /\ who \in [Rooms -> Attendants \cup {None}]
  BY <1>1, Typed
<1>3. /\ UNCHANGED <<page, grid, active, session, picker, posted, serving, batch, notice,
                     loads, late, outdated, failed>>
      /\ unsure' = unsure \cup Foreign(serving[c] # NoPost)
  BY DEF ServeCall, loading
<1>4. unsure \subseteq unsure' /\ unsure' \subseteq Rooms
  BY <1>1, <1>3 DEF Foreign, PanelType
<1>5. CASE CommitAssign(c)
  <2>1. /\ k.pc = "assign" /\ who' = [who EXCEPT ![k.room] = k.to]
        /\ call' = [Overtaken EXCEPT ![c] = Informing(k)]
    BY <1>5 DEF CommitAssign, Proceed
  <2>2. Informing(k).pc \in {"idle", "tell"}
    BY DEF Informing, Idle
  <2>3. DOMAIN Overtaken = Calls
    BY DEF Overtaken
  <2>4. call'[c] = Informing(k) /\ \A d \in Calls \ {c} : call'[d] = Overtaken[d]
    BY <2>1, <2>3
  <2>5. \A d \in Calls : /\ Overtaken[d].pc = call[d].pc /\ Overtaken[d].room = call[d].room
                         /\ Overtaken[d].to = call[d].to
    BY <1>2 DEF Overtaken, CallRecs
  <2>6. \A r \in Rooms \ {k.room} : who'[r] = who[r]
    BY <1>2, <2>1
  <2>7. k.room \in Rooms => who'[k.room] = k.to
    BY <1>2, <2>1
  <2>8. CASE serving[c] = NoPost
    <3>1. \A r \in Rooms \ unsure' : who'[r] = who[r]
      BY <1>3, <2>8 DEF Foreign
    <3> QED BY <1>1, <1>3, <1>4, <2>2, <2>4, <2>5, <2>8, <3>1, NoPostApart
  <2>9. CASE serving[c] # NoPost
    <3>1. k.room = serving[c].room /\ k.to = serving[c].to
      BY <1>1, <2>1, <2>9 DEF ServesPost
    <3> HIDE DEF k
    <3> QED BY <1>1, <1>3, <1>4, <2>2, <2>4, <2>5, <2>6, <2>7, <2>9, <3>1, NoPostApart
  <2> QED BY <2>8, <2>9
<1>6. CASE Tell(c)
  <2>1. /\ k.pc = "tell" /\ who' = who
        /\ call' = [call EXCEPT ![c] =
                      IF Len(k.tell) = 1 THEN Idle ELSE [k EXCEPT !.tell = Tail(k.tell)]]
    BY <1>6 DEF Tell
  <2>2. call'[c].pc \in {"idle", "tell"} /\ \A d \in Calls \ {c} : call'[d] = call[d]
    BY <1>2, <2>1 DEF Idle, CallRecs
  <2>3. \A r \in Rooms \ unsure' : serving[c].room = r => who[r] = serving[c].to
    BY <1>1, <1>4, <2>1, NoPostApart DEF ServesPost
  <2> QED BY <1>3, <1>4, <2>1, <2>2, <2>3
<1>7. CASE serving[c] = NoPost /\ \E r \in Rooms, to \in Attendants \cup {None} : ReadAssign(c, r, to)
  <2>1. who' = who /\ call'[c].pc = "assign" /\ \A d \in Calls \ {c} : call'[d] = call[d]
    BY <1>2, <1>7 DEF ReadAssign, Idle
  <2> QED BY <1>1, <1>3, <1>4, <1>7, <2>1, NoPostApart
<1> QED BY <1>5, <1>6, <1>7 DEF ServeCall

LEMMA ServeCallInv == ASSUME GInv, RInv', NEW c \in Calls, ServeCall(c) PROVE GInv'
<1>1. /\ UNCHANGED <<page, grid, active, session, picker, posted, serving, batch, notice,
                     loads, late, outdated, failed>>
      /\ unsure \subseteq unsure' /\ unsure' \subseteq Rooms
      /\ call'[c].pc \in {"idle", "assign", "tell"}
      /\ serving[c] # NoPost => call'[c].pc # "assign"
      /\ \A d \in Calls \ {c} : /\ call'[d].pc = call[d].pc /\ call'[d].room = call[d].room
                                /\ call'[d].to = call[d].to
      /\ \A r \in Rooms \ unsure' :
           \/ who'[r] = who[r] /\ serving[c].room # r
           \/ serving[c].room = r /\ who'[r] = serving[c].to
  BY ServeCallEffect
<1>2. PanelType /\ Alone /\ \A d \in Calls : ServesPost(d)
  BY DEF GInv
<1>3. PanelType' /\ Alone'
  BY <1>1, <1>2 DEF PanelType, Alone
<1>4. \A d \in Calls : ServesPost(d)'
  <2> SUFFICES ASSUME NEW d \in Calls PROVE ServesPost(d)'
    OBVIOUS
  <2>1. CASE d = c
    BY <1>1, <1>2, <2>1, NoPostApart DEF ServesPost
  <2>2. CASE d # c
    <3>1. serving[d] # NoPost /\ serving[d].room \notin unsure' =>
            who'[serving[d].room] = who[serving[d].room]
      BY <1>1, <1>2, <2>2, NoPostApart DEF Alone
    <3> QED BY <1>1, <1>2, <2>2, <3>1 DEF ServesPost
  <2> QED BY <2>1, <2>2
<1>5. \A r \in Rooms \ unsure' : ShowsAsked(r) => ShowsAsked(r)'
  BY <1>1 DEF ShowsAsked
<1>6. PanelPart'
  BY <1>1, <1>5 DEF GInv, PanelPart, SessionIsHers
<1>7. batch = NoBatch /\ MapIdle => MapIdle'
  BY <1>1, <1>2, NoPostApart DEF MapIdle, PanelType, Batches, AsIs
<1>8. MapBusy => MapBusy'
  <2> SUFFICES ASSUME MapBusy PROVE MapBusy'
    OBVIOUS
  <2>1. \A r \in batch.ok \ unsure' : who'[r] = batch.to
    <3> SUFFICES ASSUME NEW r \in batch.ok \ unsure' PROVE who'[r] = batch.to
      OBVIOUS
    <3>1. r \in Rooms /\ who[r] = batch.to
      BY <1>1, <1>2 DEF MapBusy, PanelType, Batches
    <3>2. serving[c].room = r => serving[c].to = batch.to
      BY <1>2, <3>1, NoPostApart DEF MapBusy, NextPost
    <3> QED BY <1>1, <3>1, <3>2
  <2> QED BY <1>1, <2>1 DEF MapBusy, NextPost
<1>9. MapPart'
  BY <1>1, <1>7, <1>8 DEF GInv, MapPart, LoadType
<1> QED BY <1>3, <1>4, <1>6, <1>9 DEF GInv

\* The answer of a request is on its way or lost; the panel shows only an error if so.
LEMMA Settled ==
  ASSUME GInv, RInv', UNCHANGED vars, page = "panel",
         UNCHANGED <<page, grid, active, session, picker, posted, batch, notice, loads, late,
                     outdated, unsure>>,
         NEW c \in Calls, serving' \in {serving, [serving EXCEPT ![c] = NoPost]},
         failed' \in BOOLEAN,
         ~failed' => ~failed /\ (serving[c].room \in Rooms \ unsure =>
                                   who[serving[c].room] = serving[c].to)
  PROVE  GInv'
<1>1. PanelType /\ Alone /\ (\A d \in Calls : ServesPost(d)) /\ PanelPart
  BY DEF GInv
<1>2. UNCHANGED <<who, place, call>>
  BY DEF vars
<1>3. \A d \in Calls : serving'[d] = serving[d] \/ (d = c /\ serving'[d] = NoPost)
  BY <1>1 DEF PanelType
<1>4. PanelType'
  BY <1>1 DEF PanelType
<1>5. \A d \in Calls : ServesPost(d)'
  BY <1>1, <1>2, <1>3 DEF ServesPost
<1>6. NoPost.room \notin Rooms
  BY <1>1, NoPostApart
<1>7. Alone'
  <2>1. \A d \in Calls, r \in Rooms : serving'[d].room = r => serving[d].room = r
    BY <1>3, <1>6
  <2> QED BY <1>1, <2>1 DEF Alone
<1>8. ~failed' => \A r \in Rooms \ unsure : ShowsAsked(r)'
  <2> SUFFICES ASSUME ~failed', NEW r \in Rooms \ unsure PROVE ShowsAsked(r)'
    OBVIOUS
  <2>1. ShowsAsked(r)
    BY <1>1 DEF PanelPart
  <2>2. CASE serving[c].room = r
    <3>1. grid[r] = who[r]
      BY <2>1, <2>2 DEF ShowsAsked
    <3> QED BY <1>2, <1>3, <1>6, <2>1, <3>1 DEF ShowsAsked
  <2>3. CASE serving[c].room # r
    BY <1>2, <1>3, <1>6, <2>1, <2>3 DEF ShowsAsked
  <2> QED BY <2>2, <2>3
<1>9. PanelPart' /\ MapPart'
  BY <1>1, <1>8 DEF PanelPart, MapPart, SessionIsHers
<1> QED BY <1>4, <1>5, <1>7, <1>9 DEF GInv

LEMMA AnswerInv ==
  ASSUME GInv, RInv', NEW c \in Calls, Answer(c) \/ AnswerLost(c) PROVE GInv'
<1>1. /\ serving[c] # NoPost /\ UNCHANGED vars
      /\ serving' = [serving EXCEPT ![c] = NoPost]
  BY DEF Answer, AnswerLost
<1>2. PanelType /\ ServesPost(c) /\ MapPart
  BY DEF GInv
<1>3. CASE page = "panel"
  <2>1. /\ UNCHANGED <<page, grid, active, session, picker, posted, batch, notice, loads, late,
                       outdated, unsure>>
        /\ failed' \in BOOLEAN
        /\ ~failed' => Answer(c) /\ ~failed
    BY <1>2, <1>3 DEF Answer, AnswerLost, Failure, PanelType, loading
  <2>2. Answer(c) /\ serving[c].room \notin unsure => who[serving[c].room] = serving[c].to
    BY <1>1, <1>2 DEF Answer, ServesPost
  <2> QED BY <1>1, <1>3, <2>1, <2>2, Settled
<1>4. CASE page = "map"
  <2>1. batch # NoBatch
    BY <1>1, <1>2, <1>4 DEF MapPart, MapIdle
  <2>2. MapBusy
    BY <1>2, <1>4, <2>1 DEF MapPart
  <2>3. serving' = [d \in Calls |-> NoPost]
    BY <1>1, <1>2, <2>2 DEF MapBusy, PanelType
  <2>4. serving[c] = NextPost
    BY <1>1, <2>2 DEF MapBusy
  <2>5. (NextOfBatch(TRUE) /\ Answer(c)) \/ NextOfBatch(FALSE)
    BY <1>4 DEF Answer, AnswerLost, Failure
  <2>6. Answer(c) /\ batch.rest[1] \notin unsure => who[batch.rest[1]] = batch.to
    BY <1>1, <1>2, <2>4 DEF Answer, ServesPost, NextPost
  <2> QED BY <1>1, <1>4, <2>1, <2>3, <2>5, <2>6, NextOfBatchInv
<1> QED BY <1>2, <1>3, <1>4 DEF PanelType

LEMMA PostLostInv == ASSUME GInv, RInv', PostLost PROVE GInv'
<1>1. posted # {} /\ UNCHANGED <<vars, serving>> /\ Failure
  BY DEF PostLost
<1>2. PanelType /\ MapPart
  BY DEF GInv
<1>3. CASE page = "panel"
  <2>1. /\ failed' = TRUE
        /\ UNCHANGED <<page, grid, active, session, picker, posted, batch, notice, loads, late,
                       outdated, unsure>>
    BY <1>1, <1>3 DEF Failure, loading
  <2>2. UNCHANGED <<who, place, call, serving>>
    BY <1>1 DEF vars
  <2>3. PanelType'
    BY <1>2, <2>1, <2>2 DEF PanelType
  <2>4. (\A c \in Calls : ServesPost(c)') /\ Alone'
    BY <2>1, <2>2 DEF GInv, ServesPost, Alone
  <2>5. PanelPart' /\ MapPart'
    BY <1>3, <2>1 DEF GInv, PanelPart, MapPart, SessionIsHers
  <2> QED BY <2>3, <2>4, <2>5 DEF GInv
<1>4. CASE page = "map"
  <2>1. batch # NoBatch
    BY <1>1, <1>2, <1>4 DEF MapPart, MapIdle
  <2>2. MapBusy
    BY <1>2, <1>4, <2>1 DEF MapPart
  <2>3. \A c \in Calls : serving[c] = NoPost
    BY <1>1, <2>2 DEF MapBusy
  <2>4. serving' = [c \in Calls |-> NoPost]
    BY <1>1, <1>2, <2>3 DEF PanelType
  <2>5. NextOfBatch(FALSE)
    BY <1>1, <1>4 DEF Failure
  <2> QED BY <1>1, <1>4, <2>1, <2>4, <2>5, NextOfBatchInv
<1> QED BY <1>2, <1>3, <1>4 DEF PanelType

-----------------------------------------------------------------------------
LEMMA PanelNextInv == GInv /\ [PanelNext]_<<vars, panel>> => GInv'
<1> SUFFICES ASSUME GInv, [PanelNext]_<<vars, panel>> PROVE GInv'
  OBVIOUS
<1>1. RInv'
  BY PanelRoutes
<1>2. CASE UNCHANGED <<vars, panel>>
  <2>1. UNCHANGED <<who, place, call>>
    BY <1>2 DEF vars
  <2>2. UNCHANGED <<page, grid, active, session, picker, posted, serving, batch, notice,
                    loads, late, outdated, failed, unsure>>
    BY <1>2 DEF panel, loading
  <2>3. PanelType'
    BY <2>2 DEF GInv, PanelType
  <2>4. (\A c \in Calls : ServesPost(c)') /\ Alone'
    BY <2>1, <2>2 DEF GInv, ServesPost, Alone
  <2>5. PanelPart'
    BY <2>1, <2>2 DEF GInv, PanelPart, ShowsAsked, SessionIsHers
  <2>6. MapPart'
    BY <2>1, <2>2 DEF GInv, MapPart, MapIdle, MapBusy, NextPost, AsIs, LoadType
  <2> QED BY <1>1, <2>3, <2>4, <2>5, <2>6 DEF GInv
<1>3. CASE \E c \in Calls : BeginPost(c) \/ ServeCall(c) \/ Answer(c) \/ AnswerLost(c)
  BY <1>1, <1>3, BeginPostInv, ServeCallInv, AnswerInv
<1>4. CASE \/ AssignSelected \/ LoadFails \/ PostLost
           \/ \E i \in DOMAIN loads : ServeLoad(i) \/ ShowRooms(i)
  BY <1>1, <1>4, AssignSelectedInv, ServeLoadInv, ShowRoomsInv, LoadFailsInv, PostLostInv
<1>5. CASE \/ ChangeMode
           \/ \E r \in Rooms : TapForActive(r) \/ RemoveFromSession(r)
           \/ \E r \in Rooms, a \in Attendants : PickFor(r, a)
           \/ \E a \in Attendants : ToggleActive(a)
  BY <1>1, <1>5, PanelSteps
<1>6. CASE \/ StartAfresh
           \/ \E r \in Rooms : ToggleRoom(r)
           \/ \E a \in Attendants : ChooseTarget(a)
  BY <1>1, <1>6, MapSteps
<1> QED BY <1>2, <1>3, <1>4, <1>5, <1>6 DEF PanelNext

\* The panel of the planning page shows who has each room, and the round lists the rooms
\* of its attendant, once all taps are answered and none has failed; the map says assigned
\* of what it shows so, once its loads are answered, in whichever order they come as long as
\* the last asked for is not overtaken: for any number of rooms, attendants, calls and taps.
THEOREM PanelSafe == PanelSpec => []PanelInv
<1>1. GInv => PanelInv
  <2> SUFFICES ASSUME GInv PROVE PanelInv
    OBVIOUS
  <2>1. PanelType /\ PanelPart /\ MapPart
    BY DEF GInv
  <2>2. UnderWay = {} => posted = {} /\ \A c \in Calls : serving[c] = NoPost
    BY DEF UnderWay
  <2>3. GridIsTrue
    BY <2>1, <2>2, NoPostApart DEF GridIsTrue, PanelType, PanelPart, MapPart, MapIdle, ShowsAsked,
       AsIs, LoadType
  <2>4. NoticeIsTrue
    BY <2>1, NoBatchIs DEF NoticeIsTrue, PanelType, Batches, MapPart, MapIdle, MapBusy, AsIs,
       LoadType
  <2>5. SessionIsHers
    BY <2>1 DEF PanelPart, SessionIsHers
  <2> QED BY <2>3, <2>4, <2>5 DEF PanelInv
<1> QED BY <1>1, PanelBegins, PanelNextInv, PTL DEF PanelSpec
=============================================================================
