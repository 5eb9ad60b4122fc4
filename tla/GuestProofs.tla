---------------------------- MODULE GuestProofs ----------------------------
(***************************************************************************)
(* Proofs about what a guest may do: the throttle, and the requests.       *)
(***************************************************************************)
EXTENDS GuestRequests, RateLimit, FiniteSetTheorems, WellFoundedInduction, TLAPS

-----------------------------------------------------------------------------
(***************************************************************************)
(* The throttle.  A call is answered by the calls that the window keeps,   *)
(* while the property speaks of all that were accepted.  A call that took  *)
(* its time later may have dropped some that an earlier one still had to   *)
(* count; then there are enough of those that are left.                    *)
(***************************************************************************)

Since(at) == {i \in DOMAIN accepted : accepted[i] > at - Window}

\* What the window has dropped, a call that is not overtaken need not count.
Enough ==
  \A at \in Nat : ~Overtook(at) =>
    Since(at) \subseteq hits \/ Cardinality(Recent(at)) >= Limit

LInv ==
  /\ time \in Nat /\ accepted \in Seq(Nat)
  /\ asked \in [Callers -> Nat \cup {Never}]
  /\ hits \subseteq DOMAIN accepted /\ Cardinality(hits) <= Limit
  /\ promise # Never => \E i \in hits : promise = accepted[i] + Window
  /\ Enough

\* Some number of a set is the least.
LEMMA Least ==
  ASSUME NEW S \in SUBSET Nat, S # {}
  PROVE  \E m \in S : \A n \in S : m <= n
<1>1. PICK m \in S : \A n \in S : <<n, m>> \notin OpToRel(<, Nat)
  BY NatLessThanWellFounded, WFMin
<1>2. \A n \in S : ~(n < m)
  BY <1>1 DEF OpToRel
<1> QED BY <1>2

LEMMA LogFacts ==
  ASSUME LInv
  PROVE  /\ Len(accepted) \in Nat /\ DOMAIN accepted = 1..Len(accepted)
         /\ \A i \in DOMAIN accepted : accepted[i] \in Nat
         /\ IsFiniteSet(DOMAIN accepted) /\ IsFiniteSet(hits) /\ Cardinality(hits) \in Nat
<1>1. Len(accepted) \in Nat /\ DOMAIN accepted = 1..Len(accepted)
      /\ \A i \in DOMAIN accepted : accepted[i] \in Nat
  BY DEF LInv
<1>2. IsFiniteSet(1..Len(accepted))
  BY <1>1, FS_Interval
<1>3. IsFiniteSet(hits)
  BY <1>1, <1>2, FS_Subset DEF LInv
<1> QED BY <1>1, <1>2, <1>3, FS_CardinalityType

LEMMA RecentFacts ==
  ASSUME LInv, NEW at \in Nat
  PROVE  /\ Recent(at) \subseteq hits /\ IsFiniteSet(Recent(at)) /\ Cardinality(Recent(at)) \in Nat
         /\ Recent(at) \subseteq Since(at)
<1>1. Recent(at) \subseteq hits /\ Recent(at) \subseteq Since(at)
  BY DEF Recent, Since, LInv
<1>2. IsFiniteSet(Recent(at))
  BY <1>1, LogFacts, FS_Subset
<1> QED BY <1>1, <1>2, FS_CardinalityType

LEMMA LimitStarts == LimitInit => LInv
<1> SUFFICES ASSUME LimitInit PROVE LInv
  OBVIOUS
<1>1. accepted \in Seq(Nat) /\ DOMAIN accepted = {}
  BY DEF LimitInit
<1>2. Cardinality(hits) = 0
  BY FS_EmptySet DEF LimitInit
<1> QED BY <1>1, <1>2, LimitAssumption DEF LimitInit, LInv, Enough, Since, Never

\* An accepted call is the last of the log, and in the window.
LEMMA AcceptStep ==
  ASSUME LInv, NEW c \in Callers, Accept(c)
  PROVE  LInv' /\ Len(accepted') > Len(accepted)
<1> DEFINE a == asked[c]
           n == Len(accepted) + 1
<1>1. a \in Nat /\ Cardinality(Recent(a)) < Limit
  BY DEF Accept, LInv
<1>2. accepted' = Append(accepted, a)
  BY DEF Accept
<1>3. /\ accepted' \in Seq(Nat) /\ Len(accepted') = n /\ DOMAIN accepted' = DOMAIN accepted \cup {n}
      /\ accepted'[n] = a /\ n \notin DOMAIN accepted
      /\ \A i \in DOMAIN accepted : accepted'[i] = accepted[i]
  BY <1>1, <1>2, LogFacts DEF LInv
<1>4. hits' = Recent(a) \cup {n}
  BY <1>3 DEF Accept
<1>5. hits' \subseteq DOMAIN accepted' /\ Cardinality(hits') <= Limit
  <2>1. Recent(a) \subseteq DOMAIN accepted
    BY <1>1, RecentFacts DEF LInv
  <2>2. Cardinality(hits') = Cardinality(Recent(a)) + 1
    BY <1>1, <1>3, <1>4, <2>1, RecentFacts, FS_AddElement
  <2>3. hits' \subseteq DOMAIN accepted'
    BY <1>3, <1>4, <2>1
  <2>4. Cardinality(Recent(a)) \in Nat
    BY <1>1, RecentFacts
  <2> HIDE DEF a
  <2> QED BY <1>1, <2>2, <2>3, <2>4, LimitAssumption
<1>6. Enough'
  <2> SUFFICES ASSUME NEW at \in Nat, ~Overtook(at)'
               PROVE  Since(at)' \subseteq hits' \/ Cardinality(Recent(at)') >= Limit
    BY DEF Enough
  <2>1. ~Overtook(at) /\ a <= at
    BY <1>1, <1>3 DEF Overtook
  <2>2. Since(at)' \subseteq Since(at) \cup {n}
    BY <1>3 DEF Since
  <2>3. Since(at) \subseteq Since(a)
    BY <1>1, <2>1, LogFacts, LimitAssumption DEF Since
  <2>4. CASE Since(at) \subseteq hits
    <3>1. Since(at) \subseteq Recent(a)
      BY <2>3, <2>4 DEF Since, Recent
    <3> QED BY <1>4, <2>2, <3>1
  <2>5. CASE Cardinality(Recent(at)) >= Limit
    <3>1. Recent(at) \subseteq Recent(a)
      BY <2>3 DEF Since, Recent, LInv
    <3>2. Cardinality(Recent(at)) <= Cardinality(Recent(a))
      BY <1>1, <3>1, RecentFacts, FS_Subset
    <3> QED BY <1>1, <2>5, <3>2, RecentFacts, LimitAssumption
  <2> QED BY <2>1, <2>4, <2>5 DEF LInv, Enough
<1>7. time' \in Nat /\ asked' \in [Callers -> Nat \cup {Never}] /\ promise' = Never
  BY DEF Accept, LInv
<1> QED BY <1>3, <1>5, <1>6, <1>7, LogFacts DEF LInv

\* A refused call drops what has left the window, and the limit is reached without it.
LEMMA TurnAwayStep ==
  ASSUME LInv, NEW c \in Callers, TurnAway(c)
  PROVE  LInv' /\ accepted' = accepted
<1> DEFINE a == asked[c]
           R == Recent(a)
           first == CHOOSE i \in R : \A j \in R : i <= j
<1>1. /\ a \in Nat /\ Cardinality(R) >= Limit /\ hits' = R /\ accepted' = accepted
      /\ promise' = accepted[first] + Window
  BY DEF TurnAway, LInv
<1>2. R \subseteq hits /\ IsFiniteSet(R) /\ Cardinality(R) \in Nat
  BY <1>1, RecentFacts
<1>3. hits' \subseteq DOMAIN accepted' /\ Cardinality(hits') <= Limit
  <2>1. Cardinality(R) <= Cardinality(hits)
    BY <1>2, LogFacts, FS_Subset
  <2>2. Cardinality(hits') <= Limit
    <3> HIDE DEF R
    <3> QED BY <1>1, <1>2, <2>1, LogFacts, LimitAssumption DEF LInv
  <2> QED BY <1>1, <1>2, <2>2 DEF LInv
<1>4. first \in R
  <2>1. R # {}
    <3> HIDE DEF R
    <3> QED BY <1>1, FS_EmptySet, LimitAssumption
  <2>2. R \subseteq Nat
    BY <1>2, LogFacts DEF LInv
  <2>3. \E i \in R : \A j \in R : i <= j
    BY <2>1, <2>2, Least
  <2> QED BY <2>3
<1>5. Enough'
  <2> SUFFICES ASSUME NEW at \in Nat, ~Overtook(at)
               PROVE  Since(at) \subseteq R \/ Cardinality({i \in R : accepted[i] > at - Window}) >= Limit
    BY <1>1 DEF Enough, Overtook, Since, Recent
  <2>1. CASE at < a
    <3>1. {i \in R : accepted[i] > at - Window} = R
      BY <1>1, <1>2, <2>1, LogFacts, LimitAssumption DEF Recent, LInv
    <3> QED BY <1>1, <3>1
  <2>2. CASE at >= a
    <3>1. Since(at) \subseteq Since(a)
      BY <1>1, <2>2, LogFacts, LimitAssumption DEF Since
    <3>2. CASE Since(at) \subseteq hits
      BY <3>1, <3>2 DEF Since, Recent
    <3>3. CASE Cardinality(Recent(at)) >= Limit
      <4>1. {i \in R : accepted[i] > at - Window} = Recent(at)
        BY <3>1 DEF Since, Recent, LInv
      <4> QED BY <3>3, <4>1
    <3> QED BY <3>2, <3>3 DEF LInv, Enough
  <2> QED BY <1>1, <2>1, <2>2
<1>6. time' \in Nat /\ asked' \in [Callers -> Nat \cup {Never}]
  BY DEF TurnAway, LInv
<1> QED BY <1>1, <1>3, <1>4, <1>5, <1>6 DEF LInv

LEMMA LimitMoves == LInv /\ [LimitNext]_limitVars => LInv'
<1> SUFFICES ASSUME LInv, [LimitNext]_limitVars PROVE LInv'
  OBVIOUS
<1>1. ASSUME UNCHANGED <<accepted, hits, promise>>, time' \in Nat, asked' \in [Callers -> Nat \cup {Never}]
      PROVE  LInv'
  BY <1>1 DEF LInv, Enough, Overtook, Since, Recent
<1>2. CASE UNCHANGED limitVars
  BY <1>1, <1>2 DEF limitVars, LInv
<1>3. CASE TimePasses
  BY <1>1, <1>3 DEF TimePasses, LInv
<1>4. ASSUME NEW c \in Callers, Arrive(c) PROVE LInv'
  BY <1>1, <1>4 DEF Arrive, LInv
<1> QED BY <1>2, <1>3, <1>4, AcceptStep, TurnAwayStep DEF LimitNext

LEMMA LimitInv == LimitInit /\ [][LimitNext]_limitVars => []LInv
BY LimitStarts, LimitMoves, PTL

\* checkGuestRateLimit: a call that is not overtaken is accepted exactly when the window that ends
\* with it has room, and not refused after the time that the last refusal has named.
THEOREM LimitSound == LimitInit /\ [][LimitNext]_limitVars => LimitKept
<1> DEFINE A == \A c \in Callers : asked[c] # Never /\ asked'[c] = Never /\ ~Overtook(asked[c]) =>
       /\ (Len(accepted') > Len(accepted)) <=> Cardinality(InWindow(asked[c])) < Limit
       /\ promise # Never /\ asked[c] >= promise => Len(accepted') > Len(accepted)
<1>1. LInv /\ [LimitNext]_limitVars => A
  <2> SUFFICES ASSUME LInv, [LimitNext]_limitVars, NEW c \in Callers,
                      asked[c] # Never, asked'[c] = Never, ~Overtook(asked[c])
               PROVE  /\ (Len(accepted') > Len(accepted)) <=> Cardinality(InWindow(asked[c])) < Limit
                      /\ promise # Never /\ asked[c] >= promise => Len(accepted') > Len(accepted)
    OBVIOUS
  <2> DEFINE a == asked[c]
  <2>1. a \in Nat
    BY DEF LInv
  <2>2. Accept(c) \/ TurnAway(c)
    <3>1. asked' # asked
      OBVIOUS
    <3>2. ASSUME NEW d \in Callers, Arrive(d) PROVE FALSE
      <4>1. asked' = [asked EXCEPT ![d] = time] /\ asked[d] = Never /\ time \in Nat
        BY <3>2 DEF Arrive, LInv
      <4> QED BY <4>1 DEF LInv, Never
    <3>3. ASSUME NEW d \in Callers, d # c, Accept(d) \/ TurnAway(d) PROVE FALSE
      BY <3>3 DEF Accept, TurnAway, LInv
    <3> QED BY <3>1, <3>2, <3>3 DEF LimitNext, limitVars, TimePasses
  <2>3. /\ Len(accepted') > Len(accepted) <=> Accept(c)
        /\ Accept(c) <=> Cardinality(Recent(a)) < Limit
    <3>1. Accept(c) => Cardinality(Recent(a)) < Limit /\ Len(accepted') > Len(accepted)
      BY AcceptStep DEF Accept
    <3>2. TurnAway(c) => ~(Cardinality(Recent(a)) < Limit) /\ ~(Len(accepted') > Len(accepted))
      <4> SUFFICES ASSUME TurnAway(c) PROVE ~(Cardinality(Recent(a)) < Limit) /\ ~(Len(accepted') > Len(accepted))
        OBVIOUS
      <4>1. Cardinality(Recent(a)) >= Limit /\ accepted' = accepted
        BY TurnAwayStep DEF TurnAway
      <4>2. Cardinality(Recent(a)) \in Nat /\ Len(accepted) \in Nat
        BY <2>1, RecentFacts, LogFacts
      <4> HIDE DEF a
      <4> QED BY <4>1, <4>2, LimitAssumption
    <3> QED BY <2>2, <3>1, <3>2
  <2>4. InWindow(a) = Since(a)
    BY <2>1, LogFacts DEF InWindow, Since, Overtook
  <2>5. Cardinality(Recent(a)) < Limit <=> Cardinality(Since(a)) < Limit
    <3>1. IsFiniteSet(Since(a)) /\ Cardinality(Since(a)) \in Nat
      <4>1. Since(a) \subseteq DOMAIN accepted
        BY DEF Since
      <4>2. IsFiniteSet(Since(a))
        BY <4>1, LogFacts, FS_Subset
      <4> QED BY <4>2, FS_CardinalityType
    <3>2. Cardinality(Recent(a)) <= Cardinality(Since(a))
      BY <2>1, <3>1, RecentFacts, FS_Subset
    <3>3. CASE Since(a) \subseteq hits
      <4>1. Since(a) = Recent(a)
        BY <3>3, <2>1, RecentFacts DEF Since, Recent
      <4> QED BY <4>1
    <3>4. CASE Cardinality(Recent(a)) >= Limit
      BY <2>1, <3>1, <3>2, <3>4, RecentFacts, LimitAssumption
    <3> QED BY <2>1, <3>3, <3>4 DEF LInv, Enough
  <2>6. ASSUME promise # Never, a >= promise
        PROVE  Cardinality(Recent(a)) < Limit
    <3>1. PICK i \in hits : promise = accepted[i] + Window
      BY <2>6 DEF LInv
    <3>2. i \notin Recent(a)
      BY <2>1, <2>6, <3>1, LogFacts, LimitAssumption DEF Recent, LInv
    <3>3. Recent(a) \subseteq hits \ {i}
      BY <2>1, <3>2, RecentFacts
    <3>4. IsFiniteSet(hits \ {i}) /\ Cardinality(hits \ {i}) = Cardinality(hits) - 1
      BY LogFacts, FS_RemoveElement
    <3>5. Cardinality(Recent(a)) <= Cardinality(hits \ {i})
      BY <3>3, <3>4, FS_Subset
    <3> QED BY SMTT(60), <2>1, <3>4, <3>5, RecentFacts, LogFacts, LimitAssumption DEF LInv
  <2> QED BY <2>3, <2>4, <2>5, <2>6
<1> QED BY <1>1, LimitInv, PTL DEF LimitKept

-----------------------------------------------------------------------------
(***************************************************************************)
(* The requests.  A replay works on a copy of the queue and writes back    *)
(* what is left of it: what the queue has and the copy has not was queued  *)
(* behind its back.  What the page has shown of the open requests is what  *)
(* is open, until one of them changes.                                     *)
(***************************************************************************)

Dos == {"DND", "CLEAN_REQUEST", "CANCEL"}
Acts == [do : Dos, tap : Nat]
Rows == [kind : Dos, status : {"RECEIVED", "DONE", "CANCELLED"}, tap : Nat]
SentFields == {"pc", "do", "tap", "shown", "id", "over"}

\* A call k, when a is the request that a poll would find, o the open ones, and n all.
CallOK(k, a, o, n) ==
  /\ k.pc \in {"quiet", "sent", "lift", "answered"}
  /\ k = Quiet <=> k.pc = "quiet"
  /\ k.pc # "quiet" => k.do \in Dos /\ k.tap \in Nat
  /\ k.pc \in {"sent", "lift"} => DOMAIN k = SentFields
  /\ k.pc = "sent" => k.shown \in {0, a}
  /\ k.pc = "lift" => k.id \in n /\ k.shown \in {0, k.id} /\ k.over \in BOOLEAN /\ (~k.over => k.id \in o)

\* What a page, or an answer to a poll, says of it.
ViewOK(v, a) ==
  DOMAIN v = {"id", "fresh"} /\ v.fresh \in BOOLEAN /\ (v.fresh => v.id # 0 /\ v.id = a)

\* A replay with its call k, its copy z, the queue q and what was queued behind its back.
ReplayOK(k, z, q, l) ==
  k # Quiet =>
    /\ z # <<>> /\ k.tap = z[1].tap
    /\ \A i \in DOMAIN q : q[i].tap \in l \/ \E j \in DOMAIN z : z[j].tap = q[i].tap

Accounted(t) ==
  \/ t \in told \cup late
  \/ \E i \in DOMAIN requests : requests[i].tap = t
  \/ \E p \in Phones : \/ \E s \in Slots : call[p][s] # Quiet /\ call[p][s].tap = t
                       \/ \E i \in DOMAIN queue[p] : queue[p][i].tap = t

CallsOK ==
  /\ call = [p \in Phones |-> [s \in Slots |-> call[p][s]]]
  /\ \A p \in Phones, s \in Slots : CallOK(call[p][s], ActiveDnd, OpenDnds, DOMAIN requests)

ViewsOK ==
  /\ tile = [p \in Phones |-> tile[p]] /\ polls = [p \in Phones |-> polls[p]]
  /\ \A p \in Phones : ViewOK(tile[p], ActiveDnd) /\ \A a \in polls[p] : ViewOK(a, ActiveDnd)

QueuesOK ==
  /\ queue \in [Phones -> Seq(Acts)] /\ copy \in [Phones -> Seq(Acts)]
  /\ \A p \in Phones : ReplayOK(call[p]["flush"], copy[p], queue[p], late)

GInv ==
  /\ requests \in Seq(Rows) /\ taps \in Nat /\ mishaps \in Nat
  /\ CallsOK /\ ViewsOK /\ QueuesOK
  /\ \A t \in 1..taps : Accounted(t)

LEMMA NewestIs ==
  ASSUME NEW N \in Nat, NEW S \in SUBSET (1..N), S # {}
  PROVE  Newest(S) \in S /\ \A j \in S : j <= Newest(S)
<1> DEFINE T == {N - i : i \in S}
<1>1. T \in SUBSET Nat /\ T # {}
  <2>1. \A i \in S : N - i \in Nat
    OBVIOUS
  <2> QED BY <2>1
<1>2. PICK m \in T : \A n \in T : m <= n
  BY <1>1, Least
<1>3. PICK i \in S : m = N - i
  BY <1>2
<1>4. \A j \in S : j <= i
  <2>1. \A j \in S : m <= N - j
    BY <1>2
  <2> HIDE DEF T
  <2> QED BY <1>3, <2>1
<1> QED BY <1>3, <1>4 DEF Newest

\* Of the open requests the newest is the one that a poll finds, if it finds one.
LEMMA OpenFacts ==
  ASSUME requests \in Seq(Rows)
  PROVE  /\ OpenDnds \subseteq DOMAIN requests
         /\ ToLift # 0 => ToLift \in OpenDnds
         /\ ActiveDnd # 0 => ActiveDnd = ToLift
<1> DEFINE N == Len(requests)
           S == {i \in OpenDnds : i > N - FeedLimit}
<1>1. N \in Nat /\ OpenDnds \in SUBSET (1..N) /\ OpenDnds \subseteq DOMAIN requests
  BY DEF OpenDnds
<1>2. ToLift # 0 => OpenDnds # {} /\ ToLift \in OpenDnds /\ \A j \in OpenDnds : j <= ToLift
  BY <1>1, NewestIs DEF ToLift, Newest
<1>3. ActiveDnd # 0 => ActiveDnd \in S /\ \A j \in S : j <= ActiveDnd
  <2>1. S \in SUBSET (1..N) /\ ActiveDnd = Newest(S)
    BY <1>1 DEF ActiveDnd
  <2>2. ActiveDnd # 0 => S # {}
    BY <2>1 DEF Newest
  <2> QED BY <1>1, <2>1, <2>2, NewestIs
<1>4. ASSUME ActiveDnd # 0
      PROVE  ActiveDnd = ToLift
  <2>1. OpenDnds # {}
    BY <1>3, <1>4
  <2>2. ToLift \in OpenDnds /\ \A j \in OpenDnds : j <= ToLift
    BY <1>1, <2>1, NewestIs DEF ToLift
  <2>3. ToLift \in S
    BY <1>1, <1>3, <1>4, <2>2, BoundsAssumption
  <2> QED BY <1>1, <1>3, <1>4, <2>2, <2>3
<1> QED BY <1>1, <1>2, <1>4

LEMMA SameRequests ==
  ASSUME requests' = requests
  PROVE  ActiveDnd' = ActiveDnd /\ OpenDnds' = OpenDnds
BY DEF ActiveDnd, OpenDnds

\* No tap is lost when whatever held it holds it still, or something else does.
LEMMA TapsStay ==
  ASSUME GInv, told \subseteq told', late \subseteq late',
         \A i \in DOMAIN requests : i \in DOMAIN requests' /\ requests'[i].tap = requests[i].tap,
         \A p \in Phones, s \in Slots : \A t :
           call[p][s] # Quiet /\ call[p][s].tap = t => Accounted(t)',
         \A p \in Phones : \A t : (\E i \in DOMAIN queue[p] : queue[p][i].tap = t) => Accounted(t)'
  PROVE  \A t \in 1..taps : Accounted(t)'
BY SMTT(60) DEF GInv, Accounted


\* One call goes on as k, and no request changes.
LEMMA CallGoes ==
  ASSUME GInv, NEW p \in Phones, NEW s \in Slots, NEW k, call' = [call EXCEPT ![p][s] = k],
         requests' = requests, CallOK(k, ActiveDnd, OpenDnds, DOMAIN requests)
  PROVE  /\ CallsOK' /\ call'[p][s] = k
         /\ \A q \in Phones, u \in Slots : q # p \/ u # s => call'[q][u] = call[q][u]
<1>1. /\ call' = [q \in Phones |-> [u \in Slots |-> call'[q][u]]]
      /\ \A q \in Phones, u \in Slots : call'[q][u] = IF q = p /\ u = s THEN k ELSE call[q][u]
  <2>1. call = [q \in Phones |-> [u \in Slots |-> call[q][u]]]
    BY DEF GInv, CallsOK
  <2> QED BY <2>1
<1> QED BY <1>1, SameRequests DEF GInv, CallsOK

\* An answer to a call.
LEMMA AnsweredIs ==
  ASSUME GInv, NEW p \in Phones, NEW s \in Slots, call[p][s] # Quiet, NEW a, NEW o, NEW n
  PROVE  /\ CallOK(Answered(p, s), a, o, n) /\ Answered(p, s) # Quiet
         /\ Answered(p, s).tap = call[p][s].tap
<1> DEFINE d == call[p][s].do
           t == call[p][s].tap
           k == [pc |-> "answered", do |-> d, tap |-> t]
<1>1. d \in Dos /\ t \in Nat
  BY DEF GInv, CallsOK, CallOK
<1> HIDE DEF d, t
<1>2. k.pc = "answered" /\ k.do = d /\ k.tap = t /\ k # Quiet
  BY DEF Quiet
<1>3. Answered(p, s) = k
  BY DEF Answered, d, t
<1> HIDE DEF k
<1> QED BY <1>1, <1>2, <1>3 DEF CallOK, t

\* A call that somebody has overtaken.
LEMMA OvertakenIs ==
  ASSUME GInv, NEW a, NEW o, NEW n, DOMAIN requests \subseteq n
  PROVE  /\ Overtake(call) = [p \in Phones |-> [s \in Slots |-> Overtake(call)[p][s]]]
         /\ \A p \in Phones, s \in Slots :
              /\ CallOK(Overtake(call)[p][s], a, o, n)
              /\ Overtake(call)[p][s] = Quiet <=> call[p][s] = Quiet
              /\ call[p][s] # Quiet => Overtake(call)[p][s].tap = call[p][s].tap
              /\ Overtake(call)[p][s].pc = call[p][s].pc
<1>1. Overtake(call) = [p \in Phones |-> [s \in Slots |-> Overtake(call)[p][s]]]
  BY DEF Overtake
<1>2. ASSUME NEW p \in Phones, NEW s \in Slots
      PROVE  /\ CallOK(Overtake(call)[p][s], a, o, n)
             /\ Overtake(call)[p][s] = Quiet <=> call[p][s] = Quiet
             /\ call[p][s] # Quiet => Overtake(call)[p][s].tap = call[p][s].tap
             /\ Overtake(call)[p][s].pc = call[p][s].pc
  <2> DEFINE k == call[p][s]
             b == k.pc = "lift"
             l == [k EXCEPT !.shown = 0, !.over = b]
  <2>1. CallOK(k, ActiveDnd, OpenDnds, DOMAIN requests)
    BY DEF GInv, CallsOK
  <2>2. Overtake(call)[p][s] = IF k.pc \notin {"sent", "lift"} THEN k ELSE l
    BY DEF Overtake
  <2>3. b \in BOOLEAN /\ (b <=> k.pc = "lift")
    OBVIOUS
  <2> HIDE DEF k, b
  <2>4. CASE k.pc \notin {"sent", "lift"}
    BY <2>1, <2>2, <2>4 DEF CallOK, k
  <2>5. CASE k.pc \in {"sent", "lift"}
    <3>1. DOMAIN k = SentFields /\ k # Quiet
      BY <2>1, <2>5 DEF CallOK
    <3>2. /\ DOMAIN l = SentFields /\ l.pc = k.pc /\ l.do = k.do /\ l.tap = k.tap /\ l.shown = 0
          /\ l.id = k.id /\ l.over = b
      BY <3>1 DEF SentFields
    <3> HIDE DEF l
    <3>3. l # Quiet
      BY <2>5, <3>2 DEF Quiet
    <3>4. CallOK(l, a, o, n)
      BY <2>1, <2>3, <2>5, <3>2, <3>3 DEF CallOK
    <3> QED BY <2>2, <2>5, <3>1, <3>2, <3>3, <3>4 DEF k
  <2> QED BY <2>4, <2>5
<1> QED BY <1>1, <1>2

\* The table changes: whoever has seen it before is out of date.
LEMMA RequestsGo ==
  ASSUME GInv, requests' \in Seq(Rows), DOMAIN requests \subseteq DOMAIN requests',
         \A i \in DOMAIN requests : requests'[i].tap = requests[i].tap,
         Outdated, UNCHANGED <<phone, told, taps>>, mishaps' \in Nat,
         \/ call' = Overtake(call)
         \/ \E p \in Phones, s \in Slots :
              call[p][s] # Quiet /\ call' = [Overtake(call) EXCEPT ![p][s] = Answered(p, s)]
  PROVE  GInv'
<1>1. /\ call' = [p \in Phones |-> [s \in Slots |-> call'[p][s]]]
      /\ \A p \in Phones, s \in Slots :
           /\ CallOK(call'[p][s], ActiveDnd', OpenDnds', DOMAIN requests')
           /\ call'[p][s] = Quiet <=> call[p][s] = Quiet
           /\ call[p][s] # Quiet => call'[p][s].tap = call[p][s].tap
  <2>1. CASE call' = Overtake(call)
    <3> DEFINE O == Overtake(call)
    <3>1. /\ O = [q \in Phones |-> [u \in Slots |-> O[q][u]]]
          /\ \A q \in Phones, u \in Slots :
              /\ CallOK(O[q][u], ActiveDnd', OpenDnds', DOMAIN requests')
              /\ O[q][u] = Quiet <=> call[q][u] = Quiet
              /\ call[q][u] # Quiet => O[q][u].tap = call[q][u].tap
      BY ZenonT(60), OvertakenIs
    <3>2. call' = O
      BY <2>1
    <3> HIDE DEF O
    <3> QED BY <3>1, <3>2
  <2>2. ASSUME NEW p \in Phones, NEW s \in Slots, call[p][s] # Quiet,
               call' = [Overtake(call) EXCEPT ![p][s] = Answered(p, s)]
        PROVE  <1>1!:
    <3> DEFINE k == Answered(p, s)
               O == Overtake(call)
    <3>1. CallOK(k, ActiveDnd', OpenDnds', DOMAIN requests') /\ k # Quiet /\ k.tap = call[p][s].tap
      BY <2>2, AnsweredIs
    <3>2. /\ O = [q \in Phones |-> [u \in Slots |-> O[q][u]]]
          /\ \A q \in Phones, u \in Slots :
              /\ CallOK(O[q][u], ActiveDnd', OpenDnds', DOMAIN requests')
              /\ O[q][u] = Quiet <=> call[q][u] = Quiet
              /\ call[q][u] # Quiet => O[q][u].tap = call[q][u].tap
      BY ZenonT(60), OvertakenIs
    <3> HIDE DEF k, O
    <3>3. call' = [O EXCEPT ![p][s] = k]
      BY <2>2 DEF k, O
    <3>4. /\ call' = [q \in Phones |-> [u \in Slots |-> call'[q][u]]]
          /\ \A q \in Phones, u \in Slots : call'[q][u] = IF q = p /\ u = s THEN k ELSE O[q][u]
      <4>1. O = [q \in Phones |-> [u \in Slots |-> O[q][u]]]
        BY <3>2
      <4> QED BY <3>3, <4>1
    <3> QED BY <2>2, <3>1, <3>2, <3>4
  <2> QED BY <2>1, <2>2
<1>2. CallsOK'
  BY <1>1 DEF CallsOK
<1>3. ViewsOK'
  <2>1. \A v : DOMAIN v = {"id", "fresh"} =>
          DOMAIN [v EXCEPT !.fresh = FALSE] = {"id", "fresh"} /\ [v EXCEPT !.fresh = FALSE].fresh = FALSE
    OBVIOUS
  <2>2. /\ tile' = [p \in Phones |-> [tile[p] EXCEPT !.fresh = FALSE]]
        /\ polls' = [p \in Phones |-> {[a EXCEPT !.fresh = FALSE] : a \in polls[p]}]
    BY DEF Outdated
  <2>3. \A p \in Phones : DOMAIN tile[p] = {"id", "fresh"} /\ \A a \in polls[p] : DOMAIN a = {"id", "fresh"}
    BY DEF GInv, ViewsOK, ViewOK
  <2> QED BY ZenonT(60), <2>1, <2>2, <2>3 DEF ViewsOK, ViewOK
<1>4. QueuesOK'
  <2>1. \A p \in Phones : /\ call'[p]["flush"] # Quiet => call[p]["flush"] # Quiet
                          /\ call[p]["flush"] # Quiet => call'[p]["flush"].tap = call[p]["flush"].tap
    BY <1>1 DEF Slots
  <2> QED BY <2>1 DEF GInv, QueuesOK, ReplayOK, phone
<1>5. \A t \in 1..taps' : Accounted(t)'
  <2>1. \A p \in Phones, s \in Slots : \A t : call[p][s] # Quiet /\ call[p][s].tap = t => Accounted(t)'
    BY <1>1 DEF Accounted
  <2>2. \A p \in Phones : \A t : (\E i \in DOMAIN queue[p] : queue[p][i].tap = t) => Accounted(t)'
    BY DEF Accounted, phone
  <2>3. told \subseteq told' /\ late \subseteq late' /\ taps' = taps
    BY DEF phone
  <2> QED BY <2>1, <2>2, <2>3, TapsStay
<1> QED BY <1>2, <1>3, <1>4, <1>5 DEF GInv


\* Only pages change, and only to what is true.
LEMMA ViewsGo ==
  ASSUME GInv, UNCHANGED <<requests, call, phone, told, taps, mishaps>>,
         tile' = [p \in Phones |-> tile'[p]], polls' = [p \in Phones |-> polls'[p]],
         \A p \in Phones : ViewOK(tile'[p], ActiveDnd) /\ \A a \in polls'[p] : ViewOK(a, ActiveDnd)
  PROVE  GInv'
<1>1. ActiveDnd' = ActiveDnd /\ OpenDnds' = OpenDnds
  BY SameRequests
<1>2. CallsOK' /\ ViewsOK'
  BY <1>1 DEF GInv, CallsOK, ViewsOK
<1>3. QueuesOK' /\ \A t \in 1..taps' : Accounted(t)'
  BY DEF GInv, QueuesOK, Accounted, phone
<1> QED BY <1>2, <1>3 DEF GInv

\* A call goes on as k, for the same tap.
LEMMA OneCall ==
  ASSUME GInv, NEW p \in Phones, NEW s \in Slots, NEW k, call' = [call EXCEPT ![p][s] = k],
         UNCHANGED <<requests, phone, polls, tile, told, taps>>, mishaps' \in Nat,
         CallOK(k, ActiveDnd, OpenDnds, DOMAIN requests),
         call[p][s] # Quiet, k # Quiet, k.tap = call[p][s].tap
  PROVE  GInv'
<1>1. /\ CallsOK' /\ call'[p][s] = k
      /\ \A q \in Phones, u \in Slots : q # p \/ u # s => call'[q][u] = call[q][u]
  BY CallGoes
<1>2. \A q \in Phones, u \in Slots : /\ call'[q][u] = Quiet <=> call[q][u] = Quiet
                                     /\ call[q][u] # Quiet => call'[q][u].tap = call[q][u].tap
  BY <1>1
<1>3. ViewsOK'
  BY SameRequests DEF GInv, ViewsOK
<1>4. QueuesOK'
  <2>1. \A q \in Phones : /\ call'[q]["flush"] # Quiet => call[q]["flush"] # Quiet
                          /\ call[q]["flush"] # Quiet => call'[q]["flush"].tap = call[q]["flush"].tap
    BY <1>2 DEF Slots
  <2> QED BY <2>1 DEF GInv, QueuesOK, ReplayOK, phone
<1>5. \A t \in 1..taps' : Accounted(t)'
  <2>1. \A q \in Phones, u \in Slots : \A t : call[q][u] # Quiet /\ call[q][u].tap = t => Accounted(t)'
    BY <1>2 DEF Accounted
  <2>2. \A q \in Phones : \A t : (\E i \in DOMAIN queue[q] : queue[q][i].tap = t) => Accounted(t)'
    BY DEF Accounted, phone
  <2>3. told \subseteq told' /\ late \subseteq late' /\ taps' = taps
    BY DEF phone
  <2> QED BY <2>1, <2>2, <2>3, TapsStay
<1> QED BY <1>1, <1>3, <1>4, <1>5 DEF GInv

LEMMA SentIs ==
  ASSUME NEW do \in Dos, NEW t \in Nat, NEW a, NEW o, NEW n, NEW x \in {0, a}
  PROVE  /\ CallOK(Sent(do, t, x), a, o, n) /\ Sent(do, t, x) # Quiet /\ Sent(do, t, x).tap = t
         /\ Sent(do, t, x).pc = "sent"
<1> DEFINE k == [pc |-> "sent", do |-> do, tap |-> t, shown |-> x, id |-> 0, over |-> FALSE]
<1>1. /\ DOMAIN k = SentFields /\ k.pc = "sent" /\ k.do = do /\ k.tap = t /\ k.shown = x /\ k # Quiet
      /\ Sent(do, t, x) = k
  BY DEF SentFields, Quiet, Sent
<1> HIDE DEF k
<1> QED BY <1>1 DEF CallOK

LEMMA TapStep ==
  ASSUME GInv, NEW p \in Phones, NEW do \in Dos, Tap(p, do)
  PROVE  GInv'
<1> DEFINE n == taps + 1
           x == IF tile[p].fresh THEN tile[p].id ELSE 0
           k == Sent(do, n, x)
<1>1. /\ call[p]["tap"] = Quiet /\ taps' = n /\ call' = [call EXCEPT ![p]["tap"] = k]
      /\ UNCHANGED <<requests, phone, polls, tile, told, mishaps>>
  BY DEF Tap
<1>2. n \in Nat /\ x \in {0, ActiveDnd}
  BY DEF GInv, ViewsOK, ViewOK
<1>3. CallOK(k, ActiveDnd, OpenDnds, DOMAIN requests) /\ k # Quiet /\ k.tap = n
  BY <1>2, SentIs
<1> HIDE DEF k
<1>4. /\ CallsOK' /\ call'[p]["tap"] = k
      /\ \A q \in Phones, u \in Slots : q # p \/ u # "tap" => call'[q][u] = call[q][u]
  BY <1>1, <1>3, CallGoes DEF Slots
<1>5. ViewsOK'
  BY <1>1, SameRequests DEF GInv, ViewsOK
<1>6. QueuesOK'
  <2>1. \A q \in Phones : call'[q]["flush"] = call[q]["flush"]
    BY <1>4 DEF Slots
  <2> QED BY <1>1, <2>1 DEF GInv, QueuesOK, ReplayOK, phone
<1>7. \A t \in 1..taps : Accounted(t)'
  <2>1. \A q \in Phones, u \in Slots : \A t : call[q][u] # Quiet /\ call[q][u].tap = t => Accounted(t)'
    BY <1>1, <1>4 DEF Accounted
  <2>2. \A q \in Phones : \A t : (\E i \in DOMAIN queue[q] : queue[q][i].tap = t) => Accounted(t)'
    BY <1>1 DEF Accounted, phone
  <2> QED BY <1>1, <2>1, <2>2, TapsStay DEF phone
<1>8. \A t : t = n => Accounted(t)'
  BY <1>3, <1>4 DEF Accounted, Slots
<1>9. \A t \in 1..n : t \in 1..taps \/ t = n
  BY DEF GInv
<1> QED BY <1>1, <1>2, <1>4, <1>5, <1>6, <1>7, <1>8, <1>9 DEF GInv

LEMMA ReplayedIs ==
  ASSUME NEW z \in Seq(Acts), z # <<>>, NEW a, NEW o, NEW n
  PROVE  LET k == Replayed(Head(z)) IN CallOK(k, a, o, n) /\ k # Quiet /\ k.tap = z[1].tap
<1>1. Head(z) = z[1] /\ z[1] \in Acts
  OBVIOUS
<1>2. z[1].do \in Dos /\ z[1].tap \in Nat
  BY <1>1 DEF Acts
<1> DEFINE d == z[1].do
           t == z[1].tap
<1>3. Replayed(Head(z)) = Sent(d, t, 0)
  BY <1>1 DEF Replayed
<1>4. d \in Dos /\ t \in Nat
  BY <1>2
<1> HIDE DEF d
<1>5. CallOK(Sent(d, t, 0), a, o, n) /\ Sent(d, t, 0) # Quiet /\ Sent(d, t, 0).tap = t
  BY <1>4, SentIs
<1> QED BY <1>3, <1>5

LEMMA FlushStep ==
  ASSUME GInv, NEW p \in Phones, Flush(p)
  PROVE  GInv'
<1> DEFINE k == Replayed(Head(queue[p]))
<1>1. /\ call[p]["flush"] = Quiet /\ queue[p] # <<>> /\ call' = [call EXCEPT ![p]["flush"] = k]
      /\ copy' = [copy EXCEPT ![p] = queue[p]]
      /\ UNCHANGED <<requests, queue, late, polls, tile, told, taps, mishaps>>
  BY DEF Flush
<1>2. queue \in [Phones -> Seq(Acts)] /\ copy \in [Phones -> Seq(Acts)] /\ queue[p] \in Seq(Acts)
  BY DEF GInv, QueuesOK
<1>3. CallOK(k, ActiveDnd, OpenDnds, DOMAIN requests) /\ k # Quiet /\ k.tap = queue[p][1].tap
  BY <1>1, <1>2, ReplayedIs
<1> HIDE DEF k
<1>4. /\ CallsOK' /\ call'[p]["flush"] = k
      /\ \A q \in Phones, u \in Slots : q # p \/ u # "flush" => call'[q][u] = call[q][u]
  BY <1>1, <1>3, CallGoes DEF Slots
<1>5. ViewsOK'
  BY <1>1, SameRequests DEF GInv, ViewsOK
<1>6. QueuesOK'
  <2>1. copy' \in [Phones -> Seq(Acts)] /\ copy'[p] = queue[p] /\ \A q \in Phones \ {p} : copy'[q] = copy[q]
    BY <1>1, <1>2
  <2>2. ReplayOK(k, queue[p], queue[p], late)
    BY <1>1, <1>3 DEF ReplayOK
  <2>3. \A q \in Phones \ {p} : call'[q]["flush"] = call[q]["flush"]
    BY <1>4 DEF Slots
  <2> QED BY <1>1, <1>2, <1>4, <2>1, <2>2, <2>3 DEF GInv, QueuesOK
<1>7. \A t \in 1..taps' : Accounted(t)'
  <2>1. \A q \in Phones, u \in Slots : \A t : call[q][u] # Quiet /\ call[q][u].tap = t => Accounted(t)'
    BY <1>1, <1>4 DEF Accounted
  <2>2. \A q \in Phones : \A t : (\E i \in DOMAIN queue[q] : queue[q][i].tap = t) => Accounted(t)'
    BY <1>1 DEF Accounted
  <2> QED BY <1>1, <2>1, <2>2, TapsStay
<1> QED BY <1>1, <1>4, <1>5, <1>6, <1>7 DEF GInv


LEMMA QuietIs ==
  ASSUME NEW a, NEW o, NEW n
  PROVE  CallOK(Quiet, a, o, n)
BY DEF CallOK, Quiet

\* What a replay has not sent is still in the queue, or was queued behind its back.
LEMMA AnswerStep ==
  ASSUME GInv, NEW p \in Phones, NEW s \in Slots, Answer(p, s)
  PROVE  GInv'
<1> DEFINE rest == IF s = "flush" THEN Tail(copy[p]) ELSE <<>>
           k == IF rest = <<>> THEN Quiet ELSE Replayed(Head(rest))
           t0 == call[p][s].tap
<1>1. /\ call[p][s].pc = "answered" /\ told' = told \cup {t0} /\ call' = [call EXCEPT ![p][s] = k]
      /\ s = "flush" => queue' = [queue EXCEPT ![p] = rest] /\ copy' = [copy EXCEPT ![p] = rest]
      /\ s # "flush" => UNCHANGED <<queue, copy>>
      /\ UNCHANGED <<requests, late, polls, tile, taps, mishaps>>
  BY DEF Answer
<1>2. queue \in [Phones -> Seq(Acts)] /\ copy \in [Phones -> Seq(Acts)]
  BY DEF GInv, QueuesOK
<1>3. call[p][s] # Quiet
  BY <1>1 DEF Quiet
<1>4. s = "flush" => copy[p] # <<>> /\ t0 = copy[p][1].tap
  BY <1>3 DEF GInv, QueuesOK, ReplayOK
<1>5. rest \in Seq(Acts)
  BY <1>2, <1>4
<1>6. s = "flush" => \A j \in DOMAIN copy[p] : j = 1 \/ \E i \in DOMAIN rest : rest[i] = copy[p][j]
  <2> SUFFICES ASSUME s = "flush", NEW j \in DOMAIN copy[p], j # 1
               PROVE  \E i \in DOMAIN rest : rest[i] = copy[p][j]
    OBVIOUS
  <2>1. copy[p] \in Seq(Acts) /\ copy[p] # <<>> /\ rest = Tail(copy[p])
    BY <1>2, <1>4
  <2>2. j - 1 \in DOMAIN rest /\ rest[j - 1] = copy[p][j]
    BY <2>1
  <2> QED BY <2>2
<1>7. CallOK(k, ActiveDnd, OpenDnds, DOMAIN requests) /\ (k # Quiet => rest # <<>> /\ k.tap = rest[1].tap)
  <2> HIDE DEF rest
  <2>1. CASE rest = <<>>
    BY <2>1, QuietIs
  <2>2. CASE rest # <<>>
    BY <1>5, <2>2, ReplayedIs
  <2> QED BY <2>1, <2>2
<1> HIDE DEF k, rest
<1>8. /\ CallsOK' /\ call'[p][s] = k
      /\ \A q \in Phones, u \in Slots : q # p \/ u # s => call'[q][u] = call[q][u]
  <2>1. call' = [call EXCEPT ![p][s] = k] /\ requests' = requests
    BY <1>1
  <2> HIDE DEF t0
  <2> QED BY ZenonT(60), <1>7, <2>1, CallGoes
<1>9. ViewsOK'
  BY <1>1, SameRequests DEF GInv, ViewsOK
<1>10. CASE s = "flush"
  <2>1. /\ queue' \in [Phones -> Seq(Acts)] /\ copy' \in [Phones -> Seq(Acts)]
        /\ queue'[p] = rest /\ copy'[p] = rest
        /\ \A q \in Phones \ {p} : queue'[q] = queue[q] /\ copy'[q] = copy[q]
    BY <1>1, <1>2, <1>5, <1>10
  <2>2. QueuesOK'
    <3>1. ReplayOK(k, rest, rest, late)
      BY <1>7 DEF ReplayOK
    <3>2. \A q \in Phones \ {p} : call'[q]["flush"] = call[q]["flush"]
      BY <1>8 DEF Slots
    <3> QED BY <1>1, <1>8, <1>10, <2>1, <3>1, <3>2 DEF GInv, QueuesOK
  <2>3. \A t \in 1..taps' : Accounted(t)'
    <3>1. \A q \in Phones, u \in Slots : \A t : call[q][u] # Quiet /\ call[q][u].tap = t => Accounted(t)'
      BY <1>1, <1>8 DEF Accounted
    <3>2. ASSUME NEW q \in Phones, NEW i \in DOMAIN queue[q], NEW t, t = queue[q][i].tap
          PROVE  Accounted(t)'
      <4>1. CASE q # p
        BY <2>1, <3>2, <4>1 DEF Accounted
      <4>2. CASE q = p
        <5>1. t \in late \/ \E j \in DOMAIN copy[p] : copy[p][j].tap = t
          BY <1>3, <1>10, <3>2, <4>2 DEF GInv, QueuesOK, ReplayOK
        <5>2. t \in late \/ t = t0 \/ \E j \in DOMAIN rest : rest[j].tap = t
          BY <1>4, <1>6, <1>10, <5>1
        <5> QED BY <1>1, <2>1, <5>2 DEF Accounted
      <4> QED BY <4>1, <4>2
    <3> QED BY <1>1, <3>1, <3>2, TapsStay
  <2> QED BY <1>1, <1>8, <1>9, <2>2, <2>3 DEF GInv
<1>11. CASE s # "flush"
  <2>1. QueuesOK'
    <3>1. \A q \in Phones : call'[q]["flush"] = call[q]["flush"]
      BY <1>8, <1>11 DEF Slots
    <3> QED BY <1>1, <1>11, <3>1 DEF GInv, QueuesOK
  <2>2. \A t \in 1..taps' : Accounted(t)'
    <3>1. \A q \in Phones, u \in Slots : \A t : call[q][u] # Quiet /\ call[q][u].tap = t => Accounted(t)'
      BY <1>1, <1>8 DEF Accounted
    <3>2. \A q \in Phones : \A t : (\E i \in DOMAIN queue[q] : queue[q][i].tap = t) => Accounted(t)'
      BY <1>1, <1>11 DEF Accounted
    <3> QED BY <1>1, <3>1, <3>2, TapsStay
  <2> QED BY <1>1, <1>8, <1>9, <2>1, <2>2 DEF GInv
<1> QED BY <1>10, <1>11

LEMMA CallEnds ==
  ASSUME GInv, NEW p \in Phones, NEW s \in Slots, call' = [call EXCEPT ![p][s] = Quiet],
         requests' = requests
  PROVE  /\ CallsOK' /\ call'[p][s] = Quiet
         /\ \A q \in Phones, u \in Slots : q # p \/ u # s => call'[q][u] = call[q][u]
<1>1. /\ call' = [q \in Phones |-> [u \in Slots |-> call'[q][u]]]
      /\ \A q \in Phones, u \in Slots : call'[q][u] = IF q = p /\ u = s THEN Quiet ELSE call[q][u]
  <2>1. call = [q \in Phones |-> [u \in Slots |-> call[q][u]]]
    BY DEF GInv, CallsOK
  <2> QED BY <2>1
<1> QED BY <1>1, SameRequests, QuietIs DEF GInv, CallsOK

LEMMA LoseStep ==
  ASSUME GInv, NEW p \in Phones, NEW s \in Slots, Lose(p, s)
  PROVE  GInv'
<1> DEFINE d == call[p][s].do
           t0 == call[p][s].tap
           act == [do |-> d, tap |-> t0]
<1>1. /\ call[p][s].pc \in {"sent", "answered"} /\ mishaps' = mishaps + 1
      /\ call' = [call EXCEPT ![p][s] = Quiet]
      /\ s = "tap" => /\ queue' = [queue EXCEPT ![p] = Append(@, act)] /\ copy' = copy
                      /\ late' = IF call[p]["flush"] = Quiet THEN late ELSE late \cup {t0}
      /\ s # "tap" => /\ queue' = [queue EXCEPT ![p] = copy[p]] /\ late' = late
                      /\ copy' = [copy EXCEPT ![p] = <<>>]
      /\ UNCHANGED <<requests, polls, tile, told, taps>>
  BY DEF Lose, Enqueue
<1>2. queue \in [Phones -> Seq(Acts)] /\ copy \in [Phones -> Seq(Acts)]
  BY DEF GInv, QueuesOK
<1>3. call[p][s] # Quiet /\ d \in Dos /\ t0 \in Nat
  BY <1>1 DEF Quiet, GInv, CallsOK, CallOK
<1>4. /\ CallsOK' /\ call'[p][s] = Quiet
      /\ \A q \in Phones, u \in Slots : q # p \/ u # s => call'[q][u] = call[q][u]
  <2>1. call' = [call EXCEPT ![p][s] = Quiet] /\ requests' = requests
    BY <1>1
  <2> QED BY <2>1, CallEnds
<1>5. ViewsOK'
  BY <1>1, SameRequests DEF GInv, ViewsOK
<1>6. mishaps' \in Nat
  BY <1>1 DEF GInv
<1>7. CASE s = "tap"
  <2> DEFINE z == Append(queue[p], act)
  <2>1. act \in Acts /\ act.tap = t0
    BY <1>3 DEF Acts
  <2> HIDE DEF act
  <2>2. /\ z \in Seq(Acts) /\ DOMAIN z = DOMAIN queue[p] \cup {Len(queue[p]) + 1}
        /\ z[Len(queue[p]) + 1] = act /\ \A i \in DOMAIN queue[p] : z[i] = queue[p][i]
    BY <1>2, <2>1
  <2> HIDE DEF z
  <2>3. queue' = [queue EXCEPT ![p] = z]
    BY <1>1, <1>7 DEF z
  <2>4. /\ queue' \in [Phones -> Seq(Acts)] /\ queue'[p] = z
        /\ \A q \in Phones \ {p} : queue'[q] = queue[q]
    BY <1>2, <2>2, <2>3
  <2>5. \A q \in Phones : call'[q]["flush"] = call[q]["flush"]
    BY <1>4, <1>7 DEF Slots
  <2>6. QueuesOK'
    <3>1. ASSUME NEW q \in Phones, q # p
          PROVE  ReplayOK(call'[q]["flush"], copy'[q], queue'[q], late')
      BY <1>1, <1>7, <2>4, <2>5, <3>1 DEF GInv, QueuesOK, ReplayOK
    <3>2. ReplayOK(call'[p]["flush"], copy'[p], queue'[p], late')
      <4>1. ReplayOK(call[p]["flush"], copy[p], queue[p], late)
        BY DEF GInv, QueuesOK
      <4>2. call[p]["flush"] # Quiet => t0 \in late'
        BY <1>1, <1>7
      <4>3. late \subseteq late' /\ copy' = copy
        BY <1>1, <1>7
      <4> HIDE DEF t0
      <4> QED BY <2>1, <2>2, <2>4, <2>5, <4>1, <4>2, <4>3 DEF ReplayOK
    <3> QED BY <1>1, <1>2, <1>7, <2>4, <3>1, <3>2 DEF QueuesOK
  <2>7. \A t \in 1..taps' : Accounted(t)'
    <3>1. \A t : t = t0 => Accounted(t)'
      BY SMTT(60), <2>1, <2>2, <2>4 DEF Accounted
    <3>2. \A q \in Phones, u \in Slots : \A t : call[q][u] # Quiet /\ call[q][u].tap = t => Accounted(t)'
      BY <1>4, <3>1 DEF Accounted
    <3>3. \A q \in Phones : \A t : (\E i \in DOMAIN queue[q] : queue[q][i].tap = t) => Accounted(t)'
      BY <2>2, <2>4 DEF Accounted
    <3>4. late \subseteq late'
      BY <1>1, <1>7
    <3> QED BY <1>1, <3>2, <3>3, <3>4, TapsStay
  <2> QED BY <1>1, <1>4, <1>5, <1>6, <2>6, <2>7 DEF GInv
<1>8. CASE s # "tap"
  <2>1. s = "flush"
    BY <1>8 DEF Slots
  <2>2. copy[p] # <<>> /\ t0 = copy[p][1].tap
    BY <1>3, <2>1 DEF GInv, QueuesOK, ReplayOK
  <2>3. /\ queue' \in [Phones -> Seq(Acts)] /\ copy' \in [Phones -> Seq(Acts)] /\ queue'[p] = copy[p]
        /\ \A q \in Phones \ {p} : queue'[q] = queue[q] /\ copy'[q] = copy[q]
    <3>1. <<>> \in Seq(Acts) /\ copy[p] \in Seq(Acts)
      BY <1>2
    <3>2. queue' = [queue EXCEPT ![p] = copy[p]] /\ copy' = [copy EXCEPT ![p] = <<>>]
      BY <1>1, <1>8
    <3> QED BY <1>2, <3>1, <3>2
  <2>4. QueuesOK'
    <3>1. ReplayOK(Quiet, copy'[p], queue'[p], late')
      BY DEF ReplayOK
    <3>2. \A q \in Phones \ {p} : call'[q]["flush"] = call[q]["flush"]
      BY <1>4 DEF Slots
    <3> QED BY <1>1, <1>4, <1>8, <2>1, <2>3, <3>1, <3>2 DEF GInv, QueuesOK
  <2>5. \A t \in 1..taps' : Accounted(t)'
    <3>1. 1 \in DOMAIN copy[p]
      BY <1>2, <2>2
    <3>2. \A q \in Phones, u \in Slots : \A t : call[q][u] # Quiet /\ call[q][u].tap = t => Accounted(t)'
      <4>1. \A t : t = t0 => \E i \in DOMAIN queue'[p] : queue'[p][i].tap = t
        BY <2>2, <2>3, <3>1
      <4>2. \A q \in Phones, u \in Slots : (q = p /\ u = "flush") \/ call'[q][u] = call[q][u]
        BY <1>4, <2>1
      <4> QED BY <2>1, <4>1, <4>2 DEF Accounted
    <3>3. ASSUME NEW q \in Phones, NEW i \in DOMAIN queue[q], NEW t, t = queue[q][i].tap
          PROVE  Accounted(t)'
      <4>1. CASE q # p
        BY <2>3, <3>3, <4>1 DEF Accounted
      <4>2. CASE q = p
        <5>1. t \in late \/ \E j \in DOMAIN copy[p] : copy[p][j].tap = t
          BY <1>3, <2>1, <3>3, <4>2 DEF GInv, QueuesOK, ReplayOK
        <5> QED BY <1>1, <1>8, <2>3, <5>1 DEF Accounted
      <4> QED BY <4>1, <4>2
    <3> QED BY <1>1, <1>8, <3>2, <3>3, TapsStay
  <2> QED BY <1>1, <1>4, <1>5, <1>6, <2>4, <2>5 DEF GInv
<1> QED BY <1>7, <1>8


LEMMA PollStep ==
  ASSUME GInv, NEW p \in Phones, Poll(p)
  PROVE  GInv'
<1> DEFINE b == ActiveDnd # 0
           v == [id |-> ActiveDnd, fresh |-> b]
<1>1. polls' = [polls EXCEPT ![p] = @ \cup {v}] /\ UNCHANGED <<requests, call, phone, tile, told, taps, mishaps>>
  BY DEF Poll
<1>2. b \in BOOLEAN /\ (b <=> ActiveDnd # 0)
  OBVIOUS
<1> HIDE DEF b
<1>3. DOMAIN v = {"id", "fresh"} /\ v.id = ActiveDnd /\ v.fresh = b
  OBVIOUS
<1> HIDE DEF v
<1>4. ViewOK(v, ActiveDnd)
  BY <1>2, <1>3 DEF ViewOK
<1>5. polls = [q \in Phones |-> polls[q]]
  BY DEF GInv, ViewsOK
<1>6. /\ polls' = [q \in Phones |-> polls'[q]]
      /\ \A q \in Phones : \A a \in polls'[q] : a \in polls[q] \/ a = v
  BY <1>1, <1>5
<1>7. \A q \in Phones : ViewOK(tile'[q], ActiveDnd) /\ \A a \in polls'[q] : ViewOK(a, ActiveDnd)
  BY <1>1, <1>4, <1>6 DEF GInv, ViewsOK
<1>8. tile' = [q \in Phones |-> tile'[q]]
  BY <1>1 DEF GInv, ViewsOK
<1> QED BY <1>1, <1>6, <1>7, <1>8, ViewsGo

LEMMA DeliverStep ==
  ASSUME GInv, NEW p \in Phones, NEW v \in polls[p], Deliver(p, v)
  PROVE  GInv'
<1>1. /\ tile' = [tile EXCEPT ![p] = v] /\ polls' = [polls EXCEPT ![p] = @ \ {v}]
      /\ UNCHANGED <<requests, call, phone, told, taps, mishaps>>
  BY DEF Deliver
<1>2. /\ tile = [q \in Phones |-> tile[q]] /\ polls = [q \in Phones |-> polls[q]]
      /\ \A q \in Phones : ViewOK(tile[q], ActiveDnd) /\ \A a \in polls[q] : ViewOK(a, ActiveDnd)
  BY DEF GInv, ViewsOK
<1>3. /\ tile' = [q \in Phones |-> tile'[q]] /\ polls' = [q \in Phones |-> polls'[q]]
      /\ \A q \in Phones : (tile'[q] = v /\ q = p) \/ tile'[q] = tile[q]
      /\ \A q \in Phones : \A a \in polls'[q] : a \in polls[q]
  BY <1>1, <1>2
<1>4. \A q \in Phones : ViewOK(tile'[q], ActiveDnd) /\ \A a \in polls'[q] : ViewOK(a, ActiveDnd)
  BY <1>2, <1>3
<1> QED BY <1>1, <1>3, <1>4, ViewsGo

LEMMA RefuseStep ==
  ASSUME GInv, NEW p \in Phones, NEW s \in Slots, Refuse(p, s) \/ LiftFails(p, s)
  PROVE  GInv'
<1> DEFINE k == Answered(p, s)
<1>1. /\ call[p][s].pc \in {"sent", "lift"} /\ call' = [call EXCEPT ![p][s] = k]
      /\ UNCHANGED <<requests, phone, polls, tile, told, taps>>
  BY DEF Refuse, LiftFails
<1>2. mishaps' \in Nat
  BY DEF Refuse, LiftFails, GInv
<1>3. call[p][s] # Quiet
  BY <1>1 DEF Quiet
<1>4. CallOK(k, ActiveDnd, OpenDnds, DOMAIN requests) /\ k # Quiet /\ k.tap = call[p][s].tap
  BY <1>3, AnsweredIs
<1> HIDE DEF k
<1> QED BY <1>1, <1>2, <1>3, <1>4, OneCall

LEMMA ReadActiveStep ==
  ASSUME GInv, NEW p \in Phones, NEW s \in Slots, ReadActive(p, s)
  PROVE  GInv'
<1>1. /\ call[p][s].pc = "sent"
      /\ UNCHANGED <<requests, phone, polls, tile, told, taps, mishaps>>
  BY DEF ReadActive
<1>2. mishaps' \in Nat
  BY <1>1 DEF GInv
<1>3. call[p][s] # Quiet
  BY <1>1 DEF Quiet
<1>4. CASE ToLift = 0
  <2> DEFINE k == Answered(p, s)
  <2>1. call' = [call EXCEPT ![p][s] = k]
    BY <1>4 DEF ReadActive
  <2>2. CallOK(k, ActiveDnd, OpenDnds, DOMAIN requests) /\ k # Quiet /\ k.tap = call[p][s].tap
    BY <1>3, AnsweredIs
  <2> HIDE DEF k
  <2> QED BY <1>1, <1>2, <1>3, <2>1, <2>2, OneCall
<1>5. CASE ToLift # 0
  <2> DEFINE o == call[p][s]
             k == [o EXCEPT !.pc = "lift", !.id = ToLift, !.over = FALSE]
  <2>1. CallOK(o, ActiveDnd, OpenDnds, DOMAIN requests)
    BY DEF GInv, CallsOK
  <2>2. call' = [call EXCEPT ![p][s] = k]
    <3>1. call' = [call EXCEPT ![p][s] = [@ EXCEPT !.pc = "lift", !.id = ToLift, !.over = FALSE]]
      BY <1>5 DEF ReadActive
    <3>2. call = [q \in Phones |-> [u \in Slots |-> call[q][u]]]
      BY DEF GInv, CallsOK
    <3> QED BY <3>1, <3>2
  <2>3. /\ k.pc = "lift" /\ k.id = ToLift /\ k.over = FALSE /\ k.shown = o.shown /\ k.tap = o.tap
        /\ k.do = o.do /\ DOMAIN k = SentFields
    BY <1>1, <2>1 DEF CallOK, SentFields
  <2> HIDE DEF k
  <2>4. k # Quiet
    BY <2>3 DEF Quiet
  <2>5. OpenDnds \subseteq DOMAIN requests /\ ToLift \in OpenDnds /\ (ActiveDnd # 0 => ActiveDnd = ToLift)
    BY <1>5, OpenFacts DEF GInv
  <2>6. CallOK(k, ActiveDnd, OpenDnds, DOMAIN requests)
    BY <1>1, <2>1, <2>3, <2>4, <2>5 DEF CallOK
  <2>7. k.tap = call[p][s].tap
    BY <2>3
  <2> HIDE DEF o
  <2> QED BY <1>1, <1>2, <1>3, <2>2, <2>4, <2>6, <2>7, OneCall
<1> QED BY <1>4, <1>5

LEMMA AskStep ==
  ASSUME GInv, NEW p \in Phones, NEW s \in Slots, Ask(p, s) \/ AskFails(p, s)
  PROVE  GInv'
<1> DEFINE d == call[p][s].do
           t == call[p][s].tap
           row == [kind |-> d, status |-> "RECEIVED", tap |-> t]
<1>1. /\ call[p][s].pc = "sent" /\ requests' \in {requests, Append(requests, row)}
      /\ Outdated /\ call' = [Overtake(call) EXCEPT ![p][s] = Answered(p, s)]
      /\ UNCHANGED <<phone, told, taps>>
  BY DEF Ask, AskFails
<1>2. mishaps' \in Nat
  BY DEF Ask, AskFails, GInv
<1>3. call[p][s] # Quiet /\ d \in Dos /\ t \in Nat
  BY <1>1 DEF Quiet, GInv, CallsOK, CallOK
<1>4. row \in Rows
  BY <1>3 DEF Rows
<1> HIDE DEF row, d, t
<1>5. /\ requests' \in Seq(Rows) /\ DOMAIN requests \subseteq DOMAIN requests'
      /\ \A i \in DOMAIN requests : requests'[i].tap = requests[i].tap
  BY SMTT(60), <1>1, <1>4 DEF GInv
<1> QED BY <1>1, <1>2, <1>3, <1>5, RequestsGo

LEMMA StatusSet ==
  ASSUME GInv, NEW i \in DOMAIN requests, NEW x \in {"RECEIVED", "DONE", "CANCELLED"},
         requests' = [requests EXCEPT ![i].status = x]
  PROVE  /\ requests' \in Seq(Rows) /\ DOMAIN requests \subseteq DOMAIN requests'
         /\ \A j \in DOMAIN requests : requests'[j].tap = requests[j].tap
<1> DEFINE r == requests[i]
           v == [r EXCEPT !.status = x]
<1>1. requests \in Seq(Rows)
  BY DEF GInv
<1>2. requests' = [requests EXCEPT ![i] = v]
  OBVIOUS
<1>3. r \in Rows
  BY <1>1
<1>4. v \in Rows /\ v.tap = r.tap
  BY <1>3 DEF Rows
<1> HIDE DEF v
<1> QED BY <1>1, <1>2, <1>4

LEMMA LiftStep ==
  ASSUME GInv, NEW p \in Phones, NEW s \in Slots, Lift(p, s)
  PROVE  GInv'
<1> DEFINE i == call[p][s].id
<1>1. /\ call[p][s].pc = "lift" /\ requests' = [requests EXCEPT ![i].status = "CANCELLED"]
      /\ Outdated /\ call' = [Overtake(call) EXCEPT ![p][s] = Answered(p, s)]
      /\ UNCHANGED <<phone, told, taps, mishaps>>
  BY DEF Lift
<1>2. mishaps' \in Nat /\ call[p][s] # Quiet
  BY <1>1 DEF GInv, Quiet
<1>3. i \in DOMAIN requests
  BY <1>1 DEF GInv, CallsOK, CallOK
<1> HIDE DEF i
<1>4. /\ requests' \in Seq(Rows) /\ DOMAIN requests \subseteq DOMAIN requests'
      /\ \A j \in DOMAIN requests : requests'[j].tap = requests[j].tap
  BY <1>1, <1>3, StatusSet
<1> QED BY <1>1, <1>2, <1>4, RequestsGo

LEMMA PatchStep ==
  ASSUME GInv, NEW i \in DOMAIN requests, NEW x \in {"RECEIVED", "DONE"}, Patch(i, x)
  PROVE  GInv'
<1>1. /\ requests' = [requests EXCEPT ![i].status = x]
      /\ Outdated /\ call' = Overtake(call)
      /\ UNCHANGED <<phone, told, taps, mishaps>>
  BY DEF Patch
<1>2. mishaps' \in Nat
  BY <1>1 DEF GInv
<1>3. /\ requests' \in Seq(Rows) /\ DOMAIN requests \subseteq DOMAIN requests'
      /\ \A j \in DOMAIN requests : requests'[j].tap = requests[j].tap
  BY <1>1, StatusSet
<1> QED BY <1>1, <1>2, <1>3, RequestsGo

LEMMA GuestStarts == Init => GInv
<1> SUFFICES ASSUME Init PROVE GInv
  OBVIOUS
<1>1. \A p \in Phones, s \in Slots : call[p][s] = Quiet
  BY DEF Init
<1>2. CallsOK
  BY <1>1, QuietIs DEF Init, CallsOK
<1>3. ViewsOK
  <2> DEFINE v == [id |-> 0, fresh |-> FALSE]
  <2>1. DOMAIN v = {"id", "fresh"} /\ v.fresh = FALSE
    OBVIOUS
  <2>2. tile = [p \in Phones |-> v] /\ polls = [p \in Phones |-> {}]
    BY DEF Init
  <2> HIDE DEF v
  <2> QED BY <2>1, <2>2 DEF ViewsOK, ViewOK
<1>4. QueuesOK
  <2>1. <<>> \in Seq(Acts)
    OBVIOUS
  <2> QED BY <1>1, <2>1 DEF Init, QueuesOK, ReplayOK, Slots
<1>5. requests \in Seq(Rows) /\ taps = 0 /\ mishaps = 0
  BY DEF Init
<1> QED BY <1>2, <1>3, <1>4, <1>5 DEF GInv

LEMMA GuestMoves == GInv /\ [Next]_vars => GInv'
<1> SUFFICES ASSUME GInv, [Next]_vars PROVE GInv'
  OBVIOUS
<1>1. ASSUME UNCHANGED <<requests, call, phone, polls, tile, told, taps, mishaps>> PROVE GInv'
  BY <1>1, ViewsGo DEF GInv, ViewsOK
<1>2. CASE UNCHANGED vars
  BY <1>1, <1>2 DEF vars
<1>3. CASE CheckOut
  BY <1>1, <1>3 DEF CheckOut
<1>4. ASSUME NEW p \in Phones, NEW s \in Slots, Serve(p, s) PROVE GInv'
  BY <1>4, RefuseStep, AskStep, ReadActiveStep, LiftStep DEF Serve
<1>5. ASSUME NEW p \in Phones, NEW do \in {"DND", "CLEAN_REQUEST", "CANCEL"}, Tap(p, do) PROVE GInv'
  BY <1>5, TapStep DEF Dos
<1> QED BY <1>2, <1>3, <1>4, <1>5, FlushStep, PollStep, DeliverStep, AnswerStep, LoseStep, PatchStep
        DEF Next

LEMMA GuestInv == Spec => []GInv
BY GuestStarts, GuestMoves, PTL DEF Spec

LEMMA OtherCalls ==
  ASSUME GInv, NEW p \in Phones, NEW s \in Slots, NEW q \in Phones, NEW u \in Slots, q # p \/ u # s,
         NEW k, call' = [call EXCEPT ![q][u] = k] \/ call' = [Overtake(call) EXCEPT ![q][u] = k]
  PROVE  call'[p][s].pc = call[p][s].pc
<1>1. CASE call' = [call EXCEPT ![q][u] = k]
  <2>1. call = [x \in Phones |-> [y \in Slots |-> call[x][y]]]
    BY DEF GInv, CallsOK
  <2>2. call'[p][s] = call[p][s]
    BY <1>1, <2>1
  <2> QED BY <2>2
<1>2. CASE call' = [Overtake(call) EXCEPT ![q][u] = k]
  <2> DEFINE O == Overtake(call)
  <2>1. O = [x \in Phones |-> [y \in Slots |-> O[x][y]]] /\ O[p][s].pc = call[p][s].pc
    BY OvertakenIs
  <2>2. call' = [O EXCEPT ![q][u] = k]
    BY <1>2
  <2> HIDE DEF O
  <2>3. call'[p][s] = O[p][s]
    BY <2>1, <2>2
  <2> QED BY <2>1, <2>3
<1> QED BY <1>1, <1>2

\* A call that lifts is answered, and nothing fails: that is its own step.
LEMMA LiftedBy ==
  ASSUME GInv, [Next]_vars, NEW p \in Phones, NEW s \in Slots, call[p][s].pc = "lift",
         call'[p][s].pc = "answered", mishaps' = mishaps
  PROVE  Lift(p, s)
<1>1. ASSUME NEW q \in Phones, NEW u \in Slots, NEW k,
             call' = [call EXCEPT ![q][u] = k] \/ call' = [Overtake(call) EXCEPT ![q][u] = k]
      PROVE  q = p /\ u = s
  BY <1>1, OtherCalls
<1>2. call' # call
  OBVIOUS
<1>3. call' # Overtake(call)
  <2>1. Overtake(call)[p][s].pc = call[p][s].pc
    BY OvertakenIs
  <2> QED BY <2>1
<1>4. ASSUME NEW q \in Phones, NEW do, Tap(q, do) PROVE FALSE
  <2>1. q = p /\ "tap" = s
    BY <1>1, <1>4 DEF Tap, Slots
  <2> QED BY <1>4, <2>1 DEF Tap, Quiet
<1>5. ASSUME NEW q \in Phones, Flush(q) PROVE FALSE
  <2>1. q = p /\ "flush" = s
    BY <1>1, <1>5 DEF Flush, Slots
  <2> QED BY <1>5, <2>1 DEF Flush, Quiet
<1>6. ASSUME NEW q \in Phones, NEW u \in Slots, Answer(q, u) \/ Lose(q, u) PROVE FALSE
  <2>1. call[q][u].pc \in {"sent", "answered"}
    BY <1>6 DEF Answer, Lose
  <2>2. \E k : call' = [call EXCEPT ![q][u] = k]
    BY <1>6 DEF Answer, Lose
  <2> QED BY <1>1, <2>1, <2>2
<1>7. ASSUME NEW q \in Phones, NEW u \in Slots, Serve(q, u) PROVE Lift(p, s)
  <2>1. q = p /\ u = s
    <3>1. \E k : call' = [call EXCEPT ![q][u] = k] \/ call' = [Overtake(call) EXCEPT ![q][u] = k]
      BY <1>7 DEF Serve, Refuse, Ask, AskFails, ReadActive, Lift, LiftFails
    <3> QED BY <1>1, <3>1
  <2>2. ~LiftFails(q, u)
    BY DEF LiftFails, GInv
  <2> QED BY <1>7, <2>1, <2>2 DEF Serve, Refuse, Ask, AskFails, ReadActive
<1> QED BY <1>2, <1>3, <1>4, <1>5, <1>6, <1>7 DEF Next, vars, Poll, Deliver, Patch, CheckOut

-----------------------------------------------------------------------------
\* The guest's queue: of every tap there is a request, an answer, or something on its way, but for
\* what was queued behind the back of a replay.
THEOREM TapsSafe == Spec => []TapsAccounted
<1>1. GInv => TapsAccounted
  BY DEF GInv, Accounted, TapsAccounted
<1> QED BY <1>1, GuestInv, PTL

\* handleDndCancel: lifting closes one open request, and the one that the page has shown, unless
\* requests have changed meanwhile.
THEOREM LiftsShown == Spec => CancelLiftsShown
<1> DEFINE A == \A p \in Phones, s \in Slots : Lifted(p, s) =>
       \E i \in DOMAIN requests :
         /\ requests' = [requests EXCEPT ![i].status = "CANCELLED"]
         /\ i \in OpenDnds \/ call[p][s].over
         /\ call[p][s].shown \in {0, i}
<1>1. GInv /\ [Next]_vars => A
  <2> SUFFICES ASSUME GInv, [Next]_vars, NEW p \in Phones, NEW s \in Slots, Lifted(p, s)
               PROVE  \E i \in DOMAIN requests :
                        /\ requests' = [requests EXCEPT ![i].status = "CANCELLED"]
                        /\ i \in OpenDnds \/ call[p][s].over
                        /\ call[p][s].shown \in {0, i}
    OBVIOUS
  <2>1. call[p][s].pc = "lift" /\ call'[p][s].pc = "answered" /\ mishaps' = mishaps
    BY DEF Lifted
  <2>2. Lift(p, s)
    BY <2>1, LiftedBy
  <2> QED BY <2>1, <2>2 DEF Lift, GInv, CallsOK, CallOK
<1> QED BY <1>1, GuestInv, PTL DEF Spec, CancelLiftsShown
=============================================================================
