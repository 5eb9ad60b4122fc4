------------------------- MODULE OfflineQueueProofs -------------------------
(***************************************************************************)
(* Proofs about OfflineQueue, for any number of taps and reloads.  The     *)
(* invariant says what a flush relies on while it waits: its copy is still *)
(* the front of the store, and what has been added behind it is late.      *)
(***************************************************************************)
EXTENDS OfflineQueue, TLAPS

Flushing == flush.phase # "none"
Sending == direct.phase # "none"

\* Only a waiting flush has a copy.  The front of the store is the copy; what is
\* behind it came late.
Copied ==
  /\ ~Flushing => flush.pending = <<>>
  /\ Flushing =>
      /\ Len(flush.pending) <= Len(store)
      /\ \A i \in 1..Len(flush.pending) : store[i] = flush.pending[i]
      /\ \A i \in 1..Len(store) : i > Len(flush.pending) => store[i] \in late

Ordered == \A i, j \in 1..Len(store) : i < j => store[i] < store[j]

Unanswered == \A i \in 1..Len(store) : store[i] <= tapped /\ store[i] \notin answered

\* The tap being sent is the last one.
Newest ==
  /\ Sending => /\ direct.tap = tapped /\ direct.tap \notin answered
                /\ \A i \in 1..Len(store) : store[i] < direct.tap
  /\ \A n \in answered \cup replayed : n <= tapped

Kept ==
  \A n \in 1..tapped :
    \/ n \in answered \/ \E i \in 1..Len(store) : store[i] = n
    \/ Sending /\ direct.tap = n
    \/ n \in late \cup gone

Replays == \A n \in replayed : Len(store) > 0 => n <= store[1]

IInv ==
  /\ TypeOK /\ Copied /\ Ordered /\ Unanswered /\ Newest /\ Kept /\ Replays

-----------------------------------------------------------------------------
LEMMA ItemFacts ==
  ASSUME TypeOK
  PROVE  /\ store \in Seq(Taps) /\ Len(store) \in Nat
         /\ \A i \in 1..Len(store) : store[i] \in Taps /\ store[i] \in Nat
         /\ answered \subseteq Nat /\ replayed \subseteq Nat /\ tapped \in Nat
<1>1. store \in Seq(Taps)
  BY DEF TypeOK
<1>2. Taps \subseteq Nat
  BY QueueBounds DEF Taps
<1>3. answered \subseteq Taps /\ replayed \subseteq Taps /\ tapped \in Nat
  BY QueueBounds DEF TypeOK
<1>4. Len(store) \in Nat /\ \A i \in 1..Len(store) : store[i] \in Taps
  BY <1>1
<1>5. \A i \in 1..Len(store) : store[i] \in Nat
  BY <1>2, <1>4
<1>6. answered \subseteq Nat /\ replayed \subseteq Nat
  BY <1>2, <1>3
<1> QED BY <1>1, <1>3, <1>4, <1>5, <1>6

LEMMA InitInv == Init => IInv
<1> SUFFICES ASSUME Init PROVE IInv
  OBVIOUS
<1>1. TypeOK
  BY QueueBounds DEF Init, TypeOK, NotFlushing, NotSending, Taps
<1> QED
  BY <1>1 DEF Init, IInv, Copied, Ordered, Unanswered, Newest, Kept, Replays,
              NotFlushing, NotSending, Flushing, Sending

LEMMA TapInv == ASSUME IInv, Tap PROVE IInv'
<1> USE DEF IInv, Flushing, Sending
<1>1. TypeOK'
  BY QueueBounds DEF Tap, TypeOK, Taps
<1>2. Copied' /\ Ordered' /\ Replays'
  BY DEF Tap, Copied, Ordered, Replays
<1>3. tapped \in Nat /\ tapped' = tapped + 1
  BY QueueBounds DEF Tap, TypeOK
<1>4. /\ \A i \in 1..Len(store) : store[i] \in Nat
      /\ answered \subseteq Nat /\ replayed \subseteq Nat
  BY ItemFacts
<1>5. Unanswered'
  BY <1>3, <1>4 DEF Tap, Unanswered
<1>6. Newest'
  BY <1>3, <1>4 DEF Tap, Unanswered, Newest
<1>7. Kept'
  BY <1>3 DEF Tap, Kept, NotSending
<1> QED BY <1>1, <1>2, <1>5, <1>6, <1>7

LEMMA DirectArrivesInv == ASSUME IInv, DirectArrives PROVE IInv'
<1> USE DEF IInv, Flushing, Sending
<1>1. /\ direct'.phase = "served" /\ direct'.tap = direct.tap /\ direct.tap \in Taps
      /\ direct' \in [phase : {"none", "out", "served"}, tap : Taps \cup {0}]
  BY DEF DirectArrives, TypeOK
<1>2. TypeOK'
  BY <1>1 DEF DirectArrives, TypeOK
<1> QED
  BY <1>1, <1>2 DEF DirectArrives, Copied, Ordered, Unanswered, Newest, Kept, Replays

LEMMA DirectAnsweredInv == ASSUME IInv, DirectAnswered PROVE IInv'
<1> USE DEF IInv, Flushing, Sending
<1>1. direct.tap \in Taps /\ direct.tap = tapped /\ tapped \in Nat
  BY QueueBounds DEF DirectAnswered, TypeOK, Newest
<1>2. TypeOK'
  BY <1>1 DEF DirectAnswered, TypeOK, NotSending
<1>3. Copied' /\ Ordered' /\ Replays'
  BY DEF DirectAnswered, Copied, Ordered, Replays
<1>4. \A i \in 1..Len(store) : store[i] \in Nat
  BY ItemFacts
<1>5. Unanswered'
  BY <1>1, <1>4 DEF DirectAnswered, Unanswered, Newest
<1>6. Newest' /\ Kept'
  BY <1>1 DEF DirectAnswered, Newest, Kept, NotSending
<1> QED BY <1>2, <1>3, <1>5, <1>6

\* Storing the failed tap puts the newest tap at the end.
LEMMA DirectFailsInv == ASSUME IInv, DirectFails PROVE IInv'
<1> USE DEF IInv, Flushing, Sending
<1> DEFINE n == direct.tap
<1>1. /\ n \in Taps /\ n = tapped /\ tapped \in Nat /\ n \notin answered
      /\ \A i \in 1..Len(store) : store[i] < n
      /\ store \in Seq(Taps)
  BY QueueBounds DEF DirectFails, TypeOK, Newest
<1>2. /\ store' = Append(store, n) /\ store' \in Seq(Taps)
      /\ Len(store') = Len(store) + 1 /\ Len(store) \in Nat
      /\ store'[Len(store) + 1] = n
      /\ \A i \in 1..Len(store) : store'[i] = store[i]
  BY <1>1 DEF DirectFails
<1>3. TypeOK'
  BY <1>1, <1>2 DEF DirectFails, TypeOK, NotSending
<1>4. Copied'
  <2>1. flush' = flush /\ late \subseteq late' /\ (Flushing => n \in late')
    BY DEF DirectFails
  <2>2. Flushing => Len(flush.pending) \in Nat
    BY DEF TypeOK
  <2> QED BY <1>2, <2>1, <2>2 DEF Copied
<1>5. Ordered'
  BY <1>1, <1>2 DEF Ordered
<1>6. Unanswered'
  BY <1>1, <1>2 DEF DirectFails, Unanswered
<1>7. Newest'
  BY <1>1 DEF DirectFails, Newest, NotSending
<1>8. Kept'
  BY <1>1, <1>2 DEF DirectFails, Kept
<1>9. Replays'
  <2>1. \A m \in replayed : m <= n
    BY <1>1 DEF Newest
  <2> QED BY <1>2, <2>1 DEF DirectFails, Replays
<1> QED BY <1>3, <1>4, <1>5, <1>6, <1>7, <1>8, <1>9

LEMMA StartFlushInv == ASSUME IInv, StartFlush PROVE IInv'
<1> USE DEF IInv, Flushing, Sending
<1>1. flush'.phase = "out" /\ flush'.pending = store /\ store \in Seq(Taps)
  BY DEF StartFlush, Waiting, TypeOK
<1>2. TypeOK'
  BY DEF StartFlush, Waiting, TypeOK
<1>3. Copied'
  BY <1>1 DEF StartFlush, Copied
<1> QED
  BY <1>2, <1>3 DEF StartFlush, Ordered, Unanswered, Newest, Kept, Replays

\* What a waiting flush knows of its oldest tap.
LEMMA HeadFacts ==
  ASSUME IInv, Flushing
  PROVE  /\ flush.pending \in Seq(Taps) /\ Len(flush.pending) \in Nat
         /\ Len(flush.pending) > 0 /\ Len(flush.pending) <= Len(store)
         /\ Head(flush.pending) = flush.pending[1]
         /\ flush.pending[1] = store[1] /\ store[1] \in Taps
         /\ store \in Seq(Taps) /\ Len(store) \in Nat
BY DEF IInv, TypeOK, Copied, Flushing

LEMMA ReplayArrivesInv == ASSUME IInv, ReplayArrives PROVE IInv'
<1> USE DEF IInv, Flushing, Sending
<1>1. /\ Head(flush.pending) = store[1] /\ store[1] \in Taps /\ Len(store) \in Nat
      /\ Len(store) > 0
  BY HeadFacts DEF ReplayArrives
<1>2. /\ flush'.phase = "served" /\ flush'.pending = flush.pending
      /\ flush' \in [phase : {"none", "out", "served"}, pending : Seq(Taps)]
  BY DEF ReplayArrives, TypeOK
<1>3. TypeOK'
  BY <1>1, <1>2 DEF ReplayArrives, TypeOK
<1>4. Copied'
  BY <1>2 DEF ReplayArrives, Copied
<1>5. Newest'
  BY <1>1 DEF ReplayArrives, Newest, Unanswered
<1>6. Replays'
  BY <1>1 DEF ReplayArrives, Replays, Taps
<1> QED
  BY <1>3, <1>4, <1>5, <1>6 DEF ReplayArrives, Ordered, Unanswered, Kept

\* The rest of the copy replaces the store: the head is answered, and what is
\* cut off behind the copy is late.
LEMMA ReplayAnsweredInv == ASSUME IInv, ReplayAnswered PROVE IInv'
<1> DEFINE p == flush.pending
<1>1. /\ p \in Seq(Taps) /\ Len(p) \in Nat /\ Len(p) > 0 /\ Len(p) <= Len(store)
      /\ Head(p) = store[1] /\ store[1] \in Taps /\ Len(store) \in Nat
  BY HeadFacts DEF ReplayAnswered, Flushing
<1>2. \A i \in 1..Len(p) : store[i] = p[i]
  BY DEF IInv, Copied, ReplayAnswered, Flushing
<1>3. /\ store' = Tail(p) /\ store' \in Seq(Taps) /\ Len(store') = Len(p) - 1
      /\ \A i \in 1..Len(store') : store'[i] = store[i + 1]
  <2>1. store' = Tail(p) /\ Tail(p) \in Seq(Taps) /\ Len(Tail(p)) = Len(p) - 1
    BY <1>1 DEF ReplayAnswered
  <2>2. \A i \in 1..(Len(p) - 1) : Tail(p)[i] = p[i + 1]
    BY <1>1
  <2> QED BY <1>1, <1>2, <2>1, <2>2
<1>4. /\ answered' = answered \cup {store[1]}
      /\ UNCHANGED <<direct, tapped, reloads, seen, replayed, late, gone>>
  BY <1>1 DEF ReplayAnswered
<1>5. /\ \A i \in 1..Len(store) : store[i] \in Nat
      /\ tapped \in Nat /\ answered \subseteq Nat /\ replayed \subseteq Nat
  BY ItemFacts DEF IInv
<1>6. /\ flush' = IF Len(p) > 1 THEN Waiting(Tail(p)) ELSE NotFlushing
      /\ Len(p) > 1 => flush'.phase = "out" /\ flush'.pending = store' /\ store' # <<>>
      /\ ~(Len(p) > 1) => flush'.phase = "none" /\ flush'.pending = <<>>
  <2>1. flush' = IF Len(p) > 1 THEN Waiting(Tail(p)) ELSE NotFlushing
    BY DEF ReplayAnswered
  <2>2. CASE Len(p) > 1
    <3>1. Len(store') > 0
      BY <1>1, <1>3, <2>2
    <3>2. store' # <<>>
      BY <3>1
    <3> QED BY <2>1, <2>2, <1>3, <3>2 DEF Waiting
  <2>3. CASE ~(Len(p) > 1)
    BY <2>1, <2>3 DEF NotFlushing
  <2> QED BY <2>1, <2>2, <2>3
<1> HIDE DEF p
<1>7. TypeOK'
  <2>1. flush' \in [phase : {"none", "out", "served"}, pending : Seq(Taps)]
    BY <1>3, <1>6 DEF Waiting, NotFlushing
  <2>2. answered' \subseteq Taps
    BY <1>1, <1>4 DEF IInv, TypeOK
  <2> QED BY <1>3, <1>4, <1>6, <2>1, <2>2 DEF IInv, TypeOK
<1>8. Copied'
  <2>1. CASE Len(p) > 1
    <3>1. flush'.pending = store' /\ flush'.phase = "out"
      BY <1>6, <2>1
    <3>2. Len(store') \in Nat
      BY <1>1, <1>3
    <3> QED BY <3>1, <3>2 DEF Copied, Flushing
  <2>2. CASE ~(Len(p) > 1)
    BY <2>2, <1>6 DEF Copied, Flushing
  <2> QED BY <2>1, <2>2
<1>9. Ordered'
  BY <1>1, <1>3 DEF IInv, Ordered
<1>10. Unanswered'
  BY <1>1, <1>3, <1>4, <1>5 DEF IInv, Unanswered, Ordered
<1>11. Newest'
  BY <1>1, <1>3, <1>4, <1>5 DEF IInv, Newest, Unanswered, Sending
<1>12. Kept'
  <2> SUFFICES ASSUME NEW n \in 1..tapped
               PROVE  \/ n \in answered' \/ \E i \in 1..Len(store') : store'[i] = n
                      \/ Sending' /\ direct'.tap = n
                      \/ n \in late' \cup gone'
    BY <1>4 DEF Kept
  <2>1. CASE \E i \in 1..Len(store) : store[i] = n
    <3>1. PICK i \in 1..Len(store) : store[i] = n
      BY <2>1
    <3>2. CASE i = 1
      BY <3>1, <3>2, <1>4
    <3>3. CASE i > 1 /\ i <= Len(p)
      <4>1. i \in Nat /\ Len(store') = Len(p) - 1
        BY <3>1, <1>3
      <4>2. i - 1 \in 1..Len(store') /\ (i - 1) + 1 = i
        BY <4>1, <3>3, <1>1
      <4>3. \A j \in 1..Len(store') : store'[j] = store[j + 1]
        BY <1>3
      <4>4. store'[i - 1] = store[i]
        BY <4>2, <4>3
      <4> QED BY <4>2, <4>4, <3>1
    <3>4. CASE i > Len(p)
      BY <3>1, <3>4, <1>4 DEF IInv, Copied, Flushing, ReplayAnswered, p
    <3> QED BY <3>1, <3>2, <3>3, <3>4, <1>1
  <2>2. CASE ~(\E i \in 1..Len(store) : store[i] = n)
    BY <2>2, <1>4 DEF IInv, Kept, Sending
  <2> QED BY <2>1, <2>2
<1>13. Replays'
  <2> SUFFICES ASSUME NEW n \in replayed, Len(store') > 0 PROVE n <= store'[1]
    BY <1>4 DEF Replays
  <2>1. 1 \in 1..Len(store') /\ 1 \in 1..Len(store) /\ 2 \in 1..Len(store)
    BY <1>1, <1>3
  <2>2. store'[1] = store[2] /\ store[1] < store[2] /\ n <= store[1]
    BY <2>1, <1>1, <1>3 DEF IInv, Replays, Ordered
  <2> QED BY <2>1, <2>2, <1>5
<1> QED BY <1>7, <1>8, <1>9, <1>10, <1>11, <1>12, <1>13 DEF IInv

\* The copy replaces the store: what is cut off behind it is late.
LEMMA ReplayFailsInv == ASSUME IInv, ReplayFails PROVE IInv'
<1> DEFINE p == flush.pending
<1>1. /\ p \in Seq(Taps) /\ Len(p) \in Nat /\ Len(p) > 0 /\ Len(p) <= Len(store)
      /\ Len(store) \in Nat
  BY HeadFacts DEF ReplayFails, Flushing
<1>2. \A i \in 1..Len(p) : store[i] = p[i]
  BY DEF IInv, Copied, ReplayFails, Flushing
<1>3. /\ store' = p /\ flush' = NotFlushing
      /\ flush'.phase = "none" /\ flush'.pending = <<>>
      /\ UNCHANGED <<direct, tapped, reloads, seen, replayed, answered, late, gone>>
  BY DEF ReplayFails, NotFlushing
<1>4. \A i \in 1..Len(store') : store'[i] = store[i]
  BY <1>2, <1>3
<1>5. \A i \in 1..Len(store) : i > Len(p) => store[i] \in late
  BY DEF IInv, Copied, ReplayFails, Flushing
<1>6. TypeOK'
  BY <1>1, <1>3 DEF IInv, TypeOK, NotFlushing
<1>7. Copied'
  BY <1>3 DEF Copied, Flushing
<1> HIDE DEF p
<1>8. Ordered' /\ Unanswered'
  BY <1>1, <1>3, <1>4 DEF IInv, Ordered, Unanswered
<1>9. Newest' /\ Replays'
  BY <1>1, <1>3, <1>4 DEF IInv, Newest, Replays, Sending
<1>10. Kept'
  BY <1>1, <1>3, <1>4, <1>5 DEF IInv, Kept, Sending
<1> QED BY <1>6, <1>7, <1>8, <1>9, <1>10 DEF IInv

LEMMA ReloadInv == ASSUME IInv, Reload PROVE IInv'
<1>1. /\ flush'.phase = "none" /\ flush'.pending = <<>> /\ direct'.phase = "none"
      /\ UNCHANGED <<store, tapped, seen, replayed, answered, late>>
      /\ gone \subseteq gone' /\ (Sending => direct.tap \in gone')
  BY DEF Reload, NotFlushing, NotSending, Sending
<1>2. TypeOK'
  BY QueueBounds DEF Reload, IInv, TypeOK, NotFlushing, NotSending
<1> QED
  BY <1>1, <1>2 DEF IInv, Copied, Ordered, Unanswered, Newest, Kept, Replays,
                    Flushing, Sending

LEMMA NextInv == IInv /\ [Next]_vars => IInv'
<1> SUFFICES ASSUME IInv, [Next]_vars PROVE IInv'
  OBVIOUS
<1>1. CASE UNCHANGED vars
  BY <1>1 DEF vars, IInv, TypeOK, Copied, Ordered, Unanswered, Newest, Kept, Replays,
              Flushing, Sending
<1>2. CASE Next
  BY <1>2, TapInv, DirectArrivesInv, DirectAnsweredInv, DirectFailsInv, StartFlushInv,
     ReplayArrivesInv, ReplayAnsweredInv, ReplayFailsInv, ReloadInv DEF Next
<1> QED BY <1>1, <1>2

-----------------------------------------------------------------------------
\* The invariant holds in every reachable state.
THEOREM Invariance == Spec => []IInv
BY InitInv, NextInv, PTL DEF Spec

\* The store, the requests and the logs hold values of their kinds.
THEOREM TypeCorrect == Spec => []TypeOK
<1>1. IInv => TypeOK
  BY DEF IInv
<1> QED BY <1>1, Invariance, PTL

\* A tap is lost only if it was stored behind a waiting flush or was in flight
\* at a reload.
THEOREM NoOtherLoss == Spec => []TapsKept
<1>1. IInv => TapsKept
  <2> SUFFICES ASSUME IInv PROVE TapsKept
    OBVIOUS
  <2>1. DOMAIN store = 1..Len(store)
    BY ItemFacts DEF IInv
  <2> QED BY <2>1 DEF IInv, Kept, TapsKept, Items, Sending
<1> QED BY <1>1, Invariance, PTL

\* Failures, replays and reloads leave the store in the order of the taps.
THEOREM StoreOrdered == Spec => []StoreInTapOrder
<1>1. IInv => StoreInTapOrder
  <2> SUFFICES ASSUME IInv PROVE StoreInTapOrder
    OBVIOUS
  <2>1. DOMAIN store = 1..Len(store)
    BY ItemFacts DEF IInv
  <2> QED BY <2>1 DEF IInv, Ordered, StoreInTapOrder
<1> QED BY <1>1, Invariance, PTL

\* A flush never sends a tap after a later one has been replayed.
THEOREM ReplayOrdered == Spec => []ReplayInTapOrder
<1>1. IInv => ReplayInTapOrder
  BY HeadFacts DEF IInv, Replays, ReplayInTapOrder, Flushing
<1> QED BY <1>1, Invariance, PTL

\* A tap whose answer the device has had is never sent again.
THEOREM NoResend == Spec => []AnsweredNotResent
<1>1. IInv => AnsweredNotResent
  <2> SUFFICES ASSUME IInv PROVE AnsweredNotResent
    OBVIOUS
  <2>1. DOMAIN store = 1..Len(store)
    BY ItemFacts DEF IInv
  <2>2. answered \cap Items(store) = {}
    BY <2>1 DEF IInv, Unanswered, Items
  <2>3. CASE Flushing
    <3>1. /\ DOMAIN flush.pending = 1..Len(flush.pending)
          /\ \A i \in 1..Len(flush.pending) : i \in 1..Len(store) /\ store[i] = flush.pending[i]
      BY <2>3, HeadFacts DEF IInv, Copied
    <3> QED BY <2>2, <3>1 DEF IInv, Unanswered, Items, AnsweredNotResent
  <2>4. CASE ~Flushing
    <3>1. Items(flush.pending) = {}
      BY <2>4 DEF IInv, Copied, Items
    <3> QED BY <2>2, <3>1 DEF AnsweredNotResent
  <2> QED BY <2>3, <2>4
<1> QED BY <1>1, Invariance, PTL

\* While a flush waits, its copy is the front of the store: whatever ends it
\* loses nothing that was stored.
THEOREM CopySafe == Spec => []CopyIsStored
<1>1. IInv => CopyIsStored
  <2> SUFFICES ASSUME IInv, Flushing PROVE CopyIsStored
    BY DEF Flushing, CopyIsStored
  <2>1. DOMAIN flush.pending = 1..Len(flush.pending)
    BY HeadFacts DEF IInv, Copied
  <2> QED BY <2>1 DEF IInv, Copied, CopyIsStored
<1> QED BY <1>1, Invariance, PTL

\* The store and the copy of a flush are sound in every state, and no tap is lost unnamed.
THEOREM QueueSafe == Spec => []QueueInv
<1>1. TypeOK /\ TapsKept /\ StoreInTapOrder /\ ReplayInTapOrder /\ AnsweredNotResent /\ CopyIsStored
      => QueueInv
  BY DEF QueueInv
<1> QED BY <1>1, TypeCorrect, NoOtherLoss, StoreOrdered, ReplayOrdered, NoResend, CopySafe, PTL
=============================================================================
