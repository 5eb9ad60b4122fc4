---------------------------- MODULE OfflineQueue ----------------------------
(***************************************************************************)
(* The attendant's taps and the queue that keeps them when the network     *)
(* fails.  A tap is sent at once; if the request ends in a network error it *)
(* is stored.  A flush works on a copy of the store: it sends the oldest   *)
(* tap, waits, and writes the rest of its copy back.  While it waits the   *)
(* attendant goes on tapping.  Taps are numbered in the order they happen. *)
(***************************************************************************)
EXTENDS Integers, Sequences

CONSTANTS
  MaxTaps,     \* bound: taps
  MaxReloads   \* bound: reloads of the page

ASSUME QueueBounds == MaxTaps \in Nat /\ MaxReloads \in Nat

VARIABLES
  store,     \* the stored actions, oldest first (localStorage)
  flush,     \* the flush of this tab: its request and its copy of the store
  direct,    \* the tap being sent at once
  tapped,    \* taps so far
  reloads,   \* page loads so far
  seen,      \* taps that have reached the server
  replayed,  \* those that have reached it out of the store
  answered,  \* taps whose answer has come back, a success or a refusal
  late,      \* taps stored while a flush was waiting
  gone       \* taps that were being sent at once when the page was reloaded

vars == <<store, flush, direct, tapped, reloads, seen, replayed, answered, late, gone>>

Taps == 1..MaxTaps
Items(s) == {s[i] : i \in DOMAIN s}

\* A request is "out" until it has reached the server, then "served".
NotFlushing == [phase |-> "none", pending |-> <<>>]
NotSending == [phase |-> "none", tap |-> 0]
Waiting(p) == [phase |-> "out", pending |-> p]

Init ==
  /\ store = <<>>
  /\ flush = NotFlushing
  /\ direct = NotSending
  /\ tapped = 0
  /\ reloads = 0
  /\ seen = {}
  /\ replayed = {}
  /\ answered = {}
  /\ late = {}
  /\ gone = {}

-----------------------------------------------------------------------------
(***************************************************************************)
(* setStatus of the attendant view: one tap at a time.                     *)
(***************************************************************************)

Tap ==
  /\ direct = NotSending
  /\ tapped < MaxTaps
  /\ tapped' = tapped + 1
  /\ direct' = [phase |-> "out", tap |-> tapped + 1]
  /\ UNCHANGED <<store, flush, reloads, seen, replayed, answered, late, gone>>

DirectArrives ==
  /\ direct.phase = "out"
  /\ seen' = seen \cup {direct.tap}
  /\ direct' = [direct EXCEPT !.phase = "served"]
  /\ UNCHANGED <<store, flush, tapped, reloads, replayed, answered, late, gone>>

DirectAnswered ==
  /\ direct.phase = "served"
  /\ answered' = answered \cup {direct.tap}
  /\ direct' = NotSending
  /\ UNCHANGED <<store, flush, tapped, reloads, seen, replayed, late, gone>>

\* Variant with a bug: the failed tap is not stored.
DirectFailsUnstored ==
  /\ direct.phase # "none"
  /\ direct' = NotSending
  /\ UNCHANGED <<store, flush, tapped, reloads, seen, replayed, answered, late, gone>>

\* fetch rejects: the request or its answer got lost, which of the two the
\* device cannot tell.  The tap goes to the end of what is stored now.
DirectFails ==
  /\ direct.phase # "none"
  /\ store' = Append(store, direct.tap)
  /\ late' = IF flush.phase # "none" THEN late \cup {direct.tap} ELSE late
  /\ direct' = NotSending
  /\ UNCHANGED <<flush, tapped, reloads, seen, replayed, answered, gone>>

-----------------------------------------------------------------------------
(***************************************************************************)
(* flush: on mount, on reconnect, on the timer or on demand, unless one is *)
(* under way in this tab.                                                  *)
(***************************************************************************)

StartFlush ==
  /\ flush.phase = "none"
  /\ store # <<>>
  /\ flush' = Waiting(store)
  /\ UNCHANGED <<store, direct, tapped, reloads, seen, replayed, answered, late, gone>>

ReplayArrives ==
  /\ flush.phase = "out"
  /\ seen' = seen \cup {Head(flush.pending)}
  /\ replayed' = replayed \cup {Head(flush.pending)}
  /\ flush' = [flush EXCEPT !.phase = "served"]
  /\ UNCHANGED <<store, direct, tapped, reloads, answered, late, gone>>

\* Delivered or refused, the tap is done: the rest of the copy is written back,
\* and the next request goes out before anything else can run.
ReplayAnswered ==
  /\ flush.phase = "served"
  /\ answered' = answered \cup {Head(flush.pending)}
  /\ store' = Tail(flush.pending)
  /\ flush' = IF Len(flush.pending) > 1 THEN Waiting(Tail(flush.pending))
              ELSE NotFlushing
  /\ UNCHANGED <<direct, tapped, reloads, seen, replayed, late, gone>>

\* Variants with a bug: the tap that failed is dropped, or tried last the next time.
ReplayFailsDropped ==
  /\ flush.phase # "none"
  /\ store' = Tail(flush.pending)
  /\ flush' = NotFlushing
  /\ UNCHANGED <<direct, tapped, reloads, seen, replayed, answered, late, gone>>

ReplayFailsRotated ==
  /\ flush.phase # "none"
  /\ store' = Append(Tail(flush.pending), Head(flush.pending))
  /\ flush' = NotFlushing
  /\ UNCHANGED <<direct, tapped, reloads, seen, replayed, answered, late, gone>>

\* Retriable: the copy is written back whole, and the flush ends.
ReplayFails ==
  /\ flush.phase # "none"
  /\ store' = flush.pending
  /\ flush' = NotFlushing
  /\ UNCHANGED <<direct, tapped, reloads, seen, replayed, answered, late, gone>>

-----------------------------------------------------------------------------
\* A reload forgets every request and keeps what is stored.
Reload ==
  /\ reloads < MaxReloads
  /\ reloads' = reloads + 1
  /\ gone' = IF direct.phase # "none" THEN gone \cup {direct.tap} ELSE gone
  /\ flush' = NotFlushing
  /\ direct' = NotSending
  /\ UNCHANGED <<store, tapped, seen, replayed, answered, late>>

Next ==
  \/ Tap \/ DirectArrives \/ DirectAnswered \/ DirectFails
  \/ StartFlush \/ ReplayArrives \/ ReplayAnswered \/ ReplayFails
  \/ Reload

Spec == Init /\ [][Next]_vars

\* The timer fires as long as something is stored, every request ends, and the
\* connection returns: a replay that is tried again and again gets through.
QueueFairness ==
  /\ WF_vars(DirectAnswered \/ DirectFails)
  /\ WF_vars(StartFlush)
  /\ SF_vars(ReplayArrives)
  /\ SF_vars(ReplayAnswered)

-----------------------------------------------------------------------------
(***************************************************************************)
(* Properties.                                                             *)
(***************************************************************************)

TypeOK ==
  /\ store \in Seq(Taps)
  /\ flush \in [phase : {"none", "out", "served"}, pending : Seq(Taps)]
  /\ flush.phase # "none" => flush.pending # <<>>
  /\ direct \in [phase : {"none", "out", "served"}, tap : Taps \cup {0}]
  /\ direct.phase # "none" => direct.tap \in Taps
  /\ tapped \in 0..MaxTaps
  /\ reloads \in 0..MaxReloads
  /\ \A S \in {seen, replayed, answered, late, gone} : S \subseteq Taps

\* A tap is in flight, stored or answered, unless it was stored behind the back
\* of a waiting flush or was in flight at a reload: nothing else loses a tap.
TapsKept ==
  \A n \in 1..tapped :
    \/ n \in answered \cup Items(store)
    \/ direct.phase # "none" /\ direct.tap = n
    \/ n \in late \cup gone

\* The store is in the order of the taps, without repetition, whatever failed
\* and however often the page was reloaded.
StoreInTapOrder ==
  \A i, j \in DOMAIN store : i < j => store[i] < store[j]

\* Replay never goes back: when a flush sends a tap, no later tap has been
\* replayed before it.
ReplayInTapOrder ==
  flush.phase # "none" => \A n \in replayed : n <= Head(flush.pending)

\* What the server has answered is never sent again.
AnsweredNotResent ==
  /\ answered \cap Items(store) = {}
  /\ answered \cap Items(flush.pending) = {}

\* A flush that ends leaves nothing out of the store that it did not deliver:
\* its copy is in the store as long as it waits.
CopyIsStored ==
  flush.phase # "none" =>
    /\ Len(flush.pending) <= Len(store)
    /\ \A i \in DOMAIN flush.pending : store[i] = flush.pending[i]

\* What holds of the store and of the copy a flush works on: no tap is lost but in the two
\* ways named, both are in tap order, one is the front of the other, and nothing in them
\* goes back to the server.
QueueInv ==
  /\ TypeOK /\ TapsKept
  /\ StoreInTapOrder /\ ReplayInTapOrder /\ AnsweredNotResent /\ CopyIsStored

\* The attendant hears the outcome of every tap, unless the tap was stored while
\* a flush was waiting or was in flight at a reload.
EveryTapSettled ==
  \A n \in Taps : tapped >= n ~> n \in answered \cup late \cup gone

-----------------------------------------------------------------------------
(***************************************************************************)
(* What the documentation says, and the code does not do.                  *)
(***************************************************************************)

\* actionQueue.ts: "If the network fails the action is stored locally and
\* replayed once the connection returns."
FailedTapsStayStored ==
  \A n \in 1..tapped :
    \/ n \in answered \cup gone \cup Items(store)
    \/ direct.phase # "none" /\ direct.tap = n
=============================================================================
