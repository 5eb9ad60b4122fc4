----------------------------- MODULE RateLimit -----------------------------
(***************************************************************************)
(* The throttle of a guest's actions (guestRateLimit.ts), for one room and *)
(* address: at most Limit of them in a window that slides with the clock.  *)
(* A call takes its time first, waits for the settings, and looks at the   *)
(* window after that: a later call may overtake it.                        *)
(***************************************************************************)
EXTENDS Integers, Sequences, FiniteSets

CONSTANTS
  Limit,     \* guestRateLimitPerHour
  Window,    \* in steps of the clock
  Callers,   \* requests that may be in service at once
  MaxClock   \* bound

ASSUME LimitAssumption == Limit \in Nat \ {0} /\ Window \in Nat \ {0} /\ MaxClock \in Nat

VARIABLES
  time,
  accepted,  \* the times of all accepted calls, in the order they were accepted
  hits,      \* those of them that the window keeps: positions in accepted
  asked,     \* asked[c]: the time c has taken, or Never
  promise    \* after a refusal: when the next call will be accepted, or Never (observation)

limitVars == <<time, accepted, hits, asked, promise>>

Never == -1

LimitInit ==
  /\ time = 0 /\ hits = {}
  /\ asked = [c \in Callers |-> Never]
  /\ accepted = <<>> /\ promise = Never

TimePasses ==
  /\ time < MaxClock /\ time' = time + 1
  /\ UNCHANGED <<accepted, hits, asked, promise>>

Arrive(c) ==
  /\ asked[c] = Never
  /\ asked' = [asked EXCEPT ![c] = time]
  /\ UNCHANGED <<time, accepted, hits, promise>>

\* Variant with a bug: a call at the edge of the window still counts.
RecentEdge(at) == {i \in hits : accepted[i] >= at - Window}

Recent(at) == {i \in hits : accepted[i] > at - Window}

Accept(c) ==
  LET recent == Recent(asked[c])
  IN /\ asked[c] # Never /\ Cardinality(recent) < Limit
     /\ accepted' = Append(accepted, asked[c])
     /\ hits' = recent \cup {Len(accepted')}
     /\ asked' = [asked EXCEPT ![c] = Never]
     /\ promise' = Never
     /\ UNCHANGED time

\* The answer names the time when the first of the kept ones leaves the window; the
\* refused call itself leaves no trace.
TurnAway(c) ==
  LET recent == Recent(asked[c])
      first == CHOOSE i \in recent : \A j \in recent : i <= j
  IN /\ asked[c] # Never /\ Cardinality(recent) >= Limit
     /\ hits' = recent
     /\ asked' = [asked EXCEPT ![c] = Never]
     /\ promise' = accepted[first] + Window
     /\ UNCHANGED <<time, accepted>>

LimitNext == TimePasses \/ \E c \in Callers : Arrive(c) \/ Accept(c) \/ TurnAway(c)

-----------------------------------------------------------------------------
(***************************************************************************)
(* Properties.                                                             *)
(***************************************************************************)

\* A call is overtaken when one that took its time later has been accepted before it.
Overtook(at) == \E i \in DOMAIN accepted : accepted[i] > at

InWindow(at) == {i \in DOMAIN accepted : accepted[i] > at - Window /\ accepted[i] <= at}

\* "Sliding window", "retryAfterSeconds": a call that is not overtaken is accepted
\* exactly when fewer than Limit were accepted in the window that ends with it,
\* whatever was refused meanwhile, and one that comes as late as the last refusal
\* has said is not refused again.
LimitKept ==
  [][\A c \in Callers : asked[c] # Never /\ asked'[c] = Never /\ ~Overtook(asked[c]) =>
       /\ (Len(accepted') > Len(accepted)) <=> Cardinality(InWindow(asked[c])) < Limit
       /\ promise # Never /\ asked[c] >= promise => Len(accepted') > Len(accepted)]_limitVars
=============================================================================
