--------------------------- MODULE GuestRequests ---------------------------
(***************************************************************************)
(* The requests of the guests of one room (guestActions.ts, the two access *)
(* routes, PATCH /api/guest-requests/[id]): a guest taps, the server       *)
(* checks access and rate, stores the request or lifts the newest open Do  *)
(* Not Disturb, and supervisors set any status at any time.  A tap that    *)
(* does not reach the server waits in the queue of the phone; the phone    *)
(* polls what is open, and answers to polls may overtake each other.       *)
(*                                                                         *)
(* Only DND and one other kind: cleaning and contact requests differ in    *)
(* their wording.  Defects and notes go the way of the staff's.            *)
(***************************************************************************)
EXTENDS Integers, Sequences, FiniteSets

CONSTANTS
  Phones,       \* devices on which the page of the room is open
  FeedLimit,    \* FEED_LIMIT: requests a poll looks at
  MaxTaps,      \* bound: taps
  MaxEvents     \* bound: taps, and lost calls and answers, refusals, failures in the server

ASSUME BoundsAssumption == {FeedLimit, MaxTaps, MaxEvents} \subseteq Nat

VARIABLES
  requests,  \* the GuestRequest table of the room: kind, status, and the tap it stores
  inHouse,   \* the code or token resolves to a stay
  call,      \* call[p][s]: the request in flight, by a tap or by the replay
  queue,     \* queue[p]: what waits to be sent again
  copy,      \* copy[p]: the copy of it a replay works on (see OfflineQueue)
  polls,     \* polls[p]: answers on their way
  tile,      \* tile[p]: the DND request the page shows as active, 0 for none
  told,      \* taps whose outcome was shown, as done or as an error
  late,      \* taps queued behind the back of a replay (observation)
  taps, mishaps

phone == <<queue, copy, late>>
vars == <<requests, inHouse, call, phone, polls, tile, told, taps, mishaps>>

Slots == {"tap", "flush"}
Quiet == [pc |-> "quiet"]
OpenStatus == {"RECEIVED", "IN_PROGRESS"}

Init ==
  /\ requests = <<>> /\ inHouse = TRUE
  /\ call = [p \in Phones |-> [s \in Slots |-> Quiet]]
  /\ queue = [p \in Phones |-> <<>>] /\ copy = [p \in Phones |-> <<>>] /\ late = {}
  /\ polls = [p \in Phones |-> {}]
  /\ tile = [p \in Phones |-> [id |-> 0, fresh |-> FALSE]]
  /\ told = {} /\ taps = 0 /\ mishaps = 0

OpenDnds == {i \in DOMAIN requests : requests[i].kind = "DND" /\ requests[i].status \in OpenStatus}

Newest(is) == IF is = {} THEN 0 ELSE CHOOSE i \in is : \A j \in is : j <= i

\* getGuestStatusFeed: activeDnd, among the newest requests.
ActiveDnd == Newest({i \in OpenDnds : i > Len(requests) - FeedLimit})

\* What was seen of the requests is out of date when they change: it is kept with
\* the tile, the answers on their way and the calls.
Outdated ==
  /\ tile' = [p \in Phones |-> [tile[p] EXCEPT !.fresh = FALSE]]
  /\ polls' = [p \in Phones |-> {[a EXCEPT !.fresh = FALSE] : a \in polls[p]}]

Overtake(calls) ==
  [p \in Phones |-> [s \in Slots |->
     IF calls[p][s].pc \notin {"sent", "lift"} THEN calls[p][s]
     ELSE [calls[p][s] EXCEPT !.shown = 0, !.over = calls[p][s].pc = "lift"]]]

Answered(p, s) == [pc |-> "answered", do |-> call[p][s].do, tap |-> call[p][s].tap]

-----------------------------------------------------------------------------
(***************************************************************************)
(* The page: GuestView, useGuestOfflineQueue, useGuestStatusFeed.          *)
(***************************************************************************)

Sent(do, tap, shown) ==
  [pc |-> "sent", do |-> do, tap |-> tap, shown |-> shown, id |-> 0, over |-> FALSE]

\* The DND tile asks for rest, or lifts it while it shows a request as active.
Tap(p, do) ==
  /\ taps < MaxTaps /\ taps + mishaps < MaxEvents
  /\ call[p]["tap"] = Quiet
  /\ do = "CANCEL" => tile[p].id # 0
  /\ do = "DND" => tile[p].id = 0
  /\ taps' = taps + 1
  /\ call' = [call EXCEPT ![p]["tap"] =
                Sent(do, taps + 1, IF tile[p].fresh THEN tile[p].id ELSE 0)]
  /\ UNCHANGED <<requests, inHouse, phone, polls, tile, told, mishaps>>

Replayed(a) == Sent(a.do, a.tap, 0)

\* flush, one at a time: a copy of the queue, the oldest first.
Flush(p) ==
  /\ call[p]["flush"] = Quiet /\ queue[p] # <<>>
  /\ copy' = [copy EXCEPT ![p] = queue[p]]
  /\ call' = [call EXCEPT ![p]["flush"] = Replayed(Head(queue[p]))]
  /\ UNCHANGED <<requests, inHouse, queue, late, polls, tile, told, taps, mishaps>>

\* An answer, of whatever kind, settles the tap; a replay writes back the rest of its
\* copy and goes on with it.
Answer(p, s) ==
  LET rest == IF s = "flush" THEN Tail(copy[p]) ELSE <<>>
  IN /\ call[p][s].pc = "answered"
     /\ told' = told \cup {call[p][s].tap}
     /\ call' = [call EXCEPT ![p][s] = IF rest = <<>> THEN Quiet ELSE Replayed(Head(rest))]
     /\ IF s = "flush" THEN queue' = [queue EXCEPT ![p] = rest] /\ copy' = [copy EXCEPT ![p] = rest]
        ELSE UNCHANGED <<queue, copy>>
     /\ UNCHANGED <<requests, inHouse, late, polls, tile, taps, mishaps>>

\* Variant with a bug: lifting is not queued.
EnqueueAsked(p, a) == IF a.do = "CANCEL" THEN queue ELSE [queue EXCEPT ![p] = Append(@, a)]

\* enqueue: behind what is stored now.
Enqueue(p, a) == [queue EXCEPT ![p] = Append(@, a)]

\* NetworkError: the call, or the answer to it, is lost.  A tap is queued; a replay
\* writes its copy back and ends.
Lose(p, s) ==
  /\ taps + mishaps < MaxEvents
  /\ call[p][s].pc \in {"sent", "answered"}
  /\ mishaps' = mishaps + 1
  /\ call' = [call EXCEPT ![p][s] = Quiet]
  /\ IF s = "tap"
     THEN /\ queue' = Enqueue(p, [do |-> call[p][s].do, tap |-> call[p][s].tap])
          /\ late' = IF call[p]["flush"] = Quiet THEN late ELSE late \cup {call[p][s].tap}
          /\ UNCHANGED copy
     ELSE /\ queue' = [queue EXCEPT ![p] = copy[p]]
          /\ copy' = [copy EXCEPT ![p] = <<>>]
          /\ UNCHANGED late
  /\ UNCHANGED <<requests, inHouse, polls, tile, told, taps>>

\* Every POLL_MS, and after every announcement; a poll does not wait for the last.
Poll(p) ==
  /\ inHouse /\ Cardinality(polls[p]) < 2
  /\ polls' = [polls EXCEPT ![p] = @ \cup {[id |-> ActiveDnd, fresh |-> ActiveDnd # 0]}]
  /\ UNCHANGED <<requests, inHouse, call, phone, tile, told, taps, mishaps>>

\* Variant with a bug: a page that shows a request keeps showing it.
DeliverFirst(p, a) ==
  /\ a \in polls[p]
  /\ tile' = [tile EXCEPT ![p] = IF tile[p].id = 0 THEN a ELSE @]
  /\ polls' = [polls EXCEPT ![p] = @ \ {a}]
  /\ UNCHANGED <<requests, inHouse, call, phone, told, taps, mishaps>>

Deliver(p, a) ==
  /\ a \in polls[p]
  /\ tile' = [tile EXCEPT ![p] = a]
  /\ polls' = [polls EXCEPT ![p] = @ \ {a}]
  /\ UNCHANGED <<requests, inHouse, call, phone, told, taps, mishaps>>

-----------------------------------------------------------------------------
(***************************************************************************)
(* The server.                                                             *)
(***************************************************************************)

\* No stay: 404.  Too many: 429 (RateLimit says when).
Refuse(p, s) ==
  /\ call[p][s].pc = "sent"
  /\ inHouse => taps + mishaps < MaxEvents
  /\ mishaps' = IF inHouse THEN mishaps + 1 ELSE mishaps
  /\ call' = [call EXCEPT ![p][s] = Answered(p, s)]
  /\ UNCHANGED <<requests, inHouse, phone, polls, tile, told, taps>>

\* handleDnd, handleCleanRequest, handleContact.
Ask(p, s) ==
  /\ call[p][s].pc = "sent" /\ call[p][s].do # "CANCEL" /\ inHouse
  /\ requests' = Append(requests, [kind |-> call[p][s].do, status |-> "RECEIVED", tap |-> call[p][s].tap])
  /\ Outdated
  /\ call' = [Overtake(call) EXCEPT ![p][s] = Answered(p, s)]
  /\ UNCHANGED <<inHouse, phone, told, taps, mishaps>>

\* The notification or the audit fails beside the request, or the request itself.
AskFails(p, s) ==
  /\ call[p][s].pc = "sent" /\ call[p][s].do # "CANCEL" /\ inHouse
  /\ taps + mishaps < MaxEvents
  /\ mishaps' = mishaps + 1
  /\ requests' \in {requests, Append(requests, [kind |-> call[p][s].do, status |-> "RECEIVED",
                                                tap |-> call[p][s].tap])}
  /\ Outdated
  /\ call' = [Overtake(call) EXCEPT ![p][s] = Answered(p, s)]
  /\ UNCHANGED <<inHouse, phone, told, taps>>

\* Variant with a bug: the oldest comes first.
ToLiftOldest == IF OpenDnds = {} THEN 0 ELSE CHOOSE i \in OpenDnds : \A j \in OpenDnds : i <= j

ToLift == Newest(OpenDnds)

\* handleDndCancel reads the newest open one ...
ReadActive(p, s) ==
  /\ call[p][s].pc = "sent" /\ call[p][s].do = "CANCEL" /\ inHouse
  /\ call' = [call EXCEPT ![p][s] =
                IF ToLift = 0 THEN Answered(p, s)
                ELSE [@ EXCEPT !.pc = "lift", !.id = ToLift, !.over = FALSE]]
  /\ UNCHANGED <<requests, inHouse, phone, polls, tile, told, taps, mishaps>>

\* ... and cancels it, whatever it is by now.
Lift(p, s) ==
  /\ call[p][s].pc = "lift"
  /\ requests' = [requests EXCEPT ![call[p][s].id].status = "CANCELLED"]
  /\ Outdated
  /\ call' = [Overtake(call) EXCEPT ![p][s] = Answered(p, s)]
  /\ UNCHANGED <<inHouse, phone, told, taps, mishaps>>

\* The update fails.  (Where only the notification or the audit does, the guest is
\* shown an error, but the request is lifted all the same.)
LiftFails(p, s) ==
  /\ call[p][s].pc = "lift" /\ taps + mishaps < MaxEvents
  /\ mishaps' = mishaps + 1
  /\ call' = [call EXCEPT ![p][s] = Answered(p, s)]
  /\ UNCHANGED <<requests, inHouse, phone, polls, tile, told, taps>>

\* PATCH: from any status to any other.  IN_PROGRESS is open like RECEIVED, CANCELLED
\* closed like DONE: Next sets one of each.  Of the other kind nothing reads the status.
Patch(i, status) ==
  /\ requests[i].kind = "DND" /\ status # requests[i].status
  /\ requests' = [requests EXCEPT ![i].status = status]
  /\ Outdated
  /\ call' = Overtake(call)
  /\ UNCHANGED <<inHouse, phone, told, taps, mishaps>>

\* The stay ends; the code resolves to nothing.
CheckOut ==
  /\ inHouse
  /\ inHouse' = FALSE
  /\ UNCHANGED <<requests, call, phone, polls, tile, told, taps, mishaps>>

-----------------------------------------------------------------------------
Serve(p, s) ==
  \/ Refuse(p, s) \/ Ask(p, s) \/ AskFails(p, s)
  \/ ReadActive(p, s) \/ Lift(p, s) \/ LiftFails(p, s)

Next ==
  \/ \E p \in Phones :
       \/ \E do \in {"DND", "CLEAN_REQUEST", "CANCEL"} : Tap(p, do)
       \/ Flush(p) \/ Poll(p) \/ \E a \in polls[p] : Deliver(p, a)
       \/ \E s \in Slots : Answer(p, s) \/ Lose(p, s) \/ Serve(p, s)
  \/ \E i \in DOMAIN requests, status \in {"RECEIVED", "DONE"} : Patch(i, status)
  \/ CheckOut

Spec == Init /\ [][Next]_vars

\* The page polls as long as it is open, and what the network carries arrives.
Fairness ==
  \A p \in Phones :
    /\ WF_vars(Poll(p)) /\ WF_vars(\E a \in polls[p] : Deliver(p, a))
    /\ WF_vars(Flush(p))
    /\ \A s \in Slots : WF_vars(Serve(p, s)) /\ WF_vars(Answer(p, s))

FairSpec == Spec /\ Fairness

-----------------------------------------------------------------------------
(***************************************************************************)
(* Properties.                                                             *)
(***************************************************************************)

\* "keine Aktion still verlieren": of every tap there is a request, an answer that
\* was shown, or something on its way, unless it was queued while a replay was
\* under way, which overwrites the queue.
TapsAccounted ==
  \A t \in 1..taps :
    \/ t \in told \cup late
    \/ \E i \in DOMAIN requests : requests[i].tap = t
    \/ \E p \in Phones : \/ \E s \in Slots : call[p][s] # Quiet /\ call[p][s].tap = t
                         \/ \E i \in DOMAIN queue[p] : queue[p][i].tap = t

Lifted(p, s) ==
  call[p][s].pc = "lift" /\ call'[p][s].pc = "answered" /\ mishaps' = mishaps

\* "lifts whichever DND request is currently active", "the guest's own still-open
\* request": lifting closes an open request and no other, unless somebody has changed
\* one since it was read; and it closes the one the page has shown, unless requests
\* have changed since the page has seen them.
CancelLiftsShown ==
  [][\A p \in Phones, s \in Slots : Lifted(p, s) =>
       \E i \in DOMAIN requests :
         /\ requests' = [requests EXCEPT ![i].status = "CANCELLED"]
         /\ i \in OpenDnds \/ call[p][s].over
         /\ call[p][s].shown \in {0, i}]_vars

\* "Live-Aktualisierung": while the guest is in the house, the page comes to show
\* what is active and stays, however the answers overtake each other.
TileCatchesUp ==
  \A p \in Phones, i \in 0..MaxTaps :
    <>[](inHouse /\ ActiveDnd = i) => <>[](tile[p].id = i)
=============================================================================
