------------------------------ MODULE AutoPlan ------------------------------
(***************************************************************************)
(* The plan of the day and its live redistribution (autoplan/service.ts),  *)
(* on top of the routes of Assignment: drafts are proposed and confirmed,  *)
(* the situation is checked and suggestions are stored, a supervisor       *)
(* decides on them, attendants go absent and come back.  No operation is a *)
(* transaction from its first read to its last write.                      *)
(*                                                                         *)
(* One date; every assignment is of that date.  Who may take which room is *)
(* settled for the day.  What the solver prefers among the legal           *)
(* placements is left open here.                                           *)
(***************************************************************************)
EXTENDS Assignment

CONSTANTS
  Skilled,   \* attendants of level 2 or more
  Demanding, \* rooms that ask for one
  MaxAsked,  \* bound: requests about the plan and the redistribution (one that dies counts twice)
  MaxFails   \* bound: those that die half way

VARIABLES
  started,     \* rooms that are IN_PROGRESS, CLEAN or INSPECTED
  absent,      \* attendants whose absentDate is the date
  proposals,   \* the AutoPlanProposal table
  suggestions, \* the RedistributionSuggestion table
  desk,        \* the supervisors' requests in service, under the names of the calls
  asked,       \* supervisors' requests so far
  fails        \* requests that have died

auto == <<started, absent, proposals, suggestions, desk, asked, fails>>
all == <<vars, auto>>

\* stale: what was written by others since the request has read it.
Free == [pc |-> "free", id |-> 0, plan |-> <<>>, crew |-> {}, todo |-> {}, rows |-> {},
         found |-> {}, rest |-> <<>>, stale |-> {}]

\* The day begins with the plan confirmed in the morning, if there was one.
AutoInit ==
  /\ \E p \in Plans :
       LET heir(r) == {a \in Attendants : r \in Planned(p, a)}
           of(r) == CHOOSE a \in heir(r) : TRUE
       IN /\ who = [r \in Rooms |-> IF heir(r) = {} THEN None ELSE of(r)]
          /\ place = [r \in Rooms |-> IF heir(r) = {} THEN None
                                      ELSE (CHOOSE i \in DOMAIN p[of(r)] : p[of(r)][i] = r) - 1]
  /\ proposals = IF \A r \in Rooms : who[r] = None THEN <<>>
                 ELSE <<[status |-> "CONFIRMED", fixed |-> [r \in Rooms |-> None],
                         crew |-> Attendants]>>
  /\ call = [c \in Calls |-> Idle] /\ desk = [c \in Calls |-> Free]
  /\ untidy = {} /\ started = {} /\ absent = {}
  /\ suggestions = <<>>
  /\ ops = 0 /\ asked = 0 /\ fails = 0

Ask == asked + fails < MaxAsked /\ asked' = asked + 1

Present == Attendants \ absent

News ==
  (IF who' # who \/ place' # place \/ started' # started \/ absent' # absent THEN {"board"} ELSE {})
  \cup (IF suggestions' # suggestions THEN {"rows"} ELSE {})

\* Request c goes on as k, and the others do not notice what it has written.
Continue(c, k) ==
  desk' = [d \in Calls |-> IF d = c THEN k
                           ELSE IF desk[d].pc = "free" THEN Free
                           ELSE [desk[d] EXCEPT !.stale = @ \cup News]]

Notice == desk' = [d \in Calls |-> IF desk[d].pc = "free" THEN Free
                                   ELSE [desk[d] EXCEPT !.stale = @ \cup News]]

IsFree(c) == desk[c].pc = "free" /\ call[c].pc = "idle"

Board == <<who, place, call, untidy, ops>>

-----------------------------------------------------------------------------
(***************************************************************************)
(* proposeForDate: the day is read, the open drafts are retired, the new   *)
(* one is stored.                                                          *)
(***************************************************************************)

\* Rooms begun by nobody are not planned.
InPlan(r) == r \notin started \/ who[r] # None

Propose(c, crew) ==
  /\ IsFree(c) /\ Ask
  /\ crew # {} /\ crew \subseteq Present
  /\ \E r \in Rooms : InPlan(r)
  /\ UNCHANGED <<Board, started, absent, proposals, suggestions, fails>>
  /\ Continue(c, [Free EXCEPT !.pc = "retire", !.crew = crew,
                              !.plan = [r \in {q \in Rooms : InPlan(q)} |-> who[r]]])

RetireDrafts(c) ==
  /\ desk[c].pc = "retire"
  /\ proposals' = [i \in DOMAIN proposals |->
                     [proposals[i] EXCEPT !.status = IF @ = "DRAFT" THEN "SUPERSEDED" ELSE @]]
  /\ UNCHANGED <<Board, started, absent, suggestions, asked, fails>>
  /\ Continue(c, [desk[c] EXCEPT !.pc = "draft"])

StoreDraft(c) ==
  /\ desk[c].pc = "draft"
  /\ proposals' = Append(proposals, [status |-> "DRAFT", fixed |-> desk[c].plan,
                                     crew |-> desk[c].crew])
  /\ UNCHANGED <<Board, started, absent, suggestions, asked, fails>>
  /\ Continue(c, Free)

-----------------------------------------------------------------------------
(***************************************************************************)
(* confirmProposal: f is the draft as the supervisor has edited it.        *)
(***************************************************************************)

\* Assigned rooms stay with their attendant, if the draft has that attendant.
Respects(f, p) == \A r \in DOMAIN f : p.fixed[r] \in p.crew => f[r] = p.fixed[r]

\* Begun rooms stay where they are.
KeepsStarted(f) == \A r \in DOMAIN f \cap started : who[r] # None => f[r] = who[r]

ReadDraft(c, i, f) ==
  /\ IsFree(c) /\ Ask
  /\ proposals[i].status = "DRAFT" /\ Respects(f, proposals[i]) /\ KeepsStarted(f)
  /\ UNCHANGED <<Board, started, absent, proposals, suggestions, fails>>
  /\ Continue(c, [Free EXCEPT !.pc = "confirm", !.id = i, !.plan = f,
                              !.todo = DOMAIN f \ started])

\* Begun rooms keep the front of the route.
Front(k, a) == Cardinality({r \in DOMAIN k.plan \ k.todo : k.plan[r] = a})

\* Where the plan puts r, when s is the order of the routes.
PlaceIn(k, s, r) ==
  LET a == k.plan[r]
      before == {i \in DOMAIN s : s[i] \in k.todo /\ k.plan[s[i]] = a
                                  /\ i < CHOOSE j \in DOMAIN s : s[j] = r}
  IN Front(k, a) + Cardinality(before)

\* Variant with a bug: the plan confirmed before stays confirmed.
ConfirmedKept(i) == [proposals EXCEPT ![i].status = "CONFIRMED"]

Confirmed(i) ==
  [j \in DOMAIN proposals |->
     IF j = i THEN [proposals[j] EXCEPT !.status = "CONFIRMED"]
     ELSE [proposals[j] EXCEPT !.status = IF @ = "CONFIRMED" THEN "SUPERSEDED" ELSE @]]

\* One transaction; nothing is looked at again.
CommitConfirm(c, s) ==
  LET k == desk[c] IN
  /\ k.pc = "confirm"
  /\ who' = [r \in Rooms |-> IF r \in k.todo THEN k.plan[r] ELSE who[r]]
  /\ place' = [r \in Rooms |-> IF r \notin k.todo THEN place[r]
                               ELSE IF k.plan[r] = None THEN None ELSE PlaceIn(k, s, r)]
  /\ proposals' = Confirmed(k.id)
  /\ call' = Overtaken
  /\ untidy' = {a \in Attendants :
                  LET kept == {q \in Route(a) \ k.todo : place[q] # None}
                  IN /\ kept # {}
                     /\ \/ a \in untidy
                        \/ /\ \E r \in k.todo : k.plan[r] = a
                           /\ \/ k.stale # {} \/ ~(kept \subseteq DOMAIN k.plan)
                              \/ {place[q] : q \in kept} # 0..(Cardinality(kept) - 1)}
  /\ UNCHANGED <<ops, started, absent, suggestions, asked, fails>>
  /\ Continue(c, Free)

-----------------------------------------------------------------------------
(***************************************************************************)
(* checkRedistribution: the situation is read and suggestions computed     *)
(* (suggestRedistribution), compared with the stored ones, those that no   *)
(* longer fit are superseded and the missing ones created one by one.      *)
(***************************************************************************)

\* eligible.
Eligible(r, a) == a \in Skilled \/ r \notin Demanding

\* What of S somebody present may take; the rest stays where it is (NO_ELIGIBLE).
Takeable(S) == {r \in S : \E a \in Present : Eligible(r, a)}

\* The ways to place the rooms S on those present who may take them: no two loads further
\* apart than they must be.  A suggestion without a room is not made.
Placements(S) ==
  LET some == Takeable(S)
      legal == {f \in [some -> Present] : \A r \in some : Eligible(r, f[r])}
      load(f, a) == Cardinality(Route(a) \ S) + Cardinality({r \in some : f[r] = a})
      peak(f) == CHOOSE m \in {load(f, a) : a \in Present} :
                   \A a \in Present : load(f, a) <= m
  IN IF some = {} THEN {} ELSE {f \in legal : \A g \in legal : peak(f) <= peak(g)}

Suggestion(kind, from, f) == [kind |-> kind, from |-> from, moves |-> f]

\* What attendant a has not begun.
Left(a) == Route(a) \ started

\* What an absent attendant has not begun, as far as somebody may take it.
SuggestAbsent(a) == {Suggestion("ABSENT", a, f) : f \in Placements(Left(a))}

\* The rooms not begun that nobody has.
SuggestUnassigned ==
  {Suggestion("UNASSIGNED", None, f) : f \in Placements({r \in Rooms : who[r] = None} \ started)}

\* Who has nothing left gets a room of whoever has most, if that brings the two
\* closer.  With so few rooms one move is all there is.
SuggestEarlyFinish ==
  LET most(b) == \A x \in Present : Cardinality(Left(x)) <= Cardinality(Left(b))
  IN {Suggestion("EARLY_FINISH", None, [r \in {x[2]} |-> x[1]]) :
        x \in {y \in {a \in Present : Left(a) = {}} \X Rooms :
                 /\ Eligible(y[2], y[1])
                 /\ \E b \in Present : most(b) /\ y[2] \in Left(b) /\ Cardinality(Left(b)) >= 2}}

\* One suggestion of every kind that has any, one for every absent attendant.
Findings ==
  LET options == ({SuggestAbsent(a) : a \in absent}
                  \cup {SuggestUnassigned, SuggestEarlyFinish}) \ {{}}
      picks == {p \in [options -> UNION options] : \A O \in options : p[O] \in O}
  IN {{p[O] : O \in options} : p \in picks}

\* suggestionSignature.
Signature(x) == <<x.kind, x.moves>>

CheckLoad(c) ==
  /\ \/ desk[c].pc = "check" /\ UNCHANGED asked
     \/ IsFree(c) /\ Ask
  /\ UNCHANGED <<Board, started, absent, proposals, suggestions, fails>>
  /\ IF \E r \in Rooms : InPlan(r)
     THEN \E f \in Findings : Continue(c, [Free EXCEPT !.pc = "compare", !.found = f])
     ELSE Continue(c, Free)

\* Variant with a bug: only open suggestions are known.
KnownOpenOnly == {i \in DOMAIN suggestions : suggestions[i].status = "OPEN"}

\* Variant with a bug: whatever was ever suggested is known.
KnownEver == DOMAIN suggestions

Known == {i \in DOMAIN suggestions : suggestions[i].status \in {"OPEN", "REJECTED"}}

CheckCompare(c) ==
  LET k == desk[c]
      sigs == {Signature(suggestions[i]) : i \in Known}
      new(x) == Signature(x) \notin sigs
  IN /\ k.pc = "compare"
     /\ UNCHANGED <<Board, started, absent, proposals, suggestions, asked, fails>>
     /\ Continue(c, [k EXCEPT !.pc = "supersede", !.stale = @ \ {"rows"},
                              !.found = {x \in @ : new(x)},
                              !.rows = {i \in Known : /\ suggestions[i].status = "OPEN"
                                                      /\ \A x \in k.found :
                                                           Signature(suggestions[i]) # Signature(x)}])

\* The rows are superseded whatever they are by now.
Supersede(c) ==
  LET k == desk[c] IN
  /\ k.pc \in {"supersede", "withdraw"}
  /\ suggestions' = [i \in DOMAIN suggestions |->
                       IF i \in k.rows THEN [suggestions[i] EXCEPT !.status = "SUPERSEDED"]
                       ELSE suggestions[i]]
  /\ UNCHANGED <<Board, started, absent, proposals, asked, fails>>
  /\ Continue(c, IF k.pc = "withdraw" THEN [Free EXCEPT !.pc = "check"]
                 ELSE IF k.found = {} THEN Free ELSE [k EXCEPT !.pc = "create"])

\* They come in any order; hasty: the stored suggestions have changed since they were
\* compared (observation).
Create(c, x) ==
  LET k == desk[c] IN
  /\ k.pc = "create" /\ x \in k.found
  /\ suggestions' = Append(suggestions,
       [kind |-> x.kind, from |-> x.from, moves |-> x.moves, status |-> "OPEN",
        hasty |-> "rows" \in k.stale])
  /\ UNCHANGED <<Board, started, absent, proposals, asked, fails>>
  /\ Continue(c, IF k.found = {x} THEN Free ELSE [k EXCEPT !.found = @ \ {x}])

-----------------------------------------------------------------------------
(***************************************************************************)
(* decideSuggestion.                                                       *)
(***************************************************************************)

ReadSuggestion(c, i) ==
  /\ IsFree(c) /\ Ask
  /\ suggestions[i].status = "OPEN"
  /\ UNCHANGED <<Board, started, absent, proposals, suggestions, fails>>
  /\ \/ Continue(c, [Free EXCEPT !.pc = "reject", !.id = i])
     \/ \E s \in Arrangements(DOMAIN suggestions[i].moves),
           to \in [DOMAIN suggestions[i].moves -> Attendants] :
          Continue(c, [Free EXCEPT !.pc = "moving", !.id = i,
                                   !.rest = [n \in DOMAIN s |-> <<s[n], to[s[n]]>>]])

Decide(c, status, pc) ==
  /\ suggestions' = [suggestions EXCEPT ![desk[c].id].status = status]
  /\ UNCHANGED <<Board, started, absent, proposals, asked, fails>>
  /\ Continue(c, [Free EXCEPT !.pc = pc])

Reject(c) == desk[c].pc = "reject" /\ Decide(c, "REJECTED", "free")

Moved(c) == [desk[c] EXCEPT !.rest = Tail(@), !.todo = {Head(desk[c].rest)[1]} \ started]

\* Variant with a bug: begun rooms are moved too.
SkipsThere(c) ==
  LET r == Head(desk[c].rest)[1] IN who[r] = Head(desk[c].rest)[2]

\* Begun rooms, and rooms that are there already, are skipped.
Skips(c) ==
  LET r == Head(desk[c].rest)[1] IN r \in started \/ who[r] = Head(desk[c].rest)[2]

Turn(c) == desk[c].pc = "moving" /\ desk[c].rest # <<>> /\ call[c].pc = "idle"

SkipMove(c) ==
  /\ Turn(c) /\ Skips(c)
  /\ UNCHANGED <<Board, started, absent, proposals, suggestions, asked, fails>>
  /\ Continue(c, [desk[c] EXCEPT !.rest = Tail(@)])

\* An assigned room is moved by moveRoomBetweenAttendants.
MoveAssigned(c) ==
  LET r == Head(desk[c].rest)[1] IN
  /\ Turn(c) /\ ~Skips(c)
  /\ StartMove(c, r, Head(desk[c].rest)[2])
  /\ UNCHANGED <<ops, started, absent, proposals, suggestions, asked, fails>>
  /\ Continue(c, Moved(c))

\* For an open room the last place is read first ...
ReadLast(c) ==
  LET m == Head(desk[c].rest) IN
  /\ Turn(c) /\ ~Skips(c)
  /\ who[m[1]] = None
  /\ UNCHANGED <<Board, started, absent, proposals, suggestions, asked, fails>>
  /\ Continue(c, [desk[c] EXCEPT !.pc = "place", !.rows = {NextPlace(m[2])}, !.todo = {m[1]} \ started])

\* ... and the room is written later.
PlaceLast(c) ==
  LET k == desk[c]
      r == Head(k.rest)[1]
      a == Head(k.rest)[2]
      n == CHOOSE x \in k.rows : TRUE
  IN /\ k.pc = "place"
     /\ who' = [who EXCEPT ![r] = a]
     /\ place' = [place EXCEPT ![r] = n]
     /\ untidy' = IF "board" \in k.stale THEN untidy \cup {a} ELSE untidy
     /\ call' = Overtaken
     /\ UNCHANGED <<ops, started, absent, proposals, suggestions, asked, fails>>
     /\ Continue(c, [k EXCEPT !.pc = "moving", !.rest = Tail(@), !.rows = {}])

\* Whatever the suggestion is by now; the situation is checked again.
MarkConfirmed(c) ==
  /\ desk[c].pc = "moving" /\ desk[c].rest = <<>> /\ call[c].pc = "idle"
  /\ Decide(c, "CONFIRMED", "check")

-----------------------------------------------------------------------------
(***************************************************************************)
(* setAbsent, the start of a room, a request that dies.                    *)
(***************************************************************************)

SetAbsent(c, a) ==
  /\ IsFree(c) /\ Ask
  /\ absent' = absent \cup {a}
  /\ UNCHANGED <<Board, started, proposals, suggestions, fails>>
  /\ Continue(c, [Free EXCEPT !.pc = "check"])

SetBack(c, a) ==
  /\ IsFree(c) /\ Ask
  /\ absent' = absent \ {a}
  /\ UNCHANGED <<Board, started, proposals, suggestions, fails>>
  /\ Continue(c, [Free EXCEPT !.pc = "return", !.crew = {a}])

\* Variant with a bug: decided suggestions are withdrawn too.
WithdrawAny(c) ==
  /\ desk[c].pc = "return"
  /\ UNCHANGED <<Board, started, absent, proposals, suggestions, asked, fails>>
  /\ Continue(c, [desk[c] EXCEPT !.pc = "withdraw", !.stale = {}, !.rows =
                    {i \in DOMAIN suggestions : /\ suggestions[i].kind = "ABSENT"
                                                /\ suggestions[i].from \in desk[c].crew}])

\* The open suggestions for the rooms of who is back.
Withdraw(c) ==
  /\ desk[c].pc = "return"
  /\ UNCHANGED <<Board, started, absent, proposals, suggestions, asked, fails>>
  /\ Continue(c, [desk[c] EXCEPT !.pc = "withdraw", !.stale = {}, !.rows =
                    {i \in DOMAIN suggestions : /\ suggestions[i].status = "OPEN"
                                                /\ suggestions[i].kind = "ABSENT"
                                                /\ suggestions[i].from \in desk[c].crew}])

\* An attendant begins a room (RoomStatus).
Start(r) ==
  /\ r \notin started
  /\ started' = started \cup {r}
  /\ UNCHANGED <<Board, absent, proposals, suggestions, asked, fails>>
  /\ Notice

\* A call to the database fails: what has been written stays.
Fail(c) ==
  /\ fails < MaxFails /\ asked + fails < MaxAsked
  /\ desk[c].pc # "free"
  /\ fails' = fails + 1
  /\ call' = [call EXCEPT ![c] = Idle]
  /\ UNCHANGED <<who, place, untidy, ops, started, absent, proposals, suggestions, asked>>
  /\ Continue(c, Free)

Supervise(c) ==
  \/ \E crew \in SUBSET Attendants : Propose(c, crew)
  \/ RetireDrafts(c) \/ StoreDraft(c)
  \/ \E i \in DOMAIN proposals :
       \E f \in [DOMAIN proposals[i].fixed -> proposals[i].crew \cup {None}] : ReadDraft(c, i, f)
  \/ \E s \in Arrangements(Rooms) : CommitConfirm(c, s)
  \/ CheckLoad(c) \/ CheckCompare(c) \/ Supersede(c)
  \/ \E x \in desk[c].found : Create(c, x)
  \/ \E i \in DOMAIN suggestions : ReadSuggestion(c, i)
  \/ Reject(c) \/ SkipMove(c) \/ MoveAssigned(c) \/ ReadLast(c) \/ PlaceLast(c) \/ MarkConfirmed(c)
  \/ \E a \in Attendants : SetAbsent(c, a) \/ SetBack(c, a)
  \/ Withdraw(c) \/ Fail(c)

\* The moves that a decision asks for.
Attend ==
  /\ \E c \in Calls : Serve(c)
  /\ UNCHANGED <<started, absent, proposals, suggestions, asked, fails>>
  /\ Notice

AutoNext == Attend \/ (\E c \in Calls : Supervise(c)) \/ (\E r \in Rooms : Start(r))

AutoSpec == AutoInit /\ [][AutoNext]_all

-----------------------------------------------------------------------------
(***************************************************************************)
(* Properties.                                                             *)
(***************************************************************************)

\* confirmProposal, decideSuggestion: "begonnene Zimmer werden nie verschoben":
\* the plan and the redistribution take no begun room from its attendant, unless
\* it was begun after they had looked.
BegunRoomsStay ==
  [][\A c \in Calls, r \in started :
       /\ desk[c].pc \in {"confirm", "place", "moving"}
       /\ desk'[c].pc # desk[c].pc \/ call'[c].pc # call[c].pc
       /\ who[r] # None /\ who'[r] # who[r]
       => r \in desk[c].todo]_all

\* However many drafts are confirmed at once, a date has one confirmed plan.
OneConfirmedPlan ==
  \A i, j \in DOMAIN proposals :
    proposals[i].status = "CONFIRMED" /\ proposals[j].status = "CONFIRMED" => i = j

\* A suggestion that is open or was rejected does not come a second time, unless
\* the stored ones changed between the comparison and the creation.
RejectedStaysAway ==
  Len(suggestions') > Len(suggestions) =>
    LET new == suggestions'[Len(suggestions')]
    IN \/ new.hasty
       \/ \A i \in DOMAIN suggestions :
            suggestions[i].status \in {"OPEN", "REJECTED"} =>
              Signature(suggestions[i]) # Signature(new)

\* What a supervisor has decided about a suggestion lasts: it is not undone, unless by a
\* request that had read the suggestions before, and one that is rejected stays away.
DecisionsStick ==
  [][/\ RejectedStaysAway
     /\ \A i \in DOMAIN suggestions :
          suggestions[i].status \in {"REJECTED", "CONFIRMED"}
            /\ suggestions'[i].status # suggestions[i].status
          => \E c \in Calls : desk'[c] # desk[c] /\ "rows" \in desk[c].stale]_all

\* A check that nothing has overtaken leaves no unbegun room of an absent attendant that
\* somebody present may take without a suggestion that is open or was rejected.
AbsenceAnswered ==
  [][\A c \in Calls :
       desk[c].pc \in {"supersede", "create"} /\ desk'[c].pc = "free"
         /\ desk[c].stale = {} /\ fails' = fails
       => \A a \in absent : \A r \in Takeable(Left(a)) : \E i \in DOMAIN suggestions' :
            /\ suggestions'[i].status \in {"OPEN", "REJECTED"}
            /\ r \in DOMAIN suggestions'[i].moves]_all
=============================================================================
