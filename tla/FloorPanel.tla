----------------------------- MODULE FloorPanel -----------------------------
(***************************************************************************)
(* The two pages that assign rooms on the floor plan, on top of the routes *)
(* they write (Assignment).  The panel of the planning page                *)
(* (PlanningFloorPlanPanel.tsx) shows a tap at once and posts it; taps are *)
(* posted side by side.  The floor-plan page (floor-plan/view.tsx) selects *)
(* rooms, posts them one after the other and loads again; it waits for no  *)
(* load, so that loads may overtake each other, or fail.  Neither page     *)
(* hears of what others change.  Both begin with their first load shown.   *)
(*                                                                         *)
(* A call of Assignment that serves a request of the page has that request *)
(* in serving; the other calls are other people's.                         *)
(***************************************************************************)
EXTENDS Assignment

CONSTANTS
  MaxPosts  \* bound: requests of the panel, and loads of the map, on their way at once

ASSUME PostBound == MaxPosts \in Nat

VARIABLES
  page,     \* "panel" or "map"
  grid,     \* grid[r]: the attendant the page shows on a room
  active,   \* the attendant chosen
  session,  \* panel: the rooms listed as tapped for her; map: the rooms selected
  picker,   \* panel: whether rooms are tapped first and the attendant is picked after
  posted,   \* requests on the way to the server
  serving,  \* serving[c]: the page's request that call c serves, or NoPost
  batch,    \* map: the batch on its way: rooms still to be answered, all its rooms, for whom
  notice,   \* map: the batch it says was assigned in full
  loads,    \* map: loads under way, oldest first: the rooms each has read, or None
  late,     \* map: how many of them, the oldest, an answer shown has overtaken (observation)
  outdated, \* map: it shows an older answer than it has shown before (observation)
  failed,   \* it shows an error, and nothing else, until it is opened again
  unsure    \* rooms that others have written since the page showed them, or, on the map, since
            \* the batch began, or whose requests have crossed (observation)

loading == <<loads, late, outdated>>

panel ==
  <<page, grid, active, session, picker, posted, serving, batch, notice, loading, failed, unsure>>

NoPost == [room |-> None, to |-> None]
NoBatch == [rest |-> <<>>, rooms |-> {}, to |-> None, ok |-> {}]

PanelInit ==
  /\ page \in {"panel", "map"}
  /\ grid = who /\ active = None /\ session = {} /\ picker = (page = "map")
  /\ posted = {} /\ serving = [c \in Calls |-> NoPost]
  /\ batch = NoBatch /\ notice = NoBatch
  /\ loads = <<>> /\ late = 0 /\ outdated = FALSE
  /\ failed = FALSE /\ unsure = {}

UnderWay == posted \cup ({serving[c] : c \in Calls} \ {NoPost})

-----------------------------------------------------------------------------
(***************************************************************************)
(* The panel.                                                              *)
(***************************************************************************)

Panel ==
  page = "panel" /\ ~failed /\ UNCHANGED <<vars, page, serving, batch, notice, loading, failed>>

\* assignRoom: shown at once and posted, whether or not the room's last request is still
\* on its way.  The same request posted twice is kept once.
Post(r, to) ==
  /\ Cardinality(UnderWay) < MaxPosts
  /\ grid' = [grid EXCEPT ![r] = to]
  /\ posted' = posted \cup {[room |-> r, to |-> to]}
  /\ unsure' = IF \E p \in UnderWay : p.room = r THEN unsure \cup {r} ELSE unsure \ {r}

\* handleRoomClick, housekeeper first.
TapForActive(r) ==
  /\ Panel /\ ~picker /\ active # None
  /\ session' = session \cup {r}
  /\ Post(r, active)
  /\ UNCHANGED <<active, picker>>

\* Rooms first: the picker that the tap has opened.
PickFor(r, a) ==
  /\ Panel /\ picker /\ Post(r, a)
  /\ UNCHANGED <<active, session, picker>>

RemoveFromSession(r) ==
  /\ Panel /\ r \in session
  /\ session' = session \ {r}
  /\ Post(r, None)
  /\ UNCHANGED <<active, picker>>

\* Variant with a bug: the list of the round stays.
ToggleActiveAlone(a) ==
  /\ Panel /\ ~picker
  /\ active' = IF active = a THEN None ELSE a
  /\ UNCHANGED <<grid, session, picker, posted, unsure>>

\* Another attendant begins another round.
ToggleActive(a) ==
  /\ Panel /\ ~picker
  /\ active' = IF active = a THEN None ELSE a
  /\ session' = {}
  /\ UNCHANGED <<grid, picker, posted, unsure>>

ChangeMode ==
  /\ Panel /\ picker' = ~picker
  /\ active' = None /\ session' = {}
  /\ UNCHANGED <<grid, posted, unsure>>

-----------------------------------------------------------------------------
(***************************************************************************)
(* The floor-plan page.                                                    *)
(***************************************************************************)

Map ==
  /\ page = "map" /\ ~failed
  /\ UNCHANGED <<vars, page, grid, picker, serving, batch, loading, failed, unsure>>

\* Also while a batch is on its way, whose end empties the selection.
ToggleRoom(r) ==
  /\ Map /\ session' = IF r \in session THEN session \ {r} ELSE session \cup {r}
  /\ notice' = NoBatch
  /\ UNCHANGED <<active, posted>>

ChooseTarget(a) ==
  /\ Map /\ active' = a
  /\ UNCHANGED <<session, posted, notice>>

\* A change of mode, or of one mode to itself.
StartAfresh ==
  /\ Map /\ session' = {} /\ active' = None /\ notice' = NoBatch
  /\ UNCHANGED posted

\* The loads of earlier batches may still be under way.
AssignSelected ==
  /\ page = "map" /\ ~failed /\ batch = NoBatch /\ session # {} /\ active # None
  /\ Len(loads) < MaxPosts
  /\ \E rest \in Arrangements(session) :
       /\ batch' = [rest |-> rest, rooms |-> session, to |-> active, ok |-> {}]
       /\ posted' = {[room |-> rest[1], to |-> active]}
  /\ notice' = NoBatch /\ unsure' = {}
  /\ UNCHANGED <<vars, page, grid, picker, serving, failed, active, session, loading>>

\* Variant with a bug: what the page shows is taken for what is.
ReloadNothing == loads

Reload == Append(loads, None)

\* The request under way is answered or has failed; the next room follows, and after the
\* last one the page says whether all went well, and loads again.  A load that fails in
\* between does not stop it.
NextOfBatch(ok) ==
  LET done == IF ok THEN batch.ok \cup {batch.rest[1]} ELSE batch.ok IN
  /\ UNCHANGED <<page, grid, picker, late, outdated, failed, unsure>>
  /\ IF Len(batch.rest) > 1
     THEN /\ batch' = [batch EXCEPT !.rest = Tail(batch.rest), !.ok = done]
          /\ posted' = {[room |-> batch.rest[2], to |-> batch.to]}
          /\ UNCHANGED <<active, session, notice, loads>>
     ELSE /\ batch' = NoBatch /\ posted' = {}
          /\ notice' = IF done = batch.rooms THEN batch ELSE NoBatch
          /\ session' = {} /\ active' = None /\ loads' = Reload

\* GET /api/rooms reads the rooms.
ServeLoad(i) ==
  /\ i \in DOMAIN loads /\ loads[i] = None
  /\ loads' = [loads EXCEPT ![i] = who]
  /\ UNCHANGED <<vars, page, grid, active, session, picker, posted, serving, batch, notice,
                 late, outdated, failed, unsure>>

Without(i) == [j \in 1..Len(loads) - 1 |-> IF j < i THEN loads[j] ELSE loads[j + 1]]

\* An answer is shown, whatever has been shown since it was asked for.
ShowRooms(i) ==
  /\ page = "map" /\ ~failed /\ i \in DOMAIN loads /\ loads[i] # None
  /\ grid' = loads[i] /\ loads' = Without(i)
  /\ outdated' = (i <= late)
  /\ late' = IF i <= late THEN late - 1 ELSE i - 1
  /\ UNCHANGED <<vars, page, active, session, picker, posted, serving, batch, notice, failed,
                 unsure>>

\* One of the two requests of a load fails; the page shows nothing but the error then.
LoadFails ==
  /\ loads # <<>> /\ failed' = TRUE
  /\ UNCHANGED <<vars, page, grid, active, session, picker, posted, serving, batch, notice,
                 loading, unsure>>

-----------------------------------------------------------------------------
(***************************************************************************)
(* Server and network.                                                     *)
(***************************************************************************)

\* Rooms that change hands in this step by a call that is not the page's.
Foreign(mine) == IF mine THEN {} ELSE {r \in Rooms : who'[r] # who[r]}

BeginPost(c) ==
  \E p \in posted :
    /\ serving[c] = NoPost /\ ReadAssign(c, p.room, p.to)
    /\ posted' = posted \ {p} /\ serving' = [serving EXCEPT ![c] = p]
    /\ UNCHANGED <<page, grid, active, session, picker, batch, notice, loading, failed, unsure>>

\* A call goes on, or somebody else's assignment begins.
ServeCall(c) ==
  /\ \/ CommitAssign(c) \/ Tell(c)
     \/ serving[c] = NoPost /\ \E r \in Rooms, to \in Attendants \cup {None} : ReadAssign(c, r, to)
  /\ unsure' = unsure \cup Foreign(serving[c] # NoPost)
  /\ UNCHANGED <<page, grid, active, session, picker, posted, serving, batch, notice, loading, failed>>

Answer(c) ==
  /\ serving[c] # NoPost /\ call[c].pc = "idle" /\ UNCHANGED vars
  /\ serving' = [serving EXCEPT ![c] = NoPost]
  /\ IF page = "map" THEN NextOfBatch(TRUE)
     ELSE UNCHANGED <<page, grid, active, session, picker, posted, batch, notice, loading, failed, unsure>>

\* The page is told that its request failed.  The panel shows nothing but the error then;
\* the floor-plan page goes on.
Failure ==
  IF page = "map" THEN NextOfBatch(FALSE)
  ELSE /\ failed' = TRUE
       /\ UNCHANGED <<page, grid, active, session, picker, posted, batch, notice, loading, unsure>>

PostLost ==
  /\ posted # {} /\ (page = "map" \/ ~failed)
  /\ UNCHANGED <<vars, serving>>
  /\ Failure

\* The server ends what it has begun all the same.
AnswerLost(c) ==
  /\ serving[c] # NoPost /\ (page = "map" \/ ~failed)
  /\ UNCHANGED vars
  /\ serving' = [serving EXCEPT ![c] = NoPost]
  /\ Failure

PanelNext ==
  \/ ChangeMode \/ StartAfresh \/ AssignSelected \/ PostLost
  \/ \E i \in DOMAIN loads : ServeLoad(i) \/ ShowRooms(i)
  \/ LoadFails
  \/ \E r \in Rooms : TapForActive(r) \/ RemoveFromSession(r) \/ ToggleRoom(r)
  \/ \E r \in Rooms, a \in Attendants : PickFor(r, a)
  \/ \E a \in Attendants : ToggleActive(a) \/ ChooseTarget(a)
  \/ \E c \in Calls : BeginPost(c) \/ ServeCall(c) \/ Answer(c) \/ AnswerLost(c)

PanelSpec == Init /\ PanelInit /\ [][PanelNext]_<<vars, panel>>

-----------------------------------------------------------------------------
(***************************************************************************)
(* Properties.                                                             *)
(***************************************************************************)

\* The rooms listed for the attendant of the round are shown as hers.
SessionIsHers == page = "panel" => \A r \in session : active # None /\ grid[r] = active

\* Once its requests and loads are answered and none has failed, a page shows every room
\* with the attendant it has, unless others have written it, its requests have crossed, or
\* the map has shown an answer after that of a later load.
GridIsTrue ==
  ~failed /\ UnderWay = {} /\ batch = NoBatch /\ loads = <<>> /\ ~outdated =>
    \A r \in Rooms \ unsure : grid[r] = who[r]

\* The floor-plan page says "assigned" only of rooms that it shows with that attendant
\* once its loads are answered, unless others write them or its loads overtake each other.
NoticeIsTrue ==
  page = "map" /\ ~failed /\ loads = <<>> /\ ~outdated =>
    \A r \in notice.rooms \ unsure : grid[r] = notice.to

PanelInv == SessionIsHers /\ GridIsTrue /\ NoticeIsTrue
=============================================================================
