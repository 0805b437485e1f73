----------------------------- MODULE RoomScene -----------------------------
(***************************************************************************)
(* The room's surfaces on the headset: RoomScene (room_scene.cpp) and what *)
(* the app does with it (UpdateRoomEnvironment, SuspendFullInput and the   *)
(* menu of full_runtime_app.cpp). All of it is one thread's; what comes in *)
(* any order are the runtime's answers, announced changes of the STAGE     *)
(* space, new registrations, anchors that move, and the user.              *)
(*                                                                         *)
(* The surfaces of a snapshot are one placement: when they were located in *)
(* STAGE and by which registration they came into the world. Handles are   *)
(* told apart by the kind of query that returned them. One clock stands    *)
(* for steady_clock and for the display times of the frames.               *)
(***************************************************************************)
EXTENDS Naturals

CONSTANTS
  Worlds,            \* poses that registrations give the world in STAGE
  MonitorMaxAge,     \* 1 s
  SweepInterval,     \* 500 ms
  ProbesPerUpdate,   \* 4
  QueryStall,        \* 15 s
  LocateLimit,       \* 15 s
  MaxSurfaces,       \* 64
  RoomClock, RoomRevisions   \* bounds on time and snapshots

ASSUME RoomAssumption ==
  /\ Worlds # {} /\ ProbesPerUpdate \in Nat \ {0}
  /\ {MonitorMaxAge, SweepInterval, QueryStall, LocateLimit} \subseteq Nat
  /\ {MaxSurfaces, RoomClock, RoomRevisions} \subseteq Nat

VARIABLES
  roomTime,
  room,             \* RoomScene::Impl
  outstanding,      \* requests of this session that the runtime has not ended
  stageChanges,     \* the times at which STAGE changes, as far as announced
  world,            \* the registration in force
  astray,           \* since when each applied surface is not where it was captured, or 0
  wanted,           \* settings.environment_collisions
  refreshPending,   \* room_refresh_pending
  desiredRoom, roomReady   \* what the worker reads

appRoomVars == <<wanted, refreshPending, desiredRoom, roomReady>>
roomVars == <<roomTime, room, outstanding, stageChanges, world, astray, appRoomVars>>

QueryKinds == {"rooms", "floors", "members"}

NoQuery == [id |-> 0, kind |-> "none", stale |-> FALSE, timedOut |-> FALSE, got |-> FALSE,
            started |-> 0]
NewQuery(id, kind, t) ==
  [id |-> id, kind |-> kind, stale |-> FALSE, timedOut |-> FALSE, got |-> FALSE, started |-> t]
NoRoom == [revision |-> 0, enabled |-> FALSE, placed |-> {}]
NoStamps == [i \in 1..MaxSurfaces |-> 0]

-----------------------------------------------------------------------------
(***************************************************************************)
(* RoomScene::Impl: from one state of it to the next.                      *)
(***************************************************************************)
\* Times that count for nothing any more are forgotten with the surfaces.
ReleaseSpaces(r) ==
  [r EXCEPT !.owned = {}, !.uses = {}, !.surfaces = 0, !.monitors = NoStamps,
            !.cursor = 0, !.sweeping = FALSE,
            !.nextSweep = 0, !.locating = 0]

\* Mutant: a query that is retired is forgotten, although its answers are to come.
RetiredForgotten(query) == NoQuery

\* A query goes on at the runtime: it becomes stale and what it gave is dropped.
Retired(query) == IF query.id = 0 THEN query ELSE [query EXCEPT !.stale = TRUE, !.got = FALSE]

ClearRoom(r) ==
  [ReleaseSpaces(r) EXCEPT
     !.query = Retired(@), !.frame = {},
     !.snapshot = [revision |-> @.revision + 1, enabled |-> FALSE, placed |-> {}]]

MonitorFresh(r, t) ==
  /\ r.surfaces > 0
  /\ \A i \in 1..r.surfaces : r.monitors[i] # 0 /\ t - r.monitors[i] <= MonitorMaxAge

\* The snapshot stays: physics keeps its colliders and waits.
RequireRefresh(r) == [ReleaseSpaces(r) EXCEPT !.latch = TRUE, !.state = "NeedsRefresh"]

LatchExpired(r, t) ==
  IF r.state = "Complete" /\ ~MonitorFresh(r, t) THEN RequireRefresh(r) ELSE r

Frozen(r) == [ReleaseSpaces(r) EXCEPT !.state = "NeedsRefresh"]

\* Mutant: a failure clears a room that was lost.
FailRoomAnyway(r, t) == [ClearRoom(r) EXCEPT !.state = "Failed"]

FailRoom(r, t) ==
  LET l == LatchExpired(r, t)
  IN  IF l.latch THEN Frozen(l) ELSE [ClearRoom(l) EXCEPT !.state = "Failed"]

StartOver(r) == [ClearRoom(r) EXCEPT !.state = IF r.enabled THEN "NeedRooms" ELSE "Idle"]

SetEnabled(r, on) ==
  IF r.enabled = on THEN r
  ELSE StartOver([r EXCEPT !.scanWanted = @ /\ on, !.latch = FALSE, !.enabled = on])

\* An automatic refresh cannot clear the latch, nor overlook that it is due.
RefreshAuto(r, t) ==
  LET l == LatchExpired(r, t) IN IF l.latch THEN l ELSE StartOver(l)

RefreshExplicit(r) == StartOver([r EXCEPT !.latch = FALSE])

RequestCapture(r) ==
  IF ~r.enabled \/ ~r.supported \/ r.scan # 0 \/ r.scanWanted \/ r.query.timedOut THEN r
  ELSE StartOver([r EXCEPT !.latch = FALSE, !.scanWanted = TRUE])

Invalidate(r, t) ==
  LET l == LatchExpired(r, t)
  IN  IF l.latch THEN [Frozen(l) EXCEPT !.frame = {}]
      ELSE [ClearRoom(l) EXCEPT !.state = IF r.enabled THEN "Invalid" ELSE "Idle"]

\* Shutdown, then Init with what the runtime supports.
NewRoomSession(r, supported) ==
  [StartOver([r EXCEPT !.enabled = FALSE]) EXCEPT
     !.query = NoQuery, !.scan = 0, !.scanWanted = FALSE, !.changeTime = 0, !.latch = FALSE,
     !.supported = supported, !.tracked = FALSE, !.permission = FALSE]

Asking(r, id, kind, t, state) == [r EXCEPT !.query = NewQuery(id, kind, t), !.state = state]

\* Results are there for the query: every handle is adopted, then judged.
Retrieve(r, usable, t) ==
  IF ~usable THEN FailRoom(r, t)
  ELSE IF r.query.stale THEN ReleaseSpaces(r)
  ELSE [r EXCEPT !.owned = @ \union {r.query.kind}, !.query.got = TRUE]

\* The query's end: all that was expected came and was read, or the room fails. The
\* members of a room are asked for in batches.
FinishQuery(r, usable, surfaces, more, id, t) ==
  LET read == [r EXCEPT !.query = NoQuery, !.uses = @ \union {r.query.kind},
                        !.surfaces = @ + surfaces]
      located(state) == [read EXCEPT !.state = state, !.locating = t]
  IN  IF r.query.stale THEN [r EXCEPT !.query = NoQuery]
      ELSE IF ~usable \/ ~r.query.got THEN [FailRoom(r, t) EXCEPT !.query = NoQuery]
      ELSE CASE r.query.kind = "rooms" -> Asking(read, id, "floors", t, "Rooms")
             [] r.query.kind = "floors" -> located("SelectRoom")
             [] r.query.kind = "members" ->
                  IF more THEN Asking(read, id, "members", t, "Members") ELSE located("Build")

ActivationFailed(r, t) ==
  IF r.state = "Complete" THEN RequireRefresh(r) ELSE FailRoom(r, t)

-----------------------------------------------------------------------------
(***************************************************************************)
(* Update.  x has what the frame observes, how the runtime treats the one  *)
(* request or the anchors of this frame ("good", "bad", or "wait" when an  *)
(* anchor cannot be located yet), and the number of member batches.        *)
(***************************************************************************)
SelectRoom(r, x, t) ==
  CASE x.luck = "wait" -> r
    [] x.luck = "bad" -> FailRoom(r, t)
    [] x.luck = "good" -> Asking(r, x.id, "members", t, "Members")

\* A room without a floor is refused.
BuildRoom(r, x, t) ==
  IF x.luck = "bad" \/ r.surfaces = 0 THEN FailRoom(r, t)
  ELSE IF x.luck = "wait" THEN r
  ELSE [r EXCEPT
          !.snapshot = [revision |-> @.revision + 1, enabled |-> TRUE,
                        placed |-> {[at |-> t, world |-> x.world]}],
          !.frame = {x.world},
          !.monitors = [i \in 1..MaxSurfaces |-> IF i <= r.surfaces THEN t ELSE 0],
          !.cursor = 0, !.sweeping = FALSE,
          !.nextSweep = t + SweepInterval, !.locating = 0, !.state = "Complete",
          !.owned = @ \intersect {"members"}, !.uses = @ \intersect {"members"}]

\* The surfaces probed in this update: the next ones of the sweep under way.
Probed(r) ==
  LET from == IF r.sweeping THEN r.cursor ELSE 0
  IN  {i \in 1..r.surfaces : from < i /\ i <= from + ProbesPerUpdate}

Monitor(r, x, t) ==
  IF ~MonitorFresh(r, t) THEN RequireRefresh(r)
  ELSE IF ~r.sweeping /\ t < r.nextSweep THEN r
  ELSE IF \E i \in Probed(r) : x.astray[i] # 0 THEN RequireRefresh(r)
  ELSE LET done == r.surfaces \in Probed(r)
       IN  [r EXCEPT
              !.monitors = [i \in 1..MaxSurfaces |-> IF i \in Probed(r) THEN t ELSE @[i]],
              !.cursor = IF done THEN r.surfaces
                         ELSE (IF r.sweeping THEN @ ELSE 0) + ProbesPerUpdate,
              !.sweeping = ~done,
              !.nextSweep = IF r.sweeping THEN @ ELSE t + SweepInterval]

\* One step of the acquisition, or of the watch over what was acquired.
StateStep(r, x, t) ==
  CASE r.state = "NeedRooms" /\ r.query.id = 0 ->
         IF x.luck = "bad" THEN FailRoom(r, t)
         ELSE [Asking(r, x.id, "rooms", t, "Rooms") EXCEPT !.frame = {x.world}]
    [] r.state = "SelectRoom" -> SelectRoom(r, x, t)
    [] r.state = "Build" -> BuildRoom(r, x, t)
    [] r.state = "Complete" -> Monitor(r, x, t)
    [] OTHER -> r

Progress(r, x, t) ==
  LET s == StateStep(r, x, t)
  IN  IF r.frame \notin {{}, {x.world}} THEN Invalidate(r, t)
      ELSE IF s.state \in {"SelectRoom", "Build"} /\ t - s.locating > LocateLimit
      THEN FailRoom(s, t) ELSE s

\* The observations, before anything is decided; an expired watch shows first.
Observed(r, x, t) ==
  LET l == LatchExpired([r EXCEPT !.tracked = x.tracked], t)
      revoked == l.permission /\ ~x.granted
  IN  [IF revoked /\ ~l.latch THEN StartOver(l) ELSE l EXCEPT !.permission = x.granted]

\* A query that stalls keeps its place until the runtime ends it; a queued scan is off.
Stalled(r, t) ==
  IF r.supported /\ r.query.id # 0 /\ ~r.query.timedOut /\ t - r.query.started >= QueryStall
  THEN FailRoom([r EXCEPT !.query.timedOut = TRUE, !.scanWanted = FALSE], t) ELSE r

BeginScan(r, x, t) ==
  IF x.luck = "bad" THEN FailRoom([r EXCEPT !.scanWanted = FALSE], t)
  ELSE [r EXCEPT !.scanWanted = FALSE, !.scan = x.id]

UpdateRoom(r, x, t) ==
  LET s == Stalled(Observed(r, x, t), t)
  IN  IF ~s.supported \/ s.query.timedOut \/ ~s.permission THEN s
      ELSE IF s.scanWanted /\ s.query.id = 0 /\ s.scan = 0 THEN BeginScan(s, x, t)
      ELSE IF s.scan # 0 \/ s.scanWanted \/ ~s.enabled \/ s.latch \/ ~s.tracked
              \/ t < s.changeTime THEN s
      ELSE Progress([s EXCEPT !.changeTime = 0], x, t)

RoomReady(r, t) ==
  /\ r.enabled /\ r.supported /\ r.tracked /\ r.permission /\ ~r.latch
  /\ r.state = "Complete" /\ r.snapshot.enabled /\ MonitorFresh(r, t)
-----------------------------------------------------------------------------
(***************************************************************************)
(* The app and the runtime.                                                *)
(***************************************************************************)
BlankRoom ==
  [supported |-> FALSE, enabled |-> FALSE, latch |-> FALSE, tracked |-> FALSE,
   permission |-> FALSE, scanWanted |-> FALSE, scan |-> 0, state |-> "Idle", query |-> NoQuery,
   owned |-> {}, uses |-> {}, surfaces |-> 0,
   monitors |-> NoStamps, cursor |-> 0, sweeping |-> FALSE, nextSweep |-> 0,
   frame |-> {}, changeTime |-> 0, locating |-> 0,
   snapshot |-> NoRoom]

RoomInit ==
  /\ roomTime = 1 /\ wanted \in BOOLEAN
  /\ \E supported \in BOOLEAN :
       room = SetEnabled(NewRoomSession(BlankRoom, supported), wanted)
  /\ outstanding = {} /\ stageChanges = {}
  /\ world = CHOOSE w \in Worlds : TRUE
  /\ astray = NoStamps
  /\ refreshPending = wanted /\ desiredRoom = NoRoom /\ roomReady = FALSE

\* The applied surfaces are watched from their capture until they are let go.
Watched == astray' = IF room.state = "Complete" /\ room'.state = "Complete" THEN astray
                     ELSE NoStamps

Waiting == {room.query.id, room.scan} \ {0}

\* The runtime names a new request unlike any that has not ended.
NewId == CHOOSE id \in 1..3 : id \notin Waiting \union outstanding

Requests(over) == outstanding' = (outstanding \ over) \union (Waiting' \ Waiting)

\* Bound: snapshots.
Bounded == room'.snapshot.revision <= RoomRevisions

Becomes(next, over) == room' = next /\ Watched /\ Requests(over) /\ Bounded /\ UNCHANGED roomTime

Acts(next, over) == Becomes(next, over) /\ UNCHANGED stageChanges

\* UpdateRoomEnvironment, after registration.Update of the same frame.
RoomFrame ==
  \E tracked, granted \in BOOLEAN, w \in Worlds, luck \in {"good", "bad", "wait"} :
    LET enabled == SetEnabled(room, wanted)
        due == refreshPending /\ tracked /\ wanted
        begun == IF due THEN RefreshAuto(enabled, roomTime) ELSE enabled
        x == [tracked |-> tracked, granted |-> granted, world |-> w, luck |-> luck,
              id |-> NewId, astray |-> astray]
    IN  /\ ~wanted /\ room.permission => granted   \* the app asks only while it is wanted
        /\ ~tracked => w = world                   \* a registration needs tracking
        /\ luck = "wait" => room.state \in {"SelectRoom", "Build"}
        /\ Acts(UpdateRoom(begun, x, roomTime), {})
        /\ world' = w
        /\ refreshPending' = (refreshPending /\ ~due)
        /\ desiredRoom' =
             IF /\ desiredRoom.revision = room'.snapshot.revision
                /\ desiredRoom.enabled = room'.snapshot.enabled
             THEN desiredRoom ELSE room'.snapshot
        /\ roomReady' = (RoomReady(room', roomTime) /\ tracked)
        /\ UNCHANGED wanted

\* The menu.
ToggleCollisions ==
  /\ wanted' = ~wanted
  /\ UNCHANGED <<roomTime, room, outstanding, stageChanges, world, astray,
                 refreshPending, desiredRoom, roomReady>>

Quietly == UNCHANGED <<world, appRoomVars>>

RefreshRoom == wanted /\ Acts(RefreshExplicit(room), {}) /\ Quietly

ScanRoom == wanted /\ Acts(RequestCapture(room), {}) /\ Quietly

\* SuspendFullInput: the focus is lost; with it, or apart, the frame of reference.
LoseFocus ==
  /\ roomReady' = FALSE
  /\ UNCHANGED <<roomTime, room, outstanding, stageChanges, world, astray, wanted,
                 refreshPending, desiredRoom>>

Suspended == refreshPending' = TRUE /\ roomReady' = FALSE /\ UNCHANGED <<world, wanted, desiredRoom>>

Recenter == Acts(Invalidate(room, roomTime), {}) /\ Suspended

\* SessionEnd and SessionInit. What the runtime had been asked, and what it had
\* announced, ends with the session.
RestartSession(supported) ==
  LET ended == NewRoomSession(Invalidate(room, roomTime), FALSE)
  IN  /\ Becomes(SetEnabled(NewRoomSession(ended, supported), wanted), outstanding)
      /\ stageChanges' = {}
      /\ refreshPending' = wanted /\ roomReady' = FALSE
      /\ UNCHANGED <<world, wanted, desiredRoom>>

-----------------------------------------------------------------------------
\* OnEvent. The announcement comes before STAGE changes; the app then suspends itself.
StageWillChange(at) ==
  LET later == [room EXCEPT !.changeTime = IF at > @ THEN at ELSE @]
      told == IF room.supported THEN Invalidate(later, roomTime) ELSE room
  IN  /\ at >= roomTime
      /\ Becomes(Invalidate(told, roomTime), {})
      /\ stageChanges' = stageChanges \union {at}
      /\ Suspended

ResultsAvailable(id, usable) ==
  /\ id = room.query.id
  /\ Acts(Retrieve(room, usable, roomTime), {}) /\ Quietly

QueryComplete(id, usable, surfaces, more) ==
  /\ id = room.query.id
  /\ surfaces # 0 \/ more => usable /\ room.query.kind = "members"
  /\ Acts(FinishQuery(room, usable, surfaces, more, NewId, roomTime), {id})
  /\ room'.surfaces <= MaxSurfaces
  /\ Quietly

\* An anchor cannot be located after all.
ActivationFails ==
  /\ room.surfaces > 0
  /\ Acts(ActivationFailed(room, roomTime), {}) /\ Quietly

ScanComplete(id, succeeded) ==
  LET over == [room EXCEPT !.scan = 0]
  IN  /\ id = room.scan
      /\ Acts(IF succeeded THEN RefreshExplicit(over) ELSE FailRoom(over, roomTime), {id})
      /\ Quietly

\* Events were lost, the ends of some requests perhaps among them.
EventsLost(ends) ==
  /\ room.supported
  /\ Acts(FailRoom(room, roomTime), ends) /\ Quietly

-----------------------------------------------------------------------------
AnchorMoves(i) ==
  /\ i \in 1..room.surfaces /\ room.state = "Complete"
  /\ astray' = [astray EXCEPT ![i] = IF @ = 0 THEN roomTime ELSE 0]
  /\ UNCHANGED <<roomTime, room, outstanding, stageChanges, world, appRoomVars>>

RoomElapse ==
  /\ roomTime < RoomClock /\ roomTime' = roomTime + 1
  /\ UNCHANGED <<room, outstanding, stageChanges, world, astray, appRoomVars>>

Answers ==
  \E id \in outstanding, usable \in BOOLEAN :
    \/ ResultsAvailable(id, usable)
    \/ \E n \in 0..MaxSurfaces, more \in BOOLEAN : QueryComplete(id, usable, n, more)
    \/ ScanComplete(id, usable)

RoomNext ==
  \/ RoomFrame \/ ToggleCollisions \/ RefreshRoom \/ ScanRoom \/ LoseFocus \/ Recenter
  \/ \E supported \in BOOLEAN : RestartSession(supported)
  \/ \E at \in 1..RoomClock : StageWillChange(at)
  \/ Answers \/ ActivationFails
  \/ \E ends \in SUBSET outstanding : EventsLost(ends)
  \/ \E i \in 1..MaxSurfaces : AnchorMoves(i)
  \/ RoomElapse

RoomSpec == RoomInit /\ [][RoomNext]_roomVars

-----------------------------------------------------------------------------
StageAt(t) == {c \in stageChanges : c <= t}

Placements == [at : Nat, world : Worlds]
RoomSnapshots == [revision : Nat, enabled : BOOLEAN, placed : SUBSET Placements]
Queries ==
  [id : Nat, kind : QueryKinds \union {"none"}, stale : BOOLEAN, timedOut : BOOLEAN,
   got : BOOLEAN, started : Nat]
RoomStates ==
  {"Idle", "NeedRooms", "Rooms", "SelectRoom", "Members", "Build", "Complete", "Failed",
   "Invalid", "NeedsRefresh"}
Rooms ==
  [supported : BOOLEAN, enabled : BOOLEAN, latch : BOOLEAN, tracked : BOOLEAN,
   permission : BOOLEAN, scanWanted : BOOLEAN, scan : Nat, state : RoomStates,
   query : Queries, owned : SUBSET QueryKinds, uses : SUBSET QueryKinds, surfaces : Nat,
   monitors : [1..MaxSurfaces -> Nat], cursor : Nat, sweeping : BOOLEAN, nextSweep : Nat,
   frame : SUBSET Worlds, changeTime : Nat, locating : Nat, snapshot : RoomSnapshots]

RoomTypeOK ==
  /\ roomTime \in Nat /\ outstanding \subseteq Nat /\ stageChanges \subseteq Nat
  /\ world \in Worlds /\ astray \in [1..MaxSurfaces -> Nat]
  /\ wanted \in BOOLEAN /\ refreshPending \in BOOLEAN /\ roomReady \in BOOLEAN
  /\ desiredRoom \in RoomSnapshots /\ room \in Rooms

(***************************************************************************)
(* What the worker is told is ready are surfaces placed by the STAGE space *)
(* and the registration in force, however queries, announced changes and   *)
(* refreshes overlap (Update, Invalidate, SuspendFullInput).               *)
(***************************************************************************)
ReadyIsInFrame ==
  roomReady =>
    /\ desiredRoom.enabled /\ desiredRoom.placed # {}
    /\ \A p \in desiredRoom.placed : p.world = world /\ StageAt(p.at) = StageAt(roomTime)

(***************************************************************************)
(* A room is not ready beyond MonitorMaxAge after one of its anchors left  *)
(* the place it was captured at, although only some anchors are probed in  *)
(* an update and sweeps are apart (Monitor, Ready).                        *)
(***************************************************************************)
ReadyIsWatched ==
  RoomReady(room, roomTime) =>
    \A i \in 1..room.surfaces : astray[i] # 0 => roomTime - astray[i] <= MonitorMaxAge

(***************************************************************************)
(* A handle is used only while it is owned, and none is left over when an  *)
(* acquisition ended: the late answers of a retired query are adopted only *)
(* to be destroyed (Retrieve, ReleaseSpaces, RetainAppliedSpaces).         *)
(***************************************************************************)
HandlesAreOwned ==
  /\ room.uses \subseteq room.owned
  /\ room.state = "Complete" => room.owned = {"members"}
  /\ room.state \notin {"Rooms", "SelectRoom", "Members", "Build", "Complete"} =>
       room.owned = {}

(***************************************************************************)
(* The runtime never has two queries of this session, nor one it does not  *)
(* know to be retired, and a frozen room asks for nothing (StartQuery, the *)
(* deadline of a stale query, RequestCapture).                             *)
(***************************************************************************)
OneRequestAtATime ==
  /\ outstanding \subseteq Waiting /\ 0 \in {room.query.id, room.scan}
  /\ room.query.id # 0 /\ ~room.query.stale => room.state \in {"Rooms", "Members"}
  /\ room.latch => room.query.id = 0 /\ room.scan = 0 /\ ~room.scanWanted

\* A revision names one set of surfaces, so that the worker's comparison suffices.
RevisionNamesSurfaces ==
  desiredRoom.revision = room.snapshot.revision /\ desiredRoom.enabled = room.snapshot.enabled
    => desiredRoom = room.snapshot

RoomInv ==
  /\ RoomTypeOK /\ ReadyIsInFrame /\ ReadyIsWatched /\ HandlesAreOwned /\ OneRequestAtATime
  /\ RevisionNamesSurfaces

Lost(r, t) == r.latch \/ (r.state = "Complete" /\ ~MonitorFresh(r, t))

AlignmentLost == Lost(room, roomTime)

AskedByUser ==
  \/ RefreshRoom \/ ScanRoom \/ room'.enabled # room.enabled
  \/ \E supported \in BOOLEAN : RestartSession(supported)

(***************************************************************************)
(* A room whose alignment was lost, or whose watch has expired unnoticed,  *)
(* keeps its last surfaces and stays paused until the user refreshes,      *)
(* scans or turns it off and on, or the session ends: no recentring,       *)
(* permission, failure, late answer or automatic refresh releases it or    *)
(* takes its surfaces from physics (LatchExpiredMonitor before Fail,       *)
(* Invalidate, Refresh(false) and Update's observations).                  *)
(***************************************************************************)
FrozenUntilAsked ==
  [][AlignmentLost =>
       (AlignmentLost' /\ room'.snapshot = room.snapshot) \/ AskedByUser]_roomVars
=============================================================================
