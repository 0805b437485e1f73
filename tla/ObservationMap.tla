--------------------------- MODULE ObservationMap ---------------------------
(***************************************************************************)
(* RetainedObservationMap: the anchor of every camera, the keyframes kept  *)
(* besides the current views, and the generation a headset aligns to. A    *)
(* view is [camera, depth, image, usable, place, solid, born, under]:      *)
(* place stands for its pose (two places are distinct), solid says whether *)
(* any of its depth is left, born is the generation it entered in, under   *)
(* is the key of the color that a part of it is left out for in a packet.  *)
(* The source's identity is fixed for the life of a process and left out.  *)
(***************************************************************************)
EXTENDS Naturals, FiniteSets, FiniteSetsExt

CONSTANTS Cameras, RgbCameras, Retention, MaxKeyframes

NoAnchor == [camera |-> 0]
NoKey == <<0, 0>>
NoAnchors == [c \in Cameras |-> NoAnchor]

NewMap == [generation |-> 1, tracked |-> TRUE, produced |-> 0, anchors |-> NoAnchors,
           retained |-> {}, latest |-> [c \in Cameras |-> 0]]

\* Mutant: the anchors survive a clear.
ClearedKeepingAnchors(map) ==
    [map EXCEPT !.generation = @ + 1, !.retained = {}, !.produced = 0,
                !.latest = [c \in Cameras |-> 0]]

\* clear: a new generation that remembers nothing, not even the clock.
Cleared(map) ==
    [map EXCEPT !.generation = @ + 1, !.anchors = NoAnchors, !.retained = {},
                !.produced = 0, !.latest = [c \in Cameras |-> 0]]

\* observation_stamp: the age of a view counts from its older usable exposure.
Stamp(view) == IF view.usable /\ view.image < view.depth THEN view.image ELSE view.depth

Key(view) == <<view.camera, view.depth>>
Colored(view) == view.camera \in RgbCameras /\ view.usable
Anchors(map) == {map.anchors[c] : c \in Cameras} \ {NoAnchor}
Stored(map) == map.retained \union Anchors(map)

\* _update clears when tracking is lost, not while it stays lost.
Base(map, tracking) == IF map.tracked /\ ~tracking THEN Cleared(map) ELSE map

\* _update raises: the production clock or a camera's exposures moved backwards.
Refuses(map, views, produced, tracking, enabled) ==
    LET base == Base(map, tracking) IN
    \/ produced < base.produced
    \/ tracking /\ enabled /\ \E v \in views : v.depth < base.latest[v.camera]

Alive(view, produced) == produced - Stamp(view) <= Retention

Living(map, produced) ==
    [map EXCEPT !.anchors = [c \in Cameras |->
                   IF @[c] # NoAnchor /\ ~Alive(@[c], produced) THEN NoAnchor ELSE @[c]],
                !.retained = {v \in @ : Alive(v, produced)}]

\* A solid view of another place than its camera's anchor becomes the anchor.
NextAnchors(map, views) ==
    [c \in Cameras |->
        LET new == {v \in views : v.camera = c /\ v.solid /\
                      (map.anchors[c] # NoAnchor => v.place # map.anchors[c].place)} IN
        IF new = {} THEN map.anchors[c] ELSE CHOOSE v \in new : TRUE]

\* The keyframes so far and the anchors pushed out, without the current views.
Candidates(map, views, next) ==
    {v \in map.retained \union {map.anchors[c] : c \in {d \in Cameras :
                                  map.anchors[d] \notin {NoAnchor, next[d]}}} :
        Key(v) \notin {Key(w) : w \in views}}

\* Color comes before gray, then the newest.
Better(a, b) == \/ Colored(a) /\ ~Colored(b)
                \/ Colored(a) = Colored(b) /\ Stamp(a) > Stamp(b)

\* The keyframes that fit the budget; the rest is forgotten.
BestOf(views) ==
    {kept \in SUBSET views :
        /\ Cardinality(kept) = Min({Cardinality(views), MaxKeyframes})
        /\ \A k \in kept, d \in views \ kept : ~Better(d, k)}

\* A current view that sees free space where an older one had depth wipes it.
Carved(view, free) == [view EXCEPT !.solid = @ /\ view.place \notin free]

\* What _update leaves once it has chosen the keyframes to keep and the batch has
\* wiped the places in free.
Kept(map, views, next, kept, free) ==
    [map EXCEPT
       !.retained = {v \in {Carved(k, free) : k \in kept} : v.solid},
       !.anchors = [c \in Cameras |->
          IF next[c] = NoAnchor \/ Key(next[c]) \in {Key(v) : v \in views} THEN next[c]
          ELSE Carved(next[c], free)],
       !.latest = [c \in Cameras |->
          Max({@[c]} \union {v.depth : v \in {w \in views : w.camera = c}})]]

\* _update on a map that does not refuse: every map the carving may leave.
MapsAfter(map, views, produced, tracking, enabled) ==
    LET base == [Base(map, tracking) EXCEPT !.produced = produced, !.tracked = tracking]
        living == Living(base, produced)
        next == NextAnchors(living, views) IN
    IF ~tracking THEN {base}
    ELSE IF ~enabled THEN {[base EXCEPT !.anchors = NoAnchors, !.retained = {},
                                        !.latest = [c \in Cameras |-> 0]]}
    ELSE {Kept(base, views, next, kept, free) :
            kept \in BestOf(Candidates(living, views, next)),
            free \in IF \E v \in views : v.solid
                     THEN SUBSET {v.place : v \in Stored(living)} ELSE {{}}}

\* Mutant: color is preferred whatever its age.
CoversAnyAge(color, gray) == Colored(color) /\ color.solid /\ gray.solid

\* _prioritize_color leaves out gray geometry only under color that lasts as long.
\* What coincides is a matter of geometry: any color may cover a part of any gray.
Covers(color, gray) ==
    /\ Colored(color) /\ color.solid /\ gray.solid
    /\ Stamp(color) >= Stamp(gray)

\* The current views as they are sent: a part of a gray one may be left out under a
\* keyframe, and under names it.
Shown(view, retained) ==
    {view} \union {[view EXCEPT !.under = Key(color)] :
                     color \in {k \in retained : view.camera \notin RgbCameras
                                                  /\ Covers(k, view)}}

Prioritized(views, retained) ==
    {shown \in SUBSET UNION {Shown(v, retained) : v \in views} :
        /\ Cardinality(shown) = Cardinality(views)
        /\ \A v \in views : \E w \in shown : w \in Shown(v, retained)}

Sent(shown, retained) == [current |-> shown, keyframes |-> retained]

\* Mutant: gray is left out before the budget and the carving choose the keyframes.
UpdatesCutFirst(map, views, produced, tracking, enabled) ==
    LET living == Living(Base(map, tracking), produced)
        candidates == IF tracking /\ enabled
                      THEN Candidates(living, views, NextAnchors(living, views)) ELSE {} IN
    {[map |-> after, packet |-> Sent(shown, after.retained)] :
        after \in MapsAfter(map, views, produced, tracking, enabled),
        shown \in Prioritized(views, candidates)}

\* update: the map and the observations to send. Color takes its place only after the
\* budget and the carving have chosen the keyframes, and the map keeps the whole views.
Updates(map, views, produced, tracking, enabled) ==
    UNION {{[map |-> after, packet |-> Sent(shown, after.retained)] :
              shown \in Prioritized(views, after.retained)} :
           after \in MapsAfter(map, views, produced, tracking, enabled)}
=============================================================================
