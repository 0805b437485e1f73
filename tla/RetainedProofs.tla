--------------------------- MODULE RetainedProofs ---------------------------
(***************************************************************************)
(* What is proved of what a headset keeps of its surroundings.             *)
(*                                                                         *)
(* The retained map and recordings, for every number of cameras and every  *)
(* limit: no batch a frame source delivers is refused, nothing survives a  *)
(* clear, a headset never loses the geometry that color stands for, and a  *)
(* manifest that is saved can be replayed.                                 *)
(*                                                                         *)
(* The room, for every number of surfaces and registrations and every      *)
(* limit: RoomInv, and that a lost room stays as it is until the user asks *)
(* (FrozenUntilAsked). Every step of RoomScene either halts (the           *)
(* acquisition is over and what was lost stays lost), stays (nothing new   *)
(* is acquired) or places the surfaces, once, from the state Build.        *)
(***************************************************************************)
EXTENDS RetainedScene, RoomScene, FiniteSetTheorems, WellFoundedInduction, TLAPS

(***************************************************************************)
(* Extremes of sets of numbers                                             *)
(***************************************************************************)
\* Every set of numbers has a least one.
LEMMA Least ==
    ASSUME NEW T, T \subseteq Nat, T # {}
    PROVE  \E x \in T : \A y \in T : x <= y
<1> DEFINE R == {ss \in Nat \X Nat : ss[1] < ss[2]}
<1>1. IsWellFoundedOn(R, Nat)
  BY NatLessThanWellFounded DEF OpToRel
<1> HIDE DEF R
<1>2. PICK x \in T : \A y \in T : ~(<<y, x>> \in R)
  BY <1>1, WFMin
<1>3. ASSUME NEW y \in T PROVE x <= y
  <2>1. x \in Nat /\ y \in Nat /\ <<y, x>> \in Nat \X Nat
    OBVIOUS
  <2>2. ~(<<y, x>>[1] < <<y, x>>[2])
    BY <1>2, <2>1 DEF R
  <2> QED
    BY <2>1, <2>2
<1> QED
  BY <1>3

\* A set of numbers that are at most n has a greatest one, and a least one.
LEMMA Extremes ==
    ASSUME NEW S, NEW n \in Nat, S \subseteq 0..n, S # {}
    PROVE  /\ Max(S) \in S /\ \A y \in S : y <= Max(S)
           /\ Min(S) \in S /\ \A y \in S : Min(S) <= y
<1>1. \E x \in S : \A y \in S : x >= y
  <2> DEFINE T == {n - x : x \in S}
  <2>1. T \subseteq Nat
    <3>1. \A x \in S : n - x \in Nat
      OBVIOUS
    <3> QED
      BY <3>1
  <2>2. PICK t \in T : \A u \in T : t <= u
    <3>1. T # {}
      OBVIOUS
    <3> HIDE DEF T
    <3> QED
      BY <2>1, <3>1, Least
  <2>3. PICK x \in S : t = n - x
    BY <2>2
  <2>4. ASSUME NEW y \in S PROVE x >= y
    <3>1. n - y \in T
      OBVIOUS
    <3>2. n - x <= n - y
      <4>1. t <= n - y
        BY <2>2, <3>1
      <4> QED
        BY <2>3, <4>1
    <3>3. x \in Nat /\ y \in Nat
      OBVIOUS
    <3> QED
      BY <3>2, <3>3
  <2> QED
    BY <2>4
<1>2. \E x \in S : \A y \in S : x <= y
  <2>1. S \subseteq Nat
    OBVIOUS
  <2> QED
    BY <2>1, Least
<1>3. Max(S) \in S /\ \A y \in S : Max(S) >= y
  BY <1>1 DEF Max
<1>4. Min(S) \in S /\ \A y \in S : Min(S) <= y
  BY <1>2 DEF Min
<1>5. \A y \in S : y <= Max(S)
  <2>1. \A y \in S : y \in Nat
    OBVIOUS
  <2> QED
    BY <1>3, <2>1
<1> QED
  BY <1>3, <1>4, <1>5

-------------------------------------------------------------------------------
(***************************************************************************)
(* The map                                                                 *)
(***************************************************************************)
Views ==
    [camera: Cameras, depth: Nat, image: Nat, usable: BOOLEAN,
     place: Places \union {Nowhere}, solid: BOOLEAN, born: Nat, under: {NoKey}]

Maps ==
    [generation: Nat, tracked: BOOLEAN, produced: Nat,
     anchors: [Cameras -> Views \union {NoAnchor}], retained: SUBSET Views,
     latest: [Cameras -> Nat]]

\* A view of this generation whose exposures the map has seen.
Seen(v, m) ==
    /\ v \in Views /\ v.born = m.generation
    /\ v.depth <= m.latest[v.camera] /\ 1 <= v.image /\ v.image <= v.depth

\* What every map satisfies: what it stores was seen in this generation, and no
\* keyframe has the key of another one or of an anchor.
MapOK(m) ==
    /\ m \in Maps
    /\ IsFiniteSet(m.retained) /\ Cardinality(m.retained) <= MaxKeyframes
    /\ \A v \in m.retained : Seen(v, m)
    /\ \A c \in Cameras : m.anchors[c] # NoAnchor =>
         Seen(m.anchors[c], m) /\ m.anchors[c].camera = c
    /\ \A v, w \in m.retained : Key(v) = Key(w) => v = w
    /\ \A v \in m.retained, c \in Cameras :
         m.anchors[c] # NoAnchor => Key(v) # Key(m.anchors[c])
    /\ ~m.tracked => m.retained = {}

\* The views of a batch: one per camera, each newer than what the map has seen.
Entering(views, m) ==
    /\ IsFiniteSet(views) /\ \A v \in views : v \in Views
    /\ \A v, w \in views : v.camera = w.camera => v = w
    /\ \A v \in views : /\ v.born = m.generation /\ m.latest[v.camera] < v.depth
                        /\ 1 <= v.image /\ v.image <= v.depth

\* A view is never taken for the absence of one.
LEMMA ViewIsNoAnchor == \A v \in Views : v # NoAnchor
<1> SUFFICES ASSUME NEW v \in Views, v = NoAnchor PROVE FALSE
  OBVIOUS
<1>1. DOMAIN v = {"camera", "depth", "image", "usable", "place", "solid", "born", "under"}
  BY DEF Views
<1>2. DOMAIN v = {"camera"}
  BY DEF NoAnchor
<1> QED
  BY <1>1, <1>2

\* A cleared map is one.
LEMMA ClearedSound ==
    ASSUME NEW m, MapOK(m)
    PROVE  /\ MapOK(Cleared(m)) /\ Cleared(m).generation = m.generation + 1
           /\ Cleared(m).produced = 0 /\ Cleared(m).retained = {}
           /\ \A c \in Cameras : Cleared(m).latest[c] = 0
           /\ Cleared(m).tracked = m.tracked
<1> DEFINE z == Cleared(m)
           none == [c \in Cameras |-> 0]
<1>1. m \in Maps
  BY DEF MapOK
<1>2. /\ NoAnchors \in [Cameras -> Views \union {NoAnchor}] /\ none \in [Cameras -> Nat]
      /\ \A c \in Cameras : NoAnchors[c] = NoAnchor /\ none[c] = 0
  BY DEF NoAnchors
<1>3. z = [m EXCEPT !.generation = @ + 1, !.anchors = NoAnchors, !.retained = {},
                    !.produced = 0, !.latest = none]
  BY DEF Cleared
<1> HIDE DEF z, none
<1>4. m.generation + 1 \in Nat
  BY <1>1 DEF Maps
<1>5. /\ z \in Maps /\ z.generation = m.generation + 1 /\ z.anchors = NoAnchors
      /\ z.retained = {} /\ z.produced = 0 /\ z.latest = none /\ z.tracked = m.tracked
  BY <1>1, <1>2, <1>3, <1>4 DEF Maps
<1>6. IsFiniteSet(z.retained) /\ Cardinality(z.retained) <= MaxKeyframes
  BY <1>5, FS_EmptySet, SceneAssumption
<1>7. MapOK(z)
  BY <1>2, <1>5, <1>6 DEF MapOK
<1> QED
  BY <1>2, <1>5, <1>7 DEF z

\* So is the one that a batch finds.
LEMMA BaseSound ==
    ASSUME NEW m, MapOK(m), NEW tracking \in BOOLEAN
    PROVE  LET b == Base(m, tracking) IN
           /\ MapOK(b) /\ (tracking => b = m) /\ (~tracking => b.retained = {})
           /\ b.produced <= m.produced /\ b.produced \in Nat
           /\ \A c \in Cameras : b.latest[c] \in Nat /\ b.latest[c] <= m.latest[c]
<1>1. /\ m \in Maps /\ m.produced \in Nat /\ m.tracked \in BOOLEAN
      /\ \A c \in Cameras : m.latest[c] \in Nat
  BY DEF MapOK, Maps
<1>2. CASE m.tracked /\ ~tracking
  BY <1>1, <1>2, ClearedSound DEF Base
<1>3. CASE ~(m.tracked /\ ~tracking)
  BY <1>1, <1>3 DEF Base, MapOK
<1> QED
  BY <1>2, <1>3

\* Carving takes a view's geometry, nothing else.
LEMMA CarvedSound ==
    ASSUME NEW v \in Views, NEW free
    PROVE  LET w == Carved(v, free) IN
           /\ w \in Views /\ Key(w) = Key(v) /\ Stamp(w) = Stamp(v)
           /\ w.camera = v.camera /\ w.depth = v.depth /\ w.image = v.image
           /\ w.born = v.born /\ w.usable = v.usable
<1> DEFINE w == Carved(v, free)
           s == v.solid /\ v.place \notin free
<1>1. s \in BOOLEAN
  OBVIOUS
<1>2. w = [v EXCEPT !.solid = s]
  BY DEF Carved
<1> HIDE DEF s, w
<1>3. /\ w \in Views /\ w.camera = v.camera /\ w.depth = v.depth /\ w.image = v.image
      /\ w.born = v.born /\ w.usable = v.usable
  BY <1>1, <1>2 DEF Views
<1> QED
  BY <1>3 DEF Key, Stamp, w

\* What has outlived its retention is dropped; the rest stays as it was.
LEMMA LivingSound ==
    ASSUME NEW m, MapOK(m), NEW t \in Nat
    PROVE  LET l == Living(m, t) IN
           /\ MapOK(l) /\ l.generation = m.generation /\ l.latest = m.latest
           /\ l.produced = m.produced /\ l.tracked = m.tracked
           /\ \A v \in l.retained : Alive(v, t)
           /\ \A c \in Cameras : l.anchors[c] # NoAnchor => Alive(l.anchors[c], t)
<1> DEFINE l == Living(m, t)
           a == [c \in Cameras |-> IF m.anchors[c] # NoAnchor /\ ~Alive(m.anchors[c], t)
                                   THEN NoAnchor ELSE m.anchors[c]]
           k == {v \in m.retained : Alive(v, t)}
<1>1. /\ m \in Maps /\ m.anchors \in [Cameras -> Views \union {NoAnchor}]
      /\ m.retained \subseteq Views
  BY DEF MapOK, Maps
<1>2. l = [m EXCEPT !.anchors = a, !.retained = k]
  BY <1>1 DEF Living, Maps
<1>3. /\ a \in [Cameras -> Views \union {NoAnchor}]
      /\ \A c \in Cameras : a[c] # NoAnchor => a[c] = m.anchors[c] /\ Alive(a[c], t)
  BY <1>1
<1>4. /\ k \subseteq m.retained /\ \A v \in k : Alive(v, t)
      /\ IsFiniteSet(k) /\ Cardinality(k) <= MaxKeyframes
  <2>1. k \in SUBSET m.retained /\ IsFiniteSet(m.retained)
        /\ Cardinality(m.retained) <= MaxKeyframes
    BY DEF MapOK
  <2>2. /\ IsFiniteSet(k) /\ Cardinality(k) <= Cardinality(m.retained)
        /\ Cardinality(k) \in Nat /\ Cardinality(m.retained) \in Nat
    <3> HIDE DEF k
    <3> QED
      BY <2>1, FS_Subset, FS_CardinalityType
  <2> QED
    BY <2>1, <2>2, SceneAssumption
<1> HIDE DEF a, k, l
<1>5. /\ l \in Maps /\ l.anchors = a /\ l.retained = k /\ l.generation = m.generation
      /\ l.latest = m.latest /\ l.produced = m.produced /\ l.tracked = m.tracked
  BY <1>1, <1>2, <1>3, <1>4 DEF Maps
<1>6. \A v : Seen(v, m) <=> Seen(v, l)
  BY <1>5 DEF Seen
<1>7. MapOK(l)
  BY <1>3, <1>4, <1>5, <1>6 DEF MapOK
<1> QED
  BY <1>3, <1>4, <1>5, <1>7 DEF l

\* The next anchor of a camera is its old one or its view of this batch.
LEMMA NextSound ==
    ASSUME NEW m, MapOK(m), NEW views, Entering(views, m), NEW c \in Cameras
    PROVE  LET n == NextAnchors(m, views) IN
           n[c] = m.anchors[c] \/ (n[c] \in views /\ n[c].camera = c)
<1> DEFINE new == {v \in views : v.camera = c /\ v.solid /\
                     (m.anchors[c] # NoAnchor => v.place # m.anchors[c].place)}
<1>1. NextAnchors(m, views)[c] =
        IF new = {} THEN m.anchors[c] ELSE CHOOSE v \in new : TRUE
  BY DEF NextAnchors
<1>2. new # {} => (CHOOSE v \in new : TRUE) \in new
  <2> HIDE DEF new
  <2> QED
    OBVIOUS
<1> QED
  BY <1>1, <1>2

\* A candidate is a keyframe, or an anchor that another view has replaced; it is no
\* current view, and no two have the same key.
LEMMA CandidatesSound ==
    ASSUME NEW m, MapOK(m), NEW views, Entering(views, m)
    PROVE  LET n == NextAnchors(m, views)
               k == Candidates(m, views, n) IN
           /\ \A v \in k : /\ Seen(v, m) /\ \A w \in views : Key(v) # Key(w)
                           /\ \/ v \in m.retained
                              \/ \E c \in Cameras : v = m.anchors[c] /\ v # NoAnchor
           /\ \A v, w \in k : Key(v) = Key(w) => v = w
           /\ \A v \in k, c \in Cameras : n[c] # NoAnchor => Key(v) # Key(n[c])
<1> DEFINE n == NextAnchors(m, views)
           k == Candidates(m, views, n)
<1>1. \A v \in k : /\ \A w \in views : Key(v) # Key(w)
                   /\ \/ v \in m.retained
                      \/ \E c \in Cameras : v = m.anchors[c] /\ v # NoAnchor /\ v # n[c]
  BY DEF Candidates
<1>2. \A c \in Cameras : n[c] = m.anchors[c] \/ n[c] \in views
  BY NextSound
<1> HIDE DEF n, k
<1>3. \A v \in k : Seen(v, m)
  BY <1>1 DEF MapOK
<1>4. ASSUME NEW c \in Cameras, NEW d \in Cameras, m.anchors[c] # NoAnchor,
             m.anchors[d] # NoAnchor, Key(m.anchors[c]) = Key(m.anchors[d])
      PROVE  c = d
  <2>1. m.anchors[c].camera = c /\ m.anchors[d].camera = d
    BY <1>4 DEF MapOK
  <2>2. \A a, b, x, y : <<a, b>> = <<x, y>> => a = x
    OBVIOUS
  <2>3. m.anchors[c].camera = m.anchors[d].camera
    BY <1>4, <2>2 DEF Key
  <2> QED
    BY <2>1, <2>3
<1>5. ASSUME NEW v \in k, NEW w \in k, Key(v) = Key(w) PROVE v = w
  <2>1. CASE v \in m.retained /\ w \in m.retained
    BY <1>5, <2>1 DEF MapOK
  <2>2. CASE v \notin m.retained \/ w \notin m.retained
    BY <1>1, <1>4, <1>5, <2>2 DEF MapOK
  <2> QED
    BY <2>1, <2>2
<1>6. ASSUME NEW v \in k, NEW c \in Cameras, n[c] # NoAnchor PROVE Key(v) # Key(n[c])
  <2>1. CASE n[c] \in views
    BY <1>1, <2>1
  <2>2. CASE n[c] = m.anchors[c]
    <3>1. CASE v \in m.retained
      BY <1>6, <2>2, <3>1 DEF MapOK
    <3>2. CASE v \notin m.retained
      BY <1>1, <1>4, <1>6, <2>2, <3>2
    <3> QED
      BY <3>1, <3>2
  <2> QED
    BY <1>2, <2>1, <2>2
<1> QED
  BY <1>1, <1>3, <1>5, <1>6 DEF n, k

\* The best ones are within the budget.
LEMMA BestSound ==
    ASSUME NEW views, IsFiniteSet(views), NEW kept \in BestOf(views)
    PROVE  kept \subseteq views /\ IsFiniteSet(kept) /\ Cardinality(kept) <= MaxKeyframes
<1>1. kept \in SUBSET views /\ Cardinality(kept) = Min({Cardinality(views), MaxKeyframes})
  BY DEF BestOf
<1>2. Cardinality(views) \in Nat /\ MaxKeyframes \in Nat
  BY FS_CardinalityType, SceneAssumption
<1>3. Min({Cardinality(views), MaxKeyframes}) <= MaxKeyframes
  <2> DEFINE n == IF Cardinality(views) <= MaxKeyframes THEN MaxKeyframes
                  ELSE Cardinality(views)
  <2>1. n \in Nat /\ {Cardinality(views), MaxKeyframes} \subseteq 0..n
    BY <1>2
  <2> HIDE DEF n
  <2> QED
    BY <2>1, Extremes
<1>4. IsFiniteSet(kept)
  BY <1>1, FS_Subset
<1> QED
  BY <1>1, <1>3, <1>4

\* The keyframes after carving: no more of them, and each is a kept one less some of
\* its geometry.
LEMMA CarvingSound ==
    ASSUME NEW kept, IsFiniteSet(kept), kept \subseteq Views, NEW free
    PROVE  LET r == {v \in {Carved(k, free) : k \in kept} : v.solid} IN
           /\ IsFiniteSet(r) /\ Cardinality(r) <= Cardinality(kept)
           /\ \A v \in r : \E k \in kept : v = Carved(k, free)
<1> DEFINE all == {Carved(k, free) : k \in kept}
           r == {v \in all : v.solid}
           f == [k \in kept |-> Carved(k, free)]
<1>1. f \in Surjection(kept, all)
  <2>1. f \in [kept -> all] /\ \A v \in all : \E k \in kept : f[k] = v
    OBVIOUS
  <2> QED
    BY <2>1 DEF Surjection
<1>2. r \in SUBSET all /\ \A v \in r : \E k \in kept : v = Carved(k, free)
  OBVIOUS
<1> HIDE DEF all, f, r
<1>3. IsFiniteSet(all) /\ Cardinality(all) <= Cardinality(kept)
  BY <1>1, FS_Surjection
<1>4. IsFiniteSet(r) /\ Cardinality(r) <= Cardinality(all)
  BY <1>2, <1>3, FS_Subset
<1>5. Cardinality(r) \in Nat /\ Cardinality(all) \in Nat /\ Cardinality(kept) \in Nat
  BY <1>3, <1>4, FS_CardinalityType
<1>6. /\ IsFiniteSet(r) /\ Cardinality(r) <= Cardinality(kept)
      /\ \A v \in r : \E k \in kept : v = Carved(k, free)
  BY <1>2, <1>3, <1>4, <1>5
<1> QED
  BY <1>6 DEF r, all

\* There are finitely many candidates.
LEMMA CandidatesFinite ==
    ASSUME NEW m, MapOK(m), NEW views
    PROVE  IsFiniteSet(Candidates(m, views, NextAnchors(m, views)))
<1> DEFINE n == NextAnchors(m, views)
           k == Candidates(m, views, n)
           D == {d \in Cameras : m.anchors[d] \notin {NoAnchor, n[d]}}
           A == {m.anchors[c] : c \in D}
           f == [c \in D |-> m.anchors[c]]
           all == m.retained \union A
<1>1. f \in Surjection(D, A)
  <2>1. f \in [D -> A] /\ \A a \in A : \E c \in D : f[c] = a
    OBVIOUS
  <2> QED
    BY <2>1 DEF Surjection
<1>2. D \subseteq Cameras /\ IsFiniteSet(Cameras) /\ IsFiniteSet(m.retained)
  BY SceneAssumption DEF MapOK
<1>3. k \subseteq all
  BY DEF Candidates
<1> HIDE DEF D, A, f, n, k
<1>4. IsFiniteSet(D)
  BY <1>2, FS_Subset
<1>5. IsFiniteSet(A)
  BY <1>1, <1>4, FS_Surjection
<1>6. IsFiniteSet(all)
  BY <1>2, <1>5, FS_Union
<1>7. IsFiniteSet(k)
  <2> HIDE DEF all
  <2> QED
    BY <1>3, <1>6, FS_Subset
<1> QED
  BY <1>7 DEF k, n

\* A map takes the time and the tracking of the batch it is given.
Rebased(b, t, tracking) == [b EXCEPT !.produced = t, !.tracked = tracking]

\* It is still a map.
LEMMA RebasedSound ==
    ASSUME NEW b, MapOK(b), NEW t \in Nat, NEW tracking \in BOOLEAN,
           ~tracking => b.retained = {}
    PROVE  LET r == Rebased(b, t, tracking) IN
           /\ MapOK(r) /\ r.produced = t /\ r.tracked = tracking
           /\ r.generation = b.generation /\ r.latest = b.latest /\ r.retained = b.retained
<1> DEFINE r == Rebased(b, t, tracking)
<1>1. b \in Maps
  BY DEF MapOK
<1>2. /\ r \in Maps /\ r.produced = t /\ r.tracked = tracking /\ r.anchors = b.anchors
      /\ r.generation = b.generation /\ r.latest = b.latest /\ r.retained = b.retained
  BY <1>1 DEF Maps, Rebased
<1> HIDE DEF r
<1>3. \A v : Seen(v, b) <=> Seen(v, r)
  BY <1>2 DEF Seen
<1>4. MapOK(r)
  BY <1>2, <1>3 DEF MapOK
<1> QED
  BY <1>2, <1>4 DEF r

\* The latest exposure of a camera after a batch.
Top(m, views, c) ==
    Max({m.latest[c]} \union {v.depth : v \in {w \in views : w.camera = c}})

\* It is the camera's own of the batch or the old one.
LEMMA LatestSound ==
    ASSUME NEW m, MapOK(m), NEW t \in Nat, NEW views, Entering(views, m),
           \A v \in views : v.depth <= t, NEW c \in Cameras
    PROVE  LET top == Top(m, views, c) IN
           /\ top \in Nat /\ m.latest[c] <= top
           /\ \A v \in views : v.camera = c => v.depth <= top
           /\ top = m.latest[c] \/ \E v \in views : v.camera = c /\ top = v.depth
<1> DEFINE S == {m.latest[c]} \union {v.depth : v \in {w \in views : w.camera = c}}
           n == m.latest[c] + t
<1>1. m.latest[c] \in Nat /\ n \in Nat
  BY DEF MapOK, Maps
<1>2. \A v \in views : v.depth \in Nat
  BY DEF Entering, Views
<1>3. S \subseteq 0..n
  <2>1. \A x \in S : x \in Nat /\ (x = m.latest[c] \/ x <= t)
    BY <1>1, <1>2
  <2> HIDE DEF S
  <2>2. ASSUME NEW x \in S PROVE x \in 0..n
    BY <1>1, <2>1
  <2> QED
    BY <2>2
<1>4. /\ m.latest[c] \in S /\ \A v \in views : v.camera = c => v.depth \in S
      /\ \A x \in S : x = m.latest[c] \/ \E v \in views : v.camera = c /\ x = v.depth
  OBVIOUS
<1> HIDE DEF S, n
<1>5. Max(S) \in S /\ \A y \in S : y <= Max(S)
  BY <1>1, <1>3, <1>4, Extremes
<1>6. Max(S) \in Nat
  <2>1. Max(S) \in 0..n
    BY <1>3, <1>5
  <2> QED
    BY <1>1, <2>1
<1>7. /\ Max(S) \in Nat /\ m.latest[c] <= Max(S)
      /\ \A v \in views : v.camera = c => v.depth <= Max(S)
      /\ Max(S) = m.latest[c] \/ \E v \in views : v.camera = c /\ Max(S) = v.depth
  BY <1>4, <1>5, <1>6
<1> QED
  BY <1>7 DEF S, Top

\* What carving leaves of a map: its own views and those of the batch, none of them
\* kept twice, all of them alive.
LEMMA CarvedMapSound ==
    ASSUME NEW b, MapOK(b), b.tracked, NEW t \in Nat, NEW views, Entering(views, b),
           \A v \in views : v.depth <= t, NEW free,
           NEW kept \in BestOf(Candidates(Living(b, t), views,
                                          NextAnchors(Living(b, t), views))),
           NEW n, n = Kept(b, views, NextAnchors(Living(b, t), views),
                            kept, free)
    PROVE  /\ MapOK(n) /\ n.tracked /\ n.produced = b.produced
           /\ n.generation = b.generation
           /\ \A c \in Cameras :
                n.latest[c] = b.latest[c]
                \/ \E v \in views : v.camera = c /\ n.latest[c] = v.depth
           /\ \A v \in n.retained : Alive(v, t) /\ \A w \in views : Key(v) # Key(w)
<1> DEFINE l == Living(b, t)
           next == NextAnchors(l, views)
           cand == Candidates(l, views, next)
           R == {v \in {Carved(k, free) : k \in kept} : v.solid}
           A == [c \in Cameras |->
                  IF next[c] = NoAnchor \/ Key(next[c]) \in {Key(v) : v \in views}
                  THEN next[c] ELSE Carved(next[c], free)]
           L == [c \in Cameras |->
                  Max({b.latest[c]} \union {v.depth : v \in {w \in views : w.camera = c}})]
<1>1. /\ MapOK(l) /\ l.generation = b.generation /\ l.latest = b.latest
      /\ l.tracked = b.tracked
      /\ \A v \in l.retained : Alive(v, t)
      /\ \A c \in Cameras : l.anchors[c] # NoAnchor => Alive(l.anchors[c], t)
  BY LivingSound
<1>2. Entering(views, l)
  <2> HIDE DEF l
  <2> QED
    BY <1>1 DEF Entering
<1>3. n = [b EXCEPT !.retained = R, !.anchors = A, !.latest = L]
  BY DEF Kept, MapOK, Maps
<1>4. /\ \A v \in cand : /\ Seen(v, l) /\ \A w \in views : Key(v) # Key(w)
                         /\ \/ v \in l.retained
                            \/ \E c \in Cameras : v = l.anchors[c] /\ v # NoAnchor
      /\ \A v, w \in cand : Key(v) = Key(w) => v = w
      /\ \A v \in cand, c \in Cameras : next[c] # NoAnchor => Key(v) # Key(next[c])
  BY <1>1, <1>2, CandidatesSound
<1>5. IsFiniteSet(cand)
  BY <1>1, CandidatesFinite
<1>6. kept \subseteq cand /\ IsFiniteSet(kept) /\ Cardinality(kept) <= MaxKeyframes
  <2> HIDE DEF cand
  <2> QED
    BY <1>5, BestSound DEF cand
<1>7. \A c \in Cameras : next[c] = l.anchors[c] \/ (next[c] \in views /\ next[c].camera = c)
  BY <1>1, <1>2, NextSound
<1>8. \A c \in Cameras :
        /\ L[c] \in Nat /\ b.latest[c] <= L[c]
        /\ \A v \in views : v.camera = c => v.depth <= L[c]
        /\ L[c] = b.latest[c] \/ \E v \in views : v.camera = c /\ L[c] = v.depth
  <2> TAKE c \in Cameras
  <2>1. /\ Top(b, views, c) \in Nat /\ b.latest[c] <= Top(b, views, c)
        /\ \A v \in views : v.camera = c => v.depth <= Top(b, views, c)
        /\ \/ Top(b, views, c) = b.latest[c]
           \/ \E v \in views : v.camera = c /\ Top(b, views, c) = v.depth
    BY LatestSound
  <2>2. L[c] = Top(b, views, c)
    BY DEF Top
  <2> HIDE DEF L
  <2> QED
    BY <2>1, <2>2
<1>9. L \in [Cameras -> Nat]
  <2>1. L = [c \in Cameras |-> L[c]]
    OBVIOUS
  <2> HIDE DEF L
  <2> QED
    BY <1>8, <2>1
<1>10. /\ DOMAIN A = Cameras
       /\ \A c \in Cameras : \/ A[c] = next[c]
                             \/ next[c] # NoAnchor /\ A[c] = Carved(next[c], free)
  OBVIOUS
<1>11. A = [c \in Cameras |-> A[c]]
  OBVIOUS
<1> HIDE DEF l, next, cand, A, L
<1>12. kept \subseteq Views /\ \A v \in kept : Seen(v, l)
  BY <1>4, <1>6 DEF Seen
<1>13. /\ IsFiniteSet(R) /\ Cardinality(R) <= Cardinality(kept)
       /\ \A v \in R : \E k \in kept : v = Carved(k, free)
  BY <1>6, <1>12, CarvingSound
<1>14. IsFiniteSet(R) /\ Cardinality(R) <= MaxKeyframes
  <2>1. Cardinality(R) \in Nat /\ Cardinality(kept) \in Nat /\ MaxKeyframes \in Nat
    <3> HIDE DEF R
    <3> QED
      BY <1>6, <1>13, FS_CardinalityType, SceneAssumption
  <2> HIDE DEF R
  <2> QED
    BY <1>6, <1>13, <2>1
<1> HIDE DEF R
<1>15. ASSUME NEW k \in kept
       PROVE  LET w == Carved(k, free) IN
              /\ w \in Views /\ Key(w) = Key(k) /\ Stamp(w) = Stamp(k)
              /\ w.camera = k.camera /\ w.depth = k.depth /\ w.image = k.image
              /\ w.born = k.born
  BY <1>12, CarvedSound
<1>16. R \subseteq Views
  BY <1>13, <1>15
<1>17. \A c \in Cameras : next[c] # NoAnchor =>
         /\ next[c] \in Views /\ next[c].camera = c /\ next[c].born = b.generation
         /\ next[c].depth <= L[c] /\ 1 <= next[c].image /\ next[c].image <= next[c].depth
  <2>1. ASSUME NEW c \in Cameras, next[c] # NoAnchor, next[c] = l.anchors[c]
        PROVE  /\ next[c] \in Views /\ next[c].camera = c /\ next[c].born = b.generation
               /\ next[c].depth <= L[c] /\ 1 <= next[c].image
               /\ next[c].image <= next[c].depth
    <3>1. Seen(next[c], l) /\ next[c].camera = c
      BY <1>1, <2>1 DEF MapOK
    <3>2. next[c].depth \in Nat /\ b.latest[c] \in Nat /\ L[c] \in Nat
      BY <1>8, <3>1 DEF Seen, Views, MapOK, Maps
    <3>3. next[c].depth <= b.latest[c] /\ b.latest[c] <= L[c]
      BY <1>1, <1>8, <3>1 DEF Seen
    <3> QED
      BY <1>1, <3>1, <3>2, <3>3 DEF Seen
  <2>2. ASSUME NEW c \in Cameras, next[c] \in views, next[c].camera = c
        PROVE  /\ next[c] \in Views /\ next[c].born = b.generation
               /\ next[c].depth <= L[c] /\ 1 <= next[c].image
               /\ next[c].image <= next[c].depth
    BY <1>8, <2>2 DEF Entering
  <2> QED
    BY <1>7, <2>1, <2>2
<1>18. ASSUME NEW c \in Cameras, A[c] # NoAnchor
       PROVE  /\ next[c] # NoAnchor /\ A[c] \in Views /\ Key(A[c]) = Key(next[c])
              /\ A[c].camera = c /\ A[c].born = b.generation
              /\ A[c].depth <= L[c] /\ 1 <= A[c].image /\ A[c].image <= A[c].depth
  <2>1. next[c] # NoAnchor
    BY <1>10, <1>18
  <2>2. CASE A[c] = next[c]
    BY <1>17, <2>1, <2>2
  <2>3. CASE A[c] = Carved(next[c], free)
    <3>1. LET w == Carved(next[c], free) IN
          /\ w \in Views /\ Key(w) = Key(next[c]) /\ w.camera = next[c].camera
          /\ w.depth = next[c].depth /\ w.image = next[c].image /\ w.born = next[c].born
      BY <1>17, <2>1, CarvedSound
    <3> QED
      BY <1>17, <2>1, <2>3, <3>1
  <2> QED
    BY <1>10, <2>1, <2>2, <2>3
<1>19. A \in [Cameras -> Views \union {NoAnchor}]
  BY <1>11, <1>18
<1>20. b \in Maps
  BY DEF MapOK
<1>21. /\ n \in Maps /\ n.retained = R /\ n.anchors = A /\ n.latest = L
       /\ n.generation = b.generation /\ n.tracked = b.tracked
       /\ n.produced = b.produced
  BY <1>3, <1>9, <1>16, <1>19, <1>20 DEF Maps
<1>22. ASSUME NEW v \in R PROVE Seen(v, n)
  <2>1. PICK k \in kept : v = Carved(k, free)
    BY <1>13
  <2>2. /\ v \in Views /\ v.camera = k.camera /\ v.depth = k.depth /\ v.image = k.image
        /\ v.born = k.born /\ k \in Views /\ Seen(k, l)
    BY <1>12, <1>15, <2>1
  <2>3. v.depth \in Nat /\ b.latest[v.camera] \in Nat /\ L[v.camera] \in Nat
        /\ v.camera \in Cameras
    BY <1>8, <1>20, <2>2 DEF Views, Maps
  <2>4. v.depth <= b.latest[v.camera] /\ b.latest[v.camera] <= L[v.camera]
    BY <1>1, <1>8, <2>2, <2>3 DEF Seen
  <2>5. v.depth <= L[v.camera]
    BY <2>3, <2>4
  <2> QED
    BY <1>1, <1>21, <2>2, <2>5 DEF Seen
<1>23. ASSUME NEW c \in Cameras, A[c] # NoAnchor
       PROVE  Seen(A[c], n) /\ A[c].camera = c
  BY <1>18, <1>21, <1>23 DEF Seen
<1>24. ASSUME NEW v \in R, NEW w \in R, Key(v) = Key(w) PROVE v = w
  <2>1. PICK k \in kept : v = Carved(k, free)
    BY <1>13
  <2>2. PICK j \in kept : w = Carved(j, free)
    BY <1>13
  <2>3. Key(k) = Key(j)
    BY <1>15, <1>24, <2>1, <2>2
  <2>4. k = j
    BY <1>4, <1>6, <2>3
  <2> QED
    BY <2>1, <2>2, <2>4
<1>25. ASSUME NEW v \in R, NEW c \in Cameras, A[c] # NoAnchor PROVE Key(v) # Key(A[c])
  <2>1. PICK k \in kept : v = Carved(k, free)
    BY <1>13
  <2>2. Key(v) = Key(k) /\ Key(A[c]) = Key(next[c]) /\ next[c] # NoAnchor
    BY <1>15, <1>18, <1>25, <2>1
  <2> QED
    BY <1>4, <1>6, <2>2
<1>26. ASSUME NEW v \in R PROVE Alive(v, t) /\ \A w \in views : Key(v) # Key(w)
  <2>1. PICK k \in kept : v = Carved(k, free)
    BY <1>13
  <2>2. Key(v) = Key(k) /\ Stamp(v) = Stamp(k) /\ k \in cand
    BY <1>6, <1>15, <2>1
  <2>3. Alive(k, t)
    BY <1>1, <1>4, <2>2
  <2> QED
    BY <1>4, <2>2, <2>3 DEF Alive
<1>27. MapOK(n)
  <2>1. /\ \A v \in n.retained : Seen(v, n)
        /\ \A c \in Cameras : n.anchors[c] # NoAnchor =>
             Seen(n.anchors[c], n) /\ n.anchors[c].camera = c
    BY <1>21, <1>22, <1>23
  <2>2. /\ \A v, w \in n.retained : Key(v) = Key(w) => v = w
        /\ \A v \in n.retained, c \in Cameras :
             n.anchors[c] # NoAnchor => Key(v) # Key(n.anchors[c])
    BY <1>21, <1>24, <1>25
  <2>3. /\ n \in Maps /\ n.tracked
        /\ IsFiniteSet(n.retained) /\ Cardinality(n.retained) <= MaxKeyframes
    BY <1>14, <1>21
  <2> QED
    BY <2>1, <2>2, <2>3 DEF MapOK
<1> QED
  BY <1>8, <1>21, <1>26, <1>27

\* A map whose retention is switched off.
Forgotten(b) ==
    [b EXCEPT !.anchors = NoAnchors, !.retained = {},
              !.latest = [c \in Cameras |-> 0]]

\* It keeps nothing.
LEMMA ForgottenSound ==
    ASSUME NEW b, MapOK(b)
    PROVE  LET f == Forgotten(b) IN
           /\ MapOK(f) /\ f.tracked = b.tracked /\ f.produced = b.produced
           /\ f.generation = b.generation /\ f.retained = {}
           /\ \A c \in Cameras : f.latest[c] = 0
<1> DEFINE f == Forgotten(b)
           none == [c \in Cameras |-> 0]
<1>1. b \in Maps
  BY DEF MapOK
<1>2. /\ NoAnchors \in [Cameras -> Views \union {NoAnchor}] /\ none \in [Cameras -> Nat]
      /\ \A c \in Cameras : NoAnchors[c] = NoAnchor /\ none[c] = 0
  BY DEF NoAnchors
<1>3. f = [b EXCEPT !.anchors = NoAnchors, !.retained = {}, !.latest = none]
  BY DEF Forgotten
<1> HIDE DEF f, none
<1>4. /\ f \in Maps /\ f.generation = b.generation /\ f.anchors = NoAnchors
      /\ f.retained = {} /\ f.produced = b.produced /\ f.latest = none
      /\ f.tracked = b.tracked
  BY <1>1, <1>2, <1>3 DEF Maps
<1>5. IsFiniteSet(f.retained) /\ Cardinality(f.retained) <= MaxKeyframes
  BY <1>4, FS_EmptySet, SceneAssumption
<1>6. MapOK(f)
  BY <1>2, <1>4, <1>5 DEF MapOK
<1> QED
  BY <1>2, <1>4, <1>6 DEF f

\* What a batch's update leaves, unless it refuses the batch.
Updated(n, b, views, t, tracking, enabled) ==
    /\ MapOK(n) /\ n.tracked = tracking /\ n.produced = t
    /\ n.generation = b.generation
    /\ \A c \in Cameras :
         \/ n.latest[c] <= b.latest[c]
         \/ \E v \in views : v.camera = c /\ n.latest[c] = v.depth
    /\ \A v \in n.retained : Alive(v, t) /\ \A w \in views : Key(v) # Key(w)
    /\ n.retained # {} => tracking /\ enabled

\* Every map the update may leave is one: its keyframes are alive, few enough and none
\* of them is a current view (observation_map._update).
LEMMA UpdateSound ==
    ASSUME NEW m, MapOK(m), NEW tracking \in BOOLEAN, NEW enabled \in BOOLEAN,
           NEW t \in Nat, NEW views, Entering(views, Base(m, tracking)),
           \A v \in views : v.depth <= t,
           NEW n \in MapsAfter(m, views, t, tracking, enabled)
    PROVE  Updated(n, Base(m, tracking), views, t, tracking, enabled)
<1> DEFINE o == Base(m, tracking)
           b == Rebased(o, t, tracking)
           next == NextAnchors(Living(b, t), views)
           best == BestOf(Candidates(Living(b, t), views, next))
<1>1. /\ MapOK(o) /\ (~tracking => o.retained = {})
      /\ \A c \in Cameras : o.latest[c] \in Nat
  BY BaseSound
<1> HIDE DEF o
<1>2. /\ MapOK(b) /\ b.produced = t /\ b.tracked = tracking
      /\ b.generation = o.generation /\ b.latest = o.latest /\ b.retained = o.retained
  BY <1>1, RebasedSound
<1>3. \/ ~tracking /\ n = b
      \/ tracking /\ ~enabled /\ n = Forgotten(b)
      \/ /\ tracking /\ enabled
         /\ \E kept \in best :
              \E free : n = Kept(b, views, next, kept, free)
  <2>1. CASE ~tracking
    BY <2>1 DEF MapsAfter, Rebased, o
  <2>2. CASE tracking /\ ~enabled
    BY <2>2 DEF MapsAfter, Rebased, Forgotten, o
  <2>3. CASE tracking /\ enabled
    <3> DEFINE frees == IF \E v \in views : v.solid
                        THEN SUBSET {v.place : v \in Stored(Living(b, t))} ELSE {{}}
    <3>1. MapsAfter(m, views, t, tracking, enabled) =
            {Kept(b, views, next, kept, free) : kept \in best, free \in frees}
      BY <2>3 DEF MapsAfter, Rebased, o
    <3> HIDE DEF frees, b, best, next
    <3>2. \E kept \in best, free \in frees : n = Kept(b, views, next, kept, free)
      BY <3>1
    <3>3. \E kept \in best : \E free : n = Kept(b, views, next, kept, free)
      BY <3>2
    <3> QED
      BY <2>3, <3>3
  <2> QED
    BY <2>1, <2>2, <2>3
<1> HIDE DEF b, best, next
<1>4. CASE ~tracking /\ n = b
  <2>1. n.retained = {} /\ \A c \in Cameras : n.latest[c] <= o.latest[c]
    BY <1>1, <1>2, <1>4
  <2> QED
    BY <1>2, <1>4, <2>1 DEF Updated, o
<1>5. CASE tracking /\ ~enabled /\ n = Forgotten(b)
  <2>1. /\ MapOK(n) /\ n.tracked = b.tracked /\ n.produced = b.produced
        /\ n.generation = b.generation /\ n.retained = {}
        /\ \A c \in Cameras : n.latest[c] = 0
    BY <1>2, <1>5, ForgottenSound
  <2>2. \A c \in Cameras : n.latest[c] <= o.latest[c]
    BY <1>1, <2>1
  <2> QED
    BY <1>2, <2>1, <2>2 DEF Updated, o
<1>6. CASE tracking /\ enabled /\
           \E kept \in best :
             \E free : n = Kept(b, views, next, kept, free)
  <2>1. Entering(views, b)
    BY <1>2 DEF Entering, o
  <2>2. PICK kept \in best :
          \E free : n = Kept(b, views, next, kept, free)
    BY <1>6
  <2>6. PICK free : n = Kept(b, views, next, kept, free)
    BY <2>2
  <2>3. /\ MapOK(n) /\ n.tracked /\ n.produced = b.produced
        /\ n.generation = b.generation
        /\ \A c \in Cameras :
             n.latest[c] = b.latest[c]
             \/ \E v \in views : v.camera = c /\ n.latest[c] = v.depth
        /\ \A v \in n.retained : Alive(v, t) /\ \A w \in views : Key(v) # Key(w)
    <3>1. MapOK(b) /\ b.tracked
      BY <1>2, <1>6
    <3>2. kept \in BestOf(Candidates(Living(b, t), views, NextAnchors(Living(b, t), views)))
      BY <2>2 DEF best, next
    <3>3. n = Kept(b, views, NextAnchors(Living(b, t), views), kept, free)
      BY <2>6 DEF next
    <3> QED
      BY <2>1, <3>1, <3>2, <3>3, CarvedMapSound
  <2>4. \A c \in Cameras : n.latest[c] <= o.latest[c]
                           \/ \E v \in views : v.camera = c /\ n.latest[c] = v.depth
    BY <1>1, <1>2, <2>3
  <2>5. n.tracked = tracking
    BY <1>6, <2>3 DEF MapOK, Maps
  <2> QED
    BY <1>2, <1>6, <2>3, <2>4, <2>5 DEF Updated, o
<1> QED
  BY <1>3, <1>4, <1>5, <1>6

-------------------------------------------------------------------------------
(***************************************************************************)
(* The invariant                                                           *)
(***************************************************************************)
\* A frame of a camera: exposed no later than it is delivered, its image no later than
\* its depth.
FrameOK(f, t) ==
    /\ f.depth \in Nat /\ f.image \in Nat /\ f.usable \in BOOLEAN
    /\ f.depth <= t /\ 1 <= f.image /\ f.image <= f.depth

SourceInv ==
    /\ now \in Nat /\ shown \in [Cameras -> Nat]
    /\ batch.produced \in Nat /\ batch.produced <= now /\ batch.tracking \in BOOLEAN
    /\ DOMAIN batch.frames = Cameras
    /\ \A c \in Cameras : shown[c] <= batch.produced
    /\ \A c \in Shot(batch.frames) : FrameOK(batch.frames[c], batch.produced)

\* The map never runs ahead of the source that feeds it.
MapInv ==
    /\ consumer \in {"stream", "record"} /\ retention \in BOOLEAN
    /\ outcome \in {"none", "published"}
    /\ MapOK(map) /\ map.produced <= batch.produced
    /\ \A c \in Cameras : map.latest[c] <= shown[c]

\* What the loader would know of the batches listed so far.
JudgedInv ==
    /\ judged.loads /\ judged.produced \in Nat /\ judged.produced <= batch.produced
    /\ judged.last \in [Cameras -> Nat]
    /\ \A c \in Cameras : judged.last[c] <= shown[c]

WriterInv ==
    /\ files \subseteq 1 .. MaxBatches /\ listed \in 0 .. MaxBatches
    /\ writer = "exposing" => size <= MaxManifestSize
    /\ named \subseteq written /\ written \subseteq files
    /\ manifest = "saved" => /\ writer \notin {"writing", "exposing"}
                             /\ listed >= 1 /\ size <= MaxManifestSize

\* Whatever part of a view is left out in a packet, the packet has the color that stands
\* in for it, and that color is not older than the view.
PacketOK(p) ==
    \A v \in p.current \union p.keyframes : v.under # NoKey =>
      /\ Stamp(v) \in Nat
      /\ \E color \in p.keyframes : /\ Key(color) = v.under /\ Colored(color)
                                    /\ color.solid /\ Stamp(color) \in Nat
                                    /\ Stamp(color) >= Stamp(v)

PacketInv == PacketOK(packet)

Safe == SourceInv /\ MapInv /\ JudgedInv /\ WriterInv /\ PacketInv

-------------------------------------------------------------------------------
(***************************************************************************)
(* A batch                                                                 *)
(***************************************************************************)
\* Every frame of a batch is newer than what its camera has shown before.
BatchOK(frames) ==
    \A c \in Shot(frames) : FrameOK(frames[c], now) /\ shown[c] < frames[c].depth

\* The frames a source may deliver are such a batch.
LEMMA DeliveredBatch ==
    ASSUME SourceInv, NEW frames \in Batches, NEW tracked, Delivers(frames, tracked)
    PROVE  BatchOK(frames) /\ DOMAIN frames = Cameras
<1> DEFINE own(c) == {f \in FramesOf(c, now) :
                        IF f.usable THEN c \in RgbCameras /\ f.image <= f.depth
                        ELSE f.image = f.depth}
<1>1. DOMAIN frames = Cameras /\ \A c \in Cameras : frames[c] \in own(c)
  BY DEF Batches
<1>2. ASSUME NEW c \in Shot(frames)
      PROVE  FrameOK(frames[c], now) /\ shown[c] < frames[c].depth
  <2>1. /\ c \in Cameras /\ frames[c] # NoFrame /\ frames[c] \in own(c)
        /\ now \in Nat /\ shown[c] \in Nat
    BY <1>1, <1>2 DEF Shot, SourceInv
  <2>2. /\ frames[c].depth \in shown[c] + 1 .. now /\ frames[c].image \in 1 .. now
        /\ frames[c].usable \in BOOLEAN
    BY <2>1 DEF FramesOf
  <2>3. frames[c].image <= frames[c].depth
    BY <2>1, <2>2
  <2> QED
    BY <2>1, <2>2, <2>3 DEF FrameOK
<1> QED
  BY <1>1, <1>2 DEF BatchOK

\* The newest depth of a batch bounds the others.
LEMMA NewestBounds ==
    ASSUME SourceInv, NEW frames, BatchOK(frames)
    PROVE  /\ Newest(frames) \in Nat
           /\ \A c \in Shot(frames) : frames[c].depth <= Newest(frames)
<1> DEFINE S == {0} \union {frames[c].depth : c \in Shot(frames)}
<1>1. now \in Nat
  BY DEF SourceInv
<1>2. \A c \in Shot(frames) : frames[c].depth \in S /\ frames[c].depth \in 0..now
  BY <1>1 DEF BatchOK, FrameOK
<1>3. S \subseteq 0..now /\ 0 \in S
  BY <1>1, <1>2
<1>4. Newest(frames) = Max(S)
  BY DEF Newest
<1> HIDE DEF S
<1>5. Max(S) \in S /\ \A y \in S : y <= Max(S)
  BY <1>1, <1>3, Extremes
<1>6. Max(S) \in 0..now
  BY <1>3, <1>5
<1> QED
  BY <1>1, <1>2, <1>4, <1>5, <1>6

\* What a map is given of a batch: views of the cameras accepted, in its generation.
Given(views, frames, tracked, g) ==
    \A v \in views :
       LET c == v.camera IN
       /\ v \in Views /\ c \in Accepted(frames, now, tracked) /\ v.born = g
       /\ v.depth = frames[c].depth /\ v.image = frames[c].image
       /\ v.usable = frames[c].usable

\* At most one of each camera.
LEMMA ViewsGiven ==
    ASSUME SourceInv, NEW frames, BatchOK(frames), NEW tracked \in BOOLEAN, NEW g \in Nat,
           NEW place \in [Accepted(frames, now, tracked) -> Places \union {Nowhere}]
    PROVE  LET views == ViewsOf(frames, now, tracked, place, g) IN
           /\ Given(views, frames, tracked, g) /\ IsFiniteSet(views)
           /\ \A v, w \in views : v.camera = w.camera => v = w
<1> DEFINE A == Accepted(frames, now, tracked)
           views == ViewsOf(frames, now, tracked, place, g)
           view == [c \in A |-> View(c, frames[c], place[c], g)]
<1>1. A \subseteq Shot(frames) /\ Shot(frames) \subseteq Cameras /\ now \in Nat
  BY DEF Accepted, Shot, SourceInv
<1>2. views = {view[c] : c \in A}
  BY DEF ViewsOf
<1>3. DOMAIN view = A
  OBVIOUS
<1>4. ASSUME NEW c \in A
      PROVE  /\ view[c] \in Views /\ view[c].camera = c /\ view[c].born = g
             /\ view[c].depth = frames[c].depth /\ view[c].image = frames[c].image
             /\ view[c].usable = frames[c].usable
  <2>1. c \in Cameras /\ FrameOK(frames[c], now) /\ place[c] \in Places \union {Nowhere}
    BY <1>1 DEF BatchOK
  <2>2. view[c] = View(c, frames[c], place[c], g)
    OBVIOUS
  <2>3. LET v == View(c, frames[c], place[c], g) IN
        /\ v \in Views /\ v.camera = c /\ v.depth = frames[c].depth
        /\ v.image = frames[c].image /\ v.usable = frames[c].usable /\ v.born = g
    <3>1. (place[c] # Nowhere) \in BOOLEAN
      OBVIOUS
    <3> HIDE DEF view, views, A
    <3> QED
      BY <1>1, <2>1, <3>1 DEF View, Views, FrameOK
  <2> HIDE DEF view, A
  <2> QED
    BY <2>2, <2>3
<1> HIDE DEF A, views, view
<1>5. IsFiniteSet(views)
  <2>1. IsFiniteSet(A)
    BY <1>1, FS_Subset, SceneAssumption
  <2>2. view \in Surjection(A, views)
    <3>1. view \in [A -> views] /\ \A v \in views : \E c \in A : view[c] = v
      <4>1. view = [c \in A |-> view[c]]
        BY DEF view
      <4> QED
        BY <1>2, <4>1
    <3> QED
      BY <3>1 DEF Surjection
  <2> QED
    BY <2>1, <2>2, FS_Surjection
<1>6. \A v, w \in views : v.camera = w.camera => v = w
  BY <1>2, <1>4
<1>7. Given(views, frames, tracked, g)
  BY <1>2, <1>4 DEF Given, A
<1> QED
  BY <1>5, <1>6, <1>7 DEF views

\* They enter the map: each is newer than what the map has seen of its camera.
LEMMA GivenEnters ==
    ASSUME SourceInv, MapInv, NEW frames, BatchOK(frames), NEW tracked \in BOOLEAN,
           NEW views, IsFiniteSet(views),
           Given(views, frames, tracked, Base(map, tracked).generation),
           \A v, w \in views : v.camera = w.camera => v = w
    PROVE  /\ Entering(views, Base(map, tracked))
           /\ \A v \in views : v.depth \in 1..now /\ v.image \in 1..now
           /\ ~tracked => views = {}
<1> DEFINE o == Base(map, tracked)
<1>1. \A c \in Cameras : o.latest[c] \in Nat /\ o.latest[c] <= map.latest[c]
                         /\ map.latest[c] \in Nat /\ map.latest[c] <= shown[c]
                         /\ shown[c] \in Nat
  <2>1. MapOK(map)
    BY DEF MapInv
  <2>2. \A c \in Cameras : o.latest[c] \in Nat /\ o.latest[c] <= map.latest[c]
    BY <2>1, BaseSound
  <2>3. \A c \in Cameras : map.latest[c] \in Nat
    BY <2>1 DEF MapOK, Maps
  <2> QED
    BY <2>2, <2>3 DEF MapInv, SourceInv
<1> HIDE DEF o
<1>2. ASSUME NEW v \in views
      PROVE  /\ v \in Views /\ tracked /\ v.born = o.generation
             /\ o.latest[v.camera] < v.depth
             /\ v.depth \in 1..now /\ v.image \in 1..now /\ v.image <= v.depth
  <2> DEFINE c == v.camera
             f == frames[c]
  <2>1. /\ v \in Views /\ c \in Accepted(frames, now, tracked) /\ v.born = o.generation
        /\ v.depth = f.depth /\ v.image = f.image
    BY DEF Given, o
  <2>2. c \in Shot(frames) /\ c \in Cameras /\ tracked
    BY <2>1 DEF Accepted, Shot
  <2>3. FrameOK(f, now) /\ shown[c] < f.depth
    BY <2>2 DEF BatchOK
  <2> HIDE DEF c, f
  <2>4. now \in Nat /\ f.depth \in Nat /\ f.image \in Nat /\ f.depth <= now
        /\ 1 <= f.image /\ f.image <= f.depth
    BY <2>3 DEF FrameOK, SourceInv
  <2>5. o.latest[c] < f.depth
    BY <1>1, <2>2, <2>3, <2>4
  <2>6. f.depth \in 1..now /\ f.image \in 1..now
    BY <2>4
  <2> QED
    BY <2>1, <2>2, <2>4, <2>5, <2>6 DEF c
<1>3. Entering(views, o)
  BY <1>2 DEF Entering
<1> QED
  BY <1>2, <1>3 DEF o

\* The map never refuses it.
LEMMA NeverRefuses ==
    ASSUME SourceInv, MapInv, now > batch.produced, NEW tracked \in BOOLEAN, NEW enabled,
           NEW views, Entering(views, Base(map, tracked))
    PROVE  ~Refuses(map, views, now, tracked, enabled)
<1> DEFINE o == Base(map, tracked)
<1>1. MapOK(map) /\ map.produced \in Nat /\ map.produced <= batch.produced
      /\ now \in Nat /\ batch.produced \in Nat
  BY DEF MapInv, SourceInv, MapOK, Maps
<1>2. /\ o.produced \in Nat /\ o.produced <= map.produced
      /\ \A c \in Cameras : o.latest[c] \in Nat
  BY <1>1, BaseSound
<1> HIDE DEF o
<1>3. ~(now < o.produced)
  BY <1>1, <1>2
<1>4. \A v \in views : ~(v.depth < o.latest[v.camera])
  <2> TAKE v \in views
  <2>1. v.depth \in Nat /\ v.camera \in Cameras /\ o.latest[v.camera] < v.depth
    BY DEF Entering, Views, o
  <2>2. o.latest[v.camera] \in Nat
    BY <1>2, <2>1
  <2> QED
    BY <2>1, <2>2
<1> QED
  BY <1>3, <1>4 DEF Refuses, o

\* Views with different keys and keyframes with different keys, none of which is a
\* view's, have as many keys as there are of both.
LEMMA KeysCount ==
    ASSUME NEW views, IsFiniteSet(views), NEW frames, IsFiniteSet(frames),
           \A v, w \in views : Key(v) = Key(w) => v = w,
           \A v, w \in frames : Key(v) = Key(w) => v = w,
           \A v \in frames, w \in views : Key(v) # Key(w)
    PROVE  Cardinality({Key(v) : v \in views \union frames})
             = Cardinality(views) + Cardinality(frames)
<1> DEFINE all == views \union frames
           keys == {Key(v) : v \in all}
           key == [v \in all |-> Key(v)]
<1>1. views \cap frames = {}
  OBVIOUS
<1>2. IsFiniteSet(all) /\ Cardinality(all) = Cardinality(views) + Cardinality(frames)
  <2>1. /\ IsFiniteSet(all)
        /\ Cardinality(all) = Cardinality(views) + Cardinality(frames)
                                - Cardinality(views \cap frames)
    BY FS_Union
  <2>2. Cardinality(views \cap frames) = 0
    BY <1>1, FS_EmptySet
  <2>3. Cardinality(views) \in Nat /\ Cardinality(frames) \in Nat
    BY FS_CardinalityType
  <2> HIDE DEF all
  <2> QED
    BY <2>1, <2>2, <2>3
<1>3. key \in Bijection(all, keys)
  <2>1. key \in [all -> keys] /\ \A k \in keys : \E v \in all : key[v] = k
    OBVIOUS
  <2>2. \A v, w \in all : key[v] = key[w] => v = w
    OBVIOUS
  <2> HIDE DEF all, keys, key
  <2>3. key \in Surjection(all, keys)
    BY <2>1 DEF Surjection
  <2>4. key \in Injection(all, keys)
    BY <2>1, <2>2 DEF Injection, IsInjective
  <2> QED
    BY <2>3, <2>4 DEF Bijection
<1> HIDE DEF all, keys, key
<1>4. Cardinality(keys) = Cardinality(all)
  BY <1>2, <1>3, FS_Bijection DEF ExistsBijection
<1> QED
  BY <1>2, <1>4 DEF keys, all

\* A packet of such views, and of keyframes the map has left, is valid.
LEMMA PacketValid ==
    ASSUME SourceInv, NEW frames, BatchOK(frames), NEW tracked \in BOOLEAN,
           NEW enabled \in BOOLEAN, NEW m, NEW g, NEW views, IsFiniteSet(views),
           Given(views, frames, tracked, g),
           \A v, w \in views : v.camera = w.camera => v = w,
           \A v \in views : v.depth \in 1..now /\ v.image \in 1..now,
           ~tracked => views = {},
           NEW kept, IsFiniteSet(kept), Cardinality(kept) <= MaxKeyframes,
           \A v \in kept : /\ v.depth \in 1..now /\ v.image \in 1..now /\ Alive(v, now)
                           /\ \A w \in views : Key(v) # Key(w),
           \A v, w \in kept : Key(v) = Key(w) => v = w,
           kept # {} => tracked /\ enabled
    PROVE  Valid(views, kept, now, tracked, enabled)
<1> DEFINE depths == {v.depth : v \in views}
           all == views \union kept
<1>1. \A v \in all : v.depth \in 1..now /\ v.image \in 1..now
  OBVIOUS
<1>2. \A v \in views : LET c == v.camera IN
        /\ c \in Shot(frames) /\ v.depth = frames[c].depth
        /\ Newest(frames) - v.depth <= PacketSkew /\ now - v.depth <= MaxAge
        /\ v.usable => now - v.image <= MaxAge
  BY DEF Given, Accepted
<1>3. ASSUME views # {}
      PROVE  Max(depths) - Min(depths) <= PacketSkew /\ now - Max(depths) <= MaxAge
  <2>1. now \in Nat
    BY DEF SourceInv
  <2>2. depths \subseteq 0..now /\ depths # {}
    BY <1>3, <2>1
  <2>3. \A x \in depths : x <= Newest(frames) /\ Newest(frames) - x <= PacketSkew
                          /\ now - x <= MaxAge
    BY <1>2, NewestBounds
  <2> HIDE DEF depths
  <2>4. Max(depths) \in depths /\ Min(depths) \in depths
    BY <2>1, <2>2, Extremes
  <2>5. /\ Max(depths) \in 0..now /\ Min(depths) \in 0..now
        /\ Max(depths) <= Newest(frames) /\ Newest(frames) - Min(depths) <= PacketSkew
        /\ now - Max(depths) <= MaxAge
    BY <2>2, <2>3, <2>4
  <2>6. Newest(frames) \in Nat /\ PacketSkew \in Nat
    BY NewestBounds, SceneAssumption
  <2> QED
    BY <2>1, <2>5, <2>6
<1>4. Cardinality({Key(v) : v \in all}) = Cardinality(views) + Cardinality(kept)
  <2>1. ASSUME NEW v \in views, NEW w \in views, Key(v) = Key(w) PROVE v = w
    <3>1. \A a, b, x, y : <<a, b>> = <<x, y>> => a = x
      OBVIOUS
    <3>2. v.camera = w.camera
      BY <2>1, <3>1 DEF Key
    <3> QED
      BY <3>2
  <2> QED
    BY <2>1, KeysCount
<1>5. \A v \in kept : now - Stamp(v) <= Retention
  BY DEF Alive
<1>6. ~tracked => all = {}
  OBVIOUS
<1> QED
  BY <1>1, <1>2, <1>3, <1>4, <1>5, <1>6 DEF Valid

-------------------------------------------------------------------------------
(***************************************************************************)
(* Every step keeps the invariant                                          *)
(***************************************************************************)
\* A delivered batch.
LEMMA DeliverySafe ==
    ASSUME SourceInv, NEW frames, BatchOK(frames), DOMAIN frames = Cameras,
           NEW tracked \in BOOLEAN, Delivers(frames, tracked)
    PROVE  /\ SourceInv' /\ batch'.produced = now
           /\ \A c \in Cameras : shown[c] <= shown'[c]
           /\ \A c \in Shot(frames) : shown'[c] = frames[c].depth
<1>1. /\ now \in Nat /\ batch.produced \in Nat /\ batch.produced < now /\ now' = now
      /\ shown \in [Cameras -> Nat] /\ \A c \in Cameras : shown[c] <= batch.produced
  BY DEF SourceInv, Delivers
<1>2. batch' = [frames |-> frames, tracking |-> tracked, produced |-> now]
  BY DEF Delivers
<1>3. batch'.produced = now /\ batch'.frames = frames /\ batch'.tracking = tracked
  BY <1>2
<1>4. shown' = [c \in Cameras |-> IF c \in Shot(frames) THEN frames[c].depth ELSE shown[c]]
  BY DEF Delivers
<1>5. \A c \in Shot(frames) : /\ c \in Cameras /\ frames[c].depth \in Nat
                              /\ frames[c].depth <= now /\ shown[c] < frames[c].depth
  BY DEF BatchOK, FrameOK, Shot
<1>6. \A c \in Cameras : shown'[c] \in Nat /\ shown[c] <= shown'[c] /\ shown'[c] <= now
  <2> TAKE c \in Cameras
  <2>1. CASE c \in Shot(frames)
    BY <1>1, <1>4, <1>5, <2>1
  <2>2. CASE c \notin Shot(frames)
    BY <1>1, <1>4, <2>2
  <2> QED
    BY <2>1, <2>2
<1>7. shown' \in [Cameras -> Nat]
  <2>1. DOMAIN shown' = Cameras /\ shown' = [c \in Cameras |-> shown'[c]]
    BY <1>4
  <2> QED
    BY <1>6, <2>1
<1>8. \A c \in Shot(frames) : FrameOK(frames[c], now)
  BY DEF BatchOK
<1>9. SourceInv'
  BY <1>1, <1>3, <1>6, <1>7, <1>8 DEF SourceInv
<1> QED
  BY <1>3, <1>4, <1>5, <1>6, <1>9

\* The part of a view that is left out is left out under a keyframe of the packet.
LEMMA SentOK ==
    ASSUME NEW views, \A v \in views : v \in Views, NEW R, R \subseteq Views,
           NEW sent \in Prioritized(views, R)
    PROVE  PacketOK(Sent(sent, R))
<1> DEFINE p == Sent(sent, R)
<1>1. p.current = sent /\ p.keyframes = R
  BY DEF Sent
<1> HIDE DEF p
<1>2. ASSUME NEW v \in sent, v.under # NoKey
      PROVE  /\ Stamp(v) \in Nat
             /\ \E color \in R : /\ Key(color) = v.under /\ Colored(color) /\ color.solid
                                 /\ Stamp(color) \in Nat /\ Stamp(color) >= Stamp(v)
  <2>1. PICK w \in views : v \in Shown(w, R)
    BY <1>2 DEF Prioritized
  <2>2. w \in Views /\ w.under = NoKey
    BY <2>1 DEF Views
  <2>3. PICK color \in R : Covers(color, w) /\ v = [w EXCEPT !.under = Key(color)]
    BY <1>2, <2>1, <2>2 DEF Shown
  <2>4. v.under = Key(color) /\ v.depth = w.depth /\ v.image = w.image /\ v.usable = w.usable
    BY <2>2, <2>3 DEF Views
  <2>5. Stamp(v) = Stamp(w)
    BY <2>4 DEF Stamp
  <2>6. Stamp(w) \in Nat /\ Stamp(color) \in Nat
    BY <2>2 DEF Stamp, Views
  <2> QED
    BY <2>3, <2>4, <2>5, <2>6 DEF Covers
<1>3. \A v \in R : v.under = NoKey
  BY DEF Views
<1>4. PacketOK(p)
  BY <1>1, <1>2, <1>3 DEF PacketOK
<1> QED
  BY <1>4 DEF p

\* The packet of a batch is valid before the update and after it.
LEMMA BuildSafe ==
    ASSUME SourceInv, MapInv, NEW frames \in Batches, NEW tracked \in BOOLEAN,
           PacketInv, Build(frames, tracked)
    PROVE  /\ MapOK(map') /\ map'.produced = now /\ outcome' = "published" /\ PacketInv'
           /\ \A c \in Cameras : \/ map'.latest[c] <= map.latest[c]
                                 \/ c \in Shot(frames) /\ map'.latest[c] = frames[c].depth
<1> DEFINE o == Base(map, tracked)
<1>1. /\ MapOK(map) /\ retention \in BOOLEAN /\ now \in Nat /\ now > batch.produced
      /\ Delivers(frames, tracked)
  BY DEF MapInv, SourceInv, Build, Delivers
<1>2. BatchOK(frames)
  BY <1>1, DeliveredBatch
<1>3. /\ MapOK(o)
      /\ \A c \in Cameras : o.latest[c] \in Nat /\ o.latest[c] <= map.latest[c]
  BY <1>1, BaseSound
<1>4. o.generation \in Nat
  BY <1>3 DEF MapOK, Maps
<1>5. PICK place \in [Accepted(frames, now, tracked) -> Places \union {Nowhere}] :
        LET views == ViewsOf(frames, now, tracked, place, o.generation) IN
        IF ~Valid(views, {}, now, tracked, retention)
           \/ Refuses(map, views, now, tracked, retention)
        THEN outcome' = "failed" /\ UNCHANGED <<map, packet>>
        ELSE \E update \in Updates(map, views, now, tracked, retention) :
               /\ map' = update.map
               /\ outcome' = IF Valid(views, map'.retained, now, tracked, retention)
                             THEN "published" ELSE "failed"
               /\ packet' = IF outcome' = "published" THEN update.packet ELSE packet
  BY DEF Build, o
<1> DEFINE views == ViewsOf(frames, now, tracked, place, o.generation)
<1> HIDE DEF o
<1>6. /\ Given(views, frames, tracked, o.generation) /\ IsFiniteSet(views)
      /\ \A v, w \in views : v.camera = w.camera => v = w
  BY <1>2, <1>4, ViewsGiven
<1> HIDE DEF views
<1>7. /\ Entering(views, o) /\ \A v \in views : v.depth \in 1..now /\ v.image \in 1..now
      /\ ~tracked => views = {}
  BY <1>2, <1>6, GivenEnters DEF o
<1>8. ~Refuses(map, views, now, tracked, retention)
  BY <1>1, <1>7, NeverRefuses DEF o
<1>9. Valid(views, {}, now, tracked, retention)
  <2>1. IsFiniteSet({}) /\ Cardinality({}) <= MaxKeyframes
    BY FS_EmptySet, SceneAssumption
  <2> QED
    BY <1>1, <1>2, <1>6, <1>7, <2>1, PacketValid
<1>10. /\ map' \in MapsAfter(map, views, now, tracked, retention)
       /\ outcome' = IF Valid(views, map'.retained, now, tracked, retention)
                     THEN "published" ELSE "failed"
       /\ \/ packet' = packet
          \/ \E sent \in Prioritized(views, map'.retained) :
               packet' = Sent(sent, map'.retained)
  <2>1. PICK update \in Updates(map, views, now, tracked, retention) :
          /\ map' = update.map
          /\ outcome' = IF Valid(views, map'.retained, now, tracked, retention)
                        THEN "published" ELSE "failed"
          /\ packet' = IF outcome' = "published" THEN update.packet ELSE packet
    BY <1>5, <1>8, <1>9 DEF views
  <2>2. PICK after \in MapsAfter(map, views, now, tracked, retention) :
          \E sent \in Prioritized(views, after.retained) :
            update = [map |-> after, packet |-> Sent(sent, after.retained)]
    BY <2>1 DEF Updates
  <2>3. map' = after
    BY <2>1, <2>2
  <2> QED
    BY <2>1, <2>2, <2>3
<1>11. Updated(map', o, views, now, tracked, retention)
  <2>1. \A v \in views : v.depth <= now
    BY <1>1, <1>7
  <2> QED
    BY <1>1, <1>7, <1>10, <2>1, UpdateSound DEF o
<1>12. /\ MapOK(map') /\ map'.produced = now
       /\ \A c \in Cameras : \/ map'.latest[c] <= o.latest[c]
                             \/ \E v \in views : v.camera = c /\ map'.latest[c] = v.depth
       /\ \A v \in map'.retained : Alive(v, now) /\ \A w \in views : Key(v) # Key(w)
       /\ map'.retained # {} => tracked /\ retention
  BY <1>11 DEF Updated
<1>13. \A c \in Cameras : \/ map'.latest[c] <= map.latest[c]
                          \/ c \in Shot(frames) /\ map'.latest[c] = frames[c].depth
  <2>1. \A c \in Cameras : map.latest[c] \in Nat /\ map'.latest[c] \in Nat
    BY <1>1, <1>12 DEF MapOK, Maps
  <2>2. \A v \in views : v.camera \in Shot(frames) /\ v.depth = frames[v.camera].depth
    BY <1>6 DEF Given, Accepted
  <2> QED
    BY <1>3, <1>12, <2>1, <2>2
<1>14. ASSUME NEW v \in map'.retained PROVE v.depth \in 1..now /\ v.image \in 1..now
  <2>1. /\ v.camera \in Cameras /\ v.depth \in Nat /\ v.image \in Nat
        /\ v.depth <= map'.latest[v.camera] /\ 1 <= v.image /\ v.image <= v.depth
    BY <1>12, <1>14 DEF MapOK, Seen, Views
  <2>2. map'.latest[v.camera] \in Nat /\ map'.latest[v.camera] <= now
    <3>1. map'.latest[v.camera] \in Nat /\ map.latest[v.camera] \in Nat
          /\ shown[v.camera] \in Nat /\ batch.produced \in Nat
      BY <1>1, <1>12, <2>1 DEF MapOK, Maps, SourceInv
    <3>2. map.latest[v.camera] <= shown[v.camera] /\ shown[v.camera] <= batch.produced
      BY <2>1 DEF MapInv, SourceInv
    <3>3. \A c \in Shot(frames) : frames[c].depth <= now
      BY <1>2 DEF BatchOK, FrameOK
    <3> QED
      BY <1>1, <1>13, <2>1, <3>1, <3>2, <3>3
  <2> QED
    BY <1>1, <2>1, <2>2
<1>15. Valid(views, map'.retained, now, tracked, retention)
  <2>1. /\ IsFiniteSet(map'.retained) /\ Cardinality(map'.retained) <= MaxKeyframes
        /\ \A v, w \in map'.retained : Key(v) = Key(w) => v = w
    BY <1>12 DEF MapOK
  <2> QED
    BY <1>1, <1>2, <1>6, <1>7, <1>12, <1>14, <2>1, PacketValid
<1>16. PacketInv'
  <2>1. CASE packet' = packet
    BY <2>1 DEF PacketInv
  <2>2. CASE \E sent \in Prioritized(views, map'.retained) :
               packet' = Sent(sent, map'.retained)
    <3>1. map'.retained \subseteq Views /\ \A v \in views : v \in Views
      BY <1>7, <1>12 DEF MapOK, Maps, Entering
    <3>2. PacketOK(packet')
      BY <2>2, <3>1, SentOK
    <3> QED
      BY <3>2 DEF PacketInv
  <2> QED
    BY <1>10, <2>1, <2>2
<1> QED
  BY <1>10, <1>12, <1>13, <1>15, <1>16

\* Stream: the map keeps up with what has been shown.
LEMMA StreamSafe ==
    ASSUME Safe, Stream
    PROVE  Safe'
<1>1. PICK frames \in Batches, tracked \in BOOLEAN : Build(frames, tracked)
  BY DEF Stream
<1>2. /\ SourceInv /\ MapInv /\ JudgedInv /\ WriterInv /\ PacketInv
      /\ Delivers(frames, tracked) /\ UNCHANGED <<recordingVars, consumer, retention>>
  BY <1>1 DEF Safe, Stream, Build
<1>3. BatchOK(frames) /\ DOMAIN frames = Cameras
  BY <1>2, DeliveredBatch
<1>4. /\ SourceInv' /\ batch'.produced = now
      /\ \A c \in Cameras : shown[c] <= shown'[c]
      /\ \A c \in Shot(frames) : shown'[c] = frames[c].depth
  BY <1>2, <1>3, DeliverySafe
<1>5. /\ MapOK(map') /\ map'.produced = now /\ outcome' = "published" /\ PacketInv'
      /\ \A c \in Cameras : \/ map'.latest[c] <= map.latest[c]
                            \/ c \in Shot(frames) /\ map'.latest[c] = frames[c].depth
  BY <1>1, <1>2, BuildSafe
<1>6. /\ now \in Nat /\ batch.produced \in Nat /\ batch.produced < now
      /\ MapOK(map)
      /\ \A c \in Cameras : /\ shown[c] \in Nat /\ shown'[c] \in Nat /\ map.latest[c] \in Nat
                            /\ map'.latest[c] \in Nat /\ map.latest[c] <= shown[c]
  BY <1>2, <1>4, <1>5 DEF SourceInv, MapInv, MapOK, Maps, Delivers
<1>7. \A c \in Cameras : map'.latest[c] <= shown'[c]
  <2> TAKE c \in Cameras
  <2>1. CASE map'.latest[c] <= map.latest[c]
    BY <1>4, <1>6, <2>1
  <2>2. CASE c \in Shot(frames) /\ map'.latest[c] = frames[c].depth
    BY <1>4, <1>6, <2>2
  <2> QED
    BY <1>5, <2>1, <2>2
<1>8. MapInv'
  BY <1>2, <1>4, <1>5, <1>6, <1>7 DEF MapInv
<1>9. UNCHANGED <<writer, files, written, named, listed, size, judged, manifest>>
  BY <1>2 DEF recordingVars
<1>10. JudgedInv'
  <2>1. \A c \in Cameras : judged.last[c] \in Nat /\ judged.last[c] <= shown'[c]
    BY <1>2, <1>4, <1>6 DEF JudgedInv
  <2>2. judged.produced <= batch'.produced
    BY <1>2, <1>4, <1>6 DEF JudgedInv
  <2> QED
    BY <1>2, <1>9, <2>1, <2>2 DEF JudgedInv
<1>11. WriterInv'
  BY <1>2, <1>9 DEF WriterInv
<1> QED
  BY <1>4, <1>5, <1>8, <1>10, <1>11 DEF Safe

\* A clear starts the map over.
LEMMA ClearSafe ==
    ASSUME Safe, Clear
    PROVE  Safe'
<1>1. /\ SourceInv /\ MapInv /\ JudgedInv /\ WriterInv /\ PacketInv
      /\ map' = Cleared(map)
      /\ UNCHANGED <<now, shown, batch, writer, files, written, named, listed, size, judged,
                     manifest, consumer, retention, outcome, packet>>
  BY DEF Safe, Clear, sourceVars, recordingVars
<1>2. /\ MapOK(map') /\ map'.produced = 0 /\ \A c \in Cameras : map'.latest[c] = 0
  BY <1>1, ClearedSound DEF MapInv
<1>3. /\ batch.produced \in Nat /\ \A c \in Cameras : shown[c] \in Nat
  BY <1>1 DEF SourceInv
<1>4. MapInv'
  BY <1>1, <1>2, <1>3 DEF MapInv
<1>5. SourceInv' /\ JudgedInv' /\ WriterInv' /\ PacketInv'
  BY <1>1 DEF SourceInv, JudgedInv, WriterInv, PacketInv, Shot, NoFrame
<1> QED
  BY <1>4, <1>5 DEF Safe

\* Time passes.
LEMMA WaitSafe ==
    ASSUME Safe, Wait
    PROVE  Safe'
<1>1. /\ SourceInv /\ MapInv /\ JudgedInv /\ WriterInv /\ PacketInv /\ now' = now + 1
      /\ UNCHANGED <<shown, batch, writer, files, written, named, listed, size, judged,
                     manifest, consumer, retention, map, outcome, packet>>
  BY DEF Safe, Wait, Passes, recordingVars
<1>2. /\ now' \in Nat /\ batch.produced <= now'
  BY <1>1 DEF SourceInv
<1>3. SourceInv'
  BY <1>1, <1>2 DEF SourceInv, Shot, NoFrame
<1>4. MapInv' /\ JudgedInv' /\ WriterInv' /\ PacketInv'
  BY <1>1 DEF MapInv, JudgedInv, WriterInv, PacketInv
<1> QED
  BY <1>3, <1>4 DEF Safe

\* A recorded batch continues what the loader would walk.
LEMMA RecordBatchSafe ==
    ASSUME Safe, RecordBatch
    PROVE  Safe'
<1>1. PICK frames \in Batches, tracked \in BOOLEAN : Delivers(frames, tracked)
  BY DEF RecordBatch
<1>2. /\ SourceInv /\ MapInv /\ JudgedInv /\ WriterInv /\ PacketInv
      /\ WriteBatch(batch', NoFrame, Posed)
      /\ UNCHANGED <<consumer, retention, map, outcome, packet>>
  BY <1>1 DEF Safe, RecordBatch
<1>3. BatchOK(frames) /\ DOMAIN frames = Cameras
  BY <1>1, <1>2, DeliveredBatch
<1>4. /\ SourceInv' /\ batch'.produced = now
      /\ \A c \in Cameras : shown[c] <= shown'[c]
      /\ \A c \in Shot(frames) : shown'[c] = frames[c].depth
  BY <1>1, <1>2, <1>3, DeliverySafe
<1>5. /\ now \in Nat /\ batch.produced \in Nat /\ batch.produced < now /\ MapOK(map)
      /\ batch' = [frames |-> frames, tracking |-> tracked, produced |-> now]
      /\ \A c \in Cameras : /\ shown[c] \in Nat /\ shown'[c] \in Nat
                            /\ map.latest[c] \in Nat /\ map.latest[c] <= shown[c]
      /\ map.produced \in Nat /\ map.produced <= batch.produced
  BY <1>1, <1>2, <1>4 DEF SourceInv, MapInv, MapOK, Maps, Delivers
<1>6. MapInv'
  BY <1>2, <1>4, <1>5 DEF MapInv
<1>7. /\ \A c \in Shot(frames) : /\ judged.last[c] < frames[c].depth
                                 /\ frames[c].depth \in Nat /\ frames[c].depth <= now
                                 /\ frames[c].image \in 1..now
      /\ judged.produced \in Nat /\ judged.produced < now
      /\ \A c \in Cameras : judged.last[c] \in Nat /\ judged.last[c] <= shown[c]
  <2>1. \A c \in Shot(frames) :
          /\ c \in Cameras /\ shown[c] < frames[c].depth /\ frames[c].depth \in Nat
          /\ frames[c].depth <= now /\ frames[c].image \in Nat /\ 1 <= frames[c].image
          /\ frames[c].image <= frames[c].depth
    BY <1>3 DEF BatchOK, FrameOK, Shot
  <2>2. /\ judged.produced \in Nat /\ judged.produced <= batch.produced
        /\ \A c \in Cameras : judged.last[c] \in Nat /\ judged.last[c] <= shown[c]
    BY <1>2 DEF JudgedInv
  <2>3. \A c \in Shot(frames) : judged.last[c] < frames[c].depth
    BY <1>5, <2>1, <2>2
  <2>4. \A c \in Shot(frames) : frames[c].image \in 1..now
    BY <1>5, <2>1
  <2>5. judged.produced < now
    BY <1>5, <2>2
  <2> QED
    BY <2>1, <2>2, <2>3, <2>4, <2>5
<1>8. /\ batch'.frames = frames /\ batch'.produced = now
      /\ {c \in DOMAIN frames : frames[c] # NoFrame} = Shot(frames)
  BY <1>3, <1>5 DEF Shot
<1>9. judged' = Judge(judged, batch', NoFrame)
  BY <1>2 DEF WriteBatch
<1>10. judged' = [loads |-> /\ judged.loads /\ now > judged.produced
                            /\ \A c \in Shot(frames) :
                                 /\ frames[c].depth > judged.last[c]
                                 /\ frames[c].depth <= now /\ frames[c].image \in 1..now,
                  produced |-> now,
                  last |-> [c \in Cameras |-> IF c \in Shot(frames) THEN frames[c].depth
                                              ELSE judged.last[c]]]
  BY <1>3, <1>8, <1>9 DEF Judge
<1>11. JudgedInv'
  <2>1. judged'.loads /\ judged'.produced = now
    <3>1. /\ judged.loads /\ now > judged.produced
          /\ \A c \in Shot(frames) :
               /\ frames[c].depth > judged.last[c]
               /\ frames[c].depth <= now /\ frames[c].image \in 1..now
      <4>1. \A c \in Shot(frames) : judged.last[c] \in Nat
        BY <1>7 DEF Shot
      <4> QED
        BY <1>2, <1>5, <1>7, <4>1 DEF JudgedInv
    <3> QED
      BY <1>10, <3>1
  <2>2. judged'.last = [c \in Cameras |-> IF c \in Shot(frames) THEN frames[c].depth
                                          ELSE judged.last[c]]
    BY <1>10
  <2>3. \A c \in Cameras : judged'.last[c] \in Nat /\ judged'.last[c] <= shown'[c]
    <3> TAKE c \in Cameras
    <3>1. CASE c \in Shot(frames)
      BY <1>4, <1>5, <1>7, <2>2, <3>1
    <3>2. CASE c \notin Shot(frames)
      BY <1>4, <1>5, <1>7, <2>2, <3>2
    <3> QED
      BY <3>1, <3>2
  <2>4. judged'.last \in [Cameras -> Nat]
    <3>1. judged'.last = [c \in Cameras |-> judged'.last[c]]
      BY <2>2
    <3> QED
      BY <2>3, <3>1
  <2> QED
    BY <1>4, <1>5, <2>1, <2>3, <2>4 DEF JudgedInv
<1>12. WriterInv'
  <2>1. /\ writer = "writing" /\ listed < MaxBatches /\ listed' = listed + 1
        /\ writer' = writer /\ manifest' = manifest
        /\ files' = WithFiles(files, batch', NoFrame)
        /\ written' = WithFiles(written, batch', NoFrame)
        /\ named' = WithFiles(named, batch', NoFrame)
    BY <1>2 DEF WriteBatch
  <2>2. listed + 1 \in 1..MaxBatches
    BY <1>2, <2>1, SceneAssumption DEF WriterInv
  <2>3. files' \subseteq 1..MaxBatches /\ listed' \in 0..MaxBatches
    <3>1. files \subseteq 1..MaxBatches
      BY <1>2 DEF WriterInv
    <3>2. files' \subseteq 1..MaxBatches
      <4>1. files' \subseteq files \union {listed + 1}
        BY <2>1 DEF WithFiles
      <4> QED
        BY <2>2, <3>1, <4>1
    <3>3. listed' \in 0..MaxBatches
      BY <2>1, <2>2
    <3> QED
      BY <3>2, <3>3
  <2>4. named' \subseteq written' /\ written' \subseteq files'
    <3>1. named \subseteq written /\ written \subseteq files
      BY <1>2 DEF WriterInv
    <3> QED
      BY <2>1, <3>1 DEF WithFiles
  <2> QED
    BY <1>2, <2>1, <2>3, <2>4 DEF WriterInv
<1>13. PacketInv'
  BY <1>2 DEF PacketInv
<1> QED
  BY <1>4, <1>6, <1>11, <1>12, <1>13 DEF Safe

\* The other steps of write_recording.
LEMMA RecordSafe ==
    ASSUME Safe, Record
    PROVE  Safe'
<1>1. /\ SourceInv /\ MapInv /\ JudgedInv /\ WriterInv /\ PacketInv
      /\ UNCHANGED <<now, shown, batch, consumer, retention, map, outcome, packet>>
  BY DEF Safe, Record, sourceVars
<1>2. SourceInv' /\ MapInv' /\ PacketInv'
  BY <1>1 DEF SourceInv, MapInv, PacketInv, Shot, NoFrame
<1>3. CASE StartWriting(Cameras)
  <2>1. /\ writer' = "writing" /\ listed' = 0 /\ manifest # "saved"
        /\ judged' = NothingJudged(Cameras) /\ written' = {} /\ named' = {}
        /\ UNCHANGED <<files, manifest>>
    BY <1>3 DEF StartWriting
  <2>2. /\ judged'.loads /\ judged'.produced = 0
        /\ judged'.last = [c \in Cameras |-> 0]
    BY <2>1 DEF NothingJudged
  <2>3. JudgedInv'
    <3>1. /\ judged'.last \in [Cameras -> Nat]
          /\ \A c \in Cameras : judged'.last[c] = 0 /\ shown'[c] \in Nat
          /\ batch'.produced \in Nat
      BY <1>2, <2>2 DEF SourceInv
    <3> QED
      BY <2>2, <3>1 DEF JudgedInv
  <2>4. WriterInv'
    BY <1>1, <2>1, SceneAssumption DEF WriterInv
  <2> QED
    BY <1>2, <2>3, <2>4 DEF Safe
<1>4. CASE WriteFails \/ WriteManifest \/ ManifestFails \/ ExposeManifest
            \/ Abandon("raised") \/ Abandon("killed")
  <2>1. UNCHANGED <<written, named, listed, size, judged>>
    BY <1>4 DEF WriteFails, WriteManifest, ManifestFails, ExposeManifest, Abandon
  <2>5. \/ files' = files
        \/ listed < MaxBatches /\ files' = files \union {listed + 1}
    BY <1>4 DEF WriteFails, WriteManifest, ManifestFails, ExposeManifest, Abandon
  <2>6. files' \subseteq 1..MaxBatches /\ files \subseteq files'
    <3>1. files \subseteq 1..MaxBatches /\ listed \in 0..MaxBatches
      BY <1>1 DEF WriterInv
    <3>2. listed < MaxBatches => listed + 1 \in 1..MaxBatches
      BY <3>1, SceneAssumption
    <3> QED
      BY <2>5, <3>1, <3>2
  <2>2. JudgedInv'
    BY <1>1, <2>1 DEF JudgedInv
  <2>3. /\ writer' = "exposing" => size <= MaxManifestSize
        /\ manifest' = "saved" => /\ writer' \notin {"writing", "exposing"}
                                  /\ listed >= 1 /\ size <= MaxManifestSize
    <3>1. /\ listed \in Nat /\ (writer = "exposing" => size <= MaxManifestSize)
          /\ manifest = "saved" => /\ writer \notin {"writing", "exposing"}
                                   /\ listed >= 1 /\ size <= MaxManifestSize
      BY <1>1 DEF WriterInv
    <3>2. CASE WriteFails \/ ManifestFails
      BY <3>1, <3>2 DEF WriteFails, ManifestFails
    <3>3. CASE WriteManifest
      BY <3>1, <3>3 DEF WriteManifest
    <3>4. CASE ExposeManifest
      BY <3>1, <3>4 DEF ExposeManifest
    <3>5. CASE Abandon("raised") \/ Abandon("killed")
      BY <3>1, <3>5 DEF Abandon
    <3> QED
      BY <1>4, <3>2, <3>3, <3>4, <3>5
  <2>4. WriterInv'
    BY <1>1, <2>1, <2>3, <2>6 DEF WriterInv
  <2> QED
    BY <1>2, <2>2, <2>4 DEF Safe
<1> QED
  BY <1>3, <1>4 DEF Record

\* A new map is one.
LEMMA NewMapSound == MapOK(NewMap)
<1>1. /\ NoAnchors \in [Cameras -> Views \union {NoAnchor}]
      /\ \A c \in Cameras : NoAnchors[c] = NoAnchor
      /\ [c \in Cameras |-> 0] \in [Cameras -> Nat]
  BY DEF NoAnchors
<1>2. /\ NewMap \in Maps /\ NewMap.anchors = NoAnchors /\ NewMap.retained = {}
      /\ NewMap.tracked
  BY <1>1 DEF NewMap, Maps
<1>3. IsFiniteSet({}) /\ Cardinality({}) <= MaxKeyframes
  BY FS_EmptySet, SceneAssumption
<1> QED
  BY <1>1, <1>2, <1>3 DEF MapOK

\* Nothing has happened in the beginning.
LEMMA InitSafe ==
    ASSUME RetainedInit
    PROVE  Safe
<1>1. /\ now = 1 /\ shown = [c \in Cameras |-> 0]
      /\ batch = [frames |-> NoFrames, tracking |-> TRUE, produced |-> 0]
      /\ consumer \in {"stream", "record"} /\ retention \in BOOLEAN /\ map = NewMap
      /\ outcome = "none" /\ writer = "off" /\ files = {} /\ listed = 0 /\ size = 0
      /\ written = {} /\ named = {} /\ packet = Sent({}, {})
      /\ judged = NothingJudged(Cameras) /\ manifest = "none"
  BY DEF RetainedInit, SourceInit, RecordingInit
<1>2. SourceInv
  <2>1. /\ batch.produced = 0 /\ batch.tracking = TRUE /\ batch.frames = NoFrames
        /\ \A c \in Cameras : batch.frames[c] = NoFrame
    BY <1>1 DEF NoFrames
  <2>2. Shot(batch.frames) = {}
    BY <2>1 DEF Shot
  <2> QED
    BY <1>1, <2>1, <2>2 DEF SourceInv, NoFrames
<1>3. MapInv
  <2>1. map.produced = 0 /\ \A c \in Cameras : map.latest[c] = 0 /\ shown[c] = 0
    BY <1>1 DEF NewMap
  <2>2. batch.produced = 0
    BY <1>1
  <2> QED
    BY <1>1, <2>1, <2>2, NewMapSound DEF MapInv
<1>4. JudgedInv
  <2>1. /\ judged.loads = TRUE /\ judged.produced = 0
        /\ judged.last = [c \in Cameras |-> 0] /\ batch.produced = 0
    BY <1>1 DEF NothingJudged
  <2> QED
    BY <1>1, <2>1 DEF JudgedInv
<1>5. WriterInv
  BY <1>1, SceneAssumption DEF WriterInv
<1>6. PacketInv
  BY <1>1 DEF PacketInv, PacketOK, Sent
<1> QED
  BY <1>2, <1>3, <1>4, <1>5, <1>6 DEF Safe

\* A step that changes nothing.
LEMMA StutterSafe ==
    ASSUME Safe, UNCHANGED vars
    PROVE  Safe'
<1>1. /\ SourceInv /\ MapInv /\ JudgedInv /\ WriterInv /\ PacketInv
      /\ UNCHANGED <<now, shown, batch, writer, files, written, named, listed, size, judged,
                     manifest, consumer, retention, map, outcome, packet>>
  BY DEF Safe, vars, sourceVars, recordingVars
<1> QED
  BY <1>1 DEF Safe, SourceInv, MapInv, JudgedInv, WriterInv, PacketInv, Shot, NoFrame

\* The invariant holds whatever source, map and recorder do.
LEMMA RetainedSafe == RetainedSpec => []Safe
<1>1. RetainedInit => Safe
  BY InitSafe
<1>2. Safe /\ [RetainedNext]_vars => Safe'
  BY StreamSafe, ClearSafe, WaitSafe, RecordBatchSafe, RecordSafe, StutterSafe
     DEF RetainedNext
<1> QED
  BY <1>1, <1>2, PTL DEF RetainedSpec

-------------------------------------------------------------------------------
(***************************************************************************)
(* The theorems                                                            *)
(***************************************************************************)
\* What the map stores was seen in this generation, and not after now.
LEMMA StoredSeen ==
    ASSUME Safe, NEW v \in Stored(map)
    PROVE  /\ v \in Views /\ v.born = map.generation /\ v.depth <= map.latest[v.camera]
           /\ v.image <= now
<1>1. MapOK(map) /\ SourceInv /\ MapInv
  BY DEF Safe, MapInv
<1>2. Seen(v, map)
  BY <1>1 DEF Stored, Anchors, MapOK
<1>3. /\ v.image \in Nat /\ v.depth \in Nat /\ v.camera \in Cameras
      /\ map.latest[v.camera] \in Nat /\ shown[v.camera] \in Nat
      /\ batch.produced \in Nat /\ now \in Nat
  BY <1>1, <1>2 DEF Seen, Views, MapOK, Maps, SourceInv
<1>4. /\ v.image <= v.depth /\ v.depth <= map.latest[v.camera]
      /\ map.latest[v.camera] <= shown[v.camera] /\ shown[v.camera] <= batch.produced
      /\ batch.produced <= now
  BY <1>1, <1>2, <1>3 DEF Seen, MapInv, SourceInv
<1> QED
  BY <1>2, <1>3, <1>4 DEF Seen

\* build_rgb_batch takes whatever a frame source delivers: the map never refuses it,
\* the packet is valid before the update and after it, the map stays within its budget,
\* and what write_recording has listed can be replayed (RetainedInv).
THEOREM BatchesAreTaken == RetainedSpec => []RetainedInv
<1>1. ASSUME Safe PROVE RetainedInv
  <2>1. SourceInv /\ MapInv /\ JudgedInv /\ WriterInv /\ MapOK(map)
    BY <1>1 DEF Safe, MapInv
  <2>2. /\ consumer \in {"stream", "record"} /\ outcome \in {"none", "published"}
        /\ Cardinality(map.retained) <= MaxKeyframes
        /\ \A c \in Cameras : map.anchors[c] # NoAnchor => map.anchors[c].camera = c
        /\ files \subseteq 1..MaxBatches /\ listed <= MaxBatches
    BY <2>1, SceneAssumption DEF MapInv, MapOK, WriterInv
  <2>3. \A v \in Stored(map) : v.depth <= map.latest[v.camera] /\ v.image <= now
    BY <1>1, StoredSeen
  <2>4. RetainedTypeOK /\ BatchNeverFails
    BY <2>2, <2>3 DEF RetainedTypeOK, BatchNeverFails
  <2>5. RecordingLoads
    BY <2>1, SceneAssumption DEF RecordingLoads, JudgedInv, WriterInv
  <2> QED
    BY <2>4, <2>5 DEF RetainedInv
<1> QED
  BY <1>1, RetainedSafe, PTL

\* Nothing that was seen before a clear, or before tracking was lost, is ever shown
\* after it (RetainedObservationMap.clear).
THEOREM ClearForgets == RetainedSpec => []NothingFromBeforeTheClear
<1>1. ASSUME Safe PROVE NothingFromBeforeTheClear
  BY <1>1, StoredSeen DEF NothingFromBeforeTheClear
<1> QED
  BY <1>1, RetainedSafe, PTL

\* A headset that drops what it shows by age, however long nothing arrives, drops no color
\* before the gray geometry that was left out under it (_prioritize_color): the color is a
\* keyframe of the packet, kept by the budget and the carving, and at least as young.
THEOREM ColorOutlivesGray == RetainedSpec => []NoExpiryHole
<1>1. ASSUME Safe, NEW v \in packet.current \union packet.keyframes,
             NEW t \in now .. now + Retention, v.under # NoKey, Alive(v, t)
      PROVE  \E color \in packet.keyframes :
               Key(color) = v.under /\ Colored(color) /\ color.solid /\ Alive(color, t)
  <2>1. PICK color \in packet.keyframes :
          /\ Key(color) = v.under /\ Colored(color) /\ color.solid
          /\ Stamp(v) \in Nat /\ Stamp(color) \in Nat /\ Stamp(color) >= Stamp(v)
    BY <1>1 DEF Safe, PacketInv, PacketOK
  <2>2. t \in Int /\ t - Stamp(v) <= Retention /\ Retention \in Nat
    BY <1>1, SceneAssumption DEF Safe, SourceInv, Alive
  <2>3. t - Stamp(color) <= Retention
    BY <2>1, <2>2
  <2> QED
    BY <2>1, <2>3 DEF Alive
<1>2. ASSUME Safe PROVE NoExpiryHole
  BY <1>1, <1>2 DEF NoExpiryHole
<1> QED
  BY <1>2, RetainedSafe, PTL

(***************************************************************************)
(* The room: the record                                                    *)
(***************************************************************************)
Acquired == {"SelectRoom", "Build", "Complete"}
Acquiring == {"Rooms", "Members"} \union Acquired

\* What the query of a record may be.
QueryOK(r) ==
  /\ r.query.id = 0 => ~r.query.got /\ ~r.query.stale /\ ~r.query.timedOut
  /\ r.query.id # 0 => r.scan = 0 /\ r.query.kind \in QueryKinds

\* The part of the inductive invariant that is about RoomScene alone.
Sound(r) ==
  /\ QueryOK(r)
  /\ r.latch <=> r.state = "NeedsRefresh"
  /\ r.query.id # 0 /\ ~r.query.stale => r.state \in {"Rooms", "Members"}
  /\ r.query.got => ~r.query.stale /\ r.query.kind \in r.owned
  /\ r.uses \subseteq r.owned
  /\ r.surfaces > 0 => "members" \in r.uses
  /\ r.surfaces <= MaxSurfaces
  /\ r.state \notin Acquiring => r.owned = {} /\ r.surfaces = 0
  /\ r.state \in Acquiring => r.supported
  /\ r.state \in Acquired \union {"NeedsRefresh"} => r.query.id = 0
  /\ r.state \in Acquiring \union {"NeedsRefresh"} => r.scan = 0 /\ ~r.scanWanted
  /\ r.state = "Complete" =>
       /\ r.surfaces > 0 /\ r.owned = {"members"} /\ r.snapshot.enabled
       /\ r.snapshot.placed # {} /\ \A p \in r.snapshot.placed : r.frame = {p.world}

\* An announced change of STAGE lies ahead of no acquisition.
Calm(r) == r.state \in Acquiring => r.changeTime = 0

SameRequests(r, s) == s.query.id = r.query.id /\ s.scan = r.scan
SameUser(r, s) ==
  s.enabled = r.enabled /\ s.supported = r.supported /\ s.changeTime = r.changeTime
Newer(r, s) == s.snapshot = r.snapshot \/ s.snapshot.revision > r.snapshot.revision

\* The acquisition is over, and what was lost stays lost.
Halts(r, s, t) ==
  /\ s \in Rooms /\ Sound(s) /\ s.state \notin Acquiring
  /\ SameRequests(r, s) /\ SameUser(r, s) /\ Newer(r, s)
  /\ Lost(r, t) => s.latch /\ s.snapshot = r.snapshot

LEMMA NoQueryIsQuery == NoQuery \in Queries
  BY DEF NoQuery, Queries

LEMMA StampsType == NoStamps \in [1..MaxSurfaces -> Nat]
  BY DEF NoStamps

LEMMA ReleaseType == ASSUME NEW r \in Rooms PROVE ReleaseSpaces(r) \in Rooms
  BY StampsType, Zenon DEF ReleaseSpaces, Rooms

\* A cleared record keeps nothing of what it had acquired.
LEMMA ClearFacts ==
  ASSUME NEW r \in Rooms, QueryOK(r)
  PROVE  LET s == ClearRoom(r)
         IN  /\ s \in Rooms /\ SameRequests(r, s) /\ SameUser(r, s) /\ QueryOK(s)
             /\ s.owned = {} /\ s.uses = {} /\ s.surfaces = 0 /\ s.frame = {}
             /\ ~s.query.got /\ (s.query.id # 0 => s.query.stale)
             /\ s.latch = r.latch /\ s.scanWanted = r.scanWanted /\ s.state = r.state
             /\ s.snapshot.revision = r.snapshot.revision + 1
             /\ s.tracked = r.tracked /\ s.permission = r.permission
             /\ s.query.timedOut = r.query.timedOut
<1> DEFINE s == ClearRoom(r)
<1>1. Retired(r.query) \in Queries
  BY DEF Retired, Queries, Rooms
<1>2. [revision |-> r.snapshot.revision + 1, enabled |-> FALSE, placed |-> {}] \in RoomSnapshots
  BY DEF Rooms, RoomSnapshots
<1>3. ReleaseSpaces(r) \in Rooms
  BY ReleaseType
<1>7. ReleaseSpaces(r).query = r.query /\ ReleaseSpaces(r).snapshot = r.snapshot
  BY DEF ReleaseSpaces, Rooms
<1>4. s \in Rooms
  BY <1>1, <1>2, <1>3, <1>7, Zenon DEF ClearRoom, Rooms
<1>5. /\ s.query = Retired(r.query) /\ s.snapshot.revision = r.snapshot.revision + 1
      /\ s.owned = {} /\ s.uses = {} /\ s.surfaces = 0 /\ s.frame = {}
      /\ s.latch = r.latch /\ s.scanWanted = r.scanWanted /\ s.state = r.state
      /\ s.tracked = r.tracked /\ s.permission = r.permission
      /\ s.scan = r.scan /\ SameUser(r, s)
  BY DEF ClearRoom, ReleaseSpaces, Rooms, SameUser
<1>6. /\ Retired(r.query).id = r.query.id /\ ~Retired(r.query).got
      /\ Retired(r.query).id # 0 => Retired(r.query).stale
      /\ Retired(r.query).id = 0 => ~Retired(r.query).stale /\ ~Retired(r.query).timedOut
      /\ Retired(r.query).kind = r.query.kind /\ Retired(r.query).timedOut = r.query.timedOut
  BY DEF Retired, Queries, Rooms, QueryOK
<1> QED
  BY <1>4, <1>5, <1>6 DEF QueryOK, SameRequests

\* Another state for a cleared record.
LEMMA ClearedIsSound ==
  ASSUME NEW r \in Rooms, QueryOK(r), ~r.latch,
         NEW state \in {"Idle", "NeedRooms", "Failed", "Invalid"}
  PROVE  LET s == [ClearRoom(r) EXCEPT !.state = state]
         IN  /\ s \in Rooms /\ Sound(s) /\ s.state \notin Acquiring /\ ~s.latch
             /\ SameRequests(r, s) /\ SameUser(r, s)
             /\ s.snapshot.revision = r.snapshot.revision + 1
             /\ s.tracked = r.tracked /\ s.permission = r.permission
             /\ s.query.timedOut = r.query.timedOut
<1> DEFINE c == ClearRoom(r)
           s == [c EXCEPT !.state = state]
<1>1. /\ c \in Rooms /\ SameRequests(r, c) /\ SameUser(r, c) /\ QueryOK(c)
      /\ c.owned = {} /\ c.uses = {} /\ c.surfaces = 0
      /\ ~c.query.got /\ (c.query.id # 0 => c.query.stale)
      /\ ~c.latch /\ c.snapshot.revision = r.snapshot.revision + 1
      /\ c.tracked = r.tracked /\ c.permission = r.permission
      /\ c.query.timedOut = r.query.timedOut
  BY ClearFacts
<1> HIDE DEF c
<1>6. state \in RoomStates
  BY DEF RoomStates
<1>2. s \in Rooms
  BY <1>1, <1>6, Zenon DEF Rooms
<1>3. /\ s.state = state /\ s.query = c.query /\ s.scan = c.scan /\ s.latch = c.latch
      /\ s.owned = c.owned /\ s.uses = c.uses /\ s.surfaces = c.surfaces
      /\ s.snapshot = c.snapshot /\ s.enabled = c.enabled /\ s.supported = c.supported
      /\ s.changeTime = c.changeTime /\ s.tracked = c.tracked /\ s.permission = c.permission
  BY <1>1 DEF Rooms
<1>4. MaxSurfaces \in Nat
  BY RoomAssumption
<1>5. Sound(s)
  BY <1>1, <1>3, <1>4 DEF Sound, QueryOK, Acquiring, Acquired
<1> QED
  BY <1>1, <1>2, <1>3, <1>5 DEF SameRequests, SameUser, Acquiring, Acquired, c

LEMMA StartOverFacts ==
  ASSUME NEW r \in Rooms, QueryOK(r), ~r.latch
  PROVE  LET s == StartOver(r)
         IN  /\ s \in Rooms /\ Sound(s) /\ s.state \notin Acquiring /\ ~s.latch
             /\ SameRequests(r, s) /\ SameUser(r, s)
             /\ s.snapshot.revision = r.snapshot.revision + 1
             /\ s.tracked = r.tracked /\ s.permission = r.permission
             /\ s.query.timedOut = r.query.timedOut
<1>1. (IF r.enabled THEN "NeedRooms" ELSE "Idle") \in {"Idle", "NeedRooms", "Failed", "Invalid"}
  OBVIOUS
<1> QED
  BY <1>1, ClearedIsSound DEF StartOver

LEMMA ClearHalts ==
  ASSUME NEW r \in Rooms, Sound(r), NEW t \in Nat, ~Lost(r, t),
         NEW state \in {"Idle", "NeedRooms", "Failed", "Invalid"}
  PROVE  Halts(r, [ClearRoom(r) EXCEPT !.state = state], t)
<1>1. QueryOK(r) /\ ~r.latch /\ r.snapshot.revision \in Nat
  BY DEF Sound, Rooms, RoomSnapshots, Lost
<1> DEFINE s == [ClearRoom(r) EXCEPT !.state = state]
<1>2. /\ s \in Rooms /\ Sound(s) /\ s.state \notin Acquiring
      /\ SameRequests(r, s) /\ SameUser(r, s)
      /\ s.snapshot.revision = r.snapshot.revision + 1
  BY <1>1, ClearedIsSound
<1> HIDE DEF s
<1>3. Halts(r, s, t)
  BY <1>1, <1>2 DEF Halts, Newer
<1> QED
  BY <1>3 DEF s

\* What a frozen record has let go.
LEMMA FrozenFacts ==
  ASSUME NEW r \in Rooms, Sound(r), r.latch \/ r.state = "Complete", NEW t \in Nat,
         NEW frame \in SUBSET Worlds
  PROVE  /\ Halts(r, RequireRefresh(r), t)
         /\ r.latch => Halts(r, Frozen(r), t) /\ Halts(r, [Frozen(r) EXCEPT !.frame = frame], t)
<1> DEFINE q == ReleaseSpaces(r)
           a == RequireRefresh(r)
           b == Frozen(r)
           c == [b EXCEPT !.frame = frame]
<1>1. q \in Rooms
  BY ReleaseType
<1>2. /\ q.query = r.query /\ q.snapshot = r.snapshot /\ q.scan = r.scan
      /\ q.scanWanted = r.scanWanted /\ q.latch = r.latch /\ q.enabled = r.enabled
      /\ q.supported = r.supported /\ q.changeTime = r.changeTime
      /\ q.owned = {} /\ q.uses = {} /\ q.surfaces = 0
  BY DEF ReleaseSpaces, Rooms
<1>3. MaxSurfaces \in Nat
  BY RoomAssumption
<1>8. "NeedsRefresh" \in RoomStates
  BY DEF RoomStates
<1>4. r.query.id = 0 /\ r.scan = 0 /\ ~r.scanWanted /\ ~r.query.got /\ ~r.query.stale
  BY DEF Sound, QueryOK, Acquiring, Acquired
<1> DEFINE Good(s) ==
      /\ s \in Rooms /\ s.latch /\ s.state = "NeedsRefresh"
      /\ s.query = r.query /\ s.snapshot = r.snapshot /\ s.scan = r.scan
      /\ s.scanWanted = r.scanWanted /\ s.enabled = r.enabled
      /\ s.supported = r.supported /\ s.changeTime = r.changeTime
      /\ s.owned = {} /\ s.uses = {} /\ s.surfaces = 0
<1> HIDE DEF q
<1>5. Good(a)
  <2>1. a = [q EXCEPT !.latch = TRUE, !.state = "NeedsRefresh"]
    BY DEF RequireRefresh, q
  <2>2. a \in Rooms
    BY <1>1, <1>8, <2>1, Zenon DEF Rooms
  <2> HIDE DEF a
  <2>3. /\ a.latch /\ a.state = "NeedsRefresh"
        /\ a.query = q.query /\ a.snapshot = q.snapshot /\ a.scan = q.scan
        /\ a.scanWanted = q.scanWanted /\ a.enabled = q.enabled
        /\ a.supported = q.supported /\ a.changeTime = q.changeTime
        /\ a.owned = q.owned /\ a.uses = q.uses /\ a.surfaces = q.surfaces
    BY <1>1, <2>1 DEF Rooms
  <2> QED
    BY <1>2, <2>2, <2>3
<1>6. r.latch => Good(b) /\ Good(c)
  <2>1. b = [q EXCEPT !.state = "NeedsRefresh"]
    BY DEF Frozen, q
  <2>2. b \in Rooms
    BY <1>1, <1>8, <2>1, Zenon DEF Rooms
  <2> HIDE DEF b
  <2>6. /\ b.state = "NeedsRefresh" /\ b.latch = q.latch
        /\ b.query = q.query /\ b.snapshot = q.snapshot /\ b.scan = q.scan
        /\ b.scanWanted = q.scanWanted /\ b.enabled = q.enabled
        /\ b.supported = q.supported /\ b.changeTime = q.changeTime
        /\ b.owned = q.owned /\ b.uses = q.uses /\ b.surfaces = q.surfaces
    BY <1>1, <2>1 DEF Rooms
  <2>3. r.latch => Good(b)
    BY <1>2, <2>2, <2>6
  <2>4. c \in Rooms
    BY <2>2, Zenon DEF Rooms
  <2>5. r.latch => Good(c)
    BY <2>2, <2>3, <2>4 DEF Rooms
  <2> QED
    BY <2>3, <2>5
<1>7. ASSUME NEW s, Good(s) PROVE Halts(r, s, t)
  <2>1. Sound(s)
    BY <1>3, <1>4, <1>7 DEF Sound, QueryOK, Acquiring, Acquired
  <2> QED
    BY <1>7, <2>1 DEF Halts, SameRequests, SameUser, Newer, Acquiring, Acquired
<1> QED
  BY <1>5, <1>6, <1>7

\* An expired watch latches; anything else is left as it is.
LEMMA LatchFacts ==
  ASSUME NEW r \in Rooms, Sound(r), NEW t \in Nat
  PROVE  LET l == LatchExpired(r, t)
         IN  \/ l = r /\ (Lost(r, t) => r.latch)
             \/ Halts(r, l, t) /\ l.latch /\ r.state = "Complete" /\ l.snapshot = r.snapshot
                /\ l.tracked = r.tracked /\ l.permission = r.permission
<1>1. CASE r.state = "Complete" /\ ~MonitorFresh(r, t)
  <2>1. LatchExpired(r, t) = RequireRefresh(r)
    BY <1>1 DEF LatchExpired
  <2>2. /\ RequireRefresh(r).latch /\ RequireRefresh(r).snapshot = r.snapshot
        /\ RequireRefresh(r).tracked = r.tracked /\ RequireRefresh(r).permission = r.permission
    BY DEF RequireRefresh, ReleaseSpaces, Rooms
  <2> QED
    BY <1>1, <2>1, <2>2, FrozenFacts DEF Rooms
<1>2. CASE ~(r.state = "Complete" /\ ~MonitorFresh(r, t))
  BY <1>2 DEF LatchExpired, Lost
<1> QED
  BY <1>1, <1>2

\* What halts after a latch halts before it.
LEMMA HaltsAfter ==
  ASSUME NEW r \in Rooms, NEW l \in Rooms, NEW s \in Rooms, NEW t \in Nat,
         l.latch, Halts(r, l, t), Halts(l, s, t)
  PROVE  Halts(r, s, t)
<1>1. SameRequests(r, s) /\ SameUser(r, s)
  BY DEF Halts, SameRequests, SameUser
<1>2. s.snapshot = l.snapshot /\ s.latch
  BY DEF Halts, Lost
<1>3. Newer(r, s)
  BY <1>2 DEF Halts, Newer
<1> QED
  BY <1>1, <1>2, <1>3 DEF Halts

LEMMA FailFacts ==
  ASSUME NEW r \in Rooms, Sound(r), NEW t \in Nat
  PROVE  Halts(r, FailRoom(r, t), t)
<1> DEFINE l == LatchExpired(r, t)
<1>1. \/ l = r /\ (Lost(r, t) => r.latch)
      \/ Halts(r, l, t) /\ l.latch
  BY LatchFacts
<1>2. l \in Rooms /\ Sound(l)
  BY <1>1 DEF Halts
<1> HIDE DEF l
<1>3. CASE l.latch
  <2>1. Halts(l, Frozen(l), t)
    BY <1>2, <1>3, FrozenFacts
  <2>2. FailRoom(r, t) = Frozen(l)
    BY <1>3 DEF FailRoom, l
  <2> QED
    BY <1>1, <1>2, <1>3, <2>1, <2>2, HaltsAfter DEF Halts
<1>4. CASE ~l.latch
  <2>1. l = r /\ ~Lost(r, t)
    BY <1>1, <1>4 DEF Lost
  <2>2. FailRoom(r, t) = [ClearRoom(r) EXCEPT !.state = "Failed"]
    BY <1>4, <2>1 DEF FailRoom, l
  <2>3. ("Failed") \in {"Idle", "NeedRooms", "Failed", "Invalid"}
    OBVIOUS
  <2> QED
    BY <2>1, <2>2, <2>3, ClearHalts
<1> QED
  BY <1>3, <1>4

LEMMA InvalidateFacts ==
  ASSUME NEW r \in Rooms, Sound(r), NEW t \in Nat
  PROVE  Halts(r, Invalidate(r, t), t)
<1> DEFINE l == LatchExpired(r, t)
<1>1. \/ l = r /\ (Lost(r, t) => r.latch)
      \/ Halts(r, l, t) /\ l.latch
  BY LatchFacts
<1>2. l \in Rooms /\ Sound(l)
  BY <1>1 DEF Halts
<1> HIDE DEF l
<1>3. CASE l.latch
  <2>1. Halts(l, [Frozen(l) EXCEPT !.frame = {}], t)
    BY <1>2, <1>3, FrozenFacts
  <2>2. Invalidate(r, t) = [Frozen(l) EXCEPT !.frame = {}]
    BY <1>3 DEF Invalidate, l
  <2>3. Halts(l, Invalidate(r, t), t) /\ Invalidate(r, t) \in Rooms
    BY <2>1, <2>2 DEF Halts
  <2>4. CASE l = r
    BY <2>3, <2>4
  <2>5. CASE Halts(r, l, t)
    BY <1>2, <1>3, <2>3, <2>5, HaltsAfter
  <2> QED
    BY <1>1, <2>4, <2>5
<1>4. CASE ~l.latch
  <2>1. l = r /\ ~Lost(r, t)
    BY <1>1, <1>4 DEF Lost
  <2>2. Invalidate(r, t) = [ClearRoom(r) EXCEPT !.state = IF r.enabled THEN "Invalid" ELSE "Idle"]
    BY <1>4, <2>1 DEF Invalidate, l
  <2>3. (IF r.enabled THEN "Invalid" ELSE "Idle") \in {"Idle", "NeedRooms", "Failed", "Invalid"}
    OBVIOUS
  <2> QED
    BY <2>1, <2>2, <2>3, ClearHalts
<1> QED
  BY <1>3, <1>4

LEMMA RefreshAutoFacts ==
  ASSUME NEW r \in Rooms, Sound(r), NEW t \in Nat
  PROVE  Halts(r, RefreshAuto(r, t), t)
<1> DEFINE l == LatchExpired(r, t)
<1>1. \/ l = r /\ (Lost(r, t) => r.latch)
      \/ Halts(r, l, t) /\ l.latch
  BY LatchFacts
<1> HIDE DEF l
<1>3. CASE l.latch
  <2>1. r.latch => r.state \notin Acquiring
    BY DEF Sound, Acquiring, Acquired
  <2>2. RefreshAuto(r, t) = l
    BY <1>3 DEF RefreshAuto, l
  <2> QED
    BY <1>1, <1>3, <2>1, <2>2 DEF Halts, SameRequests, SameUser, Newer
<1>4. CASE ~l.latch
  <2>1. l = r /\ ~Lost(r, t)
    BY <1>1, <1>4 DEF Lost
  <2>2. RefreshAuto(r, t) = StartOver(r)
    BY <1>4, <2>1 DEF RefreshAuto, l
  <2>3. (IF r.enabled THEN "NeedRooms" ELSE "Idle") \in {"Idle", "NeedRooms", "Failed", "Invalid"}
    OBVIOUS
  <2> QED
    BY <2>1, <2>2, <2>3, ClearHalts DEF StartOver
<1> QED
  BY <1>3, <1>4

(***************************************************************************)
(* The room: a frame                                                       *)
(***************************************************************************)
Observations ==
  [tracked : BOOLEAN, granted : BOOLEAN, world : Worlds, luck : {"good", "bad", "wait"},
   id : Nat \ {0}, astray : [1..MaxSurfaces -> Nat]]

\* The surfaces of a room that stays applied: a stamp is old, or new and true.
Upheld(r, s, x, t) ==
  /\ r.state = "Complete" /\ s.snapshot = r.snapshot /\ s.surfaces = r.surfaces
  /\ \A i \in 1..s.surfaces :
       s.monitors[i] = r.monitors[i] \/ (s.monitors[i] = t /\ x.astray[i] = 0)

Placed(r, s, x, t) ==
  /\ r.state = "Build" /\ s.snapshot.placed = {[at |-> t, world |-> x.world]}
  /\ \A i \in 1..s.surfaces : s.monitors[i] = t

Goes(r, s, x, t) ==
  /\ s \in Rooms /\ Sound(s) /\ Calm(s) /\ Newer(r, s)
  /\ Lost(r, t) => Lost(s, t) /\ s.snapshot = r.snapshot
  /\ s.enabled = r.enabled /\ s.supported = r.supported
  /\ s.changeTime = r.changeTime \/ (s.changeTime = 0 /\ r.changeTime <= t)
  /\ r.query.id # 0 => s.query.id = r.query.id
  /\ r.scan # 0 => s.scan = r.scan
  /\ s.state = "Complete" => Upheld(r, s, x, t) \/ Placed(r, s, x, t)

LEMMA HaltsGoes ==
  ASSUME NEW r, NEW s, NEW x, NEW t, Halts(r, s, t)
  PROVE  Goes(r, s, x, t)
  BY DEF Halts, Goes, Calm, SameRequests, SameUser, Acquiring, Acquired, Lost

LEMMA AskingType ==
  ASSUME NEW r \in Rooms, NEW id \in Nat, NEW kind \in QueryKinds, NEW t \in Nat,
         NEW state \in RoomStates
  PROVE  Asking(r, id, kind, t, state) \in Rooms
<1>1. NewQuery(id, kind, t) \in Queries
  BY DEF NewQuery, Queries
<1> QED
  BY <1>1 DEF Asking, Rooms

\* The rooms are asked for.
LEMMA AskRooms ==
  ASSUME NEW r \in Rooms, Sound(r), NEW x \in Observations, NEW t \in Nat,
         r.state = "NeedRooms", r.query.id = 0, r.scan = 0, ~r.scanWanted, r.supported,
         r.changeTime = 0
  PROVE  Goes(r, [Asking(r, x.id, "rooms", t, "Rooms") EXCEPT !.frame = {x.world}], x, t)
<1> DEFINE a == Asking(r, x.id, "rooms", t, "Rooms")
           s == [a EXCEPT !.frame = {x.world}]
<1>1. x.id \in Nat \ {0} /\ {x.world} \in SUBSET Worlds /\ "rooms" \in QueryKinds /\ "Rooms" \in RoomStates
  BY DEF Observations, QueryKinds, RoomStates
<1>8. a \in Rooms
  BY <1>1, AskingType
<1>2. /\ a.state = "Rooms"
      /\ a.query.id = x.id /\ a.query.kind = "rooms" /\ ~a.query.stale /\ ~a.query.got
      /\ a = [r EXCEPT !.query = a.query, !.state = "Rooms"]
  BY DEF Asking, NewQuery, Rooms
<1> HIDE DEF a
<1>3. s \in Rooms
  BY <1>1, <1>8, Zenon DEF Rooms
<1>11. /\ a.scan = r.scan /\ a.latch = r.latch
       /\ a.scanWanted = r.scanWanted /\ a.supported = r.supported /\ a.enabled = r.enabled
  BY DEF a, Asking, Rooms
<1>12. /\ a.owned = r.owned /\ a.uses = r.uses /\ a.surfaces = r.surfaces
       /\ a.snapshot = r.snapshot /\ a.changeTime = r.changeTime
  BY DEF a, Asking, Rooms
<1>10. /\ a.scan = r.scan /\ a.latch = r.latch
       /\ a.scanWanted = r.scanWanted /\ a.supported = r.supported /\ a.enabled = r.enabled
       /\ a.owned = r.owned /\ a.uses = r.uses /\ a.surfaces = r.surfaces
       /\ a.snapshot = r.snapshot /\ a.changeTime = r.changeTime
  BY <1>11, <1>12
<1>4. /\ s.query = a.query /\ s.state = "Rooms" /\ s.scan = r.scan /\ s.latch = r.latch
      /\ s.scanWanted = r.scanWanted /\ s.supported = r.supported /\ s.enabled = r.enabled
      /\ s.owned = r.owned /\ s.uses = r.uses /\ s.surfaces = r.surfaces
      /\ s.snapshot = r.snapshot /\ s.changeTime = r.changeTime
  BY <1>2, <1>8, <1>10 DEF Rooms
<1>5. r.surfaces = 0 /\ r.owned = {} /\ ~r.latch /\ r.uses \subseteq r.owned /\ MaxSurfaces \in Nat
  BY RoomAssumption DEF Sound, Acquiring, Acquired
<1>9. QueryOK(s) /\ s.query.id # 0
  BY <1>1, <1>2, <1>4 DEF QueryOK
<1>6. Sound(s)
  BY <1>2, <1>4, <1>5, <1>9 DEF Sound, Acquiring, Acquired
<1> HIDE DEF s
<1>7. Goes(r, s, x, t)
  BY <1>3, <1>4, <1>5, <1>6 DEF Goes, Calm, Newer, Lost
<1> QED
  BY <1>7 DEF a, s

\* The members of the chosen room are asked for.
LEMMA AskMembers ==
  ASSUME NEW r \in Rooms, Sound(r), NEW x \in Observations, NEW t \in Nat,
         r.state = "SelectRoom", r.changeTime = 0
  PROVE  Goes(r, Asking(r, x.id, "members", t, "Members"), x, t)
<1> DEFINE s == Asking(r, x.id, "members", t, "Members")
<1>1. x.id \in Nat \ {0} /\ "members" \in QueryKinds /\ "Members" \in RoomStates
  BY DEF Observations, QueryKinds, RoomStates
<1>8. s \in Rooms
  BY <1>1, AskingType
<1>2. /\ s.state = "Members"
      /\ s.query.id = x.id /\ s.query.kind = "members" /\ ~s.query.stale /\ ~s.query.got
      /\ s = [r EXCEPT !.query = s.query, !.state = "Members"]
  BY DEF Asking, NewQuery, Rooms
<1> HIDE DEF s
<1>4. /\ s.scan = r.scan /\ s.latch = r.latch
      /\ s.scanWanted = r.scanWanted /\ s.supported = r.supported /\ s.enabled = r.enabled
      /\ s.owned = r.owned /\ s.uses = r.uses /\ s.surfaces = r.surfaces
      /\ s.snapshot = r.snapshot /\ s.changeTime = r.changeTime
  BY <1>2 DEF Rooms
<1>5. /\ r.query.id = 0 /\ r.scan = 0 /\ ~r.scanWanted /\ r.supported /\ ~r.latch
      /\ r.uses \subseteq r.owned /\ (r.surfaces > 0 => "members" \in r.uses)
      /\ r.surfaces <= MaxSurfaces
  BY DEF Sound, Acquiring, Acquired
<1>9. QueryOK(s) /\ s.query.id # 0
  BY <1>1, <1>2, <1>4, <1>5 DEF QueryOK
<1>6. Sound(s)
  BY <1>2, <1>4, <1>5, <1>9 DEF Sound, Acquiring, Acquired
<1>7. Goes(r, s, x, t)
  BY <1>2, <1>4, <1>5, <1>6, <1>8 DEF Goes, Calm, Newer, Lost
<1> QED
  BY <1>7 DEF s

\* The surfaces are placed, or the room fails.
LEMMA BuildGoes ==
  ASSUME NEW r \in Rooms, Sound(r), NEW x \in Observations, NEW t \in Nat,
         r.state = "Build", r.changeTime = 0
  PROVE  LET s == BuildRoom(r, x, t)
         IN  Goes(r, s, x, t) /\ (s.state = "Complete" => s.frame = {x.world})
<1> DEFINE s == BuildRoom(r, x, t)
<1>1. CASE x.luck = "bad" \/ r.surfaces = 0
  <2>1. s = FailRoom(r, t)
    BY <1>1 DEF BuildRoom
  <2> QED
    BY <2>1, FailFacts, HaltsGoes DEF Halts, Acquiring, Acquired
<1>2. CASE ~(x.luck = "bad" \/ r.surfaces = 0) /\ x.luck = "wait"
  <2>1. s = r
    BY <1>2 DEF BuildRoom
  <2> QED
    BY <2>1 DEF Goes, Calm, Newer, Lost, Sound
<1>3. CASE ~(x.luck = "bad" \/ r.surfaces = 0) /\ x.luck # "wait"
  <2> DEFINE snap == [revision |-> r.snapshot.revision + 1, enabled |-> TRUE,
                      placed |-> {[at |-> t, world |-> x.world]}]
             stamps == [i \in 1..MaxSurfaces |-> IF i <= r.surfaces THEN t ELSE 0]
             owned == r.owned \intersect {"members"}
             uses == r.uses \intersect {"members"}
  <2>1. snap \in RoomSnapshots /\ {x.world} \in SUBSET Worlds
    BY DEF RoomSnapshots, Placements, Observations, Rooms
  <2>2. stamps \in [1..MaxSurfaces -> Nat] /\ owned \in SUBSET QueryKinds /\ uses \in SUBSET QueryKinds
    BY DEF Rooms
  <2>3. /\ snap.placed = {[at |-> t, world |-> x.world]} /\ snap.enabled
        /\ snap.revision = r.snapshot.revision + 1 /\ r.snapshot.revision \in Nat
    BY DEF Rooms, RoomSnapshots
  <2>9. t + SweepInterval \in Nat
    BY RoomAssumption
  <2> HIDE DEF snap, stamps, owned, uses
  <2>4. s = [r EXCEPT !.snapshot = snap, !.frame = {x.world}, !.monitors = stamps, !.cursor = 0,
                      !.sweeping = FALSE, !.nextSweep = t + SweepInterval, !.locating = 0,
                      !.state = "Complete", !.owned = owned, !.uses = uses]
    BY <1>3 DEF BuildRoom, snap, stamps, owned, uses, Rooms
  <2> HIDE DEF s
  <2>15. "Complete" \in RoomStates
    BY DEF RoomStates
  <2>5. s \in Rooms
    BY <2>1, <2>2, <2>4, <2>9, <2>15, ZenonT(60) DEF Rooms
  <2>6. /\ s.snapshot = snap /\ s.frame = {x.world} /\ s.state = "Complete"
        /\ s.owned = owned /\ s.uses = uses /\ s.query = r.query /\ s.scan = r.scan
        /\ s.scanWanted = r.scanWanted /\ s.supported = r.supported /\ s.enabled = r.enabled
        /\ s.latch = r.latch /\ s.surfaces = r.surfaces /\ s.changeTime = r.changeTime
        /\ s.monitors = stamps
    BY <2>4 DEF Rooms
  <2>7. /\ r.query.id = 0 /\ r.scan = 0 /\ ~r.scanWanted /\ r.supported /\ ~r.latch
        /\ ~r.query.got /\ ~r.query.stale /\ r.surfaces <= MaxSurfaces
        /\ r.surfaces > 0 /\ owned = {"members"} /\ uses = {"members"}
    BY <1>3 DEF Sound, QueryOK, Acquiring, Acquired, Rooms, owned, uses
  <2>12. ASSUME NEW p \in snap.placed PROVE p.world = x.world
    BY <2>3
  <2>13. snap.placed # {}
    BY <2>3
  <2>11. s.snapshot.placed # {} /\ \A p \in s.snapshot.placed : s.frame = {p.world}
    BY <2>6, <2>12, <2>13
  <2>8. Sound(s)
    BY <2>3, <2>6, <2>7, <2>11 DEF Sound, QueryOK, Acquiring, Acquired
  <2>14. \A i \in 1..s.surfaces : s.monitors[i] = t
    <3>1. MaxSurfaces \in Nat /\ r.surfaces \in Nat
      BY RoomAssumption DEF Rooms
    <3> QED
      BY <2>6, <2>7, <3>1 DEF stamps
  <2>10. Goes(r, s, x, t)
    BY <2>3, <2>5, <2>6, <2>7, <2>8, <2>14 DEF Goes, Calm, Newer, Lost, Placed
  <2> QED
    BY <2>6, <2>10 DEF s
<1> QED
  BY <1>1, <1>2, <1>3

\* Nothing new is acquired.
Stays(r, m, x, t) ==
  /\ Goes(r, m, x, t)
  /\ m.state = "Build" => r.state = "Build"
  /\ m.state = "Complete" => Upheld(r, m, x, t)

\* The same to the acquisition.
Like(r, m, t) ==
  /\ m \in Rooms
  /\ m.state = r.state /\ m.latch = r.latch /\ m.frame = r.frame /\ m.snapshot = r.snapshot
  /\ m.owned = r.owned /\ m.uses = r.uses /\ m.surfaces = r.surfaces /\ m.monitors = r.monitors
  /\ m.enabled = r.enabled /\ m.supported = r.supported
  /\ SameRequests(r, m) /\ (m.scanWanted => r.scanWanted)
  /\ m.query.kind = r.query.kind /\ m.query.stale = r.query.stale /\ m.query.got = r.query.got
  /\ m.query.id = 0 => ~m.query.timedOut
  /\ m.changeTime = r.changeTime \/ (m.changeTime = 0 /\ r.changeTime <= t)

LEMMA LikeStays ==
  ASSUME NEW r \in Rooms, Sound(r), Calm(r), NEW m, NEW x, NEW t, Like(r, m, t)
  PROVE  Stays(r, m, x, t)
<1>1. Sound(m)
  BY DEF Like, Sound, QueryOK, SameRequests
<1>2. Calm(m)
  BY DEF Like, Calm
<1>3. m.state = "Complete" => Upheld(r, m, x, t)
  BY DEF Like, Upheld
<1>4. Lost(r, t) => Lost(m, t) /\ m.snapshot = r.snapshot
  BY DEF Like, Lost, MonitorFresh
<1> QED
  BY <1>1, <1>2, <1>3, <1>4 DEF Like, Stays, Goes, SameRequests, Newer

LEMMA HaltsStays ==
  ASSUME NEW r, NEW m, NEW x, NEW t, Halts(r, m, t)
  PROVE  Stays(r, m, x, t)
  BY HaltsGoes DEF Stays, Halts, Acquiring, Acquired

LEMMA NewerTwice ==
  ASSUME NEW r \in Rooms, NEW m \in Rooms, NEW s \in Rooms, Newer(r, m), Newer(m, s)
  PROVE  Newer(r, s)
<1>1. /\ r.snapshot.revision \in Nat /\ m.snapshot.revision \in Nat
      /\ s.snapshot.revision \in Nat
  BY DEF Rooms, RoomSnapshots
<1> QED
  BY <1>1 DEF Newer

LEMMA StaysGoes ==
  ASSUME NEW r \in Rooms, NEW m, NEW s, NEW x, NEW t \in Nat,
         Stays(r, m, x, t), Goes(m, s, x, t)
  PROVE  Goes(r, s, x, t)
<1>1. m \in Rooms /\ s \in Rooms /\ Newer(r, m) /\ Newer(m, s)
  BY DEF Stays, Goes
<1>2. Newer(r, s)
  BY <1>1, NewerTwice
<1>3. ASSUME s.state = "Complete" PROVE Upheld(r, s, x, t) \/ Placed(r, s, x, t)
  <2>1. CASE Upheld(m, s, x, t)
    <3>1. Upheld(r, m, x, t)
      BY <2>1 DEF Upheld, Stays
    <3> QED
      BY <2>1, <3>1 DEF Upheld
  <2>2. CASE Placed(m, s, x, t)
    BY <2>2 DEF Placed, Stays
  <2> QED
    BY <1>3, <2>1, <2>2 DEF Goes
<1>4. Lost(r, t) => Lost(s, t) /\ s.snapshot = r.snapshot
  BY DEF Stays, Goes
<1>5. s.changeTime = r.changeTime \/ (s.changeTime = 0 /\ r.changeTime <= t)
  BY DEF Stays, Goes
<1>6. /\ r.query.id # 0 => s.query.id = r.query.id
      /\ r.scan # 0 => s.scan = r.scan
  BY DEF Stays, Goes
<1> QED
  BY <1>1, <1>2, <1>3, <1>4, <1>5, <1>6 DEF Stays, Goes

LEMMA StaysTwice ==
  ASSUME NEW r \in Rooms, NEW m, NEW s, NEW x, NEW t \in Nat,
         Stays(r, m, x, t), Stays(m, s, x, t)
  PROVE  Stays(r, s, x, t)
<1>1. Goes(r, s, x, t)
  BY StaysGoes DEF Stays
<1>2. ASSUME s.state = "Complete" PROVE Upheld(r, s, x, t)
  BY <1>2 DEF Upheld, Stays
<1>3. s.state = "Build" => r.state = "Build"
  BY DEF Stays
<1> QED
  BY <1>1, <1>2, <1>3 DEF Stays

LEMMA GoesHalts ==
  ASSUME NEW r \in Rooms, NEW m, NEW s, NEW x, NEW t \in Nat,
         Goes(r, m, x, t), Halts(m, s, t)
  PROVE  Goes(r, s, x, t)
<1>1. Goes(m, s, x, t) /\ s.state # "Complete"
  BY HaltsGoes DEF Halts, Acquiring, Acquired
<1>2. m \in Rooms /\ s \in Rooms /\ Newer(r, m) /\ Newer(m, s)
  BY <1>1 DEF Goes
<1>3. Newer(r, s)
  BY <1>2, NewerTwice
<1>5. s.changeTime = r.changeTime \/ (s.changeTime = 0 /\ r.changeTime <= t)
  BY <1>1 DEF Goes
<1> QED
  BY <1>1, <1>3, <1>5 DEF Goes

\* The watch over the applied surfaces.
LEMMA MonitorGoes ==
  ASSUME NEW r \in Rooms, Sound(r), Calm(r), NEW x \in Observations, NEW t \in Nat,
         r.state = "Complete"
  PROVE  LET s == Monitor(r, x, t)
         IN  Goes(r, s, x, t) /\ (s.state = "Complete" => s.frame = r.frame)
<1> DEFINE s == Monitor(r, x, t)
<1>1. CASE ~MonitorFresh(r, t) \/ s = RequireRefresh(r)
  <2>1. s = RequireRefresh(r)
    BY <1>1 DEF Monitor
  <2> HIDE DEF s
  <2>2. Halts(r, s, t)
    BY <2>1, FrozenFacts DEF Rooms
  <2> QED
    BY <2>2, HaltsGoes DEF Halts, Acquiring, Acquired, s
<1>2. CASE s = r
  <2> HIDE DEF s
  <2>1. Goes(r, s, x, t)
    BY <1>2 DEF Goes, Upheld, Newer
  <2> QED
    BY <1>2, <2>1 DEF s
<1>3. CASE /\ MonitorFresh(r, t) /\ s # RequireRefresh(r) /\ s # r
  <2> DEFINE stamps == [i \in 1..MaxSurfaces |-> IF i \in Probed(r) THEN t ELSE r.monitors[i]]
             cursor == IF r.surfaces \in Probed(r) THEN r.surfaces
                       ELSE (IF r.sweeping THEN r.cursor ELSE 0) + ProbesPerUpdate
             sweeping == r.surfaces \notin Probed(r)
             next == IF r.sweeping THEN r.nextSweep ELSE t + SweepInterval
  <2>1. /\ s = [r EXCEPT !.monitors = stamps, !.cursor = cursor, !.sweeping = sweeping,
                          !.nextSweep = next]
        /\ \A i \in Probed(r) : x.astray[i] = 0
    BY <1>3 DEF Monitor, Rooms
  <2>9. /\ r.cursor \in Nat /\ r.nextSweep \in Nat /\ r.surfaces \in Nat
        /\ ProbesPerUpdate \in Nat /\ SweepInterval \in Nat
        /\ r.monitors \in [1..MaxSurfaces -> Nat]
    BY RoomAssumption DEF Rooms
  <2>10. t + SweepInterval \in Nat /\ r.cursor + ProbesPerUpdate \in Nat /\ 0 + ProbesPerUpdate \in Nat
    BY <2>9
  <2>11. stamps \in [1..MaxSurfaces -> Nat]
    BY <2>9
  <2>2. /\ stamps \in [1..MaxSurfaces -> Nat] /\ cursor \in Nat /\ sweeping \in BOOLEAN
        /\ next \in Nat
    BY <2>9, <2>10, <2>11
  <2>3. \A i \in 1..MaxSurfaces : stamps[i] = r.monitors[i] \/ (stamps[i] = t /\ x.astray[i] = 0)
    BY <2>1
  <2> HIDE DEF s, stamps, cursor, sweeping, next
  <2>4. /\ s \in Rooms
        /\ s.state = r.state /\ s.latch = r.latch /\ s.frame = r.frame /\ s.snapshot = r.snapshot
        /\ s.owned = r.owned /\ s.uses = r.uses /\ s.surfaces = r.surfaces /\ s.monitors = stamps
        /\ s.enabled = r.enabled /\ s.supported = r.supported /\ s.query = r.query
        /\ s.scan = r.scan /\ s.scanWanted = r.scanWanted /\ s.changeTime = r.changeTime
    BY <2>1, <2>2 DEF Rooms
  <2>5. Sound(s) /\ Calm(s)
    BY <2>4 DEF Sound, QueryOK, Calm
  <2>6. ~Lost(r, t)
    BY <1>3 DEF Lost, Sound
  <2>7. Upheld(r, s, x, t)
    <3>1. r.surfaces <= MaxSurfaces /\ r.surfaces \in Nat /\ MaxSurfaces \in Nat
      BY RoomAssumption DEF Sound, Rooms
    <3>2. 1..r.surfaces \subseteq 1..MaxSurfaces
      BY <3>1
    <3> QED
      BY <2>3, <2>4, <3>2 DEF Upheld
  <2>8. Goes(r, s, x, t)
    BY <2>4, <2>5, <2>6, <2>7 DEF Goes, Newer
  <2> QED
    BY <2>4, <2>8 DEF s
<1> QED
  BY <1>1, <1>2, <1>3

LEMMA SelfGoes ==
  ASSUME NEW r \in Rooms, Sound(r), Calm(r), NEW x, NEW t
  PROVE  Stays(r, r, x, t)
  BY DEF Stays, Goes, Upheld, Newer

LEMMA StateStepGoes ==
  ASSUME NEW r \in Rooms, Sound(r), NEW x \in Observations, NEW t \in Nat,
         r.scan = 0, ~r.scanWanted, r.supported, r.changeTime = 0
  PROVE  LET s == StateStep(r, x, t)
         IN  Goes(r, s, x, t) /\ (s.state = "Complete" => s.frame \in {r.frame, {x.world}})
<1> DEFINE s == StateStep(r, x, t)
           P(z) == Goes(r, z, x, t) /\ (z.state = "Complete" => z.frame \in {r.frame, {x.world}})
<1>1. ASSUME NEW z, Halts(r, z, t) PROVE P(z)
  BY <1>1, HaltsGoes DEF Halts, Acquiring, Acquired
<1>2. Calm(r)
  BY DEF Calm
<1>3. CASE r.state = "NeedRooms" /\ r.query.id = 0
  <2>1. CASE x.luck = "bad"
    <3>1. s = FailRoom(r, t)
      BY <1>3, <2>1 DEF StateStep
    <3> QED
      BY <1>1, <3>1, FailFacts
  <2>2. CASE x.luck # "bad"
    <3> DEFINE a == Asking(r, x.id, "rooms", t, "Rooms")
               z == [a EXCEPT !.frame = {x.world}]
    <3>1. s = z
      BY <1>3, <2>2 DEF StateStep
    <3>2. Goes(r, z, x, t)
      BY <1>3, AskRooms
    <3>3. z.state = "Rooms"
      BY DEF Asking, Rooms
    <3> QED
      BY <3>1, <3>2, <3>3
  <2> QED
    BY <2>1, <2>2
<1>4. CASE r.state = "SelectRoom"
  <2>1. s = SelectRoom(r, x, t)
    BY <1>4 DEF StateStep
  <2>2. CASE x.luck = "wait"
    <3>1. s = r
      BY <2>1, <2>2 DEF SelectRoom
    <3> QED
      BY <1>2, <3>1, SelfGoes DEF Stays
  <2>3. CASE x.luck = "bad"
    <3>1. s = FailRoom(r, t)
      BY <2>1, <2>3 DEF SelectRoom
    <3> QED
      BY <1>1, <3>1, FailFacts
  <2>4. CASE x.luck = "good"
    <3>1. s = Asking(r, x.id, "members", t, "Members")
      BY <2>1, <2>4 DEF SelectRoom
    <3>2. Goes(r, Asking(r, x.id, "members", t, "Members"), x, t)
      BY <1>4, AskMembers
    <3>3. Asking(r, x.id, "members", t, "Members").state = "Members"
      BY DEF Asking, Rooms
    <3> QED
      BY <3>1, <3>2, <3>3
  <2>5. x.luck \in {"good", "bad", "wait"}
    BY DEF Observations
  <2> QED
    BY <2>2, <2>3, <2>4, <2>5
<1>5. CASE r.state = "Build"
  <2>1. s = BuildRoom(r, x, t)
    BY <1>5 DEF StateStep
  <2> QED
    BY <1>5, <2>1, BuildGoes
<1>6. CASE r.state = "Complete"
  <2>1. s = Monitor(r, x, t)
    BY <1>6 DEF StateStep
  <2> QED
    BY <1>2, <1>6, <2>1, MonitorGoes
<1>7. CASE /\ ~(r.state = "NeedRooms" /\ r.query.id = 0)
           /\ r.state \notin {"SelectRoom", "Build", "Complete"}
  <2>1. s = r
    BY <1>7 DEF StateStep
  <2> QED
    BY <1>2, <2>1, SelfGoes DEF Stays
<1> QED
  BY <1>3, <1>4, <1>5, <1>6, <1>7

LEMMA ProgressGoes ==
  ASSUME NEW r \in Rooms, Sound(r), NEW x \in Observations, NEW t \in Nat,
         r.scan = 0, ~r.scanWanted, r.supported, r.changeTime = 0
  PROVE  LET s == Progress(r, x, t)
         IN  Goes(r, s, x, t) /\ (s.state = "Complete" => s.frame = {x.world})
<1> DEFINE s == Progress(r, x, t)
           p == StateStep(r, x, t)
           P(z) == Goes(r, z, x, t) /\ (z.state = "Complete" => z.frame = {x.world})
<1>1. CASE r.frame \notin {{}, {x.world}}
  <2>1. s = Invalidate(r, t)
    BY <1>1 DEF Progress
  <2> QED
    BY <2>1, InvalidateFacts, HaltsGoes DEF Halts, Acquiring, Acquired
<1>2. CASE r.frame \in {{}, {x.world}}
  <2>1. Goes(r, p, x, t) /\ (p.state = "Complete" => p.frame \in {r.frame, {x.world}})
    BY StateStepGoes
  <2> HIDE DEF p
  <2>2. p \in Rooms /\ Sound(p)
    BY <2>1 DEF Goes
  <2>3. P(p)
    <3>1. ASSUME p.state = "Complete" PROVE p.frame # {}
      BY <2>2, <3>1 DEF Sound
    <3> QED
      BY <1>2, <2>1, <3>1
  <2>4. s = p \/ s = FailRoom(p, t)
    BY <1>2 DEF Progress, p
  <2>5. P(FailRoom(p, t))
    BY <2>1, <2>2, FailFacts, GoesHalts DEF Halts, Acquiring, Acquired
  <2> QED
    BY <2>3, <2>4, <2>5
<1> QED
  BY <1>1, <1>2

LEMMA ObservedStays ==
  ASSUME NEW r \in Rooms, Sound(r), Calm(r), NEW x \in Observations, NEW t \in Nat
  PROVE  LET o == Observed(r, x, t)
         IN  Stays(r, o, x, t) /\ o.tracked = x.tracked
<1> DEFINE k == [r EXCEPT !.tracked = x.tracked]
           l == LatchExpired(k, t)
           m == IF l.permission /\ ~x.granted /\ ~l.latch THEN StartOver(l) ELSE l
           o == [m EXCEPT !.permission = x.granted]
<1>1. o = Observed(r, x, t)
  BY DEF Observed
<1>2. x.tracked \in BOOLEAN /\ x.granted \in BOOLEAN
  BY DEF Observations
<1>3. Like(r, k, t) /\ k.tracked = x.tracked
  BY <1>2 DEF Like, SameRequests, Rooms, Sound, QueryOK
<1>4. Stays(r, k, x, t) /\ k \in Rooms /\ Sound(k) /\ Calm(k)
  BY <1>3, LikeStays DEF Stays, Goes
<1> HIDE DEF k
<1>5. Stays(k, l, x, t) /\ l.tracked = x.tracked /\ (~l.latch => l = k /\ ~Lost(k, t))
  <2>1. \/ l = k /\ (Lost(k, t) => k.latch)
        \/ Halts(k, l, t) /\ l.latch /\ l.tracked = k.tracked
    BY <1>4, LatchFacts
  <2> HIDE DEF l
  <2> QED
    BY <1>3, <1>4, <2>1, SelfGoes, HaltsStays
<1>6. Stays(k, m, x, t) /\ m.tracked = x.tracked
  <2>1. CASE l.permission /\ ~x.granted /\ ~l.latch
    <3>1. m = StartOver(k) /\ ~Lost(k, t)
      BY <1>5, <2>1
    <3>2. (IF k.enabled THEN "NeedRooms" ELSE "Idle") \in {"Idle", "NeedRooms", "Failed", "Invalid"}
      OBVIOUS
    <3>3. Halts(k, StartOver(k), t)
      BY <1>4, <3>1, <3>2, ClearHalts DEF StartOver
    <3>4. StartOver(k).tracked = k.tracked
      BY <1>4, StartOverFacts, <3>1 DEF Sound, Lost
    <3> QED
      BY <1>3, <3>1, <3>3, <3>4, HaltsStays
  <2>2. CASE ~(l.permission /\ ~x.granted /\ ~l.latch)
    <3>1. m = l
      BY <2>2
    <3> QED
      BY <1>5, <3>1
  <2> QED
    BY <2>1, <2>2
<1> HIDE DEF l, m
<1>7. m \in Rooms /\ Sound(m) /\ Calm(m)
  BY <1>6 DEF Stays, Goes
<1>8. Like(m, o, t) /\ o.tracked = m.tracked
  BY <1>2, <1>7 DEF Like, SameRequests, Rooms, Sound, QueryOK
<1> HIDE DEF o
<1>9. Stays(m, o, x, t)
  BY <1>7, <1>8, LikeStays
<1>10. Stays(k, o, x, t)
  BY <1>4, <1>6, <1>9, StaysTwice
<1>11. Stays(r, o, x, t)
  BY <1>4, <1>10, StaysTwice
<1> QED
  BY <1>1, <1>6, <1>8, <1>11

LEMMA StalledStays ==
  ASSUME NEW r \in Rooms, Sound(r), Calm(r), NEW x, NEW t \in Nat
  PROVE  Stays(r, Stalled(r, t), x, t) /\ (Stalled(r, t) = r \/ Stalled(r, t).state # "Complete")
<1> DEFINE k == [r EXCEPT !.query.timedOut = TRUE, !.scanWanted = FALSE]
<1>1. CASE Stalled(r, t) = r
  BY <1>1, SelfGoes
<1>2. CASE Stalled(r, t) # r
  <2>1. Stalled(r, t) = FailRoom(k, t) /\ r.query.id # 0
    BY <1>2 DEF Stalled
  <2>2. k.query = [r.query EXCEPT !.timedOut = TRUE]
    BY DEF Rooms
  <2>3. /\ k.query \in Queries /\ k.query.id = r.query.id /\ k.query.kind = r.query.kind
        /\ k.query.stale = r.query.stale /\ k.query.got = r.query.got
    BY <2>2 DEF Rooms, Queries
  <2>4. k = [r EXCEPT !.query = k.query, !.scanWanted = FALSE]
    BY DEF Rooms
  <2>5. k \in Rooms
    BY <2>3, <2>4, Zenon DEF Rooms
  <2>6. Like(r, k, t)
    BY <2>1, <2>3, <2>5 DEF Like, SameRequests, Rooms
  <2> HIDE DEF k
  <2>7. Stays(r, k, x, t) /\ Sound(k)
    BY <2>6, LikeStays DEF Stays, Goes
  <2>8. Halts(k, FailRoom(k, t), t)
    BY <2>5, <2>7, FailFacts
  <2>9. Stays(k, FailRoom(k, t), x, t) /\ FailRoom(k, t).state # "Complete"
    BY <2>8, HaltsStays DEF Halts, Acquiring, Acquired
  <2> QED
    BY <2>1, <2>7, <2>9, StaysTwice
<1> QED
  BY <1>1, <1>2

LEMMA BeginScanGoes ==
  ASSUME NEW r \in Rooms, Sound(r), Calm(r), NEW x \in Observations, NEW t \in Nat,
         r.scanWanted, r.query.id = 0, r.scan = 0
  PROVE  Goes(r, BeginScan(r, x, t), x, t) /\ BeginScan(r, x, t).state # "Complete"
<1>1. CASE x.luck = "bad"
  <2> DEFINE k == [r EXCEPT !.scanWanted = FALSE]
  <2>1. BeginScan(r, x, t) = FailRoom(k, t)
    BY <1>1 DEF BeginScan
  <2>2. Like(r, k, t)
    BY DEF Like, SameRequests, Rooms, Sound, QueryOK
  <2> HIDE DEF k
  <2>3. k \in Rooms /\ Sound(k) /\ Goes(r, k, x, t)
    BY <2>2, LikeStays DEF Stays, Goes
  <2>4. Halts(k, FailRoom(k, t), t)
    BY <2>3, FailFacts
  <2> QED
    BY <2>1, <2>3, <2>4, GoesHalts DEF Halts, Acquiring, Acquired
<1>2. CASE x.luck # "bad"
  <2> DEFINE k == [r EXCEPT !.scanWanted = FALSE, !.scan = x.id]
  <2>1. BeginScan(r, x, t) = k
    BY <1>2 DEF BeginScan
  <2>2. x.id \in Nat \ {0}
    BY DEF Observations
  <2>3. /\ k \in Rooms
        /\ k.state = r.state /\ k.latch = r.latch /\ k.snapshot = r.snapshot
        /\ k.owned = r.owned /\ k.uses = r.uses /\ k.surfaces = r.surfaces
        /\ k.enabled = r.enabled /\ k.supported = r.supported /\ k.query = r.query
        /\ k.scan = x.id /\ ~k.scanWanted /\ k.changeTime = r.changeTime
    BY <2>2 DEF Rooms
  <2>4. r.state \notin Acquiring \union {"NeedsRefresh"}
    BY DEF Sound
  <2> HIDE DEF k
  <2>5. Sound(k) /\ Calm(k) /\ k.state # "Complete" /\ ~Lost(r, t)
    BY <2>3, <2>4 DEF Sound, QueryOK, Calm, Acquiring, Acquired, Lost
  <2>6. Goes(r, k, x, t)
    BY <2>3, <2>5 DEF Goes, Newer
  <2> QED
    BY <2>1, <2>5, <2>6
<1> QED
  BY <1>1, <1>2

\* A frame: an applied room that is ready is in the frame's registration.
LEMMA UpdateGoes ==
  ASSUME NEW r \in Rooms, Sound(r), Calm(r), NEW x \in Observations, NEW t \in Nat
  PROVE  LET s == UpdateRoom(r, x, t)
         IN  Goes(r, s, x, t) /\ (RoomReady(s, t) => s.frame = {x.world})
<1> DEFINE o == Observed(r, x, t)
           q == Stalled(o, t)
           s == UpdateRoom(r, x, t)
<1>1. Stays(r, o, x, t)
  BY ObservedStays
<1> HIDE DEF o
<1>2. o \in Rooms /\ Sound(o) /\ Calm(o)
  BY <1>1 DEF Stays, Goes
<1>3. Stays(o, q, x, t)
  BY <1>2, StalledStays
<1> HIDE DEF q
<1>4. Stays(r, q, x, t)
  BY <1>1, <1>3, StaysTwice
<1>5. q \in Rooms /\ Sound(q) /\ Calm(q)
  BY <1>4 DEF Stays, Goes
<1> DEFINE P(z) == Goes(r, z, x, t) /\ (RoomReady(z, t) => z.frame = {x.world})
<1>6. ASSUME Goes(q, s, x, t) PROVE Goes(r, s, x, t)
  BY <1>4, <1>6, StaysGoes
<1>7. CASE ~q.supported \/ q.query.timedOut \/ ~q.permission
  <2>1. s = q
    BY <1>7 DEF UpdateRoom, q, o
  <2>2. ~RoomReady(q, t)
    BY <1>5, <1>7 DEF RoomReady, Sound, QueryOK, Acquired
  <2> QED
    BY <1>4, <2>1, <2>2 DEF Stays
<1>8. CASE ~(~q.supported \/ q.query.timedOut \/ ~q.permission)
  <2>1. CASE q.scanWanted /\ q.query.id = 0 /\ q.scan = 0
    <3>1. s = BeginScan(q, x, t)
      BY <1>8, <2>1 DEF UpdateRoom, q, o
    <3>2. Goes(q, BeginScan(q, x, t), x, t) /\ BeginScan(q, x, t).state # "Complete"
      BY <1>5, <2>1, BeginScanGoes
    <3> HIDE DEF s
    <3> QED
      BY <1>6, <3>1, <3>2 DEF RoomReady, s
  <2>2. CASE /\ ~(q.scanWanted /\ q.query.id = 0 /\ q.scan = 0)
             /\ q.scan # 0 \/ q.scanWanted \/ ~q.enabled \/ q.latch \/ ~q.tracked \/ t < q.changeTime
    <3>1. s = q
      BY <1>8, <2>2 DEF UpdateRoom, q, o
    <3>2. ~RoomReady(q, t)
      BY <1>5, <2>2 DEF RoomReady, Sound, Calm, Acquiring, Acquired
    <3> QED
      BY <1>4, <3>1, <3>2 DEF Stays
  <2>3. CASE ~(q.scan # 0 \/ q.scanWanted \/ ~q.enabled \/ q.latch \/ ~q.tracked \/ t < q.changeTime)
    <3> DEFINE k == [q EXCEPT !.changeTime = 0]
    <3>1. s = Progress(k, x, t)
      BY <1>8, <2>3 DEF UpdateRoom, q, o
    <3>7. q.changeTime \in Nat /\ q.changeTime <= t
      BY <1>5, <2>3 DEF Rooms
    <3>8. k.changeTime = 0 /\ k \in Rooms
      BY <1>5 DEF Rooms
    <3>2. Like(q, k, t) /\ k.changeTime = 0
      BY <1>5, <3>7, <3>8 DEF Like, SameRequests, Rooms, Sound, QueryOK
    <3>3. k.scan = 0 /\ ~k.scanWanted /\ k.supported
      BY <1>5, <1>8, <2>3 DEF Rooms
    <3> HIDE DEF k
    <3>4. Stays(q, k, x, t) /\ k \in Rooms /\ Sound(k)
      BY <1>5, <3>2, LikeStays DEF Stays, Goes
    <3>5. Goes(k, s, x, t) /\ (s.state = "Complete" => s.frame = {x.world})
      BY <3>1, <3>2, <3>3, <3>4, ProgressGoes
    <3> HIDE DEF s
    <3>6. Goes(r, s, x, t)
      BY <1>4, <1>5, <1>6, <3>4, <3>5, StaysGoes
    <3> QED
      BY <3>5, <3>6 DEF RoomReady, s
  <2> QED
    BY <2>1, <2>2, <2>3
<1> QED
  BY <1>7, <1>8

(***************************************************************************)
(* The room: the user and the runtime                                      *)
(***************************************************************************)
\* A new start takes what was applied away.
Restarts(r, s) ==
  /\ s \in Rooms /\ Sound(s) /\ s.state \notin Acquiring /\ ~s.latch
  /\ SameRequests(r, s) /\ s.supported = r.supported /\ s.changeTime = r.changeTime
  /\ s.snapshot.revision > r.snapshot.revision

LEMMA StartOverRestarts ==
  ASSUME NEW r \in Rooms, QueryOK(r), ~r.latch
  PROVE  Restarts(r, StartOver(r)) /\ StartOver(r).enabled = r.enabled
<1>1. r.snapshot.revision \in Nat
  BY DEF Rooms, RoomSnapshots
<1> DEFINE s == StartOver(r)
<1>2. /\ s \in Rooms /\ Sound(s) /\ s.state \notin Acquiring /\ ~s.latch
      /\ SameRequests(r, s) /\ SameUser(r, s)
      /\ s.snapshot.revision = r.snapshot.revision + 1
  BY StartOverFacts
<1> HIDE DEF s
<1>3. Restarts(r, s) /\ s.enabled = r.enabled
  BY <1>1, <1>2 DEF Restarts, SameUser
<1> QED
  BY <1>3 DEF s

LEMMA RefreshRestarts ==
  ASSUME NEW r \in Rooms, QueryOK(r)
  PROVE  Restarts(r, RefreshExplicit(r)) /\ RefreshExplicit(r).enabled = r.enabled
<1> DEFINE k == [r EXCEPT !.latch = FALSE]
<1>1. /\ k \in Rooms /\ QueryOK(k) /\ ~k.latch /\ SameRequests(r, k)
      /\ k.supported = r.supported /\ k.changeTime = r.changeTime /\ k.snapshot = r.snapshot
      /\ k.enabled = r.enabled
  BY DEF Rooms, QueryOK, SameRequests
<1>2. RefreshExplicit(r) = StartOver(k)
  BY DEF RefreshExplicit
<1> HIDE DEF k
<1> QED
  BY <1>1, <1>2, StartOverRestarts DEF Restarts, SameRequests

LEMMA CaptureRestarts ==
  ASSUME NEW r \in Rooms, QueryOK(r)
  PROVE  \/ RequestCapture(r) = r
         \/ Restarts(r, RequestCapture(r)) /\ RequestCapture(r).enabled = r.enabled
<1> DEFINE k == [r EXCEPT !.latch = FALSE, !.scanWanted = TRUE]
<1>1. /\ k \in Rooms /\ QueryOK(k) /\ ~k.latch /\ SameRequests(r, k)
      /\ k.supported = r.supported /\ k.changeTime = r.changeTime /\ k.snapshot = r.snapshot
      /\ k.enabled = r.enabled
  BY DEF Rooms, QueryOK, SameRequests
<1>2. RequestCapture(r) = r \/ RequestCapture(r) = StartOver(k)
  BY DEF RequestCapture
<1> HIDE DEF k
<1> QED
  BY <1>1, <1>2, StartOverRestarts DEF Restarts, SameRequests

LEMMA EnabledRestarts ==
  ASSUME NEW r \in Rooms, QueryOK(r), NEW on \in BOOLEAN
  PROVE  LET s == SetEnabled(r, on)
         IN  s.enabled = on /\ (s = r \/ (Restarts(r, s) /\ r.enabled # on))
<1> DEFINE k == [r EXCEPT !.scanWanted = @ /\ on, !.latch = FALSE, !.enabled = on]
<1>1. CASE r.enabled = on
  BY <1>1 DEF SetEnabled
<1>2. CASE r.enabled # on
  <2>1. /\ k \in Rooms /\ QueryOK(k) /\ ~k.latch /\ SameRequests(r, k)
        /\ k.supported = r.supported /\ k.changeTime = r.changeTime /\ k.snapshot = r.snapshot
        /\ k.enabled = on
    <3>1. (r.scanWanted /\ on) \in BOOLEAN
      OBVIOUS
    <3>2. k \in Rooms
      BY <3>1, ZenonT(60) DEF Rooms
    <3>3. /\ k.query = r.query /\ k.scan = r.scan /\ ~k.latch /\ k.supported = r.supported
          /\ k.changeTime = r.changeTime /\ k.snapshot = r.snapshot /\ k.enabled = on
      BY DEF Rooms
    <3> QED
      BY <3>2, <3>3 DEF QueryOK, SameRequests
  <2>2. SetEnabled(r, on) = StartOver(k)
    BY <1>2 DEF SetEnabled
  <2> HIDE DEF k
  <2>3. Restarts(k, StartOver(k)) /\ StartOver(k).enabled = on
    BY <2>1, StartOverRestarts
  <2>4. Restarts(r, StartOver(k))
    BY <2>1, <2>3 DEF Restarts, SameRequests
  <2> QED
    BY <1>2, <2>2, <2>3, <2>4
<1> QED
  BY <1>1, <1>2

\* A session begins with nothing asked and nothing announced.
LEMMA SessionFacts ==
  ASSUME NEW r \in Rooms, QueryOK(r), NEW supported \in BOOLEAN
  PROVE  LET s == NewRoomSession(r, supported)
         IN  /\ s \in Rooms /\ Sound(s) /\ s.state \notin Acquiring /\ ~s.latch
             /\ s.query.id = 0 /\ s.scan = 0 /\ s.supported = supported
             /\ s.snapshot.revision > r.snapshot.revision
<1> DEFINE k == [r EXCEPT !.enabled = FALSE]
           c == ClearRoom(k)
           s == NewRoomSession(r, supported)
<1>1. k \in Rooms /\ QueryOK(k) /\ k.snapshot = r.snapshot /\ ~k.enabled
  BY DEF Rooms, QueryOK
<1>2. s = [c EXCEPT !.state = "Idle",
                    !.query = NoQuery, !.scan = 0, !.scanWanted = FALSE, !.changeTime = 0,
                    !.latch = FALSE, !.supported = supported, !.tracked = FALSE,
                    !.permission = FALSE]
  <2>1. StartOver(k) = [c EXCEPT !.state = "Idle"]
    BY <1>1 DEF StartOver
  <2> HIDE DEF c
  <2> QED
    BY <2>1 DEF NewRoomSession
<1> HIDE DEF k, s
<1>3. /\ c \in Rooms /\ c.owned = {} /\ c.uses = {} /\ c.surfaces = 0
      /\ c.snapshot.revision = k.snapshot.revision + 1
  BY <1>1, ClearFacts
<1> HIDE DEF c
<1>4. s \in Rooms
  <2>1. "Idle" \in RoomStates
    BY DEF RoomStates
  <2> DEFINE d == [c EXCEPT !.state = "Idle", !.query = NoQuery, !.scan = 0]
             e == [d EXCEPT !.scanWanted = FALSE, !.changeTime = 0, !.latch = FALSE]
             f == [e EXCEPT !.supported = supported]
  <2>2. s = [f EXCEPT !.tracked = FALSE, !.permission = FALSE]
    BY <1>2
  <2>3. d \in Rooms
    BY <1>3, <2>1, NoQueryIsQuery, Zenon DEF Rooms
  <2> HIDE DEF d
  <2>4. e \in Rooms
    BY <2>3, Zenon DEF Rooms
  <2> HIDE DEF e
  <2>5. f \in Rooms
    BY <2>4, Zenon DEF Rooms
  <2> HIDE DEF f
  <2> QED
    BY <2>2, <2>5, Zenon DEF Rooms
<1>5. /\ s.query = NoQuery /\ s.scan = 0 /\ ~s.scanWanted /\ ~s.latch
      /\ s.supported = supported /\ s.state = "Idle" /\ s.owned = {} /\ s.uses = {}
      /\ s.surfaces = 0 /\ s.snapshot = c.snapshot
  BY <1>2, <1>3 DEF Rooms
<1>6. Sound(s)
  <2>1. s.query.id = 0 /\ ~s.query.got /\ ~s.query.stale /\ ~s.query.timedOut
    BY <1>5 DEF NoQuery
  <2>2. MaxSurfaces \in Nat
    BY RoomAssumption
  <2> QED
    BY <1>5, <2>1, <2>2 DEF Sound, QueryOK, Acquiring, Acquired
<1>7. r.snapshot.revision \in Nat
  BY DEF Rooms, RoomSnapshots
<1>8. s.snapshot.revision > r.snapshot.revision /\ s.query.id = 0
  BY <1>1, <1>3, <1>5, <1>7 DEF NoQuery
<1> QED
  BY <1>4, <1>5, <1>6, <1>8 DEF s, Acquiring, Acquired

\* What a query's results do to the record.
LEMMA RetrieveFacts ==
  ASSUME NEW r \in Rooms, Sound(r), Calm(r), r.query.id # 0, NEW usable \in BOOLEAN, NEW t \in Nat
  PROVE  LET s == Retrieve(r, usable, t)
         IN  /\ s \in Rooms /\ Sound(s) /\ Calm(s) /\ Newer(r, s) /\ SameRequests(r, s)
             /\ SameUser(r, s) /\ s.state # "Complete"
<1> DEFINE s == Retrieve(r, usable, t)
<1>1. CASE ~usable
  <2>1. s = FailRoom(r, t)
    BY <1>1 DEF Retrieve
  <2> QED
    BY <2>1, FailFacts DEF Halts, Calm, Acquiring, Acquired
<1>2. CASE usable /\ r.query.stale
  <2>1. s = ReleaseSpaces(r)
    BY <1>2 DEF Retrieve
  <2> HIDE DEF s
  <2>2. /\ s.state = r.state /\ s.latch = r.latch /\ s.snapshot = r.snapshot
        /\ s.owned = {} /\ s.uses = {} /\ s.surfaces = 0 /\ s.supported = r.supported
        /\ s.enabled = r.enabled /\ s.query = r.query /\ s.scan = r.scan
        /\ s.scanWanted = r.scanWanted /\ s.changeTime = r.changeTime
    BY <2>1 DEF ReleaseSpaces, Rooms
  <2>3. s \in Rooms /\ MaxSurfaces \in Nat
    BY <2>1, ReleaseType, RoomAssumption
  <2>4. s.state # "Complete" /\ ~s.query.got
    BY <1>2, <2>2 DEF Sound, Acquired
  <2>5. Sound(s)
    BY <2>2, <2>3, <2>4 DEF Sound, QueryOK
  <2> QED
    BY <2>2, <2>3, <2>4, <2>5 DEF Calm, Newer, SameRequests, SameUser, s
<1>3. CASE usable /\ ~r.query.stale
  <2> DEFINE owned == r.owned \union {r.query.kind}
             query == [r.query EXCEPT !.got = TRUE]
  <2>1. s = [r EXCEPT !.owned = owned, !.query = query]
    BY <1>3 DEF Retrieve, Rooms
  <2>2. /\ owned \in SUBSET QueryKinds /\ query \in Queries
        /\ query.id = r.query.id /\ query.kind = r.query.kind /\ query.got
        /\ query.stale = r.query.stale /\ query.timedOut = r.query.timedOut
    BY DEF Rooms, Queries, Sound, QueryOK
  <2>3. r.query.kind \in owned /\ r.owned \subseteq owned
    OBVIOUS
  <2> HIDE DEF s, owned, query
  <2>4. /\ s \in Rooms
        /\ s.state = r.state /\ s.latch = r.latch /\ s.snapshot = r.snapshot
        /\ s.owned = owned /\ s.uses = r.uses /\ s.surfaces = r.surfaces /\ s.supported = r.supported
        /\ s.enabled = r.enabled /\ s.query = query /\ s.scan = r.scan
        /\ s.scanWanted = r.scanWanted /\ s.changeTime = r.changeTime
    BY <2>1, <2>2 DEF Rooms
  <2>5. s.state \in {"Rooms", "Members"}
    BY <1>3, <2>4 DEF Sound
  <2>6. Sound(s)
    BY <1>3, <2>2, <2>3, <2>4, <2>5 DEF Sound, QueryOK, Acquiring, Acquired
  <2> QED
    BY <2>2, <2>4, <2>5, <2>6 DEF Calm, Newer, SameRequests, SameUser, s
<1> QED
  BY <1>1, <1>2, <1>3

\* A query that is over leaves its place.
LEMMA DoneFacts ==
  ASSUME NEW r \in Rooms, Sound(r), Calm(r), r.query.stale \/ r.state \notin Acquiring
  PROVE  LET s == [r EXCEPT !.query = NoQuery]
         IN  /\ s \in Rooms /\ Sound(s) /\ Calm(s) /\ s.query.id = 0 /\ s.scan = r.scan
             /\ SameUser(r, s) /\ s.snapshot = r.snapshot /\ s.state = r.state
<1> DEFINE s == [r EXCEPT !.query = NoQuery]
<1>1. /\ s \in Rooms /\ s.query = NoQuery
      /\ s.state = r.state /\ s.latch = r.latch /\ s.snapshot = r.snapshot
      /\ s.owned = r.owned /\ s.uses = r.uses /\ s.surfaces = r.surfaces /\ s.supported = r.supported
      /\ s.enabled = r.enabled /\ s.scan = r.scan /\ s.frame = r.frame
      /\ s.scanWanted = r.scanWanted /\ s.changeTime = r.changeTime
  BY NoQueryIsQuery DEF Rooms
<1> HIDE DEF s
<1>2. s.query.id = 0 /\ ~s.query.got /\ ~s.query.stale /\ ~s.query.timedOut
  BY <1>1 DEF NoQuery
<1>3. Sound(s)
  BY <1>1, <1>2 DEF Sound, QueryOK, Acquiring, Acquired
<1> QED
  BY <1>1, <1>2, <1>3 DEF Calm, SameUser, s

LEMMA FinishFacts ==
  ASSUME NEW r \in Rooms, Sound(r), Calm(r), r.query.id # 0, NEW usable \in BOOLEAN,
         NEW surfaces \in Nat, NEW more \in BOOLEAN, NEW id \in Nat \ {0}, NEW t \in Nat,
         surfaces # 0 \/ more => usable /\ r.query.kind = "members",
         FinishQuery(r, usable, surfaces, more, id, t).surfaces <= MaxSurfaces
  PROVE  LET s == FinishQuery(r, usable, surfaces, more, id, t)
         IN  /\ s \in Rooms /\ Sound(s) /\ Calm(s) /\ Newer(r, s) /\ SameUser(r, s)
             /\ s.scan = 0 /\ s.query.id \in {0, id} /\ s.state # "Complete"
<1> DEFINE s == FinishQuery(r, usable, surfaces, more, id, t)
<1>1. r.scan = 0 /\ r.query.kind \in QueryKinds /\ r.state \notin Acquired \union {"NeedsRefresh"}
  BY DEF Sound, QueryOK
<1>2. CASE r.query.stale
  <2>1. s = [r EXCEPT !.query = NoQuery]
    BY <1>2 DEF FinishQuery
  <2> QED
    BY <1>1, <1>2, <2>1, DoneFacts DEF Newer, Acquired
<1>3. CASE ~r.query.stale /\ (~usable \/ ~r.query.got)
  <2> DEFINE f == FailRoom(r, t)
  <2>1. s = [f EXCEPT !.query = NoQuery]
    BY <1>3 DEF FinishQuery
  <2>2. Halts(r, f, t)
    BY FailFacts
  <2> HIDE DEF f
  <2>3. f \in Rooms /\ Sound(f) /\ Calm(f) /\ f.state \notin Acquiring /\ f.scan = 0
    BY <1>1, <2>2 DEF Halts, Calm, SameRequests
  <2> DEFINE z == [f EXCEPT !.query = NoQuery]
  <2>4. /\ z \in Rooms /\ Sound(z) /\ Calm(z) /\ z.query.id = 0 /\ z.scan = f.scan
        /\ SameUser(f, z) /\ z.snapshot = f.snapshot /\ z.state = f.state
    BY <2>3, DoneFacts
  <2> HIDE DEF z, s
  <2>5. s = z
    BY <2>1 DEF z
  <2> QED
    BY <2>2, <2>3, <2>4, <2>5 DEF Halts, Newer, SameUser, Acquiring, Acquired, s
<1>4. CASE ~r.query.stale /\ usable /\ r.query.got
  <2> DEFINE uses == r.uses \union {r.query.kind}
             n == r.surfaces + surfaces
             read == [r EXCEPT !.query = NoQuery, !.uses = uses, !.surfaces = n]
  <2>1. /\ uses \in SUBSET QueryKinds /\ n \in Nat /\ r.query.kind \in r.owned
        /\ r.uses \subseteq r.owned /\ r.state \in {"Rooms", "Members"}
        /\ r.surfaces \in Nat /\ (r.surfaces > 0 => "members" \in r.uses)
        /\ r.supported /\ ~r.scanWanted /\ ~r.latch
    BY <1>1, <1>4 DEF Sound, Rooms, Acquiring, Acquired
  <2>2. uses \subseteq r.owned /\ (n > 0 => "members" \in uses)
    BY <2>1
  <2>3. read = [r EXCEPT !.query = NoQuery, !.uses = @ \union {r.query.kind}, !.surfaces = @ + surfaces]
    BY DEF Rooms
  <2> HIDE DEF uses, n
  <2>4. /\ read \in Rooms /\ read.query = NoQuery /\ read.uses = uses /\ read.surfaces = n
        /\ read.latch = r.latch /\ read.snapshot = r.snapshot /\ read.owned = r.owned
        /\ read.supported = r.supported /\ read.enabled = r.enabled /\ read.scan = r.scan
        /\ read.scanWanted = r.scanWanted /\ read.changeTime = r.changeTime
        /\ read.frame = r.frame /\ read.state = r.state
    BY <2>1, NoQueryIsQuery DEF Rooms
  <2> HIDE DEF read
  <2> DEFINE Same(z) ==
        /\ z \in Rooms /\ z.uses = uses /\ z.surfaces = n
        /\ ~z.latch /\ z.snapshot = r.snapshot /\ z.owned = r.owned
        /\ z.supported /\ z.enabled = r.enabled /\ z.scan = 0
        /\ ~z.scanWanted /\ z.changeTime = r.changeTime
  <2>5. ASSUME NEW kind \in QueryKinds, NEW state \in {"Rooms", "Members"}
        PROVE  LET z == Asking(read, id, kind, t, state)
               IN  /\ Same(z) /\ z.state = state /\ z.query.id = id /\ z.query.kind = kind
                   /\ ~z.query.stale /\ ~z.query.got
    <3>1. Asking(read, id, kind, t, state) \in Rooms
      BY <2>4, AskingType DEF RoomStates
    <3> QED
      BY <1>1, <2>1, <2>4, <3>1 DEF Asking, NewQuery, Rooms
  <2>6. ASSUME NEW state \in {"SelectRoom", "Build"}
        PROVE  LET z == [read EXCEPT !.state = state, !.locating = t]
               IN  Same(z) /\ z.state = state /\ z.query = NoQuery
    <3>1. state \in RoomStates
      BY <2>6 DEF RoomStates
    <3>2. [read EXCEPT !.state = state, !.locating = t] \in Rooms
      BY <2>4, <3>1 DEF Rooms
    <3> QED
      BY <1>1, <2>1, <2>4, <3>2 DEF Rooms
  <2> DEFINE Good(z) ==
        /\ z \in Rooms /\ Sound(z) /\ Calm(z) /\ Newer(r, z) /\ SameUser(r, z)
        /\ z.scan = 0 /\ z.query.id \in {0, id} /\ z.state # "Complete"
  <2>7. r.changeTime = 0
    BY <2>1 DEF Calm, Acquiring
  <2>8. ASSUME NEW z, Same(z), z.state \in {"Rooms", "Members"}, z.query.id = id,
               z.query.kind \in QueryKinds, ~z.query.stale, ~z.query.got, n <= MaxSurfaces
        PROVE  Good(z)
    <3>1. QueryOK(z)
      BY <2>8 DEF QueryOK
    <3>2. Sound(z)
      BY <2>2, <2>8, <3>1 DEF Sound, Acquiring, Acquired
    <3> QED
      BY <2>1, <2>7, <2>8, <3>2 DEF Calm, Newer, SameUser
  <2>9. ASSUME NEW z, Same(z), z.state \in {"SelectRoom", "Build"}, z.query = NoQuery,
               n <= MaxSurfaces
        PROVE  Good(z)
    <3>1. z.query.id = 0 /\ ~z.query.got /\ ~z.query.stale /\ ~z.query.timedOut
      BY <2>9 DEF NoQuery
    <3>2. Sound(z)
      BY <2>2, <2>9, <3>1 DEF Sound, QueryOK, Acquiring, Acquired
    <3> QED
      BY <2>1, <2>7, <2>9, <3>1, <3>2 DEF Calm, Newer, SameUser
  <2> DEFINE ask(kind, state) == Asking(read, id, kind, t, state)
             loc(state) == [read EXCEPT !.state = state, !.locating = t]
  <2>10. \/ s = ask("floors", "Rooms")
         \/ s = loc("SelectRoom")
         \/ s = ask("members", "Members")
         \/ s = loc("Build")
    BY <1>1, <1>4, <2>3 DEF FinishQuery, QueryKinds
  <2>11. s.surfaces <= MaxSurfaces
    OBVIOUS
  <2> HIDE DEF s, Good, Same
  <2>12. CASE s = ask("floors", "Rooms") \/ s = ask("members", "Members")
    <3>1. /\ Same(s) /\ s.state \in {"Rooms", "Members"} /\ s.query.id = id
          /\ s.query.kind \in QueryKinds /\ ~s.query.stale /\ ~s.query.got
      BY <2>5, <2>12 DEF QueryKinds
    <3>2. n <= MaxSurfaces
      BY <2>11, <3>1 DEF Same
    <3> QED
      BY <2>8, <3>1, <3>2 DEF Good, s
  <2>13. CASE s = loc("SelectRoom") \/ s = loc("Build")
    <3>1. Same(s) /\ s.state \in {"SelectRoom", "Build"} /\ s.query = NoQuery
      BY <2>6, <2>13
    <3>2. n <= MaxSurfaces
      BY <2>11, <3>1 DEF Same
    <3> QED
      BY <2>9, <3>1, <3>2 DEF Good, s
  <2> QED
    BY <2>10, <2>12, <2>13
<1> QED
  BY <1>2, <1>3, <1>4

LEMMA ActivationHalts ==
  ASSUME NEW r \in Rooms, Sound(r), NEW t \in Nat
  PROVE  Halts(r, ActivationFailed(r, t), t)
<1>1. CASE r.state = "Complete"
  <2>1. \E frame : frame \in SUBSET Worlds
    OBVIOUS
  <2> QED
    BY <1>1, <2>1, FrozenFacts DEF ActivationFailed
<1>2. CASE r.state # "Complete"
  BY <1>2, FailFacts DEF ActivationFailed
<1> QED
  BY <1>1, <1>2

(***************************************************************************)
(* The room: the steps                                                     *)
(***************************************************************************)
\* Announced changes lie behind, or ahead of every acquisition.
Foreseen ==
  room.supported => \A c \in stageChanges : c <= room.changeTime \/ c <= roomTime

\* No announced change came between a placement and now, nor is one to come.
Stands(p) == p.at <= roomTime /\ \A c \in stageChanges : c <= p.at

Applied ==
  room.state = "Complete" =>
    /\ \A p \in room.snapshot.placed : Stands(p)
    /\ \A i \in 1..room.surfaces :
         /\ room.monitors[i] <= roomTime
         /\ astray[i] = 0 \/ room.monitors[i] <= astray[i]

ReadyStands ==
  roomReady =>
    /\ desiredRoom.enabled /\ desiredRoom.placed # {}
    /\ \A p \in desiredRoom.placed : p.world = world /\ Stands(p)

Revised == desiredRoom.revision <= room.snapshot.revision /\ RevisionNamesSurfaces

\* The inductive invariant.
RoomIndInv ==
  /\ RoomTypeOK /\ Sound(room) /\ Calm(room) /\ Foreseen /\ Applied /\ ReadyStands
  /\ outstanding \subseteq Waiting /\ Revised

\* A new identifier is none that is waited for.
LEMMA NewIdType ==
  ASSUME outstanding \subseteq Waiting, QueryOK(room), room \in Rooms
  PROVE  NewId \in Nat \ {0}
<1>1. \E w : Waiting \subseteq {w}
  BY DEF Waiting, QueryOK
<1>2. PICK w : Waiting \subseteq {w}
  BY <1>1
<1>3. \E id \in 1..3 : id \notin Waiting \union outstanding
  <2>1. CASE w = 1
    <3>1. 2 \in 1..3 /\ 2 \notin Waiting \union outstanding
      BY <1>2, <2>1
    <3> QED
      BY <3>1
  <2>2. CASE w # 1
    <3>1. 1 \in 1..3 /\ 1 \notin Waiting \union outstanding
      BY <1>2, <2>2
    <3> QED
      BY <3>1
  <2> QED
    BY <2>1, <2>2
<1>4. NewId \in 1..3
  BY <1>3 DEF NewId
<1> QED
  BY <1>4

LEMMA RoomInitially == RoomInit => RoomIndInv
<1> SUFFICES ASSUME RoomInit PROVE RoomIndInv
  OBVIOUS
<1>1. BlankRoom \in Rooms /\ QueryOK(BlankRoom) /\ ~BlankRoom.latch /\ BlankRoom.snapshot.revision = 0
  <2>1. NoRoom \in RoomSnapshots
    BY DEF NoRoom, RoomSnapshots
  <2>2. BlankRoom.query = NoQuery /\ ~BlankRoom.latch /\ BlankRoom.snapshot = NoRoom
    BY DEF BlankRoom
  <2>3. BlankRoom \in Rooms
    BY <2>1, NoQueryIsQuery, StampsType, Zenon DEF BlankRoom, Rooms, RoomStates
  <2> QED
    BY <2>2, <2>3 DEF QueryOK, NoQuery, NoRoom
<1>2. PICK supported \in BOOLEAN : room = SetEnabled(NewRoomSession(BlankRoom, supported), wanted)
  BY DEF RoomInit
<1> DEFINE n == NewRoomSession(BlankRoom, supported)
<1>3. /\ n \in Rooms /\ Sound(n) /\ n.state \notin Acquiring /\ ~n.latch
      /\ n.query.id = 0 /\ n.scan = 0 /\ n.snapshot.revision > 0
  BY <1>1, SessionFacts
<1> HIDE DEF n
<1>4. wanted \in BOOLEAN
  BY DEF RoomInit
<1>5. room = n \/ Restarts(n, room)
  BY <1>2, <1>3, <1>4, EnabledRestarts DEF Sound, n
<1>6. /\ room \in Rooms /\ Sound(room) /\ room.state \notin Acquiring
      /\ room.snapshot.revision > 0
  <2>1. n.snapshot.revision \in Nat /\ room \in Rooms
    BY <1>3, <1>5 DEF Rooms, RoomSnapshots, Restarts
  <2>2. room.snapshot.revision \in Nat
    BY <2>1 DEF Rooms, RoomSnapshots
  <2> QED
    BY <1>3, <1>5, <2>1, <2>2 DEF Restarts
<1>7. Calm(room) /\ Applied
  BY <1>6 DEF Calm, Applied, Acquiring, Acquired
<1>8. /\ roomTime = 1 /\ outstanding = {} /\ stageChanges = {} /\ world \in Worlds
      /\ astray = NoStamps /\ refreshPending = wanted /\ desiredRoom = NoRoom /\ roomReady = FALSE
  BY RoomAssumption DEF RoomInit
<1>9. RoomTypeOK
  BY <1>4, <1>6, <1>8, StampsType DEF RoomTypeOK, NoRoom, RoomSnapshots
<1>10. Revised
  <2>1. room.snapshot.revision \in Nat
    BY <1>6 DEF Rooms, RoomSnapshots
  <2>2. desiredRoom.revision = 0
    BY <1>8 DEF NoRoom
  <2>3. desiredRoom.revision # room.snapshot.revision
    BY <1>6, <2>1, <2>2
  <2> QED
    BY <1>6, <2>1, <2>2, <2>3 DEF Revised, RevisionNamesSurfaces
<1> QED
  BY <1>6, <1>7, <1>8, <1>9, <1>10 DEF RoomIndInv, Foreseen, ReadyStands

\* A step that acquires nothing.
Quiets ==
  /\ room' \in Rooms /\ Sound(room') /\ Calm(room') /\ Newer(room, room')
  /\ room'.state # "Complete" \/ room' = room
  /\ Watched /\ roomTime' = roomTime /\ world' = world /\ desiredRoom' = desiredRoom
  /\ outstanding' \subseteq Waiting' /\ Foreseen' /\ stageChanges' \subseteq Nat
  /\ wanted' \in BOOLEAN /\ refreshPending' \in BOOLEAN /\ roomReady' \in BOOLEAN
  /\ roomReady' => roomReady /\ stageChanges' = stageChanges
  /\ stageChanges' = stageChanges \/ room'.state # "Complete"

LEMMA QuietKeeps == RoomIndInv /\ Quiets => RoomIndInv'
<1> SUFFICES ASSUME RoomIndInv, Quiets PROVE RoomIndInv'
  OBVIOUS
<1>1. outstanding' \subseteq Nat
  BY DEF Quiets, Waiting, Rooms, Queries
<1>2. astray' \in [1..MaxSurfaces -> Nat]
  BY StampsType DEF Quiets, Watched, RoomIndInv, RoomTypeOK
<1>3. RoomTypeOK'
  BY <1>1, <1>2 DEF Quiets, RoomIndInv, RoomTypeOK
<1>4. Applied'
  <2>1. CASE room'.state # "Complete"
    BY <2>1 DEF Applied
  <2>2. CASE room' = room /\ room'.state = "Complete"
    <3>1. astray' = astray /\ stageChanges' = stageChanges /\ roomTime' = roomTime
      BY <2>2 DEF Quiets, Watched
    <3> QED
      BY <2>2, <3>1 DEF RoomIndInv, Applied, Stands
  <2> QED
    BY <2>1, <2>2 DEF Quiets
<1>5. ReadyStands'
  BY DEF Quiets, RoomIndInv, ReadyStands, Stands
<1>6. Revised'
  <2>1. /\ desiredRoom.revision \in Nat /\ room.snapshot.revision \in Nat
        /\ room'.snapshot.revision \in Nat
    BY DEF Quiets, RoomIndInv, RoomTypeOK, Rooms, RoomSnapshots
  <2>2. desiredRoom' = desiredRoom /\ Newer(room, room')
    BY DEF Quiets
  <2> QED
    BY <2>1, <2>2 DEF RoomIndInv, Revised, RevisionNamesSurfaces, Newer
<1> QED
  BY <1>3, <1>4, <1>5, <1>6 DEF Quiets, RoomIndInv

\* Requests that stay are still waited for.
LEMMA RequestsStay ==
  ASSUME outstanding \subseteq Waiting, NEW over, Requests(over),
         (outstanding \ over) \subseteq Waiting'
  PROVE  outstanding' \subseteq Waiting'
  BY DEF Requests

LEMMA SameWaiting ==
  ASSUME SameRequests(room, room')
  PROVE  Waiting' = Waiting
  BY DEF SameRequests, Waiting

LEMMA ForeseenStays ==
  ASSUME Foreseen, room'.supported = room.supported, room'.changeTime = room.changeTime,
         stageChanges' = stageChanges, roomTime' = roomTime
  PROVE  Foreseen'
  BY DEF Foreseen

(***************************************************************************)
(* The room: a frame of the app                                            *)
(***************************************************************************)
\* A frame with the user's last wish already in the record.
LEMMA BegunGoes ==
  ASSUME NEW r \in Rooms, Sound(r), Calm(r), NEW x \in Observations, NEW t \in Nat,
         NEW begun, begun = r \/ begun = RefreshAuto(r, t)
  PROVE  LET s == UpdateRoom(begun, x, t)
         IN  Goes(r, s, x, t) /\ (RoomReady(s, t) => s.frame = {x.world})
<1>1. Stays(r, begun, x, t)
  <2>1. CASE begun = r
    BY <2>1, SelfGoes
  <2>2. CASE begun = RefreshAuto(r, t)
    BY <2>2, RefreshAutoFacts, HaltsStays
  <2> QED
    BY <2>1, <2>2
<1>2. begun \in Rooms /\ Sound(begun) /\ Calm(begun)
  BY <1>1 DEF Stays, Goes
<1> DEFINE s == UpdateRoom(begun, x, t)
<1>3. Goes(begun, s, x, t) /\ (RoomReady(s, t) => s.frame = {x.world})
  BY <1>2, UpdateGoes
<1> HIDE DEF s
<1>4. Goes(r, s, x, t)
  BY <1>1, <1>3, StaysGoes
<1> QED
  BY <1>3, <1>4 DEF s

\* What a frame may make of the record; a changed wish starts over.
Framed(r, s, x, t) ==
  /\ s \in Rooms /\ Sound(s) /\ Calm(s) /\ Newer(r, s)
  /\ s.supported = r.supported
  /\ s.changeTime = r.changeTime \/ (s.changeTime = 0 /\ r.changeTime <= t)
  /\ r.query.id # 0 => s.query.id = r.query.id
  /\ r.scan # 0 => s.scan = r.scan
  /\ s.enabled = r.enabled => (Lost(r, t) => Lost(s, t) /\ s.snapshot = r.snapshot)
  /\ s.state = "Complete" => Upheld(r, s, x, t) \/ Placed(r, s, x, t)
  /\ RoomReady(s, t) => s.frame = {x.world}

LEMMA FrameIsFramed ==
  ASSUME NEW r \in Rooms, Sound(r), Calm(r), NEW x \in Observations, NEW t \in Nat,
         NEW on \in BOOLEAN, NEW begun,
         begun = SetEnabled(r, on) \/ begun = RefreshAuto(SetEnabled(r, on), t)
  PROVE  Framed(r, UpdateRoom(begun, x, t), x, t)
<1> DEFINE e == SetEnabled(r, on)
           s == UpdateRoom(begun, x, t)
<1>1. e.enabled = on /\ (e = r \/ (Restarts(r, e) /\ r.enabled # on))
  BY EnabledRestarts DEF Sound
<1> HIDE DEF e
<1>2. e \in Rooms /\ Sound(e) /\ Calm(e)
  BY <1>1 DEF Restarts, Calm
<1>3. begun = e \/ begun = RefreshAuto(e, t)
  BY DEF e
<1>4. Goes(e, s, x, t) /\ (RoomReady(s, t) => s.frame = {x.world})
  BY <1>2, <1>3, BegunGoes
<1> HIDE DEF s
<1>5. CASE e = r
  BY <1>4, <1>5 DEF Framed, Goes, s
<1>6. CASE Restarts(r, e) /\ r.enabled # on
  <2>1. s \in Rooms /\ Sound(s) /\ Calm(s) /\ Newer(e, s) /\ s.enabled = on
    BY <1>1, <1>4 DEF Goes
  <2>2. /\ r.snapshot.revision \in Nat /\ e.snapshot.revision \in Nat
        /\ e.snapshot.revision > r.snapshot.revision
    BY <1>2, <1>6 DEF Restarts, Rooms, RoomSnapshots
  <2>3. Newer(r, e)
    BY <2>2 DEF Newer
  <2>4. Newer(r, s)
    BY <1>2, <2>1, <2>3, NewerTwice
  <2>5. s.state # "Complete"
    BY <1>4, <1>6 DEF Goes, Upheld, Placed, Restarts, Acquiring, Acquired
  <2>6. /\ s.supported = r.supported
        /\ s.changeTime = r.changeTime \/ (s.changeTime = 0 /\ r.changeTime <= t)
        /\ r.query.id # 0 => s.query.id = r.query.id
        /\ r.scan # 0 => s.scan = r.scan
    BY <1>4, <1>6 DEF Goes, Restarts, SameRequests
  <2> QED
    BY <1>4, <1>6, <2>1, <2>4, <2>5, <2>6 DEF Framed, s
<1> QED
  BY <1>1, <1>5, <1>6

\* What is lost stays lost, but for the user.
StaysLost ==
  AlignmentLost => \/ AlignmentLost' /\ room'.snapshot = room.snapshot
                   \/ room'.enabled # room.enabled

LEMMA FrameKeeps == RoomIndInv /\ RoomFrame => RoomIndInv' /\ StaysLost
<1> SUFFICES ASSUME RoomIndInv, RoomFrame PROVE RoomIndInv' /\ StaysLost
  OBVIOUS
<1>1. PICK tracked \in BOOLEAN, granted \in BOOLEAN, w \in Worlds,
           luck \in {"good", "bad", "wait"} :
        LET enabled == SetEnabled(room, wanted)
            due == refreshPending /\ tracked /\ wanted
            begun == IF due THEN RefreshAuto(enabled, roomTime) ELSE enabled
            x == [tracked |-> tracked, granted |-> granted, world |-> w, luck |-> luck,
                  id |-> NewId, astray |-> astray]
        IN  /\ Acts(UpdateRoom(begun, x, roomTime), {})
            /\ world' = w
            /\ refreshPending' = (refreshPending /\ ~due)
            /\ desiredRoom' =
                 IF /\ desiredRoom.revision = room'.snapshot.revision
                    /\ desiredRoom.enabled = room'.snapshot.enabled
                 THEN desiredRoom ELSE room'.snapshot
            /\ roomReady' = (RoomReady(room', roomTime) /\ tracked)
            /\ UNCHANGED wanted
  BY DEF RoomFrame
<1> DEFINE begun == IF refreshPending /\ tracked /\ wanted
                    THEN RefreshAuto(SetEnabled(room, wanted), roomTime)
                    ELSE SetEnabled(room, wanted)
           x == [tracked |-> tracked, granted |-> granted, world |-> w, luck |-> luck,
                 id |-> NewId, astray |-> astray]
<1>2. /\ room' = UpdateRoom(begun, x, roomTime) /\ Watched /\ Requests({})
      /\ roomTime' = roomTime /\ stageChanges' = stageChanges
      /\ world' = w /\ wanted' = wanted
      /\ refreshPending' \in BOOLEAN
      /\ desiredRoom' = IF /\ desiredRoom.revision = room'.snapshot.revision
                           /\ desiredRoom.enabled = room'.snapshot.enabled
                        THEN desiredRoom ELSE room'.snapshot
      /\ roomReady' = (RoomReady(room', roomTime) /\ tracked)
  BY <1>1 DEF Acts, Becomes
<1>3. /\ room \in Rooms /\ Sound(room) /\ Calm(room) /\ outstanding \subseteq Waiting
      /\ roomTime \in Nat /\ wanted \in BOOLEAN /\ astray \in [1..MaxSurfaces -> Nat]
      /\ stageChanges \subseteq Nat /\ desiredRoom \in RoomSnapshots
      /\ Foreseen /\ Applied /\ Revised
  BY DEF RoomIndInv, RoomTypeOK
<1>4. NewId \in Nat \ {0}
  BY <1>3, NewIdType DEF Sound
<1>5. x \in Observations /\ x.world = w /\ x.astray = astray
  BY <1>3, <1>4 DEF Observations
<1>6. begun = SetEnabled(room, wanted) \/ begun = RefreshAuto(SetEnabled(room, wanted), roomTime)
  OBVIOUS
<1> HIDE DEF begun, x
<1>7. Framed(room, room', x, roomTime)
  BY <1>2, <1>3, <1>5, <1>6, FrameIsFramed
<1>8. /\ room' \in Rooms /\ Sound(room') /\ Calm(room') /\ Newer(room, room')
      /\ room'.supported = room.supported
      /\ room'.changeTime = room.changeTime \/ (room'.changeTime = 0 /\ room.changeTime <= roomTime)
      /\ room.query.id # 0 => room'.query.id = room.query.id
      /\ room.scan # 0 => room'.scan = room.scan
  BY <1>7 DEF Framed
<1>9. room.changeTime \in Nat /\ room'.changeTime \in Nat
  BY <1>3, <1>8 DEF Rooms
<1>10. Foreseen'
  BY <1>2, <1>3, <1>8, <1>9 DEF Foreseen
<1>11. outstanding' \subseteq Waiting'
  <2>1. Waiting \subseteq Waiting'
    BY <1>8 DEF Waiting
  <2> QED
    BY <1>2, <1>3, <2>1 DEF Requests
<1>12. /\ room.snapshot.revision \in Nat /\ room'.snapshot.revision \in Nat
       /\ desiredRoom.revision \in Nat /\ room'.snapshot \in RoomSnapshots
  BY <1>3, <1>8 DEF Rooms, RoomSnapshots
<1>13. desiredRoom' = room'.snapshot
  BY <1>2, <1>3, <1>8, <1>12 DEF Revised, RevisionNamesSurfaces, Newer
<1>14. Revised'
  BY <1>12, <1>13 DEF Revised, RevisionNamesSurfaces
<1>15. RoomTypeOK'
  <2>1. outstanding' \subseteq Nat
    BY <1>8, <1>11 DEF Waiting, Rooms, Queries
  <2>2. astray' \in [1..MaxSurfaces -> Nat]
    BY <1>2, <1>3, StampsType DEF Watched
  <2>3. roomReady' \in BOOLEAN
    BY <1>2 DEF RoomReady
  <2> QED
    BY <1>2, <1>3, <1>8, <1>12, <1>13, <2>1, <2>2, <2>3 DEF RoomTypeOK
<1>16. Applied'
  <2> SUFFICES ASSUME room'.state = "Complete" PROVE
         /\ \A p \in room'.snapshot.placed : Stands(p)'
         /\ \A i \in 1..room'.surfaces :
              /\ room'.monitors[i] <= roomTime
              /\ astray'[i] = 0 \/ room'.monitors[i] <= astray'[i]
    BY <1>2 DEF Applied
  <2>1. Upheld(room, room', x, roomTime) \/ Placed(room, room', x, roomTime)
    BY <1>7 DEF Framed
  <2>2. CASE Upheld(room, room', x, roomTime)
    <3>1. /\ room.state = "Complete" /\ room'.snapshot = room.snapshot
          /\ room'.surfaces = room.surfaces /\ astray' = astray
      BY <1>2, <2>2 DEF Upheld, Watched
    <3>2. \A i \in 1..room'.surfaces :
            /\ room'.monitors[i] <= roomTime
            /\ astray'[i] = 0 \/ room'.monitors[i] <= astray'[i]
      BY <1>3, <1>5, <2>2, <3>1 DEF Upheld, Applied
    <3> QED
      BY <1>2, <1>3, <3>1, <3>2 DEF Applied, Stands
  <2>3. CASE Placed(room, room', x, roomTime)
    <3>1. room.state = "Build" /\ room'.snapshot.placed = {[at |-> roomTime, world |-> w]}
      BY <1>5, <2>3 DEF Placed
    <3>2. room.changeTime = 0 /\ room.supported
      BY <1>3, <3>1 DEF Calm, Sound, Acquiring, Acquired
    <3>3. \A c \in stageChanges : c <= roomTime
      BY <1>3, <3>2 DEF Foreseen
    <3>4. astray' = NoStamps
      BY <1>2, <3>1 DEF Watched
    <3>5. \A i \in 1..room'.surfaces : i \in 1..MaxSurfaces
      BY <1>8, RoomAssumption DEF Sound, Rooms
    <3>6. \A i \in 1..room'.surfaces : astray'[i] = 0
      BY <3>4, <3>5 DEF NoStamps
    <3>7. \A p \in room'.snapshot.placed : Stands(p)'
      BY <1>2, <1>3, <3>1, <3>3 DEF Stands
    <3>8. \A i \in 1..room'.surfaces : room'.monitors[i] <= roomTime
      BY <1>3, <2>3 DEF Placed
    <3> QED
      BY <3>6, <3>7, <3>8
  <2> QED
    BY <2>1, <2>2, <2>3
<1>17. ReadyStands'
  <2> SUFFICES ASSUME roomReady' PROVE
        /\ desiredRoom'.enabled /\ desiredRoom'.placed # {}
        /\ \A p \in desiredRoom'.placed : p.world = world' /\ Stands(p)'
    BY DEF ReadyStands
  <2>1. RoomReady(room', roomTime)
    BY <1>2
  <2>2. room'.state = "Complete" /\ room'.frame = {w}
    BY <1>5, <1>7, <2>1 DEF Framed, RoomReady
  <2>3. /\ room'.snapshot.enabled /\ room'.snapshot.placed # {}
        /\ \A p \in room'.snapshot.placed : room'.frame = {p.world}
    BY <1>8, <2>2 DEF Sound
  <2>4. \A p \in room'.snapshot.placed : Stands(p)'
    BY <1>16, <2>2 DEF Applied
  <2> QED
    BY <1>2, <1>13, <2>2, <2>3, <2>4
<1>18. StaysLost
  BY <1>2, <1>7 DEF StaysLost, AlignmentLost, Framed
<1> QED
  BY <1>8, <1>10, <1>11, <1>14, <1>15, <1>16, <1>17, <1>18 DEF RoomIndInv

(***************************************************************************)
(* The room: what the user and the runtime do between frames               *)
(***************************************************************************)
\* What stays around such a step.
Around ==
  /\ UNCHANGED <<world, wanted, desiredRoom>> /\ refreshPending' \in BOOLEAN
  /\ roomReady' \in BOOLEAN /\ (roomReady' => roomReady)

LEMMA QuietlyAround == ASSUME RoomIndInv, Quietly \/ Suspended PROVE Around
<1>1. refreshPending \in BOOLEAN /\ roomReady \in BOOLEAN
  BY DEF RoomIndInv, RoomTypeOK
<1>2. UNCHANGED <<world, wanted, desiredRoom>>
  BY DEF Quietly, Suspended, appRoomVars
<1>3. /\ refreshPending' = refreshPending \/ refreshPending' = TRUE
      /\ roomReady' = roomReady \/ roomReady' = FALSE
  BY DEF Quietly, Suspended, appRoomVars
<1>5. refreshPending' \in BOOLEAN
  BY <1>1, <1>3
<1>6. roomReady' \in BOOLEAN
  BY <1>1, <1>3
<1>7. roomReady' => roomReady
  BY <1>3
<1>4. refreshPending' \in BOOLEAN /\ roomReady' \in BOOLEAN /\ (roomReady' => roomReady)
  BY <1>5, <1>6, <1>7
<1> QED
  BY <1>2, <1>4 DEF Around

LEMMA CalmStep ==
  ASSUME RoomIndInv, NEW over, Acts(room', over), Around,
         (outstanding \ over) \subseteq Waiting',
         room' \in Rooms, Sound(room'), Calm(room'), Newer(room, room'),
         room'.supported = room.supported, room'.changeTime = room.changeTime,
         room'.state # "Complete" \/ room' = room
  PROVE  RoomIndInv'
<1>1. Watched /\ Requests(over) /\ roomTime' = roomTime /\ stageChanges' = stageChanges
  BY DEF Acts, Becomes
<1>2. outstanding \subseteq Waiting /\ Foreseen /\ stageChanges \subseteq Nat /\ wanted \in BOOLEAN
  BY DEF RoomIndInv, RoomTypeOK
<1>3. outstanding' \subseteq Waiting'
  BY <1>1, <1>2, RequestsStay
<1>4. Foreseen'
  BY <1>1, <1>2, ForeseenStays
<1>5. Quiets
  BY <1>1, <1>2, <1>3, <1>4 DEF Quiets, Around
<1> QED
  BY <1>5, QuietKeeps

LEMMA HaltStep ==
  ASSUME RoomIndInv, NEW over, Acts(room', over), Around, Halts(room, room', roomTime)
  PROVE  RoomIndInv' /\ StaysLost
<1>1. /\ room' \in Rooms /\ Sound(room') /\ room'.state \notin Acquiring
      /\ SameRequests(room, room') /\ SameUser(room, room') /\ Newer(room, room')
      /\ Lost(room, roomTime) => room'.latch /\ room'.snapshot = room.snapshot
  BY DEF Halts
<1>2. Calm(room') /\ room'.state # "Complete"
  BY <1>1 DEF Calm, Acquiring, Acquired
<1>3. Waiting' = Waiting /\ outstanding \subseteq Waiting
  BY <1>1, SameWaiting DEF RoomIndInv
<1>4. RoomIndInv'
  BY <1>1, <1>2, <1>3, CalmStep DEF SameUser
<1>5. StaysLost
  BY <1>1 DEF StaysLost, AlignmentLost, Lost
<1> QED
  BY <1>4, <1>5

LEMMA RestartStep ==
  ASSUME RoomIndInv, NEW over, Acts(room', over), Around, Restarts(room, room')
  PROVE  RoomIndInv'
<1>1. /\ room' \in Rooms /\ Sound(room') /\ room'.state \notin Acquiring
      /\ SameRequests(room, room') /\ room'.supported = room.supported
      /\ room'.changeTime = room.changeTime
      /\ Newer(room, room')
  BY DEF Restarts, Newer
<1>2. Calm(room') /\ room'.state # "Complete"
  BY <1>1 DEF Calm, Acquiring, Acquired
<1>3. Waiting' = Waiting /\ outstanding \subseteq Waiting
  BY <1>1, SameWaiting DEF RoomIndInv
<1> QED
  BY <1>1, <1>2, <1>3, CalmStep

LEMMA UserKeeps == RoomIndInv /\ (RefreshRoom \/ ScanRoom) => RoomIndInv'
<1> SUFFICES ASSUME RoomIndInv, RefreshRoom \/ ScanRoom PROVE RoomIndInv'
  OBVIOUS
<1>1. room \in Rooms /\ QueryOK(room)
  BY DEF RoomIndInv, RoomTypeOK, Sound
<1>2. CASE RefreshRoom
  <2>1. room' = RefreshExplicit(room) /\ Acts(room', {}) /\ Around
    BY <1>2, QuietlyAround DEF RefreshRoom, Acts, Becomes
  <2>2. Restarts(room, room')
    BY <1>1, <2>1, RefreshRestarts
  <2> QED
    BY <2>1, <2>2, RestartStep
<1>3. CASE ScanRoom
  <2>1. room' = RequestCapture(room) /\ Acts(room', {}) /\ Around
    BY <1>3, QuietlyAround DEF ScanRoom, Acts, Becomes
  <2>2. CASE room' = room
    <3>1. Sound(room) /\ Calm(room) /\ Newer(room, room) /\ outstanding \subseteq Waiting
      BY DEF RoomIndInv, Newer
    <3>2. /\ Sound(room') /\ Calm(room') /\ Newer(room, room') /\ outstanding \ {} \subseteq Waiting'
          /\ room' \in Rooms
      BY <1>1, <2>2, <3>1 DEF Waiting
    <3> QED
      BY <2>1, <2>2, <3>2, CalmStep
  <2>3. CASE Restarts(room, room')
    BY <2>1, <2>3, RestartStep
  <2> QED
    BY <1>1, <2>1, <2>2, <2>3, CaptureRestarts
<1> QED
  BY <1>2, <1>3

LEMMA HaltKeeps ==
  RoomIndInv /\ (Recenter \/ ActivationFails \/ \E ends \in SUBSET outstanding : EventsLost(ends))
    => RoomIndInv' /\ StaysLost
<1> SUFFICES ASSUME RoomIndInv,
                    Recenter \/ ActivationFails \/ \E ends \in SUBSET outstanding : EventsLost(ends)
             PROVE  RoomIndInv' /\ StaysLost
  OBVIOUS
<1>1. room \in Rooms /\ Sound(room) /\ roomTime \in Nat
  BY DEF RoomIndInv, RoomTypeOK
<1>2. CASE Recenter
  <2>1. room' = Invalidate(room, roomTime) /\ Acts(room', {}) /\ Around
    BY <1>2, QuietlyAround DEF Recenter, Acts, Becomes
  <2>2. Halts(room, room', roomTime)
    BY <1>1, <2>1, InvalidateFacts
  <2> QED
    BY <2>1, <2>2, HaltStep
<1>3. CASE ActivationFails
  <2>1. room' = ActivationFailed(room, roomTime) /\ Acts(room', {}) /\ Around
    BY <1>3, QuietlyAround DEF ActivationFails, Acts, Becomes
  <2>2. Halts(room, room', roomTime)
    BY <1>1, <2>1, ActivationHalts
  <2> QED
    BY <2>1, <2>2, HaltStep
<1>4. CASE \E ends \in SUBSET outstanding : EventsLost(ends)
  <2>1. PICK ends \in SUBSET outstanding : EventsLost(ends)
    BY <1>4
  <2>2. room' = FailRoom(room, roomTime) /\ Acts(room', ends) /\ Around
    BY <2>1, QuietlyAround DEF EventsLost, Acts, Becomes
  <2>3. Halts(room, room', roomTime)
    BY <1>1, <2>2, FailFacts
  <2> QED
    BY <2>2, <2>3, HaltStep
<1> QED
  BY <1>2, <1>3, <1>4

\* While the runtime owes an answer no room is applied or latched.
LEMMA OwedIsNotLost ==
  ASSUME Sound(room), room.query.id # 0 \/ room.scan # 0
  PROVE  ~AlignmentLost
  BY DEF Sound, AlignmentLost, Lost, Acquiring, Acquired

LEMMA AnswersKeep == RoomIndInv /\ Answers => RoomIndInv' /\ StaysLost
<1> SUFFICES ASSUME RoomIndInv, Answers PROVE RoomIndInv' /\ StaysLost
  OBVIOUS
<1>1. /\ room \in Rooms /\ Sound(room) /\ Calm(room) /\ roomTime \in Nat
      /\ outstanding \subseteq Waiting /\ QueryOK(room)
  BY DEF RoomIndInv, RoomTypeOK, Sound
<1>2. PICK id \in outstanding, usable \in BOOLEAN :
        \/ ResultsAvailable(id, usable)
        \/ \E n \in 0..MaxSurfaces, more \in BOOLEAN : QueryComplete(id, usable, n, more)
        \/ ScanComplete(id, usable)
  BY DEF Answers
<1>3. id # 0 /\ id \in Waiting
  BY <1>1 DEF Waiting
<1>4. CASE ResultsAvailable(id, usable)
  <2>1. /\ room' = Retrieve(room, usable, roomTime) /\ Acts(room', {}) /\ Around
        /\ room.query.id # 0
    BY <1>3, <1>4, QuietlyAround DEF ResultsAvailable, Acts, Becomes
  <2>2. /\ room' \in Rooms /\ Sound(room') /\ Calm(room') /\ Newer(room, room')
        /\ SameRequests(room, room') /\ SameUser(room, room') /\ room'.state # "Complete"
    BY <1>1, <2>1, RetrieveFacts
  <2>3. (outstanding \ {}) \subseteq Waiting'
    BY <1>1, <2>2, SameWaiting
  <2>4. RoomIndInv'
    BY <2>1, <2>2, <2>3, CalmStep DEF SameUser
  <2> QED
    BY <1>1, <2>1, <2>4, OwedIsNotLost DEF StaysLost
<1>5. CASE \E n \in 0..MaxSurfaces, more \in BOOLEAN : QueryComplete(id, usable, n, more)
  <2>1. PICK n \in 0..MaxSurfaces, more \in BOOLEAN : QueryComplete(id, usable, n, more)
    BY <1>5
  <2>2. /\ room' = FinishQuery(room, usable, n, more, NewId, roomTime) /\ Acts(room', {id})
        /\ Around /\ room.query.id = id /\ room'.surfaces <= MaxSurfaces
        /\ n # 0 \/ more => usable /\ room.query.kind = "members"
    BY <2>1, QuietlyAround DEF QueryComplete, Acts, Becomes
  <2>3. NewId \in Nat \ {0} /\ n \in Nat
    BY <1>1, NewIdType, RoomAssumption
  <2>4. /\ room' \in Rooms /\ Sound(room') /\ Calm(room') /\ Newer(room, room')
        /\ SameUser(room, room') /\ room'.state # "Complete"
    BY <1>1, <1>3, <2>2, <2>3, FinishFacts
  <2>5. (outstanding \ {id}) \subseteq Waiting'
    BY <1>1, <1>3, <2>2 DEF Waiting, QueryOK
  <2>6. RoomIndInv'
    BY <2>2, <2>4, <2>5, CalmStep DEF SameUser
  <2> QED
    BY <1>1, <1>3, <2>2, <2>6, OwedIsNotLost DEF StaysLost
<1>6. CASE ScanComplete(id, usable)
  <2> DEFINE over == [room EXCEPT !.scan = 0]
  <2>1. /\ Acts(room', {id}) /\ Around /\ room.scan = id
        /\ room' = RefreshExplicit(over) \/ room' = FailRoom(over, roomTime)
    BY <1>6, QuietlyAround DEF ScanComplete, Acts, Becomes
  <2>2. /\ over \in Rooms /\ over.scan = 0
        /\ over.state = room.state /\ over.latch = room.latch /\ over.snapshot = room.snapshot
        /\ over.owned = room.owned /\ over.uses = room.uses /\ over.surfaces = room.surfaces
        /\ over.supported = room.supported /\ over.enabled = room.enabled
        /\ over.query = room.query /\ over.frame = room.frame
        /\ over.scanWanted = room.scanWanted /\ over.changeTime = room.changeTime
    BY <1>1 DEF Rooms
  <2>3. room.state \notin Acquiring \union {"NeedsRefresh"} /\ room.query.id = 0
    BY <1>1, <1>3, <2>1 DEF Sound, QueryOK
  <2> HIDE DEF over
  <2>4. Sound(over)
    BY <1>1, <2>2, <2>3 DEF Sound, QueryOK, Acquired, Acquiring
  <2>5. /\ room' \in Rooms /\ Sound(room') /\ room'.state \notin Acquiring
        /\ room'.supported = over.supported /\ room'.changeTime = over.changeTime
        /\ Newer(over, room')
    <3>1. CASE room' = RefreshExplicit(over)
      <4>1. Restarts(over, room')
        BY <2>2, <2>4, <3>1, RefreshRestarts DEF Sound
      <4> QED
        BY <4>1 DEF Restarts, Newer
    <3>2. CASE room' = FailRoom(over, roomTime)
      <4>1. Halts(over, room', roomTime)
        BY <1>1, <2>2, <2>4, <3>2, FailFacts
      <4> QED
        BY <4>1 DEF Halts, SameUser
    <3> QED
      BY <2>1, <3>1, <3>2
  <2>6. Calm(room') /\ Newer(room, room') /\ room'.state # "Complete"
    BY <2>2, <2>5 DEF Calm, Newer, Acquiring, Acquired
  <2>7. (outstanding \ {id}) \subseteq Waiting'
    BY <1>1, <2>1, <2>3 DEF Waiting
  <2>8. RoomIndInv'
    BY <2>1, <2>2, <2>5, <2>6, <2>7, CalmStep
  <2> QED
    BY <1>1, <1>3, <2>1, <2>8, OwedIsNotLost DEF StaysLost
<1> QED
  BY <1>2, <1>4, <1>5, <1>6

\* A session begins with nothing applied, asked or announced.
LEMMA SessionKeeps ==
  ASSUME RoomIndInv, NEW supported \in BOOLEAN, RestartSession(supported)
  PROVE  RoomIndInv'
<1> DEFINE i == Invalidate(room, roomTime)
           ended == NewRoomSession(i, FALSE)
           begun == NewRoomSession(ended, supported)
<1>1. /\ room' = SetEnabled(begun, wanted) /\ Watched /\ Requests(outstanding)
      /\ roomTime' = roomTime /\ stageChanges' = {} /\ refreshPending' = wanted
      /\ roomReady' = FALSE /\ world' = world /\ wanted' = wanted
      /\ desiredRoom' = desiredRoom
  BY DEF RestartSession, Becomes
<1>2. /\ room \in Rooms /\ Sound(room) /\ roomTime \in Nat /\ wanted \in BOOLEAN
      /\ desiredRoom \in RoomSnapshots /\ world \in Worlds
      /\ astray \in [1..MaxSurfaces -> Nat] /\ Revised
  BY DEF RoomIndInv, RoomTypeOK
<1>3. i \in Rooms /\ QueryOK(i) /\ Newer(room, i)
  <2>1. Halts(room, i, roomTime)
    BY <1>2, InvalidateFacts
  <2> HIDE DEF i
  <2> QED
    BY <2>1 DEF Halts, Sound
<1> HIDE DEF i
<1>4. ended \in Rooms /\ Sound(ended) /\ ended.snapshot.revision > i.snapshot.revision
  BY <1>3, SessionFacts
<1> HIDE DEF ended
<1>5. /\ begun \in Rooms /\ Sound(begun) /\ begun.state \notin Acquiring /\ ~begun.latch
      /\ begun.query.id = 0 /\ begun.scan = 0
      /\ begun.snapshot.revision > ended.snapshot.revision
  BY <1>4, SessionFacts DEF Sound
<1> HIDE DEF begun
<1>6. room' = begun \/ Restarts(begun, room')
  BY <1>1, <1>2, <1>5, EnabledRestarts DEF Sound
<1>7. room' \in Rooms /\ Sound(room') /\ room'.state \notin Acquiring
  BY <1>5, <1>6 DEF Restarts
<1>8. Newer(room, room')
  <2>1. Newer(i, ended) /\ Newer(ended, begun) /\ Newer(begun, room')
    BY <1>4, <1>5, <1>6 DEF Newer, Restarts
  <2>2. Newer(room, ended)
    BY <1>2, <1>3, <1>4, <2>1, NewerTwice
  <2>3. Newer(room, begun)
    BY <1>2, <1>4, <1>5, <2>1, <2>2, NewerTwice
  <2> QED
    BY <1>2, <1>5, <1>7, <2>1, <2>3, NewerTwice
<1>9. Calm(room') /\ room'.state # "Complete"
  BY <1>7 DEF Calm, Acquiring, Acquired
<1>10. outstanding' \subseteq Waiting'
  BY <1>1 DEF Requests
<1>11. RoomTypeOK'
  <2>1. outstanding' \subseteq Nat
    BY <1>7, <1>10 DEF Waiting, Rooms, Queries
  <2>2. astray' \in [1..MaxSurfaces -> Nat]
    BY <1>1, <1>2, StampsType DEF Watched
  <2> QED
    BY <1>1, <1>2, <1>7, <2>1, <2>2 DEF RoomTypeOK
<1>12. Foreseen' /\ Applied' /\ ReadyStands'
  BY <1>1, <1>9 DEF Foreseen, Applied, ReadyStands
<1>13. Revised'
  <2>1. /\ desiredRoom.revision \in Nat /\ room.snapshot.revision \in Nat
        /\ room'.snapshot.revision \in Nat
    BY <1>2, <1>7 DEF Rooms, RoomSnapshots
  <2> QED
    BY <1>1, <1>2, <1>8, <2>1 DEF Revised, RevisionNamesSurfaces, Newer
<1> QED
  BY <1>7, <1>9, <1>10, <1>11, <1>12, <1>13 DEF RoomIndInv

\* An announced change ends the acquisition, or freezes what was applied, at once.
LEMMA StageKeeps ==
  ASSUME RoomIndInv, NEW at \in 1..RoomClock, StageWillChange(at)
  PROVE  RoomIndInv' /\ StaysLost
<1> DEFINE later == [room EXCEPT !.changeTime = IF at > @ THEN at ELSE @]
           told == IF room.supported THEN Invalidate(later, roomTime) ELSE room
<1>1. /\ room' = Invalidate(told, roomTime) /\ Watched /\ Requests({})
      /\ roomTime' = roomTime /\ stageChanges' = stageChanges \union {at}
      /\ Around /\ roomReady' = FALSE
  BY QuietlyAround DEF StageWillChange, Becomes, Suspended
<1>2. /\ room \in Rooms /\ Sound(room) /\ roomTime \in Nat
      /\ stageChanges \subseteq Nat /\ outstanding \subseteq Waiting /\ Foreseen /\ Revised
      /\ astray \in [1..MaxSurfaces -> Nat] /\ desiredRoom \in RoomSnapshots
      /\ world \in Worlds /\ wanted \in BOOLEAN /\ room.changeTime \in Nat
  BY DEF RoomIndInv, RoomTypeOK, Rooms
<1>3. at \in Nat
  BY RoomAssumption
<1>4. /\ later \in Rooms /\ later.changeTime = (IF at > room.changeTime THEN at ELSE room.changeTime)
      /\ later.state = room.state /\ later.latch = room.latch /\ later.snapshot = room.snapshot
      /\ later.owned = room.owned /\ later.uses = room.uses /\ later.surfaces = room.surfaces
      /\ later.supported = room.supported /\ later.enabled = room.enabled
      /\ later.query = room.query /\ later.scan = room.scan /\ later.frame = room.frame
      /\ later.scanWanted = room.scanWanted /\ later.monitors = room.monitors
  BY <1>2, <1>3 DEF Rooms
<1> HIDE DEF later
<1>5. Sound(later)
  BY <1>2, <1>4 DEF Sound, QueryOK
<1>6. later.changeTime \in Nat /\ at <= later.changeTime /\ room.changeTime <= later.changeTime
  BY <1>2, <1>3, <1>4
<1> DEFINE Told(z) ==
      /\ z \in Rooms /\ Sound(z) /\ SameRequests(room, z) /\ Newer(room, z)
      /\ z.enabled = room.enabled /\ z.supported = room.supported
      /\ Lost(room, roomTime) => Lost(z, roomTime) /\ z.snapshot = room.snapshot
      /\ room.supported => z.changeTime = later.changeTime
<1>7. Told(told)
  <2>1. CASE room.supported
    <3>1. told = Invalidate(later, roomTime)
      BY <2>1
    <3>2. Halts(later, told, roomTime)
      BY <1>2, <1>4, <1>5, <3>1, InvalidateFacts
    <3> HIDE DEF told
    <3>3. Lost(room, roomTime) => Lost(later, roomTime)
      BY <1>4 DEF Lost, MonitorFresh
    <3> QED
      BY <1>4, <3>2, <3>3 DEF Halts, SameRequests, SameUser, Newer, Lost
  <2>2. CASE ~room.supported
    BY <1>2, <2>2 DEF SameRequests, Newer
  <2> QED
    BY <2>1, <2>2
<1> HIDE DEF told
<1>8. Halts(told, room', roomTime)
  BY <1>1, <1>2, <1>7, InvalidateFacts
<1>9. /\ room' \in Rooms /\ Sound(room') /\ room'.state \notin Acquiring
      /\ SameRequests(room, room') /\ room'.supported = room.supported
      /\ room.supported => room'.changeTime = later.changeTime
  BY <1>7, <1>8 DEF Halts, SameRequests, SameUser
<1>10. Newer(room, room')
  BY <1>2, <1>7, <1>8, <1>9, NewerTwice DEF Halts
<1>11. StaysLost
  BY <1>7, <1>8 DEF Halts, StaysLost, AlignmentLost, Lost
<1>12. Calm(room') /\ room'.state # "Complete"
  BY <1>9 DEF Calm, Acquiring, Acquired
<1>13. outstanding' \subseteq Waiting'
  <2>1. Waiting' = Waiting
    BY <1>9, SameWaiting
  <2> QED
    BY <1>1, <1>2, <2>1 DEF Requests
<1>14. Foreseen'
  <2>1. ASSUME room.supported, NEW c \in stageChanges
        PROVE  c <= later.changeTime \/ c <= roomTime
    BY <1>2, <1>6, <2>1 DEF Foreseen
  <2> QED
    BY <1>1, <1>6, <1>9, <2>1 DEF Foreseen
<1>15. RoomTypeOK'
  <2>1. outstanding' \subseteq Nat
    BY <1>9, <1>13 DEF Waiting, Rooms, Queries
  <2>2. astray' \in [1..MaxSurfaces -> Nat]
    BY <1>1, <1>2, StampsType DEF Watched
  <2>3. stageChanges' \subseteq Nat
    BY <1>1, <1>2, <1>3
  <2> QED
    BY <1>1, <1>2, <1>9, <2>1, <2>2, <2>3 DEF RoomTypeOK, Around
<1>16. Applied' /\ ReadyStands'
  BY <1>1, <1>12 DEF Applied, ReadyStands
<1>17. Revised'
  <2>1. /\ desiredRoom.revision \in Nat /\ room.snapshot.revision \in Nat
        /\ room'.snapshot.revision \in Nat /\ desiredRoom' = desiredRoom
    BY <1>1, <1>2, <1>9 DEF Rooms, RoomSnapshots, Around
  <2> QED
    BY <1>2, <1>10, <2>1 DEF Revised, RevisionNamesSurfaces, Newer
<1> QED
  BY <1>9, <1>11, <1>12, <1>13, <1>14, <1>15, <1>16, <1>17 DEF RoomIndInv

\* What leaves the record alone.
LEMMA OutsideKeeps ==
  RoomIndInv /\ (ToggleCollisions \/ LoseFocus \/ (\E i \in 1..MaxSurfaces : AnchorMoves(i))
                 \/ RoomElapse \/ UNCHANGED roomVars)
    => RoomIndInv' /\ StaysLost
<1> SUFFICES ASSUME RoomIndInv,
                    \/ ToggleCollisions \/ LoseFocus \/ RoomElapse \/ UNCHANGED roomVars
                    \/ \E i \in 1..MaxSurfaces : AnchorMoves(i)
             PROVE  RoomIndInv' /\ StaysLost
  OBVIOUS
<1>1. room' = room /\ outstanding' = outstanding /\ stageChanges' = stageChanges /\ world' = world
      /\ desiredRoom' = desiredRoom /\ refreshPending' = refreshPending
  BY DEF ToggleCollisions, LoseFocus, RoomElapse, AnchorMoves, roomVars, appRoomVars
<1>2. /\ room \in Rooms /\ Sound(room) /\ Calm(room) /\ roomTime \in Nat /\ astray \in [1..MaxSurfaces -> Nat]
      /\ wanted \in BOOLEAN /\ roomReady \in BOOLEAN /\ stageChanges \subseteq Nat
      /\ Foreseen /\ Applied /\ ReadyStands /\ Revised /\ outstanding \subseteq Waiting
      /\ RoomTypeOK
  BY DEF RoomIndInv, RoomTypeOK
<1>3. /\ Sound(room') /\ Calm(room') /\ Revised' /\ outstanding' \subseteq Waiting'
  BY <1>1, <1>2 DEF Revised, RevisionNamesSurfaces, Waiting
<1>4. ASSUME roomTime' = roomTime, astray' = astray, wanted' \in BOOLEAN, roomReady' \in BOOLEAN,
             roomReady' => roomReady
      PROVE  RoomIndInv' /\ StaysLost
  <2>1. RoomTypeOK'
    BY <1>1, <1>2, <1>4 DEF RoomTypeOK
  <2>2. Foreseen' /\ Applied' /\ ReadyStands'
    BY <1>1, <1>2, <1>4 DEF Foreseen, Applied, ReadyStands, Stands
  <2>3. StaysLost
    BY <1>1, <1>4 DEF StaysLost, AlignmentLost
  <2> QED
    BY <1>3, <2>1, <2>2, <2>3 DEF RoomIndInv
<1>5. CASE ToggleCollisions \/ LoseFocus \/ UNCHANGED roomVars
  <2>1. roomTime' = roomTime /\ astray' = astray
    BY <1>5 DEF ToggleCollisions, LoseFocus, roomVars
  <2>2. /\ wanted' = wanted \/ wanted' = ~wanted
        /\ roomReady' = roomReady \/ roomReady' = FALSE
    BY <1>5 DEF ToggleCollisions, LoseFocus, roomVars, appRoomVars
  <2>4. wanted' \in BOOLEAN
    BY <1>2, <2>2
  <2>5. roomReady' \in BOOLEAN
    BY <1>2, <2>2
  <2>6. roomReady' => roomReady
    BY <2>2
  <2>3. wanted' \in BOOLEAN /\ roomReady' \in BOOLEAN /\ (roomReady' => roomReady)
    BY <2>4, <2>5, <2>6
  <2> QED
    BY <1>4, <2>1, <2>3
<1>6. CASE \E i \in 1..MaxSurfaces : AnchorMoves(i)
  <2>1. PICK i \in 1..MaxSurfaces : AnchorMoves(i)
    BY <1>6
  <2>2. /\ astray' = [astray EXCEPT ![i] = IF @ = 0 THEN roomTime ELSE 0]
        /\ room.state = "Complete" /\ roomTime' = roomTime
        /\ wanted' = wanted /\ roomReady' = roomReady
    BY <2>1 DEF AnchorMoves, appRoomVars
  <2>3. astray' \in [1..MaxSurfaces -> Nat]
    BY <1>2, <2>2
  <2>4. RoomTypeOK'
    BY <1>1, <1>2, <2>2, <2>3 DEF RoomTypeOK
  <2>5. Foreseen' /\ ReadyStands'
    BY <1>1, <1>2, <2>2 DEF Foreseen, ReadyStands, Stands
  <2>6. ASSUME NEW j \in 1..room.surfaces
        PROVE  /\ room.monitors[j] <= roomTime
               /\ astray'[j] = 0 \/ room.monitors[j] <= astray'[j]
    <3>1. /\ room.monitors[j] <= roomTime
          /\ astray[j] = 0 \/ room.monitors[j] <= astray[j]
      BY <1>2, <2>2, <2>6 DEF Applied
    <3>4. room.surfaces <= MaxSurfaces /\ MaxSurfaces \in Nat /\ room.surfaces \in Nat
      BY <1>2, RoomAssumption DEF Sound, Rooms
    <3>2. j \in 1..MaxSurfaces
      BY <2>6, <3>4
    <3>3. astray'[j] = astray[j] \/ astray'[j] = 0 \/ astray'[j] = roomTime
      BY <1>2, <2>2, <3>2
    <3> QED
      BY <3>1, <3>3
  <2>7. \A p \in room.snapshot.placed : Stands(p)
    BY <1>2, <2>2 DEF Applied
  <2>8. Applied'
    BY <1>1, <2>2, <2>6, <2>7 DEF Applied, Stands
  <2>9. StaysLost
    BY <1>1, <2>2 DEF StaysLost, AlignmentLost
  <2> QED
    BY <1>3, <2>4, <2>5, <2>8, <2>9 DEF RoomIndInv
<1>7. CASE RoomElapse
  <2>1. roomTime' = roomTime + 1 /\ astray' = astray /\ wanted' = wanted /\ roomReady' = roomReady
    BY <1>7 DEF RoomElapse, appRoomVars
  <2>2. RoomTypeOK'
    BY <1>1, <1>2, <2>1 DEF RoomTypeOK
  <2>3. room.changeTime \in Nat /\ room.monitors \in [1..MaxSurfaces -> Nat]
        /\ room.snapshot.placed \subseteq Placements /\ desiredRoom.placed \subseteq Placements
        /\ room.surfaces \in Nat
    BY <1>2 DEF Rooms, RoomSnapshots, RoomTypeOK
  <2>4. Foreseen'
    <3>1. ASSUME room.supported, NEW c \in stageChanges
          PROVE  c <= room.changeTime \/ c <= roomTime + 1
      <4>1. c \in Nat /\ (c <= room.changeTime \/ c <= roomTime)
        BY <1>2, <3>1 DEF Foreseen
      <4> QED
        BY <1>2, <4>1
    <3> QED
      BY <1>1, <2>1, <3>1 DEF Foreseen
  <2>5. ASSUME NEW p \in Placements, Stands(p) PROVE Stands(p)'
    BY <1>1, <1>2, <2>1, <2>5 DEF Stands, Placements
  <2>6. ASSUME NEW j \in 1..room.surfaces, room.monitors[j] <= roomTime
        PROVE  room.monitors[j] <= roomTime + 1
    <3>1. j \in 1..MaxSurfaces
      BY <1>2, <2>6, RoomAssumption DEF Sound, Rooms
    <3>2. room.monitors[j] \in Nat
      BY <2>3, <3>1
    <3> QED
      BY <1>2, <2>6, <3>2
  <2>7. Applied'
    BY <1>1, <1>2, <2>1, <2>3, <2>5, <2>6 DEF Applied
  <2>8. ReadyStands'
    BY <1>1, <1>2, <2>1, <2>3, <2>5 DEF ReadyStands
  <2>9. ASSUME room.state = "Complete", ~MonitorFresh(room, roomTime)
        PROVE  ~MonitorFresh(room, roomTime + 1)
    <3>1. ASSUME NEW j \in 1..room.surfaces PROVE room.monitors[j] \in Nat
      <4>1. room.surfaces <= MaxSurfaces /\ MaxSurfaces \in Nat
        BY <1>2, RoomAssumption DEF Sound
      <4>2. j \in 1..MaxSurfaces
        BY <2>3, <4>1
      <4> QED
        BY <2>3, <4>2
    <3>2. MonitorMaxAge \in Nat
      BY RoomAssumption
    <3>3. ASSUME NEW j \in 1..room.surfaces, (roomTime + 1) - room.monitors[j] <= MonitorMaxAge
          PROVE  roomTime - room.monitors[j] <= MonitorMaxAge
      BY <1>2, <3>1, <3>2, <3>3
    <3> SUFFICES ASSUME MonitorFresh(room, roomTime + 1) PROVE MonitorFresh(room, roomTime)
      BY <2>9
    <3>4. /\ room.surfaces > 0
          /\ \A j \in 1..room.surfaces :
               /\ room.monitors[j] # 0
               /\ (roomTime + 1) - room.monitors[j] <= MonitorMaxAge
      BY DEF MonitorFresh
    <3>5. ASSUME NEW j \in 1..room.surfaces
          PROVE  room.monitors[j] # 0 /\ roomTime - room.monitors[j] <= MonitorMaxAge
      <4>1. room.monitors[j] # 0 /\ (roomTime + 1) - room.monitors[j] <= MonitorMaxAge
        BY <3>4
      <4> QED
        BY <3>3, <4>1
    <3> QED
      BY <3>4, <3>5 DEF MonitorFresh
  <2>10. StaysLost
    BY <1>1, <2>1, <2>9 DEF StaysLost, AlignmentLost, Lost
  <2> QED
    BY <1>3, <2>2, <2>4, <2>7, <2>8, <2>10 DEF RoomIndInv
<1> QED
  BY <1>5, <1>6, <1>7

(***************************************************************************)
(* The room: the theorems                                                  *)
(***************************************************************************)
LEMMA RoomStep ==
  RoomIndInv /\ [RoomNext]_roomVars => RoomIndInv' /\ (StaysLost \/ AskedByUser)
<1> SUFFICES ASSUME RoomIndInv, [RoomNext]_roomVars
             PROVE  RoomIndInv' /\ (StaysLost \/ AskedByUser)
  OBVIOUS
<1>1. CASE RoomFrame
  BY <1>1, FrameKeeps
<1>2. CASE RefreshRoom \/ ScanRoom
  BY <1>2, UserKeeps DEF AskedByUser
<1>3. CASE Recenter \/ ActivationFails \/ \E ends \in SUBSET outstanding : EventsLost(ends)
  BY <1>3, HaltKeeps
<1>4. CASE Answers
  BY <1>4, AnswersKeep
<1>5. CASE \E supported \in BOOLEAN : RestartSession(supported)
  BY <1>5, SessionKeeps DEF AskedByUser
<1>6. CASE \E at \in 1..RoomClock : StageWillChange(at)
  BY <1>6, StageKeeps
<1>7. CASE \/ ToggleCollisions \/ LoseFocus \/ RoomElapse \/ UNCHANGED roomVars
           \/ \E i \in 1..MaxSurfaces : AnchorMoves(i)
  BY <1>7, OutsideKeeps
<1> QED
  BY <1>1, <1>2, <1>3, <1>4, <1>5, <1>6, <1>7 DEF RoomNext

\* The inductive invariant says at least what the run checks.
LEMMA RoomImplied == RoomIndInv => RoomInv
<1> SUFFICES ASSUME RoomIndInv PROVE RoomInv
  OBVIOUS
<1>1. /\ RoomTypeOK /\ Sound(room) /\ Applied /\ ReadyStands /\ outstanding \subseteq Waiting
      /\ RevisionNamesSurfaces
  BY DEF RoomIndInv, Revised
<1>2. ReadyIsInFrame
  <2> SUFFICES ASSUME roomReady, NEW p \in desiredRoom.placed
               PROVE  StageAt(p.at) = StageAt(roomTime)
    BY <1>1 DEF ReadyIsInFrame, ReadyStands
  <2>1. Stands(p) /\ p.at \in Nat /\ roomTime \in Nat /\ stageChanges \subseteq Nat
    BY <1>1 DEF ReadyStands, RoomTypeOK, RoomSnapshots, Placements
  <2>2. ASSUME NEW c \in stageChanges PROVE c <= p.at /\ c <= roomTime
    <3>1. c <= p.at /\ p.at <= roomTime /\ c \in Nat
      BY <2>1 DEF Stands
    <3> QED
      BY <2>1, <3>1
  <2>3. StageAt(p.at) = stageChanges /\ StageAt(roomTime) = stageChanges
    BY <2>2 DEF StageAt
  <2> QED
    BY <2>3
<1>3. ReadyIsWatched
  <2> SUFFICES ASSUME RoomReady(room, roomTime), NEW i \in 1..room.surfaces, astray[i] # 0
               PROVE  roomTime - astray[i] <= MonitorMaxAge
    BY DEF ReadyIsWatched
  <2>1. room.monitors[i] <= astray[i] /\ roomTime - room.monitors[i] <= MonitorMaxAge
    BY <1>1 DEF Applied, RoomReady, MonitorFresh
  <2>4. room.surfaces <= MaxSurfaces /\ MaxSurfaces \in Nat /\ room.surfaces \in Nat
    BY <1>1, RoomAssumption DEF Sound, RoomTypeOK, Rooms
  <2>2. i \in 1..MaxSurfaces
    BY <2>4
  <2>3. room.monitors[i] \in Nat /\ astray[i] \in Nat /\ roomTime \in Nat /\ MonitorMaxAge \in Nat
    BY <1>1, <2>2, RoomAssumption DEF RoomTypeOK, Rooms
  <2> QED
    BY <2>1, <2>3
<1>4. HandlesAreOwned
  BY <1>1 DEF Sound, HandlesAreOwned, Acquiring, Acquired
<1>5. OneRequestAtATime
  BY <1>1 DEF Sound, QueryOK, OneRequestAtATime, Acquiring, Acquired
<1> QED
  BY <1>1, <1>2, <1>3, <1>4, <1>5 DEF RoomInv

(***************************************************************************)
(* For any number of surfaces, registrations and limits: what the worker   *)
(* is told is ready stands in the STAGE space and the registration in      *)
(* force, is watched, rests on owned handles and on one request at a time, *)
(* and has a revision of its own.                                          *)
(***************************************************************************)
THEOREM RoomIsInFrame == RoomSpec => []RoomInv
<1>1. RoomIndInv /\ [RoomNext]_roomVars => RoomIndInv'
  BY RoomStep
<1> QED
  BY <1>1, RoomInitially, RoomImplied, PTL DEF RoomSpec

(***************************************************************************)
(* A lost room stays paused with its last surfaces until the user or the   *)
(* end of the session lets it go.                                          *)
(***************************************************************************)
THEOREM LostStaysLost == RoomSpec => FrozenUntilAsked
<1>1. RoomIndInv /\ [RoomNext]_roomVars => RoomIndInv'
  BY RoomStep
<1>2. RoomIndInv /\ [RoomNext]_roomVars
        => [AlignmentLost =>
              (AlignmentLost' /\ room'.snapshot = room.snapshot) \/ AskedByUser]_roomVars
  BY RoomStep DEF StaysLost, AskedByUser
<1> QED
  BY <1>1, <1>2, RoomInitially, PTL DEF RoomSpec, FrozenUntilAsked
=============================================================================
