---------------------------- MODULE EditableScene ----------------------------
(***************************************************************************)
(* What the worker relies on when it edits a live scene: an edit happens   *)
(* at once or not at all, names a new model, and moves nothing but what it *)
(* was asked to move. place says of every body that exists where it is:    *)
(* at home, where it was put, or wherever physics has carried it.          *)
(***************************************************************************)
EXTENDS Naturals, FiniteSets

CONSTANTS Ids, Robot, Box, MaxObjects

VARIABLES place, used, generation, room
sceneVars == <<place, used, generation, room>>

AllAtHome(bodies) == [b \in bodies |-> "home"]

SceneInit == /\ place = AllAtHome({Robot}) /\ used = {}
             /\ generation = 1 /\ room = 0

Cubes == DOMAIN place \intersect Ids

Moves == /\ place' = [b \in DOMAIN place |-> "moved"]
         /\ UNCHANGED <<used, generation, room>>

GoesHome == /\ place' = AllAtHome(DOMAIN place)
            /\ UNCHANGED <<used, generation, room>>

Edits == generation' = generation + 1

Spawns(id) == /\ id \notin used /\ Cardinality(Cubes) < MaxObjects /\ Edits
              /\ place' = [b \in DOMAIN place \union {id} |-> IF b = id THEN "home" ELSE place[b]]
              /\ used' = used \union {id}
              /\ UNCHANGED room

Removes(id) == /\ Edits /\ place' = [b \in DOMAIN place \ {id} |-> place[b]]
               /\ UNCHANGED <<used, room>>

Puts(id, where) == /\ Edits /\ place' = [place EXCEPT ![id] = where]
                   /\ UNCHANGED <<used, room>>

\* Another physics, or the debug box comes or goes: everything starts over.
StartsOver(bodies) == /\ Edits /\ bodies \ {Box} = DOMAIN place \ {Box}
                      /\ place' = AllAtHome(bodies)
                      /\ UNCHANGED <<used, room>>

Refurnishes == /\ Edits /\ room' > room /\ UNCHANGED <<place, used>>

SceneNext ==
    \/ Moves \/ GoesHome \/ Refurnishes
    \/ \E id \in Ids : Spawns(id)
    \/ \E id \in Cubes : Removes(id) \/ \E where \in {"home", "placed"} : Puts(id, where)
    \/ \E box \in {{}, {Box}} : StartsOver((DOMAIN place \ {Box}) \union box)

SceneSpec == SceneInit /\ [][SceneNext]_sceneVars
==============================================================================
