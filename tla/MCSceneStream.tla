---------------------------- MODULE MCSceneStream ----------------------------
(***************************************************************************)
(* Two bounded histories of the scene stream, checked in one run. "close": *)
(* the headset reconnects and the host may be interrupted anywhere; there  *)
(* is no control channel and no clear. "map": clears and tracking losses   *)
(* race over one connection and the host runs to its last batch.           *)
(***************************************************************************)
EXTENDS SceneStream

VARIABLE history_

MCInit ==
    /\ StreamInit /\ history_ \in {"close", "map"}
    /\ batches = IF history_ = "close" THEN 1 ELSE MaxBatches

\* Only what no fairness promises is left out, and one outcome of PublishBatch.
MCNext ==
    /\ StreamNext /\ UNCHANGED history_
    /\ history_ = "close" => ~clearRequested' /\ generation' = 1
    /\ history_ = "map" => /\ loop' = "closing" /\ loop # "closing" => sequence > batches \/ loop = "build"
                           /\ connection' \in {NoPeer, CHOOSE p \in Peers : TRUE}
                           /\ xr' = "idle" \/ connection = NoPeer

MCSpec == MCInit /\ [][MCNext]_<<vars, history_>>
MCFairSpec == MCSpec /\ Fairness
==============================================================================
