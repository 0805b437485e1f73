------------------------------ MODULE Recording ------------------------------
(***************************************************************************)
(* recording.py: write_recording stores the frame files of every batch as  *)
(* it comes and exposes one manifest at the end; Recording judges the      *)
(* manifest before any batch of it is used. The directory outlives the     *)
(* run: a writer that fails or is killed leaves its files in it.           *)
(***************************************************************************)
EXTENDS Naturals, FiniteSets

CONSTANTS MaxBatches,          \* recorded batches, 600 in the code
          MaxManifestSize      \* four megabytes, in the units of Entry

\* What the frames of a batch take in the manifest: its camera entries, each
\* with its two pose matrices.
Entry(frames, blank, posed) ==
    (IF posed THEN 3 ELSE 1) * Cardinality({c \in DOMAIN frames : frames[c] # blank})

VARIABLES writer,    \* "off", "writing", "exposing", "saved", "raised" or "killed"
    files,           \* batch indices with frame files in the directory
    written,           \* history: those whose files this run has written
    named,           \* batch indices whose frame files the records name
    listed, size,    \* batches listed so far, and the size of their entries
    judged,          \* what the loader's walk over the listed batches knows
    manifest         \* "none", "pending" or "saved"

recordingVars == <<writer, files, written, named, listed, size, judged, manifest>>

NothingJudged(cameras) == [loads |-> TRUE, produced |-> 0, last |-> [c \in cameras |-> 0]]

RecordingInit(cameras) ==
    /\ writer = "off" /\ files = {} /\ written = {} /\ named = {} /\ listed = 0 /\ size = 0
    /\ judged = NothingJudged(cameras) /\ manifest = "none"

\* Recording._batches for one more batch: production time and every camera's
\* exposure increase, and nothing is newer than the production.
Judge(known, batch, blank) ==
    LET shot == {c \in DOMAIN batch.frames : batch.frames[c] # blank} IN
    [loads |-> /\ known.loads /\ batch.produced > known.produced
               /\ \A c \in shot : /\ batch.frames[c].depth > known.last[c]
                                  /\ batch.frames[c].depth <= batch.produced
                                  /\ batch.frames[c].image \in 1 .. batch.produced,
     produced |-> batch.produced,
     last |-> [c \in DOMAIN batch.frames |->
                 IF c \in shot THEN batch.frames[c].depth ELSE known.last[c]]]

\* write_recording refuses a directory that holds a manifest already.
StartWriting(cameras) ==
    /\ writer \notin {"writing", "exposing"} /\ manifest # "saved"
    /\ writer' = "writing" /\ listed' = 0 /\ size' = 0 /\ written' = {} /\ named' = {}
    /\ judged' = NothingJudged(cameras)
    /\ UNCHANGED <<files, manifest>>

\* The indices with frame files, once those of one more batch are there.
WithFiles(held, batch, blank) ==
    IF \E c \in DOMAIN batch.frames : batch.frames[c] # blank
    THEN held \union {listed + 1} ELSE held

\* Mutant: files that are there already are taken for the batch's own.
WriteBatchOver(batch, blank, posed) ==
    /\ writer = "writing" /\ listed < MaxBatches
    /\ files' = WithFiles(files, batch, blank)
    /\ written' = IF listed + 1 \in files THEN written ELSE WithFiles(written, batch, blank)
    /\ named' = WithFiles(named, batch, blank)
    /\ listed' = listed + 1
    /\ size' = size + Entry(batch.frames, blank, posed)
    /\ judged' = Judge(judged, batch, blank)
    /\ UNCHANGED <<writer, manifest>>

\* The frame files of a batch are created, never replaced, and it is listed.
WriteBatch(batch, blank, posed) ==
    /\ writer = "writing" /\ listed < MaxBatches
    /\ listed + 1 \in files => WithFiles({}, batch, blank) = {}
    /\ files' = WithFiles(files, batch, blank)
    /\ written' = WithFiles(written, batch, blank)
    /\ named' = WithFiles(named, batch, blank)
    /\ listed' = listed + 1
    /\ size' = size + Entry(batch.frames, blank, posed)
    /\ judged' = Judge(judged, batch, blank)
    /\ UNCHANGED <<writer, manifest>>

\* Frame files of an interrupted run are met, or a batch too many comes.
WriteFails ==
    /\ writer = "writing" /\ (listed + 1 \in files \/ listed = MaxBatches)
    /\ writer' = "raised" /\ UNCHANGED <<files, written, named, listed, size, judged, manifest>>

\* The manifest is written aside; a larger one than a reader accepts is refused.
WriteManifest ==
    /\ writer = "writing" /\ size <= MaxManifestSize
    /\ writer' = "exposing" /\ manifest' = "pending"
    /\ UNCHANGED <<files, written, named, listed, size, judged>>

ManifestFails ==
    /\ writer = "writing" /\ size > MaxManifestSize
    /\ writer' = "raised" /\ UNCHANGED <<files, written, named, listed, size, judged, manifest>>

\* It is judged as a reader would, at least one batch in it, and renamed.
ExposeManifest ==
    /\ writer = "exposing"
    /\ IF judged.loads /\ listed > 0
       THEN writer' = "saved" /\ manifest' = "saved"
       ELSE writer' = "raised" /\ UNCHANGED manifest
    /\ UNCHANGED <<files, written, named, listed, size, judged>>

\* The source of the batches raises, or the process is killed; either may leave frame
\* files of a batch that is not listed.
Abandon(how) ==
    /\ writer \in {"writing", "exposing"} /\ writer' = how
    /\ \/ UNCHANGED files
       \/ writer = "writing" /\ listed < MaxBatches /\ files' = files \union {listed + 1}
    /\ UNCHANGED <<written, named, listed, size, judged, manifest>>
==============================================================================
