--------------------------- MODULE PipelinePause ---------------------------
(***************************************************************************)
(* The pure rules of the document pipeline: which steps a pause holds      *)
(* (domain/entities/pipeline-pause.ts), what one step leaves for the steps *)
(* that read it, and when a run may wipe a recorded failure                *)
(* (domain/entities/document.ts).                                          *)
(***************************************************************************)
EXTENDS FiniteSets

(* DOCUMENT_STEPS, in the order a run takes them *)
Steps == {"canonical", "preview", "markdown", "analysis", "fields",
          "vectorization"}

(* the steps of src/server that read the canonical PDF, and the text *)
ReadsCanonical == {"preview", "markdown"}
ReadsMarkdown == {"analysis", "fields", "vectorization"}

Unstarted == {"PENDING", "QUEUED", "RUNNING"}
Settled == {"DONE", "FAILED", "SKIPPED"}
Statuses == Unstarted \cup Settled

NoStep == "none"

(* the document a rule is asked about: its steps, and whether it has a type *)
Documents == [steps: [Steps -> Statuses], typed: BOOLEAN]

(* fault: a paused canonical holds nothing but itself *)
HeldByCanonicalOnly(paused, steps) == paused

(* A paused step holds what reads it, where the input is not settled yet. *)
HeldByCanonical(paused, steps) ==
    IF "canonical" \in paused /\ steps["canonical"] \notin Settled
    THEN paused \cup ReadsCanonical ELSE paused

HeldByMarkdown(held, steps) ==
    IF "markdown" \in held /\ steps["markdown"] \notin Settled
    THEN held \cup ReadsMarkdown ELSE held

HeldByAnalysis(held, steps, typed) ==
    IF "analysis" \in held /\ steps["analysis"] \notin Settled /\ ~typed
    THEN held \cup {"fields"} ELSE held

(* fault: nothing is held *)
HeldNone(paused, steps, typed) == {}

HeldSteps(paused, steps, typed) ==
    HeldByAnalysis(HeldByMarkdown(HeldByCanonical(paused, steps), steps),
                   steps, typed)

(* fault: a failure is wiped by no run *)
ClearsOnlyAbsent(failedStep, requested) == failedStep = NoStep

(* clearsRecordedFailure *)
ClearsRecordedFailure(failedStep, requested) ==
    failedStep = NoStep \/ failedStep \in requested

(* alreadyBuilt: what an earlier canonical step left for a run that does   *)
(* not build one                                                           *)
AlreadyBuilt(canonicalStatus) ==
    IF canonicalStatus = "DONE" THEN "ready"
    ELSE IF canonicalStatus = "SKIPPED" THEN "nothing" ELSE "failed"

(* extractionOf: what the markdown step left for the steps that read it *)
ExtractionOf(markdownStatus) ==
    IF markdownStatus = "DONE" THEN "ready"
    ELSE IF markdownStatus = "FAILED" THEN "failed" ELSE "nothing"
=============================================================================
