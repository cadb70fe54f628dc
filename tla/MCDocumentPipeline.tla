------------------------ MODULE MCDocumentPipeline ------------------------
(* Small instances of the document pipeline, for TLC. *)
EXTENDS DocumentPipeline, TLC

CONSTANTS j1, j2, e1, e2, r1

OneJob == {j1}
TwoJobs == {j1, j2}
TwoExecs == {e1, e2}
OneRequest == {r1}

Symmetry == Permutations(Jobs) \cup Permutations(Execs)

NoAsks == {}
AskPreview == {{"preview"}}
AskVectors == {{"vectorization"}}
AskCanonicalOrVectors == {{"canonical", "markdown"}, {"vectorization"}}

NoPauses == {}
PauseCanonical == {"canonical"}
PauseReaders == {"canonical", "markdown", "analysis"}

(* every step goes through *)
AllDone == [s \in Steps |-> {"done"}]
(* every step goes through, except that the canonical's service goes away *)
CanonicalAway ==
    [s \in Steps |-> IF s = "canonical" THEN {"done", "away"} ELSE {"done"}]
(* every step goes through, or finds its service away *)
DoneOrAway == [s \in Steps |-> {"done", "away"}]
(* the first steps also fail or have nothing to do; the others go through *)
EarlyFail ==
    [s \in Steps |-> IF s = "canonical" THEN {"done", "skipped", "failed", "away"}
                     ELSE IF s = "markdown" THEN {"done", "failed", "away"}
                     ELSE {"done"}]
=============================================================================
