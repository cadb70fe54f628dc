----------------------- MODULE DocumentPipelineProofs -----------------------
(***************************************************************************)
(* What the pipeline keeps for any number of jobs, calls and requests, and *)
(* any bounds on edits, faults and the rest.  The calls for a document     *)
(* stand in a line, each behind the one before it, and only the first of   *)
(* them runs; what the row shows of a recorded error follows from that     *)
(* (IInv).  On it rest the accounts of retries, pauses, owed rebuilds and  *)
(* undisturbed calls (Accounts), from which come the fate of an edit, of a *)
(* paused step and of a step that is done.                                 *)
(***************************************************************************)
EXTENDS DocumentPipeline, TLAPS

(* The calls that are alive, in the order in which they were delivered.    *)
IsLine(n, q) ==
    /\ \A i, j \in 1..n : q[i] = q[j] => i = j
    /\ \A i \in 1..n : Live(q[i])
    /\ \A e \in Execs : Live(e) => \E i \in 1..n : q[i] = e
    /\ \A i \in 1..n : exec[q[i]].after = IF i = 1 THEN None ELSE q[i - 1]
    /\ tail = IF n = 0 THEN None ELSE q[n]

InLine == \E n \in Nat : \E q \in [1..n -> Execs] : IsLine(n, q)

(* A call that runs waits for nobody, and each call has a job.             *)
RunsFirst ==
    \A e \in Execs : /\ Running(e) => exec[e].after = None
                     /\ Live(e) => exec[e].job \in Jobs

(* A run has something left to do until it ends, and the recorded error is *)
(* of none of these steps: its clean slate has wiped it.  Before that, the *)
(* error is the one the run has read, or none.                             *)
ErrorIsBehind ==
    \A e \in Execs :
        /\ exec[e].phase = "slate" =>
               row.failedStep \in {exec[e].row.failedStep, NoStep}
        /\ exec[e].phase \in {"begin", "work", "reread"} =>
               exec[e].todo # {} /\ row.failedStep \notin exec[e].todo

IInv == TypeOK /\ InLine /\ RunsFirst /\ ErrorIsBehind /\ RecordedErrorIsCurrent

-----------------------------------------------------------------------------
JobRows == [state: {"none", "failed"} \cup LiveStates, steps: SUBSET Steps,
            resume: BOOLEAN, checkpoint: BOOLEAN, retries: 0..RETRY_LIMIT]

Phases == {"idle", "chained", "slate", "begin", "work", "reread", "end"}

Calls == [phase: Phases, job: Jobs \cup {None}, after: Execs \cup {None},
          resume: BOOLEAN, todo: SUBSET Steps, row: Rows, current: Rows,
          canonical: {"ready", "nothing", "failed", None}, input: 0..composition]

Asking == [phase: {"idle", "called", "asked", "written"}, steps: SUBSET Steps,
           row: Rows]

Releases == [before: SUBSET Pausable, after: SUBSET Pausable]

\* The part of the type invariant that is not about the calls.
Rest ==
    /\ row \in Rows
    /\ composition \in Nat /\ built \in 0..composition
    /\ paused \in SUBSET Pausable
    /\ job \in [Jobs -> JobRows]
    /\ request \in [Requests -> Asking]
    /\ released \in Releases
    /\ away \in SUBSET Steps

LEMMA Types ==
  /\ TypeOK => Rest /\ exec \in [Execs -> Calls] /\ tail \in Execs \cup {None}
  /\ Rest /\ exec \in [Execs -> Calls] /\ tail \in Execs \cup {None} => TypeOK
BY DEF TypeOK, Rest, JobRows, Calls, Phases, Asking, Releases

LEMMA NoTypes ==
  /\ NoRow \in Rows /\ NoJob \in JobRows /\ NoRequest \in Asking /\ NoRelease \in Releases
  /\ composition \in Nat => NoExec \in Calls
<1>1. NoRow \in Rows
  BY DEF NoRow, Rows, Statuses, Unstarted
<1>2. NoJob \in JobRows
  BY BoundsAssumption DEF NoJob, JobRows
<1>3. NoRequest \in Asking /\ NoRelease \in Releases
  BY <1>1 DEF NoRequest, Asking, NoRelease, Releases
<1>4. composition \in Nat => NoExec \in Calls
  BY <1>1 DEF NoExec, Calls, Phases
<1> QED BY <1>1, <1>2, <1>3, <1>4

LEMMA HeldType ==
  ASSUME NEW p \in SUBSET Pausable, NEW st, NEW t
  PROVE  HeldSteps(p, st, t) \subseteq Steps
BY StepsAssumption DEF HeldSteps, HeldByAnalysis, HeldByMarkdown, HeldByCanonical, Steps,
   ReadsCanonical, ReadsMarkdown

-----------------------------------------------------------------------------
(* The queue keeps its type.                                                *)
LEMMA EnqueueType ==
  ASSUME job \in [Jobs -> JobRows], NEW steps \in SUBSET Steps, NEW resume \in BOOLEAN,
         Enqueue(steps, resume)
  PROVE  job' \in [Jobs -> JobRows]
<1>1. [NoJob EXCEPT !.state = "created", !.steps = steps, !.resume = resume] \in JobRows
  BY NoTypes DEF JobRows, LiveStates
<1> QED BY <1>1 DEF Enqueue

LEMMA FailedJobType ==
  ASSUME job \in [Jobs -> JobRows], NEW j \in Jobs, NEW checkpoint \in BOOLEAN
  PROVE  FailedJob(j, checkpoint) \in JobRows
<1>1. job[j] \in JobRows /\ job[j].retries \in 0..RETRY_LIMIT
  BY DEF JobRows
<1>2. CASE job[j].retries < RETRY_LIMIT
  <2>1. job[j].retries + 1 \in 0..RETRY_LIMIT
    BY <1>1, <1>2, BoundsAssumption
  <2>2. [job[j] EXCEPT !.state = "retry", !.retries = @ + 1, !.checkpoint = checkpoint] \in JobRows
    BY <1>1, <2>1 DEF JobRows, LiveStates
  <2> QED BY <1>2, <2>2 DEF FailedJob
<1>3. CASE ~(job[j].retries < RETRY_LIMIT)
  <2>1. [job[j] EXCEPT !.state = "failed", !.checkpoint = checkpoint] \in JobRows
    BY <1>1 DEF JobRows
  <2> QED BY <1>3, <2>1 DEF FailedJob
<1> QED BY <1>2, <1>3

-----------------------------------------------------------------------------
(* The line.                                                                *)

\* Of the calls in the line, the first waits for nobody.
LEMMA FirstOfLine ==
  ASSUME NEW n \in Nat, NEW q \in [1..n -> Execs], IsLine(n, q),
         NEW e \in Execs, Live(e), exec[e].after = None
  PROVE  n > 0 /\ q[1] = e
<1>1. PICK i \in 1..n : q[i] = e
  BY DEF IsLine
<1>2. i = 1
  <2> SUFFICES ASSUME i # 1 PROVE FALSE
    OBVIOUS
  <2>1. exec[e].after = q[i - 1] /\ i - 1 \in 1..n
    BY <1>1 DEF IsLine
  <2> QED BY <2>1, NoneAssumption
<1> QED BY <1>1, <1>2

LEMMA LineRuns ==
  ASSUME InLine, RunsFirst
  PROVE  OneRunAtATime
<1>0. PICK n \in Nat : \E q \in [1..n -> Execs] : IsLine(n, q)
  BY DEF InLine
<1>1. PICK q \in [1..n -> Execs] : IsLine(n, q)
  BY <1>0
<1> SUFFICES ASSUME NEW e \in Execs, NEW f \in Execs, Running(e), Running(f)
             PROVE  e = f
  BY DEF OneRunAtATime
<1>2. Live(e) /\ exec[e].after = None /\ Live(f) /\ exec[f].after = None
  BY DEF Running, Live, RunsFirst
<1> QED BY <1>1, <1>2, FirstOfLine

\* A call is added at the end.
LEMMA DeliverLine ==
  ASSUME InLine, RunsFirst, exec \in [Execs -> Calls], NEW e \in Execs, ~Live(e), NEW j \in Jobs,
         NEW r, r.phase = "chained", r.after = tail, r.job = j,
         exec' = [exec EXCEPT ![e] = r], tail' = e
  PROVE  InLine' /\ RunsFirst'
<1>0. PICK n \in Nat : \E q \in [1..n -> Execs] : IsLine(n, q)
  BY DEF InLine
<1>1. PICK q \in [1..n -> Execs] : IsLine(n, q)
  BY <1>0
<1> DEFINE m == n + 1
           p == [i \in 1..m |-> IF i = m THEN e ELSE q[i]]
<1>2. m \in Nat /\ p \in [1..m -> Execs]
  OBVIOUS
<1>3. exec'[e] = r /\ \A f \in Execs \ {e} : exec'[f] = exec[f]
  OBVIOUS
<1>4. /\ \A i \in 1..n : p[i] = q[i] /\ q[i] \in Execs \ {e}
      /\ p[m] = e
  BY <1>1 DEF IsLine
<1>5. \A i, j1 \in 1..m : p[i] = p[j1] => i = j1
  BY <1>1, <1>4 DEF IsLine
<1>6. \A i \in 1..m : Live(p[i])'
  BY <1>1, <1>3, <1>4 DEF IsLine, Live
<1>7. \A f \in Execs : Live(f)' => \E i \in 1..m : p[i] = f
  <2> SUFFICES ASSUME NEW f \in Execs, Live(f)' PROVE \E i \in 1..m : p[i] = f
    OBVIOUS
  <2>1. CASE f = e
    BY <2>1, <1>4
  <2>2. CASE f # e
    <3>1. Live(f)
      BY <2>2, <1>3 DEF Live
    <3>2. PICK i \in 1..n : q[i] = f
      BY <3>1, <1>1 DEF IsLine
    <3> QED BY <3>2, <1>4
  <2> QED BY <2>1, <2>2
<1>8. \A i \in 1..m : exec'[p[i]].after = IF i = 1 THEN None ELSE p[i - 1]
  <2> SUFFICES ASSUME NEW i \in 1..m
               PROVE  exec'[p[i]].after = IF i = 1 THEN None ELSE p[i - 1]
    OBVIOUS
  <2>1. CASE i = m
    <3>1. exec'[p[i]].after = tail
      BY <2>1, <1>3, <1>4
    <3>2. n # 0 => p[i - 1] = q[n]
      BY <2>1, <1>4
    <3> QED BY <2>1, <3>1, <3>2, <1>1 DEF IsLine
  <2>2. CASE i # m
    <3>1. i \in 1..n /\ (i # 1 => i - 1 \in 1..n)
      BY <2>2
    <3>2. exec'[p[i]].after = exec[q[i]].after /\ (i # 1 => p[i - 1] = q[i - 1])
      BY <3>1, <1>3, <1>4
    <3> QED BY <3>1, <3>2, <1>1 DEF IsLine
  <2> QED BY <2>1, <2>2
<1>9. tail' = IF m = 0 THEN None ELSE p[m]
  BY <1>4
<1> HIDE DEF p, m
<1>10. IsLine(m, p)'
  BY <1>5, <1>6, <1>7, <1>8, <1>9 DEF IsLine
<1>11. InLine'
  BY <1>2, <1>10 DEF InLine
<1>12. RunsFirst'
  BY <1>3 DEF RunsFirst, Running, Live
<1> QED BY <1>11, <1>12

\* The first call leaves, and the one behind it becomes the first.
LEMMA LeaveLine ==
  ASSUME InLine, RunsFirst, exec \in [Execs -> Calls], NEW e \in Execs, Live(e),
         exec[e].after = None, Leave(e)
  PROVE  InLine' /\ RunsFirst'
<1>0. PICK n \in Nat : \E q \in [1..n -> Execs] : IsLine(n, q)
  BY DEF InLine
<1>1. PICK q \in [1..n -> Execs] : IsLine(n, q)
  BY <1>0
<1>2. n > 0 /\ q[1] = e
  BY <1>1, FirstOfLine
<1>3. /\ exec'[e] = NoExec
      /\ \A f \in Execs \ {e} : exec[f].after = e => exec'[f] = [exec[f] EXCEPT !.after = None]
      /\ \A f \in Execs \ {e} : exec[f].after # e => exec'[f] = exec[f]
      /\ tail' = IF tail = e THEN None ELSE tail
  BY DEF Leave
<1>4. \A f \in Execs \ {e} :
         /\ exec'[f].phase = exec[f].phase /\ exec'[f].job = exec[f].job
         /\ exec'[f].after = IF exec[f].after = e THEN None ELSE exec[f].after
  BY <1>3 DEF Calls
<1> DEFINE m == n - 1
           p == [i \in 1..m |-> q[i + 1]]
<1>5. m \in Nat /\ p \in [1..m -> Execs]
  BY <1>2
<1>6. \A i \in 1..m : p[i] = q[i + 1] /\ i + 1 \in 1..n /\ p[i] \in Execs \ {e}
  BY <1>1, <1>2 DEF IsLine
<1>7. \A i, j1 \in 1..m : p[i] = p[j1] => i = j1
  <2> SUFFICES ASSUME NEW i \in 1..m, NEW j1 \in 1..m, p[i] = p[j1] PROVE i = j1
    OBVIOUS
  <2>1. q[i + 1] = q[j1 + 1] /\ i + 1 \in 1..n /\ j1 + 1 \in 1..n
    BY <1>6
  <2>2. i + 1 = j1 + 1
    BY <2>1, <1>1 DEF IsLine
  <2> QED BY <2>2
<1>8. \A i \in 1..m : Live(p[i])'
  BY <1>1, <1>4, <1>6 DEF IsLine, Live
<1>9. \A f \in Execs : Live(f)' => \E i \in 1..m : p[i] = f
  <2> SUFFICES ASSUME NEW f \in Execs, Live(f)' PROVE \E i \in 1..m : p[i] = f
    OBVIOUS
  <2>1. f # e /\ Live(f)
    BY <1>3, <1>4 DEF Live, NoExec
  <2>2. PICK i \in 1..n : q[i] = f
    BY <2>1, <1>1 DEF IsLine
  <2>3. i - 1 \in 1..m /\ p[i - 1] = f
    BY <2>1, <2>2, <1>2
  <2> QED BY <2>3
<1>10. \A i \in 1..m : exec'[p[i]].after = IF i = 1 THEN None ELSE p[i - 1]
  <2> SUFFICES ASSUME NEW i \in 1..m
               PROVE  exec'[p[i]].after = IF i = 1 THEN None ELSE p[i - 1]
    OBVIOUS
  <2>1. exec[p[i]].after = q[i] /\ i \in 1..n
    <3>1. exec[q[i + 1]].after = q[(i + 1) - 1] /\ (i + 1) - 1 = i
      BY <1>1, <1>6 DEF IsLine
    <3> QED BY <3>1, <1>6
  <2>2. CASE i = 1
    BY <2>1, <2>2, <1>2, <1>4, <1>6
  <2>3. CASE i # 1
    <3>1. q[i] # e
      BY <2>1, <2>3, <1>1, <1>2 DEF IsLine
    <3>2. p[i - 1] = q[i]
      BY <2>3
    <3> QED BY <2>1, <2>3, <3>1, <3>2, <1>4, <1>6
  <2> QED BY <2>2, <2>3
<1>11. tail' = IF m = 0 THEN None ELSE p[m]
  <2>1. tail = q[n]
    BY <1>1, <1>2 DEF IsLine
  <2>2. CASE n = 1
    BY <2>1, <2>2, <1>2, <1>3
  <2>3. CASE n # 1
    <3>1. q[n] # e
      BY <2>3, <1>1, <1>2 DEF IsLine
    <3>2. p[m] = q[n] /\ m # 0
      BY <2>3, <1>2
    <3> QED BY <2>1, <3>1, <3>2, <1>3
  <2> QED BY <2>2, <2>3
<1> HIDE DEF p, m
<1>12. IsLine(m, p)'
  BY <1>7, <1>8, <1>9, <1>10, <1>11 DEF IsLine
<1>13. InLine'
  BY <1>5, <1>12 DEF InLine
<1>14. RunsFirst'
  <2> SUFFICES ASSUME NEW f \in Execs
               PROVE  (Running(f)' => exec'[f].after = None) /\ (Live(f)' => exec'[f].job \in Jobs)
    BY DEF RunsFirst
  <2>1. CASE f = e
    BY <2>1, <1>3 DEF NoExec, Running, Live
  <2>2. CASE f # e
    BY <2>2, <1>4 DEF RunsFirst, Running, Live
  <2> QED BY <2>1, <2>2
<1> QED BY <1>13, <1>14

\* The first call goes on.
LEMMA GoOnLine ==
  ASSUME InLine, RunsFirst, exec \in [Execs -> Calls], NEW e \in Execs, Live(e),
         exec[e].after = None,
         Live(e)', exec'[e].after = None, exec'[e].job = exec[e].job,
         \A f \in Execs \ {e} : exec'[f] = exec[f], tail' = tail
  PROVE  InLine' /\ RunsFirst'
<1>0. PICK n \in Nat : \E q \in [1..n -> Execs] : IsLine(n, q)
  BY DEF InLine
<1>1. PICK q \in [1..n -> Execs] : IsLine(n, q)
  BY <1>0
<1>2. \A f \in Execs : (Live(f)' <=> Live(f)) /\ exec'[f].after = exec[f].after
  BY DEF Live
<1>3. IsLine(n, q)'
  BY <1>1, <1>2 DEF IsLine
<1>4. InLine'
  BY <1>3 DEF InLine
<1>5. RunsFirst'
  BY <1>2 DEF RunsFirst, Running, Live
<1> QED BY <1>4, <1>5

-----------------------------------------------------------------------------
(* What the row may do under the runs.                                      *)

\* The steps that have gone through.
Through == {"DONE", "SKIPPED"}

\* Nobody but the run itself has a step go through or records an error.
LEMMA OthersKeepError ==
  ASSUME TypeOK, ErrorIsBehind, RecordedErrorIsCurrent,
         row'.failedStep \in {row.failedStep, NoStep},
         \A s \in Steps : row'.steps[s] = row.steps[s] \/ row'.steps[s] \notin Through,
         \A e \in Execs : Running(e)' =>
             /\ exec'[e].phase = exec[e].phase /\ exec'[e].row = exec[e].row
             /\ exec'[e].todo = exec[e].todo
  PROVE  ErrorIsBehind' /\ RecordedErrorIsCurrent'
<1>0. /\ row \in Rows /\ exec \in [Execs -> Calls]
      /\ \A e \in Execs : exec[e].todo \subseteq Steps
      /\ row.failedStep \in Steps \cup {NoStep} /\ NoStep \notin Steps
  BY Types DEF Rest, Rows, Calls, NoStep, Steps
<1>1. RecordedErrorIsCurrent'
  BY <1>0 DEF RecordedErrorIsCurrent, Through
<1>2. ASSUME NEW e \in Execs, exec'[e].phase = "slate"
      PROVE  row'.failedStep \in {exec'[e].row.failedStep, NoStep}
  BY <1>2 DEF ErrorIsBehind, Running
<1>3. ASSUME NEW e \in Execs, exec'[e].phase \in {"begin", "work", "reread"}
      PROVE  exec'[e].todo # {} /\ row'.failedStep \notin exec'[e].todo
  BY <1>0, <1>3 DEF ErrorIsBehind, Running
<1> QED BY <1>1, <1>2, <1>3 DEF ErrorIsBehind

\* What the first call does to the error is its own affair: nobody else runs.
LEMMA FirstKeepsError ==
  ASSUME InLine, RunsFirst, NEW e \in Execs, Live(e), exec[e].after = None,
         RecordedErrorIsCurrent',
         \A f \in Execs \ {e} : exec'[f] = exec[f],
         exec'[e].phase = "slate" => row'.failedStep \in {exec'[e].row.failedStep, NoStep},
         exec'[e].phase \in {"begin", "work", "reread"} =>
             exec'[e].todo # {} /\ row'.failedStep \notin exec'[e].todo
  PROVE  ErrorIsBehind'
<1>0. PICK n \in Nat : \E q \in [1..n -> Execs] : IsLine(n, q)
  BY DEF InLine
<1>1. PICK q \in [1..n -> Execs] : IsLine(n, q)
  BY <1>0
<1>2. ASSUME NEW f \in Execs \ {e} PROVE ~Running(f)
  <2> SUFFICES ASSUME Running(f) PROVE FALSE
    OBVIOUS
  <2>1. f \in Execs /\ Live(f) /\ exec[f].after = None
    BY DEF RunsFirst, Running, Live
  <2> QED BY <1>1, <2>1, FirstOfLine
<1>3. \A f \in Execs \ {e} : exec'[f].phase \in {"idle", "chained"}
  BY <1>2 DEF Running
<1> QED BY <1>3 DEF ErrorIsBehind

LEMMA NextStepChosen ==
  ASSUME NEW todo \in SUBSET Steps, todo # {}
  PROVE  NextStep(todo) \in todo
BY DEF NextStep, Steps

LEMMA NextPhaseType ==
  ASSUME NEW todo, NEW early
  PROVE  /\ NextPhase(todo, early) \in {"begin", "reread", "end"}
         /\ NextPhase(todo, early) # "end" => todo # {}
BY DEF NextPhase

\* The call is over, whatever becomes of its job.
LEMMA LeaveTypes ==
  ASSUME Rest, exec \in [Execs -> Calls], tail \in Execs \cup {None}, NEW e \in Execs, Leave(e),
         composition' = composition
  PROVE  /\ exec' \in [Execs -> Calls]' /\ tail' \in Execs \cup {None}
         /\ \A f \in Execs : Running(f)' =>
             /\ exec'[f].phase = exec[f].phase /\ exec'[f].row = exec[f].row
             /\ exec'[f].todo = exec[f].todo
<1>1. NoExec \in Calls
  BY NoTypes DEF Rest
<1>2. \A f \in Execs : [exec[f] EXCEPT !.after = None] \in Calls
  BY DEF Calls
<1>3. exec' \in [Execs -> Calls]
  BY <1>1, <1>2 DEF Leave
<1>4. Calls' = Calls
  BY DEF Calls
<1>5. exec' \in [Execs -> Calls]' /\ tail' \in Execs \cup {None}
  BY <1>3, <1>4 DEF Leave
<1>6. ASSUME NEW f \in Execs, Running(f)'
      PROVE  /\ exec'[f].phase = exec[f].phase /\ exec'[f].row = exec[f].row
             /\ exec'[f].todo = exec[f].todo
  <2>1. f # e
    BY <1>6 DEF Leave, Running, NoExec
  <2>2. exec'[f] = exec[f] \/ exec'[f] = [exec[f] EXCEPT !.after = None]
    BY <2>1 DEF Leave
  <2> QED BY <2>2 DEF Calls
<1> QED BY <1>5, <1>6

LEMMA CompleteType ==
  ASSUME job \in [Jobs -> JobRows], NEW e \in Execs, Complete(e)
  PROVE  job' \in [Jobs -> JobRows]
BY NoTypes DEF Complete

LEMMA ThrowType ==
  ASSUME job \in [Jobs -> JobRows], NEW e \in Execs, exec[e].job \in Jobs,
         NEW checkpoint \in BOOLEAN, Throw(e, checkpoint)
  PROVE  job' \in [Jobs -> JobRows]
BY FailedJobType DEF Throw

\* The call goes on to its next step, or to its end.
LEMMA ProceedTypes ==
  ASSUME exec \in [Execs -> Calls], composition \in Nat, NEW e \in Execs, NEW s \in Steps
  PROVE  LET u == Proceed(e, s) IN
         /\ u \in [Execs -> Calls]
         /\ \A f \in Execs \ {e} : u[f] = exec[f]
         /\ u[e].phase \in {"begin", "reread", "end"}
         /\ u[e].phase # "end" => u[e].todo # {}
         /\ u[e].todo = exec[e].todo \ {s}
         /\ u[e].after = exec[e].after /\ u[e].job = exec[e].job
<1> DEFINE todo == exec[e].todo \ {s}
           phase == NextPhase(todo, s \in Early)
           seen == IF todo = {} THEN NoRow ELSE exec[e].row
           u == [exec EXCEPT ![e].phase = phase, ![e].todo = todo, ![e].input = 0,
                             ![e].current = NoRow, ![e].row = seen]
<1>1. Proceed(e, s) = u
  BY DEF Proceed
<1>2. /\ todo \in SUBSET Steps /\ seen \in Rows /\ NoRow \in Rows
      /\ phase \in {"begin", "reread", "end"} /\ (phase # "end" => todo # {})
  <2>1. exec[e].todo \in SUBSET Steps /\ exec[e].row \in Rows
    BY DEF Calls
  <2>2. phase \in {"begin", "reread", "end"} /\ (phase # "end" => todo # {})
    BY NextPhaseType, Zenon
  <2> QED BY <2>1, <2>2, NoTypes
<1>3. todo = exec[e].todo \ {s}
  OBVIOUS
<1> HIDE DEF todo, phase, seen
<1>4. [exec[e] EXCEPT !.phase = phase, !.todo = todo, !.input = 0,
                      !.current = NoRow, !.row = seen] \in Calls
  <2>1. /\ exec[e] \in Calls /\ phase \in Phases /\ todo \in SUBSET Steps
        /\ seen \in Rows /\ NoRow \in Rows /\ 0 \in 0..composition
    BY <1>2 DEF Phases
  <2> QED BY ONLY <2>1 DEF Calls
<1>5. u \in [Execs -> Calls] /\ \A f \in Execs \ {e} : u[f] = exec[f]
  BY <1>4
<1>6. u[e].phase = phase /\ u[e].todo = todo
  BY DEF Calls
<1>7. u[e].after = exec[e].after /\ u[e].job = exec[e].job
  BY DEF Calls
<1> HIDE DEF u
<1> QED BY <1>1, <1>2, <1>3, <1>5, <1>6, <1>7

LEMMA CanonicalTypes ==
  ASSUME NEW u \in [Execs -> Calls], NEW e \in Execs,
         NEW c \in {"ready", "nothing", "failed", None},
         NEW v, v = [u EXCEPT ![e].canonical = c]
  PROVE  /\ v \in [Execs -> Calls]
         /\ \A f \in Execs \ {e} : v[f] = u[f]
         /\ v[e].phase = u[e].phase /\ v[e].todo = u[e].todo
         /\ v[e].after = u[e].after /\ v[e].job = u[e].job
<1>1. [u[e] EXCEPT !.canonical = c] \in Calls
  BY DEF Calls
<1>2. v \in [Execs -> Calls] /\ \A f \in Execs \ {e} : v[f] = u[f]
  BY <1>1
<1>3. v[e].phase = u[e].phase /\ v[e].todo = u[e].todo
  BY DEF Calls
<1>4. v[e].after = u[e].after /\ v[e].job = u[e].job
  BY DEF Calls
<1> QED BY <1>2, <1>3, <1>4

-----------------------------------------------------------------------------
(* The three kinds of step: one that is not a run's, one of the first call  *)
(* that goes on, and one that ends it.                                      *)

LEMMA QuietKeeps ==
  ASSUME IInv, UNCHANGED <<exec, tail>>, composition' >= composition, Rest',
         row'.failedStep \in {row.failedStep, NoStep},
         \A s \in Steps : row'.steps[s] = row.steps[s] \/ row'.steps[s] \notin Through
  PROVE  IInv'
<1>1. exec \in [Execs -> Calls] /\ tail \in Execs \cup {None} /\ composition \in Nat
      /\ composition' \in Nat
  BY Types DEF IInv, Rest
<1>2. \A r \in Calls : r \in Calls'
  BY <1>1 DEF Calls
<1>3. TypeOK'
  <2>1. exec' \in [Execs -> Calls]' /\ tail' \in Execs \cup {None}
    BY <1>1, <1>2
  <2> QED BY <2>1 DEF TypeOK, Rest, JobRows, Calls, Phases, Asking, Releases
<1>4. InLine' /\ RunsFirst'
  BY DEF IInv, InLine, IsLine, Live, RunsFirst, Running
<1>5. ErrorIsBehind' /\ RecordedErrorIsCurrent'
  BY OthersKeepError DEF IInv
<1> QED BY <1>3, <1>4, <1>5 DEF IInv

LEMMA GoOnKeeps ==
  ASSUME IInv, NEW e \in Execs, Live(e), exec[e].after = None,
         composition' = composition, tail' = tail, Rest',
         exec' \in [Execs -> Calls], \A f \in Execs \ {e} : exec'[f] = exec[f],
         exec'[e].after = exec[e].after, exec'[e].job = exec[e].job, Running(e)',
         RecordedErrorIsCurrent',
         exec'[e].phase = "slate" => row'.failedStep \in {exec'[e].row.failedStep, NoStep},
         exec'[e].phase \in {"begin", "work", "reread"} =>
             exec'[e].todo # {} /\ row'.failedStep \notin exec'[e].todo
  PROVE  IInv'
<1>1. exec \in [Execs -> Calls] /\ tail \in Execs \cup {None} /\ InLine /\ RunsFirst
  BY Types DEF IInv
<1>2. Calls' = Calls
  BY DEF Calls
<1>3. TypeOK'
  <2>1. exec' \in [Execs -> Calls]' /\ tail' \in Execs \cup {None}
    BY <1>1, <1>2
  <2> QED BY <2>1 DEF TypeOK, Rest, JobRows, Calls, Phases, Asking, Releases
<1>4. Live(e)'
  BY DEF Running, Live
<1>5. InLine' /\ RunsFirst'
  BY <1>1, <1>4, GoOnLine
<1>6. ErrorIsBehind'
  BY <1>1, FirstKeepsError
<1> QED BY <1>3, <1>5, <1>6 DEF IInv

LEMMA OverKeeps ==
  ASSUME IInv, NEW e \in Execs, Live(e), exec[e].after = None, Leave(e),
         composition' = composition, Rest',
         row'.failedStep \in {row.failedStep, NoStep},
         \A s \in Steps : row'.steps[s] = row.steps[s] \/ row'.steps[s] \notin Through
  PROVE  IInv'
<1>1. exec \in [Execs -> Calls] /\ tail \in Execs \cup {None} /\ InLine /\ RunsFirst /\ Rest
  BY Types DEF IInv
<1>2. /\ exec' \in [Execs -> Calls]' /\ tail' \in Execs \cup {None}
      /\ \A f \in Execs : Running(f)' =>
             /\ exec'[f].phase = exec[f].phase /\ exec'[f].row = exec[f].row
             /\ exec'[f].todo = exec[f].todo
  BY <1>1, LeaveTypes
<1>3. TypeOK'
  BY <1>2 DEF TypeOK, Rest, JobRows, Calls, Phases, Asking, Releases
<1>4. InLine' /\ RunsFirst'
  BY <1>1, LeaveLine
<1>5. ErrorIsBehind' /\ RecordedErrorIsCurrent'
  BY <1>2, OthersKeepError DEF IInv
<1> QED BY <1>3, <1>4, <1>5 DEF IInv

-----------------------------------------------------------------------------
(* The queue and the people.                                                *)
LEMMA QueuedRow ==
  ASSUME row \in Rows, NEW steps \in SUBSET Steps, NEW f \in {row.failedStep, NoStep},
         row' = [row EXCEPT !.steps = [s \in Steps |-> IF s \in steps THEN "QUEUED" ELSE @[s]],
                            !.failedStep = f]
  PROVE  /\ row' \in Rows /\ row'.failedStep = f
         /\ \A s \in Steps : row'.steps[s] = row.steps[s] \/ row'.steps[s] \notin Through
         /\ \A s \in Steps : row'.steps[s] = IF s \in steps THEN "QUEUED" ELSE row.steps[s]
<1> DEFINE st == [s \in Steps |-> IF s \in steps THEN "QUEUED" ELSE row.steps[s]]
<1>1. /\ st \in [Steps -> Statuses] /\ f \in Steps \cup {NoStep}
      /\ \A s \in Steps : st[s] = IF s \in steps THEN "QUEUED" ELSE row.steps[s]
  BY DEF Rows, Statuses, Unstarted
<1>2. row' = [row EXCEPT !.steps = st, !.failedStep = f]
  OBVIOUS
<1> HIDE DEF st
<1>3. row' \in Rows
  BY <1>1, <1>2 DEF Rows
<1>4. row'.failedStep = f /\ row'.steps = st
  BY <1>2 DEF Rows
<1> QED BY <1>1, <1>3, <1>4 DEF Through

\* The steps are marked queued, and the error stays.
LEMMA MarkedRow ==
  ASSUME row \in Rows, NEW steps \in SUBSET Steps,
         row' = [row EXCEPT !.steps = [s \in Steps |-> IF s \in steps THEN "QUEUED" ELSE @[s]]]
  PROVE  /\ row' \in Rows /\ row'.failedStep = row.failedStep
         /\ \A s \in Steps : row'.steps[s] = row.steps[s] \/ row'.steps[s] \notin Through
<1> DEFINE st == [s \in Steps |-> IF s \in steps THEN "QUEUED" ELSE row.steps[s]]
<1>1. /\ st \in [Steps -> Statuses]
      /\ \A s \in Steps : st[s] = IF s \in steps THEN "QUEUED" ELSE row.steps[s]
  BY DEF Rows, Statuses, Unstarted
<1>2. row' = [row EXCEPT !.steps = st]
  OBVIOUS
<1> HIDE DEF st
<1>3. row' \in Rows
  BY <1>1, <1>2 DEF Rows
<1>4. row'.failedStep = row.failedStep /\ row'.steps = st
  BY <1>2 DEF Rows
<1> QED BY <1>1, <1>3, <1>4 DEF Through

LEMMA QueueKeeps ==
  ASSUME IInv, NEW j \in Jobs, Expire(j) \/ Archive(j) \/ RetryFailed(j)
  PROVE  IInv'
<1>1. Rest /\ UNCHANGED <<row, contentVars, settingsVars, exec, tail, request, away>>
  BY Types DEF IInv, Expire, Archive, RetryFailed
<1>2. job' \in [Jobs -> JobRows]
  <2>0. job \in [Jobs -> JobRows] /\ job[j].steps \in SUBSET Steps
    BY <1>1 DEF Rest, JobRows
  <2>1. CASE Expire(j)
    <3>1. FailedJob(j, FALSE) \in JobRows
      BY <2>0, FailedJobType
    <3> QED BY <2>0, <2>1, <3>1 DEF Expire
  <2>2. CASE Archive(j)
    BY <2>0, <2>2, NoTypes DEF Archive
  <2>3. CASE RetryFailed(j)
    <3>1. Enqueue(job[j].steps, TRUE) /\ TRUE \in BOOLEAN
      BY <2>3 DEF RetryFailed
    <3> QED BY <2>0, <3>1, EnqueueType
  <2> QED BY <2>1, <2>2, <2>3
<1>3. Rest' /\ composition' >= composition
  BY <1>1, <1>2 DEF Rest, contentVars, settingsVars, JobRows, Asking, Rows, Releases
<1> QED BY <1>1, <1>3, QuietKeeps

LEMMA DeliverKeeps ==
  ASSUME IInv, NEW j \in Jobs, Deliver(j)
  PROVE  IInv'
<1>0. /\ Rest /\ exec \in [Execs -> Calls] /\ tail \in Execs \cup {None} /\ InLine /\ RunsFirst
      /\ job \in [Jobs -> JobRows] /\ composition \in Nat
      /\ UNCHANGED <<row, contentVars, settingsVars, request, away>>
  BY Types DEF IInv, Rest, Deliver
<1> DEFINE resume == job[j].resume \/ (job[j].retries > 0 /\ job[j].checkpoint)
           todo == PayloadSteps(job[j].steps)
           r == [NoExec EXCEPT !.phase = "chained", !.job = j, !.after = tail,
                               !.resume = resume, !.todo = todo]
<1>1. PICK e \in Execs : /\ ~Live(e) /\ tail' = e
                         /\ job' = [job EXCEPT ![j].state = "active"]
                         /\ exec' = [exec EXCEPT ![e] = r]
  BY DEF Deliver
<1>2. r \in Calls /\ r.phase = "chained" /\ r.after = tail /\ r.job = j
  <2>1. todo \in SUBSET Steps /\ NoExec \in Calls
    BY <1>0, NoTypes DEF PayloadSteps, JobRows
  <2>2. resume \in BOOLEAN
    OBVIOUS
  <2> HIDE DEF todo, resume
  <2>3. r \in Calls
    BY <1>0, <2>1, <2>2 DEF Calls, Phases
  <2>4. r.phase = "chained" /\ r.after = tail /\ r.job = j
    BY DEF NoExec
  <2> QED BY <2>3, <2>4
<1> HIDE DEF r
<1>3. job' \in [Jobs -> JobRows]
  <2>1. [job[j] EXCEPT !.state = "active"] \in JobRows
    BY <1>0 DEF JobRows, LiveStates
  <2> QED BY <1>0, <1>1, <2>1
<1>4. TypeOK'
  <2>1. Rest' /\ tail' \in Execs \cup {None}
    BY <1>0, <1>1, <1>3 DEF Rest, contentVars, settingsVars, JobRows, Asking, Rows, Releases
  <2>2. exec' \in [Execs -> Calls] /\ Calls' = Calls
    BY <1>0, <1>1, <1>2 DEF contentVars, Calls
  <2> QED BY <2>1, <2>2 DEF TypeOK, Rest, JobRows, Calls, Phases, Asking, Releases
<1>5. InLine' /\ RunsFirst'
  BY <1>0, <1>1, <1>2, DeliverLine
<1>6. ASSUME NEW f \in Execs, Running(f)'
      PROVE  exec'[f] = exec[f]
  BY <1>0, <1>1, <1>2, <1>6 DEF Running
<1>7. ErrorIsBehind' /\ RecordedErrorIsCurrent'
  BY <1>0, <1>6, OthersKeepError DEF IInv
<1> QED BY <1>4, <1>5, <1>7 DEF IInv

LEMMA AskedType ==
  ASSUME request \in [Requests -> Asking], row \in Rows, NEW r \in Requests,
         NEW steps \in SUBSET Steps, ReadForReprocess(r, steps)
  PROVE  request' \in [Requests -> Asking]
<1>1. [phase |-> "asked", steps |-> steps, row |-> row] \in Asking
  BY DEF Asking
<1> QED BY <1>1, NoTypes DEF ReadForReprocess

LEMMA RequestKeeps ==
  ASSUME IInv, NEW r \in Requests,
         Ask(r) \/ Submit(r) \/ Resume(r) \/ ResumedCall(r)
  PROVE  IInv'
<1>1. /\ Rest /\ UNCHANGED <<row, contentVars, paused, exec, tail, away>>
      /\ request \in [Requests -> Asking] /\ row \in Rows /\ job \in [Jobs -> JobRows]
      /\ released \in Releases
  BY Types DEF IInv, Rest, Ask, Submit, Resume, ResumedCall, settingsVars
<1>2. /\ request' \in [Requests -> Asking] /\ job' \in [Jobs -> JobRows]
      /\ released' \in Releases
  <2>1. CASE Ask(r)
    <3>1. PICK steps \in Asks : ReadForReprocess(r, steps)
      BY <2>1 DEF Ask
    <3>2. steps \in SUBSET Steps
      BY StepsAssumption
    <3> QED BY <1>1, <2>1, <3>1, <3>2, AskedType DEF Ask, settingsVars
  <2>2. CASE Submit(r)
    <3>1. Enqueue(request[r].steps, FALSE) /\ request[r].steps \in SUBSET Steps /\ FALSE \in BOOLEAN
      BY <1>1, <2>2 DEF Submit, Asking
    <3>2. job' \in [Jobs -> JobRows]
      BY <1>1, <3>1, EnqueueType
    <3> QED BY <1>1, <2>2, <3>2, NoTypes DEF Submit, settingsVars
  <2>3. CASE Resume(r)
    <3>1. ReleasedSteps \subseteq Steps
      <4>1. released.before \in SUBSET Pausable
        BY <1>1 DEF Releases
      <4>2. HeldSteps(released.before, row.steps, Typed(row)) \subseteq Steps
        BY <4>1, HeldType
      <4> QED BY <4>2 DEF ReleasedSteps
    <3>2. [phase |-> "called", steps |-> ReleasedSteps, row |-> NoRow] \in Asking
      BY <3>1, NoTypes DEF Asking
    <3> QED BY <1>1, <2>3, <3>2, NoTypes DEF Resume
  <2>4. CASE ResumedCall(r)
    <3>1. ReadForReprocess(r, request[r].steps) /\ request[r].steps \in SUBSET Steps
      BY <1>1, <2>4 DEF ResumedCall, Asking
    <3> QED BY <1>1, <2>4, <3>1, AskedType DEF ResumedCall, settingsVars
  <2> QED BY <2>1, <2>2, <2>3, <2>4
<1>3. Rest' /\ composition' >= composition
  BY <1>1, <1>2 DEF Rest, contentVars, JobRows, Asking, Rows, Releases
<1> QED BY <1>1, <1>3, QuietKeeps

LEMMA AllowKeeps ==
  ASSUME IInv, NEW r \in Requests, Allow(r)
  PROVE  IInv'
<1> DEFINE seen == request[r].row
           steps == request[r].steps \ HeldSteps(paused, seen.steps, Typed(seen))
<1>1. /\ Rest /\ UNCHANGED <<contentVars, settingsVars, job, exec, tail, away>>
      /\ request \in [Requests -> Asking] /\ row \in Rows /\ steps \in SUBSET Steps
  BY Types DEF IInv, Rest, Allow, Asking
<1>2. CASE UNCHANGED row /\ request' = [request EXCEPT ![r] = NoRequest]
  <2>1. Rest' /\ composition' >= composition
    BY <1>1, <1>2, NoTypes DEF Rest, contentVars, settingsVars, JobRows, Asking, Rows, Releases
  <2> QED BY <1>1, <1>2, <2>1, QuietKeeps
<1>3. CASE /\ request' = [request EXCEPT ![r] =
                  [phase |-> "written", steps |-> steps, row |-> NoRow]]
           /\ row' = [row EXCEPT
                  !.steps = [s \in Steps |-> IF s \in steps THEN "QUEUED" ELSE @[s]],
                  !.failedStep = IF ClearsRecordedFailure(seen.failedStep, steps)
                                 THEN NoStep ELSE @]
  <2> HIDE DEF steps
  <2> DEFINE f == IF ClearsRecordedFailure(seen.failedStep, steps) THEN NoStep ELSE row.failedStep
  <2>1. f \in {row.failedStep, NoStep}
    OBVIOUS
  <2>2. row' = [row EXCEPT !.steps = [s \in Steps |-> IF s \in steps THEN "QUEUED" ELSE @[s]],
                           !.failedStep = f]
    BY <1>3
  <2> HIDE DEF f
  <2>3. /\ row' \in Rows /\ row'.failedStep \in {row.failedStep, NoStep}
        /\ \A s \in Steps : row'.steps[s] = row.steps[s] \/ row'.steps[s] \notin Through
    BY <1>1, <2>1, <2>2, QueuedRow
  <2>4. [phase |-> "written", steps |-> steps, row |-> NoRow] \in Asking
    BY <1>1, NoTypes DEF Asking
  <2>5. request' \in [Requests -> Asking]
    BY <1>1, <1>3, <2>4
  <2>6. Rest' /\ composition' >= composition
    BY <1>1, <2>3, <2>5 DEF Rest, contentVars, settingsVars, JobRows, Asking, Rows, Releases
  <2> QED BY <1>1, <2>3, <2>6, QuietKeeps
<1> QED BY <1>2, <1>3 DEF Allow

LEMMA SetTypeKeeps ==
  ASSUME IInv, NEW r \in Requests, SetType(r)
  PROVE  IInv'
<1>1. /\ Rest /\ UNCHANGED <<contentVars, settingsVars, job, exec, tail, away>>
      /\ request \in [Requests -> Asking] /\ row \in Rows
      /\ request' = [request EXCEPT ![r] =
             [phase |-> "written", steps |-> {"fields"}, row |-> NoRow]]
  BY Types DEF IInv, Rest, SetType
<1>2. PICK source \in {"NONE", "AUTO", "MANUAL"} : row' = [row EXCEPT !.typeSource = source]
  BY DEF SetType
<1>3. row' \in Rows
  BY <1>1, <1>2 DEF Rows
<1>4. row'.failedStep = row.failedStep /\ row'.steps = row.steps
  BY <1>1, <1>2 DEF Rows
<1>5. [phase |-> "written", steps |-> {"fields"}, row |-> NoRow] \in Asking
  BY NoTypes DEF Asking, Steps
<1>6. Rest' /\ composition' >= composition
  BY <1>1, <1>3, <1>5 DEF Rest, contentVars, settingsVars, JobRows, Asking, Rows, Releases
<1> QED BY <1>1, <1>4, <1>6, QuietKeeps

LEMMA EditKeeps ==
  ASSUME IInv, Edit
  PROVE  IInv'
<1>1. /\ Rest /\ UNCHANGED <<row, built, settingsVars, exec, tail, request, away>>
      /\ job \in [Jobs -> JobRows] /\ Enqueue({}, FALSE) /\ composition' = composition + 1
      /\ composition \in Nat /\ built \in 0..composition
  BY Types DEF IInv, Rest, Edit
<1>2. job' \in [Jobs -> JobRows]
  <2>1. {} \in SUBSET Steps /\ FALSE \in BOOLEAN
    OBVIOUS
  <2> QED BY <1>1, <2>1, EnqueueType
<1>3. composition' \in Nat /\ built' \in 0..composition' /\ composition' >= composition
  BY <1>1
<1>4. Rest'
  BY <1>1, <1>2, <1>3 DEF Rest, settingsVars, JobRows, Asking, Rows, Releases
<1> QED BY <1>1, <1>3, <1>4, QuietKeeps

\* Steps are marked queued and a job for them is enqueued.
LEMMA MarkKeeps ==
  ASSUME IInv, NEW steps \in SUBSET Steps, NEW asked \in SUBSET Steps, NEW resume \in BOOLEAN,
         Enqueue(asked, resume),
         row' = [row EXCEPT !.steps = [s \in Steps |-> IF s \in steps THEN "QUEUED" ELSE @[s]]],
         UNCHANGED <<contentVars, settingsVars, exec, tail, request, away>>
  PROVE  IInv'
<1>1. Rest /\ job \in [Jobs -> JobRows] /\ row \in Rows
  BY Types DEF IInv, Rest
<1>2. job' \in [Jobs -> JobRows]
  BY <1>1, EnqueueType
<1>3. /\ row' \in Rows /\ row'.failedStep = row.failedStep
      /\ \A s \in Steps : row'.steps[s] = row.steps[s] \/ row'.steps[s] \notin Through
  BY <1>1, MarkedRow
<1>4. Rest' /\ composition' >= composition
  <2>1. UNCHANGED <<composition, built, paused, released, request, away>> /\ composition \in Nat
    BY <1>1 DEF Rest, contentVars, settingsVars
  <2> QED BY <1>1, <1>2, <1>3, <2>1 DEF Rest
<1> QED BY <1>3, <1>4, QuietKeeps

LEMMA SelectPreviewKeeps ==
  ASSUME IInv, SelectPreview
  PROVE  IInv'
<1>1. PICK steps \in {{"preview"}, {"canonical", "preview"}} :
        /\ row' = [row EXCEPT !.steps = [s \in Steps |->
                       IF s \in steps THEN "QUEUED" ELSE @[s]]]
        /\ Enqueue(steps, FALSE)
  BY DEF SelectPreview
<1>2. steps \in SUBSET Steps /\ FALSE \in BOOLEAN
  BY DEF Steps
<1>3. UNCHANGED <<contentVars, settingsVars, exec, tail, request, away>>
  BY DEF SelectPreview
<1> QED BY <1>1, <1>2, <1>3, MarkKeeps

LEMMA SweepKeeps ==
  ASSUME IInv, Sweep
  PROVE  IInv'
<1> DEFINE steps == {s \in Steps \ paused : row.steps[s] \in Unstarted}
<1>1. /\ row' = [row EXCEPT !.steps = [s \in Steps |->
                    IF s \in steps THEN "QUEUED" ELSE @[s]]]
      /\ Enqueue(steps, TRUE)
      /\ UNCHANGED <<contentVars, settingsVars, exec, tail, request, away>>
  BY DEF Sweep
<1>2. steps \in SUBSET Steps /\ TRUE \in BOOLEAN
  OBVIOUS
<1> HIDE DEF steps
<1> QED BY <1>1, <1>2, MarkKeeps

LEMMA DeleteKeeps ==
  ASSUME IInv, Delete
  PROVE  IInv'
<1>1. /\ Rest /\ row \in Rows /\ row' = [row EXCEPT !.deleted = TRUE]
      /\ UNCHANGED <<contentVars, settingsVars, job, exec, tail, request, away>>
  BY Types DEF IInv, Rest, Delete
<1>2. row' \in Rows
  BY <1>1 DEF Rows
<1>3. row'.failedStep = row.failedStep /\ row'.steps = row.steps
  BY <1>1 DEF Rows
<1>4. Rest' /\ composition' >= composition
  BY <1>1, <1>2 DEF Rest, contentVars, settingsVars, JobRows, Asking, Rows, Releases
<1> QED BY <1>1, <1>3, <1>4, QuietKeeps

LEMMA SetPausesKeeps ==
  ASSUME IInv, SetPauses
  PROVE  IInv'
<1>1. Rest /\ UNCHANGED <<row, contentVars, job, exec, tail, request, away>>
  BY Types DEF IInv, SetPauses
<1>2. paused' \in SUBSET Pausable /\ released' \in Releases
  BY <1>1, NoTypes DEF Rest, SetPauses, Releases
<1>3. Rest' /\ composition' >= composition
  BY <1>1, <1>2 DEF Rest, contentVars, JobRows, Asking, Rows, Releases
<1> QED BY <1>1, <1>3, QuietKeeps

LEMMA CrashKeeps ==
  ASSUME IInv, Crash
  PROVE  IInv'
<1>1. /\ Rest /\ UNCHANGED <<row, contentVars, paused, job, away>>
      /\ exec' = [e \in Execs |-> NoExec] /\ tail' = None
      /\ request' = [r \in Requests |-> NoRequest] /\ released' = NoRelease
  BY Types DEF IInv, Crash
<1>2. NoExec \in Calls /\ NoRequest \in Asking /\ NoRelease \in Releases /\ Calls' = Calls
  BY <1>1, NoTypes DEF Rest, contentVars, Calls
<1>3. TypeOK'
  <2>1. Rest' /\ tail' \in Execs \cup {None}
    BY <1>1, <1>2 DEF Rest, contentVars, JobRows, Asking, Rows, Releases
  <2>2. exec' \in [Execs -> Calls]'
    BY <1>1, <1>2
  <2> QED BY <2>1, <2>2 DEF TypeOK, Rest, JobRows, Calls, Phases, Asking, Releases
<1>4. \A e \in Execs : exec'[e] = NoExec /\ NoExec.phase = "idle"
  BY <1>1 DEF NoExec
<1>5. InLine'
  <2> DEFINE q == [i \in 1..0 |-> CHOOSE e \in Execs : TRUE]
  <2>1. 0 \in Nat /\ q \in [1..0 -> Execs]
    OBVIOUS
  <2>2. IsLine(0, q)'
    BY <1>1, <1>4 DEF IsLine, Live
  <2> HIDE DEF q
  <2> QED BY <2>1, <2>2 DEF InLine
<1>6. RunsFirst' /\ \A e \in Execs : ~Running(e)'
  BY <1>4 DEF RunsFirst, Running, Live
<1>7. ErrorIsBehind' /\ RecordedErrorIsCurrent'
  BY <1>1, <1>6, OthersKeepError DEF IInv
<1> QED BY <1>3, <1>5, <1>6, <1>7 DEF IInv

-----------------------------------------------------------------------------
(* The run.                                                                 *)

\* What a call that runs can rely on.
LEMMA RunFacts ==
  ASSUME IInv, NEW e \in Execs, Running(e)
  PROVE  /\ Rest /\ exec \in [Execs -> Calls] /\ exec[e] \in Calls
         /\ row \in Rows /\ row.failedStep \in Steps \cup {NoStep}
         /\ job \in [Jobs -> JobRows] /\ composition \in Nat
         /\ Live(e) /\ exec[e].after = None /\ exec[e].job \in Jobs
         /\ exec[e].todo \in SUBSET Steps /\ exec[e].row \in Rows
<1>1. Rest /\ exec \in [Execs -> Calls]
  BY Types DEF IInv
<1>2. row \in Rows /\ job \in [Jobs -> JobRows] /\ composition \in Nat
  BY <1>1 DEF Rest
<1>3. row.failedStep \in Steps \cup {NoStep}
  BY <1>2 DEF Rows
<1>4. Live(e) /\ exec[e].after = None /\ exec[e].job \in Jobs
  BY DEF Live, Running, IInv, RunsFirst
<1>5. exec[e] \in Calls /\ exec[e].todo \in SUBSET Steps /\ exec[e].row \in Rows
  BY <1>1 DEF Calls
<1> QED BY <1>1, <1>2, <1>3, <1>4, <1>5

LEMMA ReadKeeps ==
  ASSUME IInv, NEW e \in Execs, Read(e)
  PROVE  IInv'
<1>1. /\ Rest /\ exec \in [Execs -> Calls] /\ exec[e] \in Calls /\ row \in Rows
      /\ exec[e].todo \in SUBSET Steps
      /\ Live(e) /\ exec[e].after = None /\ job \in [Jobs -> JobRows]
      /\ UNCHANGED <<row, contentVars, settingsVars, request, away>>
      /\ RecordedErrorIsCurrent /\ composition' = composition
  BY Types DEF IInv, Rest, Read, Live, Calls, contentVars
<1>2. CASE Complete(e)
  <2>1. job' \in [Jobs -> JobRows] /\ Leave(e)
    BY <1>1, <1>2, CompleteType DEF Complete
  <2>2. Rest'
    BY <1>1, <2>1 DEF Rest, contentVars, settingsVars
  <2> QED BY <1>1, <2>1, <2>2, OverKeeps
<1>3. CASE /\ exec' = [exec EXCEPT
                 ![e].phase = "slate", ![e].row = row,
                 ![e].todo = IF exec[e].resume
                     THEN {s \in @ : row.steps[s] \notin {"DONE", "SKIPPED"}}
                     ELSE @]
           /\ UNCHANGED <<job, tail>>
  <2> DEFINE todo == IF exec[e].resume
                     THEN {s \in exec[e].todo : row.steps[s] \notin {"DONE", "SKIPPED"}}
                     ELSE exec[e].todo
  <2>1. todo \in SUBSET Steps
    BY <1>1
  <2>2. exec' = [exec EXCEPT ![e].phase = "slate", ![e].row = row, ![e].todo = todo]
    BY <1>3
  <2> HIDE DEF todo
  <2>3. [exec[e] EXCEPT !.phase = "slate", !.row = row, !.todo = todo] \in Calls
    BY <1>1, <2>1 DEF Calls, Phases
  <2>4. exec' \in [Execs -> Calls] /\ \A f \in Execs \ {e} : exec'[f] = exec[f]
    BY <1>1, <2>2, <2>3
  <2>5. exec'[e].phase = "slate" /\ exec'[e].row = row
    BY <1>1, <2>2 DEF Calls
  <2>6. exec'[e].after = exec[e].after /\ exec'[e].job = exec[e].job
    BY <1>1, <2>2 DEF Calls
  <2>7. Rest' /\ RecordedErrorIsCurrent'
    BY <1>1, <1>3 DEF Rest, contentVars, settingsVars, RecordedErrorIsCurrent
  <2>8. Running(e)'
    BY <2>5 DEF Running
  <2> QED BY <1>1, <1>3, <2>4, <2>5, <2>6, <2>7, <2>8, GoOnKeeps
<1> QED BY <1>2, <1>3 DEF Read

LEMMA SlateKeeps ==
  ASSUME IInv, NEW e \in Execs, Slate(e)
  PROVE  IInv'
<1> DEFINE seen == exec[e].row
           todo == exec[e].todo \ HeldSteps(paused, seen.steps, Typed(seen))
<1>0. exec[e].phase = "slate" /\ Running(e)
  BY DEF Slate, Running
<1>1. /\ Rest /\ exec \in [Execs -> Calls] /\ exec[e] \in Calls
      /\ row \in Rows /\ row.failedStep \in Steps \cup {NoStep}
      /\ composition \in Nat /\ Live(e) /\ exec[e].after = None
      /\ exec[e].todo \in SUBSET Steps /\ seen \in Rows
  BY <1>0, RunFacts
<1>2. /\ UNCHANGED <<contentVars, settingsVars, job, tail, request, away>>
      /\ composition' = composition /\ tail' = tail
      /\ row.failedStep \in {seen.failedStep, NoStep} /\ RecordedErrorIsCurrent
  BY <1>0 DEF Slate, contentVars, IInv, ErrorIsBehind
<1>3. CASE /\ exec' = [exec EXCEPT ![e].phase = "end", ![e].row = NoRow, ![e].todo = {}]
           /\ UNCHANGED row
  <2>1. [exec[e] EXCEPT !.phase = "end", !.row = NoRow, !.todo = {}] \in Calls
    BY <1>1, NoTypes DEF Calls, Phases
  <2>2. exec' \in [Execs -> Calls] /\ \A f \in Execs \ {e} : exec'[f] = exec[f]
    BY <1>1, <1>3, <2>1
  <2>3. exec'[e].phase = "end"
    BY <1>1, <1>3 DEF Calls
  <2>4. exec'[e].after = exec[e].after /\ exec'[e].job = exec[e].job
    BY <1>1, <1>3 DEF Calls
  <2>5. Rest' /\ RecordedErrorIsCurrent'
    BY <1>1, <1>2, <1>3 DEF Rest, contentVars, settingsVars, RecordedErrorIsCurrent
  <2>6. Running(e)'
    BY <2>3 DEF Running
  <2> QED BY <1>1, <1>2, <2>2, <2>3, <2>4, <2>5, <2>6, GoOnKeeps
<1>4. CASE /\ todo # {}
           /\ row' = [row EXCEPT
                  !.steps = [s \in Steps |-> IF s \in todo THEN "QUEUED" ELSE @[s]],
                  !.failedStep = IF ClearsRecordedFailure(seen.failedStep, todo)
                                 THEN NoStep ELSE @]
           /\ exec' = [exec EXCEPT
                  ![e].phase = NextPhase(todo, TRUE), ![e].todo = todo,
                  ![e].row = NoRow,
                  ![e].canonical = AlreadyBuilt(seen.steps["canonical"])]
  <2> DEFINE f == IF ClearsRecordedFailure(seen.failedStep, todo) THEN NoStep ELSE row.failedStep
             phase == NextPhase(todo, TRUE)
             c == AlreadyBuilt(seen.steps["canonical"])
  <2>1. todo \in SUBSET Steps
    BY <1>1
  <2> HIDE DEF todo
  <2>2. f \in {row.failedStep, NoStep} /\ f \notin todo
    BY <1>2, <2>1 DEF ClearsRecordedFailure, Steps, NoStep
  <2>3. row' = [row EXCEPT !.steps = [s \in Steps |-> IF s \in todo THEN "QUEUED" ELSE @[s]],
                           !.failedStep = f]
    BY <1>4
  <2>4. phase \in {"begin", "reread", "end"}
    BY NextPhaseType
  <2>5. c \in {"ready", "nothing", "failed", None}
    BY DEF AlreadyBuilt
  <2>6. exec' = [exec EXCEPT ![e].phase = phase, ![e].todo = todo, ![e].row = NoRow,
                             ![e].canonical = c]
    BY <1>4
  <2> HIDE DEF f, phase, c
  <2>7. /\ row' \in Rows /\ row'.failedStep = f
        /\ \A s \in Steps : row'.steps[s] = row.steps[s] \/ row'.steps[s] \notin Through
    BY <1>1, <2>1, <2>2, <2>3, QueuedRow
  <2>8. [exec[e] EXCEPT !.phase = phase, !.todo = todo, !.row = NoRow, !.canonical = c] \in Calls
    <3>1. phase \in Phases /\ NoRow \in Rows
      BY <2>4, NoTypes DEF Phases
    <3> QED BY <1>1, <2>1, <2>5, <3>1 DEF Calls
  <2>9. exec' \in [Execs -> Calls] /\ \A g \in Execs \ {e} : exec'[g] = exec[g]
    BY <1>1, <2>6, <2>8
  <2>10. exec'[e].phase = phase /\ exec'[e].todo = todo
    BY <1>1, <2>6 DEF Calls
  <2>11. exec'[e].after = exec[e].after /\ exec'[e].job = exec[e].job
    BY <1>1, <2>6 DEF Calls
  <2>12. Rest'
    BY <1>1, <1>2, <2>7 DEF Rest, contentVars, settingsVars
  <2>13. RecordedErrorIsCurrent'
    BY <1>2, <2>2, <2>7, <1>1 DEF RecordedErrorIsCurrent, Through
  <2>14. Running(e)' /\ exec'[e].phase # "slate"
    BY <2>4, <2>10 DEF Running
  <2> QED BY <1>1, <1>2, <1>4, <2>2, <2>7, <2>9, <2>10, <2>11, <2>12, <2>13, <2>14, GoOnKeeps
<1> QED BY <1>3, <1>4 DEF Slate

LEMMA BeginKeeps ==
  ASSUME IInv, NEW e \in Execs, Begin(e)
  PROVE  IInv'
<1> DEFINE s == NextStep(exec[e].todo)
           input == IF s = "canonical" THEN composition ELSE 0
           current == IF s = "fields" THEN row ELSE NoRow
<1>0. exec[e].phase = "begin" /\ Running(e)
  BY DEF Begin, Running
<1>1. /\ Rest /\ exec \in [Execs -> Calls] /\ exec[e] \in Calls
      /\ row \in Rows /\ composition \in Nat /\ Live(e) /\ exec[e].after = None
      /\ exec[e].todo \in SUBSET Steps /\ exec[e].todo # {}
      /\ row.failedStep \notin exec[e].todo /\ RecordedErrorIsCurrent
  BY <1>0, RunFacts DEF IInv, ErrorIsBehind
<1>2. /\ row' = [row EXCEPT !.steps[s] = "RUNNING"] /\ away' = away \ {s}
      /\ exec' = [exec EXCEPT ![e].phase = "work", ![e].input = input, ![e].current = current]
      /\ UNCHANGED <<contentVars, settingsVars, job, tail, request>>
      /\ composition' = composition /\ tail' = tail
  BY DEF Begin, contentVars
<1>3. s \in Steps /\ input \in 0..composition /\ current \in Rows
  BY <1>1, NextStepChosen, NoTypes
<1> HIDE DEF s, input, current
<1>4. row' \in Rows
  BY <1>1, <1>2, <1>3 DEF Rows, Statuses, Unstarted
<1>5. /\ row'.failedStep = row.failedStep
      /\ \A t \in Steps : row'.steps[t] = IF t = s THEN "RUNNING" ELSE row.steps[t]
  BY <1>1, <1>2, <1>3 DEF Rows
<1>6. [exec[e] EXCEPT !.phase = "work", !.input = input, !.current = current] \in Calls
  BY <1>1, <1>3 DEF Calls, Phases
<1>7. exec' \in [Execs -> Calls] /\ \A f \in Execs \ {e} : exec'[f] = exec[f]
  BY <1>1, <1>2, <1>6
<1>8. exec'[e].phase = "work" /\ exec'[e].todo = exec[e].todo
  BY <1>1, <1>2 DEF Calls
<1>9. exec'[e].after = exec[e].after /\ exec'[e].job = exec[e].job
  BY <1>1, <1>2 DEF Calls
<1>10. Rest'
  BY <1>1, <1>2, <1>4 DEF Rest, contentVars, settingsVars
<1>11. RecordedErrorIsCurrent'
  BY <1>1, <1>5 DEF RecordedErrorIsCurrent, Rows
<1>12. Running(e)'
  BY <1>8 DEF Running
<1> QED BY <1>1, <1>2, <1>5, <1>7, <1>8, <1>9, <1>10, <1>11, <1>12, GoOnKeeps

LEMMA RereadKeeps ==
  ASSUME IInv, NEW e \in Execs, Reread(e)
  PROVE  IInv'
<1>0. exec[e].phase = "reread" /\ Running(e)
  BY DEF Reread, Running
<1>1. /\ Rest /\ exec \in [Execs -> Calls] /\ exec[e] \in Calls
      /\ row \in Rows /\ Live(e) /\ exec[e].after = None
      /\ exec[e].todo # {} /\ row.failedStep \notin exec[e].todo /\ RecordedErrorIsCurrent
  BY <1>0, RunFacts DEF IInv, ErrorIsBehind
<1>2. /\ exec' = [exec EXCEPT ![e].phase = "begin", ![e].row = row, ![e].canonical = None]
      /\ UNCHANGED <<row, contentVars, settingsVars, job, tail, request, away>>
      /\ composition' = composition /\ tail' = tail
  BY DEF Reread, contentVars
<1>3. [exec[e] EXCEPT !.phase = "begin", !.row = row, !.canonical = None] \in Calls
  BY <1>1 DEF Calls, Phases
<1>4. exec' \in [Execs -> Calls] /\ \A f \in Execs \ {e} : exec'[f] = exec[f]
  BY <1>1, <1>2, <1>3
<1>5. exec'[e].phase = "begin" /\ exec'[e].todo = exec[e].todo
  BY <1>1, <1>2 DEF Calls
<1>6. exec'[e].after = exec[e].after /\ exec'[e].job = exec[e].job
  BY <1>1, <1>2 DEF Calls
<1>7. Rest' /\ RecordedErrorIsCurrent' /\ row' = row
  BY <1>1, <1>2 DEF Rest, contentVars, settingsVars, RecordedErrorIsCurrent
<1>8. Running(e)'
  BY <1>5 DEF Running
<1> QED BY <1>1, <1>2, <1>4, <1>5, <1>6, <1>7, <1>8, GoOnKeeps

\* A step a run works on is among those it has left, and the recorded error
\* is not its own.
LEMMA WorkingFacts ==
  ASSUME IInv, NEW e \in Execs, NEW s \in Steps, Working(e, s)
  PROVE  /\ Running(e) /\ Rest /\ exec \in [Execs -> Calls] /\ row \in Rows
         /\ composition \in Nat /\ Live(e) /\ exec[e].after = None /\ exec[e].job \in Jobs
         /\ exec[e].input \in 0..composition /\ job \in [Jobs -> JobRows]
         /\ row.failedStep \notin exec[e].todo /\ row.failedStep # s
         /\ RecordedErrorIsCurrent
<1>1. exec[e].phase = "work" /\ s = NextStep(exec[e].todo) /\ Running(e)
  BY DEF Working, Running
<1>2. exec[e].todo # {} /\ row.failedStep \notin exec[e].todo /\ RecordedErrorIsCurrent
  BY <1>1 DEF IInv, ErrorIsBehind
<1>3. /\ Rest /\ exec \in [Execs -> Calls] /\ row \in Rows /\ exec[e] \in Calls
      /\ composition \in Nat /\ Live(e) /\ exec[e].after = None /\ exec[e].job \in Jobs
      /\ job \in [Jobs -> JobRows] /\ exec[e].todo \in SUBSET Steps
  BY <1>1, RunFacts
<1>4. s \in exec[e].todo
  BY <1>1, <1>2, <1>3, NextStepChosen
<1>5. exec[e].input \in 0..composition
  BY <1>3 DEF Calls
<1> QED BY <1>1, <1>2, <1>3, <1>4, <1>5

\* The step has settled, and only its own status and error have changed.
LEMMA SettleKeeps ==
  ASSUME IInv, NEW e \in Execs, NEW s \in Steps, Working(e, s),
         row' \in Rows, \A t \in Steps \ {s} : row'.steps[t] = row.steps[t],
         row'.failedStep \in {row.failedStep, s},
         row'.failedStep = s => row'.steps[s] \notin Through,
         NEW c \in {"ready", "nothing", "failed", None},
         exec' \in {Proceed(e, s), [Proceed(e, s) EXCEPT ![e].canonical = c]},
         built' \in 0..composition,
         UNCHANGED <<composition, settingsVars, job, tail, request, away>>
  PROVE  IInv'
<1>1. /\ Rest /\ exec \in [Execs -> Calls] /\ row \in Rows /\ composition \in Nat
      /\ Live(e) /\ exec[e].after = None
      /\ row.failedStep \notin exec[e].todo /\ row.failedStep # s /\ RecordedErrorIsCurrent
  BY WorkingFacts
<1> DEFINE u == Proceed(e, s)
           v == [u EXCEPT ![e].canonical = c]
<1>2. /\ u \in [Execs -> Calls]
      /\ \A f \in Execs \ {e} : u[f] = exec[f]
      /\ u[e].phase \in {"begin", "reread", "end"}
      /\ u[e].phase # "end" => u[e].todo # {}
      /\ u[e].todo = exec[e].todo \ {s}
      /\ u[e].after = exec[e].after /\ u[e].job = exec[e].job
  BY <1>1, ProceedTypes
<1>3. exec' \in {u, v}
  OBVIOUS
<1> HIDE DEF u
<1>4. /\ v \in [Execs -> Calls]
      /\ \A f \in Execs \ {e} : v[f] = u[f]
      /\ v[e].phase = u[e].phase /\ v[e].todo = u[e].todo
      /\ v[e].after = u[e].after /\ v[e].job = u[e].job
  <2>1. v = [u EXCEPT ![e].canonical = c]
    OBVIOUS
  <2> HIDE DEF v
  <2> QED BY <1>2, <2>1, CanonicalTypes
<1> HIDE DEF v
<1>5. /\ exec' \in [Execs -> Calls] /\ \A f \in Execs \ {e} : exec'[f] = exec[f]
      /\ exec'[e].phase \in {"begin", "reread", "end"}
      /\ exec'[e].phase # "end" => exec'[e].todo # {}
      /\ exec'[e].todo = exec[e].todo \ {s}
      /\ exec'[e].after = exec[e].after /\ exec'[e].job = exec[e].job
  BY <1>2, <1>3, <1>4
<1>6. Rest'
  BY <1>1 DEF Rest, settingsVars
<1>7. RecordedErrorIsCurrent'
  BY <1>1 DEF RecordedErrorIsCurrent, Through, Rows
<1>8. Running(e)' /\ exec'[e].phase # "slate" /\ row'.failedStep \notin exec'[e].todo
  BY <1>1, <1>5 DEF Running
<1> QED BY <1>1, <1>5, <1>6, <1>7, <1>8, GoOnKeeps

\* A status is written, and nothing else of the row.
LEMMA StatusRow ==
  ASSUME row \in Rows, NEW s \in Steps, NEW x \in Statuses, row' = [row EXCEPT !.steps[s] = x]
  PROVE  /\ row' \in Rows /\ row'.failedStep = row.failedStep /\ row'.steps[s] = x
         /\ \A t \in Steps \ {s} : row'.steps[t] = row.steps[t]
<1>1. row' \in Rows
  BY DEF Rows
<1>2. row'.failedStep = row.failedStep
  BY DEF Rows
<1>3. row'.steps[s] = x /\ \A t \in Steps \ {s} : row'.steps[t] = row.steps[t]
  BY DEF Rows
<1> QED BY <1>1, <1>2, <1>3

LEMMA StepDoneKeeps ==
  ASSUME IInv, NEW e \in Execs, NEW s \in Steps, StepDone(e, s)
  PROVE  IInv'
<1>1. /\ Working(e, s) /\ UNCHANGED <<composition, settingsVars, job, tail, request, away>>
      /\ row \in Rows /\ composition \in Nat /\ row.failedStep # s /\ built \in 0..composition
      /\ exec[e].input \in 0..composition
  BY WorkingFacts DEF StepDone, Rest
<1>2. built' \in 0..composition
  BY <1>1 DEF StepDone
<1>3. /\ row' \in Rows /\ row'.failedStep = row.failedStep
      /\ \A t \in Steps \ {s} : row'.steps[t] = row.steps[t]
  <2>1. CASE row' = [row EXCEPT !.steps[s] = "DONE"]
    BY <1>1, <2>1, StatusRow DEF Statuses, Settled
  <2>2. CASE \E source \in {"NONE", "AUTO"} :
                 row' = [row EXCEPT !.steps[s] = "DONE", !.typeSource = source]
    <3>1. PICK source \in {"NONE", "AUTO"} :
                 row' = [row EXCEPT !.steps[s] = "DONE", !.typeSource = source]
      BY <2>2
    <3>2. row' \in Rows
      BY <1>1, <3>1 DEF Rows, Statuses, Settled
    <3>3. row'.failedStep = row.failedStep
      BY <1>1, <3>1 DEF Rows
    <3>4. \A t \in Steps \ {s} : row'.steps[t] = row.steps[t]
      BY <1>1, <3>1 DEF Rows
    <3> QED BY <3>2, <3>3, <3>4
  <2> QED BY <2>1, <2>2 DEF StepDone
<1> DEFINE c == IF s = "canonical" THEN "ready" ELSE Proceed(e, s)[e].canonical
<1>4. exec' = [Proceed(e, s) EXCEPT ![e].canonical = c]
  BY DEF StepDone
<1>5. c \in {"ready", "nothing", "failed", None}
  <2>1. Proceed(e, s) \in [Execs -> Calls]
    BY <1>1, WorkingFacts, ProceedTypes
  <2> HIDE DEF c
  <2>2. Proceed(e, s)[e].canonical \in {"ready", "nothing", "failed", None}
    BY <2>1 DEF Calls
  <2> QED BY <2>2 DEF c
<1> HIDE DEF c
<1> QED BY <1>1, <1>2, <1>3, <1>4, <1>5, SettleKeeps

LEMMA StepSkippedKeeps ==
  ASSUME IInv, NEW e \in Execs, NEW s \in Steps, StepSkipped(e, s)
  PROVE  IInv'
<1>1. /\ Working(e, s) /\ UNCHANGED <<composition, settingsVars, job, tail, request, away>>
      /\ row \in Rows /\ composition \in Nat /\ row.failedStep # s /\ built \in 0..composition
      /\ row' = [row EXCEPT !.steps[s] = "SKIPPED"]
  BY WorkingFacts DEF StepSkipped, Rest
<1>2. built' \in 0..composition
  BY <1>1 DEF StepSkipped
<1>3. /\ row' \in Rows /\ row'.failedStep = row.failedStep
      /\ \A t \in Steps \ {s} : row'.steps[t] = row.steps[t]
  BY <1>1, StatusRow DEF Statuses, Settled
<1> DEFINE c == IF s = "canonical" THEN "nothing" ELSE Proceed(e, s)[e].canonical
<1>4. exec' = [Proceed(e, s) EXCEPT ![e].canonical = c]
  BY DEF StepSkipped
<1>5. c \in {"ready", "nothing", "failed", None}
  <2>1. Proceed(e, s) \in [Execs -> Calls]
    BY <1>1, WorkingFacts, ProceedTypes
  <2> HIDE DEF c
  <2>2. Proceed(e, s)[e].canonical \in {"ready", "nothing", "failed", None}
    BY <2>1 DEF Calls
  <2> QED BY <2>2 DEF c
<1> HIDE DEF c
<1> QED BY <1>1, <1>2, <1>3, <1>4, <1>5, SettleKeeps

LEMMA StepBlockedKeeps ==
  ASSUME IInv, NEW e \in Execs, NEW s \in Steps, StepBlocked(e, s)
  PROVE  IInv'
<1>1. /\ Working(e, s) /\ UNCHANGED <<composition, settingsVars, job, tail, request, away>>
      /\ row \in Rows /\ row.failedStep # s /\ built' \in 0..composition
      /\ row' = [row EXCEPT !.steps[s] = "FAILED"]
  BY WorkingFacts DEF StepBlocked, Rest, contentVars
<1>2. /\ row' \in Rows /\ row'.failedStep = row.failedStep
      /\ \A t \in Steps \ {s} : row'.steps[t] = row.steps[t]
  BY <1>1, StatusRow DEF Statuses, Settled
<1>3. exec' = Proceed(e, s) /\ None \in {"ready", "nothing", "failed", None}
  BY DEF StepBlocked
<1> QED BY <1>1, <1>2, <1>3, SettleKeeps

LEMMA StepFailedKeeps ==
  ASSUME IInv, NEW e \in Execs, NEW s \in Steps, StepFailed(e, s)
  PROVE  IInv'
<1>1. /\ Working(e, s) /\ UNCHANGED <<composition, settingsVars, job, tail, request, away>>
      /\ row \in Rows /\ composition \in Nat /\ built' \in 0..composition
      /\ row' = [row EXCEPT !.steps[s] = "FAILED", !.failedStep = s]
  BY WorkingFacts DEF StepFailed, Rest, contentVars
<1>2. row' \in Rows
  BY <1>1 DEF Rows, Statuses, Settled
<1>3. row'.failedStep = s /\ row'.steps[s] = "FAILED"
  BY <1>1 DEF Rows
<1>4. \A t \in Steps \ {s} : row'.steps[t] = row.steps[t]
  BY <1>1 DEF Rows
<1> DEFINE c == IF s = "canonical" THEN "failed" ELSE Proceed(e, s)[e].canonical
<1>5. exec' = [Proceed(e, s) EXCEPT ![e].canonical = c]
  BY DEF StepFailed
<1>6. c \in {"ready", "nothing", "failed", None}
  <2>1. Proceed(e, s) \in [Execs -> Calls]
    BY <1>1, WorkingFacts, ProceedTypes
  <2> HIDE DEF c
  <2>2. Proceed(e, s)[e].canonical \in {"ready", "nothing", "failed", None}
    BY <2>1 DEF Calls
  <2> QED BY <2>2 DEF c
<1> HIDE DEF c
<1>7. row'.failedStep = s => row'.steps[s] \notin Through
  BY <1>3 DEF Through
<1> QED BY <1>1, <1>2, <1>3, <1>4, <1>5, <1>6, <1>7, SettleKeeps

LEMMA StepInterruptedKeeps ==
  ASSUME IInv, NEW e \in Execs, NEW s \in Steps, StepInterrupted(e, s)
  PROVE  IInv'
<1>1. /\ Working(e, s) /\ Throw(e, TRUE) /\ UNCHANGED <<contentVars, settingsVars, request>>
      /\ row' = [row EXCEPT !.steps[s] = "QUEUED"] /\ away' = away \cup {s}
      /\ row \in Rows /\ Rest /\ job \in [Jobs -> JobRows] /\ exec[e].job \in Jobs
      /\ Live(e) /\ exec[e].after = None
  BY WorkingFacts DEF StepInterrupted
<1>2. job' \in [Jobs -> JobRows] /\ Leave(e)
  BY <1>1, ThrowType DEF Throw
<1>3. /\ row' \in Rows /\ row'.failedStep = row.failedStep /\ row'.steps[s] = "QUEUED"
      /\ \A t \in Steps \ {s} : row'.steps[t] = row.steps[t]
  BY <1>1, StatusRow DEF Statuses, Unstarted
<1>4. Rest' /\ composition' = composition
  BY <1>1, <1>2, <1>3 DEF Rest, contentVars, settingsVars
<1>5. \A t \in Steps : row'.steps[t] = row.steps[t] \/ row'.steps[t] \notin Through
  BY <1>3 DEF Through
<1> QED BY <1>1, <1>2, <1>3, <1>4, <1>5, OverKeeps

LEMMA PreviewOfDeletedKeeps ==
  ASSUME IInv, NEW e \in Execs, PreviewOfDeleted(e)
  PROVE  IInv'
<1>0. "preview" \in Steps /\ Working(e, "preview")
  BY DEF PreviewOfDeleted, Steps
<1>1. /\ UNCHANGED <<row, composition, settingsVars, job, tail, request, away>>
      /\ row \in Rows /\ row.failedStep # "preview" /\ built' \in 0..composition
      /\ exec' = Proceed(e, "preview") /\ None \in {"ready", "nothing", "failed", None}
  BY <1>0, WorkingFacts DEF PreviewOfDeleted, Rest, contentVars
<1> QED BY <1>0, <1>1, SettleKeeps

LEMMA OverActionsKeep ==
  ASSUME IInv, NEW e \in Execs, End(e) \/ Abort(e)
  PROVE  IInv'
<1>0. Running(e) /\ UNCHANGED <<row, contentVars, settingsVars, request, away>>
  BY DEF End, Abort, Running
<1>1. /\ Rest /\ job \in [Jobs -> JobRows] /\ exec[e].job \in Jobs
      /\ Live(e) /\ exec[e].after = None
  BY <1>0, RunFacts
<1>2. job' \in [Jobs -> JobRows] /\ Leave(e)
  <2>1. CASE End(e)
    BY <1>1, <2>1, CompleteType DEF End, Complete
  <2>2. CASE Abort(e)
    <3>1. Throw(e, FALSE) /\ FALSE \in BOOLEAN
      BY <2>2 DEF Abort
    <3> QED BY <1>1, <3>1, ThrowType DEF Throw
  <2> QED BY <2>1, <2>2
<1>3. Rest' /\ composition' = composition
  BY <1>0, <1>1, <1>2 DEF Rest, contentVars, settingsVars
<1> QED BY <1>0, <1>1, <1>2, <1>3, OverKeeps

-----------------------------------------------------------------------------
LEMMA InitHolds ==
  ASSUME Init
  PROVE  IInv
<1>1. /\ row = NoRow /\ exec = [e \in Execs |-> NoExec] /\ tail = None
      /\ composition = 1 /\ built = 0 /\ paused \in SUBSET Pausable
      /\ request = [r \in Requests |-> NoRequest] /\ released = NoRelease /\ away = {}
  BY DEF Init
<1>2. job \in [Jobs -> JobRows]
  <2>1. [NoJob EXCEPT !.state = "created"] \in JobRows /\ NoJob \in JobRows
    BY NoTypes DEF JobRows, LiveStates
  <2> QED BY <2>1 DEF Init
<1>3. TypeOK
  <2>1. NoExec \in Calls
    BY <1>1, NoTypes
  <2>2. Rest
    BY <1>1, <1>2, NoTypes DEF Rest
  <2> QED BY <1>1, <2>1, <2>2, Types
<1>4. \A e \in Execs : exec[e] = NoExec /\ NoExec.phase = "idle"
  BY <1>1 DEF NoExec
<1>5. InLine
  <2> DEFINE q == [i \in 1..0 |-> CHOOSE e \in Execs : TRUE]
  <2>1. 0 \in Nat /\ q \in [1..0 -> Execs]
    OBVIOUS
  <2>2. IsLine(0, q)
    BY <1>1, <1>4 DEF IsLine, Live
  <2> HIDE DEF q
  <2> QED BY <2>1, <2>2 DEF InLine
<1>6. RunsFirst /\ ErrorIsBehind
  BY <1>4 DEF RunsFirst, ErrorIsBehind, Running, Live
<1>7. RecordedErrorIsCurrent
  BY <1>1 DEF RecordedErrorIsCurrent, NoRow
<1> QED BY <1>3, <1>5, <1>6, <1>7 DEF IInv

LEMMA StepKeeps ==
  ASSUME IInv, [Next]_vars
  PROVE  IInv'
<1>1. ASSUME NEW j \in Jobs, Deliver(j) \/ Expire(j) \/ Archive(j) \/ RetryFailed(j)
      PROVE  IInv'
  BY <1>1, DeliverKeeps, QueueKeeps
<1>2. ASSUME NEW e \in Execs, Run(e)
      PROVE  IInv'
  <2>1. ASSUME NEW s \in Steps,
               \/ StepDone(e, s) \/ StepSkipped(e, s) \/ StepBlocked(e, s)
               \/ StepFailed(e, s) \/ StepInterrupted(e, s)
        PROVE  IInv'
    BY <2>1, StepDoneKeeps, StepSkippedKeeps, StepBlockedKeeps, StepFailedKeeps,
       StepInterruptedKeeps
  <2> QED BY <1>2, <2>1, ReadKeeps, SlateKeeps, BeginKeeps, RereadKeeps, OverActionsKeep,
             PreviewOfDeletedKeeps DEF Run
<1>3. ASSUME NEW e \in Execs, Abort(e)
      PROVE  IInv'
  BY <1>3, OverActionsKeep
<1>4. ASSUME NEW r \in Requests,
             \/ Ask(r) \/ Allow(r) \/ Submit(r) \/ SetType(r)
             \/ Resume(r) \/ ResumedCall(r)
      PROVE  IInv'
  BY <1>4, RequestKeeps, AllowKeeps, SetTypeKeeps
<1>5. CASE Crash \/ Edit \/ SelectPreview \/ Delete \/ SetPauses \/ Sweep
  BY <1>5, CrashKeeps, EditKeeps, SelectPreviewKeeps, DeleteKeeps, SetPausesKeeps, SweepKeeps
<1>6. CASE UNCHANGED vars
  <2>1. Rest /\ UNCHANGED <<row, composition, built, paused, released, job, request, away, exec, tail>>
    BY <1>6, Types DEF IInv, vars
  <2>2. Rest' /\ composition' >= composition
    BY <2>1 DEF Rest
  <2> QED BY <2>1, <2>2, QuietKeeps
<1> QED BY <1>1, <1>2, <1>3, <1>4, <1>5, <1>6 DEF Next

-----------------------------------------------------------------------------
(* Everything the proofs rest on holds in every state.                      *)
THEOREM Invariant == Spec => []IInv
<1>1. Init => IInv
  BY InitHolds
<1>2. IInv /\ [Next]_vars => IInv'
  BY StepKeeps
<1> QED BY <1>1, <1>2, PTL DEF Spec

(* The row, the jobs, the calls and the requests stay what their types say: *)
(* no reading of an old row writes a step or an error that is none.         *)
THEOREM TypeCorrect == Spec => []TypeOK
<1>1. IInv => TypeOK
  BY DEF IInv
<1> QED BY <1>1, Invariant, PTL

(* Two calls never work on the document at one time (the chaining of        *)
(* inFlight in handle()), for any number of jobs that are active, expired   *)
(* and delivered again.                                                     *)
THEOREM RunsAreChained == Spec => []OneRunAtATime
<1>1. IInv => OneRunAtATime
  BY LineRuns DEF IInv
<1> QED BY <1>1, Invariant, PTL

(* The error the document shows never belongs to a step that has gone       *)
(* through since, although the clean slate and a reprocess decide from a    *)
(* row read earlier whether to wipe it.                                     *)
THEOREM ErrorIsCurrent == Spec => []RecordedErrorIsCurrent
<1>1. IInv => RecordedErrorIsCurrent
  BY DEF IInv
<1> QED BY <1>1, Invariant, PTL

-----------------------------------------------------------------------------
(* What each step does to the calls, the steps and the counts, for the      *)
(* invariants below.                                                        *)

Kinds == {"asks", "edits", "outages", "faults", "typings", "switches"}

SpentOK == spent \in [asks: Nat, edits: Nat, outages: Nat, faults: Nat,
                      typings: Nat, switches: Nat]

Bound(k) ==
    CASE k = "asks" -> MaxAsks [] k = "edits" -> MaxEdits [] k = "outages" -> MaxOutages
      [] k = "faults" -> MaxFaults [] k = "typings" -> MaxTypings
      [] k = "switches" -> MaxSwitches

\* The bounded events so far.
Counted == SpentOK /\ \A k \in Kinds : spent[k] <= Bound(k)

\* Call f is what it was, but for the call it waits for.
Same(f) ==
    /\ exec'[f].phase = exec[f].phase /\ exec'[f].job = exec[f].job
    /\ exec'[f].resume = exec[f].resume /\ exec'[f].todo = exec[f].todo
    /\ exec'[f].row = exec[f].row /\ exec'[f].input = exec[f].input

\* Call e goes on for the same job, and has no step to do that it had not.
Going(e) ==
    /\ exec'[e].job = exec[e].job /\ exec'[e].resume = exec[e].resume
    /\ exec'[e].todo \subseteq exec[e].todo
    /\ \A f \in Execs \ {e} : Same(f)

LEMMA LeaveEffect ==
  ASSUME exec \in [Execs -> Calls], NEW e \in Execs, Leave(e)
  PROVE  exec'[e] = NoExec /\ \A f \in Execs \ {e} : Same(f)
<1>1. ASSUME NEW f \in Execs \ {e} PROVE Same(f)
  <2>1. exec'[f] = exec[f] \/ exec'[f] = [exec[f] EXCEPT !.after = None]
    BY DEF Leave
  <2>2. exec[f] \in Calls
    OBVIOUS
  <2> QED BY <2>1, <2>2 DEF Calls, Same
<1>2. exec'[e] = NoExec
  BY DEF Leave
<1> QED BY <1>1, <1>2

LEMMA ReadEffect ==
  ASSUME IInv, NEW e \in Execs, Read(e), ~row.deleted
  PROVE  /\ exec[e].phase = "chained" /\ exec'[e].phase = "slate" /\ exec'[e].row = row
         /\ exec'[e].todo = IF exec[e].resume
                            THEN {s \in exec[e].todo : row.steps[s] \notin {"DONE", "SKIPPED"}}
                            ELSE exec[e].todo
         /\ Going(e) /\ job' = job
<1>1. exec \in [Execs -> Calls] /\ exec[e] \in Calls
  BY Types DEF IInv
<1> DEFINE todo == IF exec[e].resume
                     THEN {s \in exec[e].todo : row.steps[s] \notin {"DONE", "SKIPPED"}}
                     ELSE exec[e].todo
<1>2. /\ exec[e].phase = "chained" /\ job' = job
      /\ exec' = [exec EXCEPT ![e].phase = "slate", ![e].row = row, ![e].todo = todo]
  BY DEF Read
<1>3. todo \subseteq exec[e].todo
  OBVIOUS
<1> HIDE DEF todo
<1>4. exec'[e].phase = "slate" /\ exec'[e].row = row /\ exec'[e].todo = todo
  BY <1>1, <1>2 DEF Calls
<1>5. exec'[e].job = exec[e].job /\ exec'[e].resume = exec[e].resume
  BY <1>1, <1>2 DEF Calls
<1>6. \A f \in Execs \ {e} : Same(f)
  BY <1>1, <1>2 DEF Same
<1>7. Going(e)
  BY <1>3, <1>4, <1>5, <1>6 DEF Going
<1> QED BY <1>2, <1>4, <1>7 DEF todo

LEMMA SlateEffect ==
  ASSUME IInv, NEW e \in Execs, Slate(e)
  PROVE  /\ exec[e].phase = "slate" /\ exec'[e].phase \in {"begin", "reread", "end"}
         /\ exec'[e].todo = exec[e].todo
                            \ HeldSteps(paused, exec[e].row.steps, Typed(exec[e].row))
         /\ "canonical" \in exec'[e].todo => exec'[e].phase = "begin"
         /\ row'.deleted = row.deleted
         /\ \A s \in Steps : row'.steps[s] = IF s \in exec'[e].todo THEN "QUEUED"
                                             ELSE row.steps[s]
         /\ Going(e) /\ job' = job
<1> DEFINE seen == exec[e].row
           todo == exec[e].todo \ HeldSteps(paused, seen.steps, Typed(seen))
<1>1. exec \in [Execs -> Calls] /\ exec[e] \in Calls /\ row \in Rows
  BY Types DEF IInv, Rest
<1>2. exec[e].phase = "slate" /\ job' = job /\ todo \subseteq exec[e].todo
  BY DEF Slate
<1>3. ASSUME NEW p, NEW c, NEW r, exec' = [exec EXCEPT ![e].phase = p, ![e].row = r, ![e].todo = todo]
             \/ exec' = [exec EXCEPT ![e].phase = p, ![e].todo = todo, ![e].row = r, ![e].canonical = c]
      PROVE  exec'[e].phase = p /\ exec'[e].todo = todo /\ Going(e)
  <2> HIDE DEF todo
  <2>1. exec'[e].phase = p /\ exec'[e].todo = todo
    BY <1>1, <1>3 DEF Calls
  <2>2. exec'[e].job = exec[e].job /\ exec'[e].resume = exec[e].resume
    BY <1>1, <1>3 DEF Calls
  <2>3. \A f \in Execs \ {e} : Same(f)
    BY <1>1, <1>3 DEF Same
  <2> QED BY <1>2, <2>1, <2>2, <2>3 DEF Going
<1>4. CASE todo = {} /\ exec' = [exec EXCEPT ![e].phase = "end", ![e].row = NoRow, ![e].todo = {}]
           /\ UNCHANGED row
  <2>1. exec'[e].phase = "end" /\ exec'[e].todo = todo /\ Going(e)
    BY <1>3, <1>4
  <2> QED BY <1>2, <1>4, <2>1
<1>5. CASE /\ todo # {}
           /\ row' = [row EXCEPT
                  !.steps = [s \in Steps |-> IF s \in todo THEN "QUEUED" ELSE @[s]],
                  !.failedStep = IF ClearsRecordedFailure(seen.failedStep, todo)
                                 THEN NoStep ELSE @]
           /\ exec' = [exec EXCEPT
                  ![e].phase = NextPhase(todo, TRUE), ![e].todo = todo,
                  ![e].row = NoRow,
                  ![e].canonical = AlreadyBuilt(seen.steps["canonical"])]
  <2>1. exec'[e].phase = NextPhase(todo, TRUE) /\ exec'[e].todo = todo /\ Going(e)
    BY <1>3, <1>5
  <2>2. NextPhase(todo, TRUE) \in {"begin", "reread", "end"}
    BY NextPhaseType
  <2>3. "canonical" \in todo => NextPhase(todo, TRUE) = "begin"
    BY DEF NextPhase, Early
  <2> HIDE DEF todo
  <2>4. row'.deleted = row.deleted
    BY <1>1, <1>5 DEF Rows
  <2>5. \A s \in Steps : row'.steps[s] = IF s \in todo THEN "QUEUED" ELSE row.steps[s]
    BY <1>1, <1>5 DEF Rows
  <2>6. exec'[e].todo = exec[e].todo \ HeldSteps(paused, exec[e].row.steps, Typed(exec[e].row))
    BY <2>1 DEF todo
  <2> QED BY <1>2, <2>1, <2>2, <2>3, <2>4, <2>5, <2>6
<1> QED BY <1>4, <1>5 DEF Slate

LEMMA BeginEffect ==
  ASSUME IInv, NEW e \in Execs, Begin(e)
  PROVE  /\ exec[e].phase = "begin" /\ exec'[e].phase = "work"
         /\ exec'[e].todo = exec[e].todo /\ NextStep(exec[e].todo) \in exec[e].todo
         /\ NextStep(exec[e].todo) \in Steps
         /\ NextStep(exec[e].todo) = "canonical" => exec'[e].input = composition
         /\ row'.deleted = row.deleted
         /\ \A s \in Steps : row'.steps[s] = IF s = NextStep(exec[e].todo) THEN "RUNNING"
                                             ELSE row.steps[s]
         /\ Going(e) /\ job' = job
<1> DEFINE s == NextStep(exec[e].todo)
           input == IF s = "canonical" THEN composition ELSE 0
           current == IF s = "fields" THEN row ELSE NoRow
<1>0. exec[e].phase = "begin" /\ Running(e)
  BY DEF Begin, Running
<1>1. /\ exec \in [Execs -> Calls] /\ exec[e] \in Calls /\ row \in Rows
      /\ exec[e].todo \in SUBSET Steps /\ exec[e].todo # {}
  BY <1>0, RunFacts DEF IInv, ErrorIsBehind
<1>2. /\ row' = [row EXCEPT !.steps[s] = "RUNNING"] /\ job' = job
      /\ exec' = [exec EXCEPT ![e].phase = "work", ![e].input = input, ![e].current = current]
  BY DEF Begin
<1>3. s \in exec[e].todo /\ s \in Steps /\ (s = "canonical" => input = composition)
  BY <1>1, NextStepChosen
<1> HIDE DEF input, current
<1>4. /\ \A t \in Steps : row'.steps[t] = IF t = s THEN "RUNNING" ELSE row.steps[t]
      /\ row'.deleted = row.deleted
  <2> HIDE DEF s
  <2>1. \A t \in Steps : row'.steps[t] = IF t = s THEN "RUNNING" ELSE row.steps[t]
    BY <1>1, <1>2, <1>3 DEF Rows
  <2>2. row'.deleted = row.deleted
    BY <1>1, <1>2 DEF Rows
  <2> QED BY <2>1, <2>2
<1>5. exec'[e].phase = "work" /\ exec'[e].todo = exec[e].todo /\ exec'[e].input = input
  BY <1>1, <1>2 DEF Calls
<1>6. exec'[e].job = exec[e].job /\ exec'[e].resume = exec[e].resume
  BY <1>1, <1>2 DEF Calls
<1>7. \A f \in Execs \ {e} : Same(f)
  BY <1>1, <1>2 DEF Same
<1>8. Going(e)
  BY <1>5, <1>6, <1>7 DEF Going
<1> QED BY <1>0, <1>2, <1>3, <1>4, <1>5, <1>8

LEMMA RereadEffect ==
  ASSUME IInv, NEW e \in Execs, Reread(e)
  PROVE  /\ exec[e].phase = "reread" /\ exec'[e].phase = "begin"
         /\ exec'[e].todo = exec[e].todo /\ Going(e) /\ job' = job /\ row' = row
<1>1. exec \in [Execs -> Calls] /\ exec[e] \in Calls
  BY Types DEF IInv
<1>2. /\ exec' = [exec EXCEPT ![e].phase = "begin", ![e].row = row, ![e].canonical = None]
      /\ exec[e].phase = "reread" /\ job' = job /\ row' = row
  BY DEF Reread
<1>3. exec'[e].phase = "begin" /\ exec'[e].todo = exec[e].todo
  BY <1>1, <1>2 DEF Calls
<1>4. exec'[e].job = exec[e].job /\ exec'[e].resume = exec[e].resume
  BY <1>1, <1>2 DEF Calls
<1>5. \A f \in Execs \ {e} : Same(f)
  BY <1>1, <1>2 DEF Same
<1>6. Going(e)
  BY <1>3, <1>4, <1>5 DEF Going
<1> QED BY <1>2, <1>3, <1>6

\* The statuses a step may settle in.
LEMMA ProceedEffect ==
  ASSUME exec \in [Execs -> Calls], NEW e \in Execs, NEW s, NEW c, NEW u,
         u \in {Proceed(e, s), [Proceed(e, s) EXCEPT ![e].canonical = c]},
         exec' = u
  PROVE  /\ exec'[e].phase \in {"begin", "reread", "end"}
         /\ exec'[e].todo = exec[e].todo \ {s}
         /\ Going(e)
<1> DEFINE todo == exec[e].todo \ {s}
           phase == NextPhase(todo, s \in Early)
           seen == IF todo = {} THEN NoRow ELSE exec[e].row
           p == [exec EXCEPT ![e].phase = phase, ![e].todo = todo, ![e].input = 0,
                             ![e].current = NoRow, ![e].row = seen]
<1>1. Proceed(e, s) = p /\ phase \in {"begin", "reread", "end"} /\ todo \subseteq exec[e].todo
  BY NextPhaseType, Zenon DEF Proceed
<1>2. exec[e] \in Calls
  OBVIOUS
<1>3. todo = exec[e].todo \ {s}
  OBVIOUS
<1> HIDE DEF todo, phase, seen
<1>4. DOMAIN p = Execs /\ \A f \in Execs \ {e} : p[f] = exec[f]
  OBVIOUS
<1>5. p[e].phase = phase /\ p[e].todo = todo
  BY <1>2 DEF Calls
<1>6. p[e].job = exec[e].job /\ p[e].resume = exec[e].resume
  BY <1>2 DEF Calls
<1>7. p[e] = [exec[e] EXCEPT !.phase = phase, !.todo = todo, !.input = 0,
                             !.current = NoRow, !.row = seen]
  OBVIOUS
<1>8. DOMAIN p[e] = DOMAIN exec[e] /\ DOMAIN exec[e] = {"phase", "job", "after", "resume", "todo",
                                      "row", "current", "canonical", "input"}
  BY <1>2, <1>7 DEF Calls
<1> HIDE DEF p
<1>9. exec' = p \/ exec' = [p EXCEPT ![e].canonical = c]
  BY <1>1
<1>10. exec'[e] = p[e] \/ exec'[e] = [p[e] EXCEPT !.canonical = c]
  BY <1>4, <1>9
<1>11. exec'[e].phase = phase /\ exec'[e].todo = todo
  BY <1>5, <1>8, <1>10
<1>12. exec'[e].job = exec[e].job /\ exec'[e].resume = exec[e].resume
  BY <1>6, <1>8, <1>10
<1>13. \A f \in Execs \ {e} : Same(f)
  BY <1>4, <1>9 DEF Same
<1> QED BY <1>1, <1>3, <1>11, <1>12, <1>13 DEF Going

Settles(e, s) ==
    \/ StepDone(e, s) \/ StepSkipped(e, s) \/ StepBlocked(e, s) \/ StepFailed(e, s)
    \/ s = "preview" /\ PreviewOfDeleted(e)

LEMMA SettleEffect ==
  ASSUME IInv, NEW e \in Execs, NEW s \in Steps, Settles(e, s)
  PROVE  /\ exec[e].phase = "work" /\ s = NextStep(exec[e].todo) /\ s \in exec[e].todo
         /\ exec'[e].phase \in {"begin", "reread", "end"} /\ exec'[e].todo = exec[e].todo \ {s}
         /\ row'.deleted = row.deleted
         /\ \A t \in Steps \ {s} : row'.steps[t] = row.steps[t]
         /\ s # "canonical" => built' = built
         /\ s = "canonical" /\ row'.steps[s] = "DONE" => built' = exec[e].input
         /\ Going(e)
         /\ UNCHANGED <<composition, settingsVars, job, request, spent>>
<1>1. exec[e].phase = "work" /\ s = NextStep(exec[e].todo) /\ Running(e)
  BY DEF Settles, StepDone, StepSkipped, StepBlocked, StepFailed, PreviewOfDeleted, Working, Running
<1>2. /\ exec \in [Execs -> Calls] /\ row \in Rows /\ s \in exec[e].todo
  <2>1. exec[e].todo # {} /\ exec[e].todo \in SUBSET Steps
    BY <1>1, RunFacts DEF IInv, ErrorIsBehind
  <2> QED BY <1>1, <2>1, RunFacts, NextStepChosen
<1>3. \E c : exec' \in {Proceed(e, s), [Proceed(e, s) EXCEPT ![e].canonical = c]}
  BY DEF Settles, StepDone, StepSkipped, StepBlocked, StepFailed, PreviewOfDeleted
<1>4. exec'[e].phase \in {"begin", "reread", "end"} /\ exec'[e].todo = exec[e].todo \ {s} /\ Going(e)
  <2>1. PICK c : exec' \in {Proceed(e, s), [Proceed(e, s) EXCEPT ![e].canonical = c]}
    BY <1>3
  <2> QED BY <1>2, <2>1, ProceedEffect
<1>5. UNCHANGED <<composition, settingsVars, job, request, spent>>
  BY DEF Settles, StepDone, StepSkipped, StepBlocked, StepFailed, PreviewOfDeleted, contentVars
<1>6. /\ row'.deleted = row.deleted
      /\ \A t \in Steps \ {s} : row'.steps[t] = row.steps[t]
      /\ row'.steps[s] = "DONE" => s = "preview" \/ StepDone(e, s)
  <2>1. \/ row' = row /\ s = "preview"
        \/ \E x \in {"DONE", "SKIPPED", "FAILED"} :
              /\ (x = "DONE" => StepDone(e, s))
              /\ \/ row' = [row EXCEPT !.steps[s] = x]
                 \/ row' = [row EXCEPT !.steps[s] = x, !.failedStep = s]
                 \/ \E source \in {"NONE", "AUTO"} :
                        row' = [row EXCEPT !.steps[s] = x, !.typeSource = source]
    BY DEF Settles, StepDone, StepSkipped, StepBlocked, StepFailed, PreviewOfDeleted
  <2>2. ASSUME NEW x \in {"DONE", "SKIPPED", "FAILED"},
              \/ row' = [row EXCEPT !.steps[s] = x]
              \/ row' = [row EXCEPT !.steps[s] = x, !.failedStep = s]
              \/ \E source \in {"NONE", "AUTO"} :
                     row' = [row EXCEPT !.steps[s] = x, !.typeSource = source]
        PROVE  /\ row'.deleted = row.deleted /\ row'.steps[s] = x
               /\ \A t \in Steps \ {s} : row'.steps[t] = row.steps[t]
    <3>1. row'.deleted = row.deleted
      BY <1>2, <2>2 DEF Rows
    <3>2. row'.steps = [row.steps EXCEPT ![s] = x]
      BY <1>2, <2>2 DEF Rows
    <3>3. row.steps \in [Steps -> Statuses]
      BY <1>2 DEF Rows
    <3> QED BY <3>1, <3>2, <3>3
  <2> QED BY <2>1, <2>2
<1>7. s # "canonical" => built' = built
  BY DEF Settles, StepDone, StepSkipped, StepBlocked, StepFailed, PreviewOfDeleted, contentVars
<1>8. s = "canonical" /\ StepDone(e, s) => built' = exec[e].input
  BY DEF StepDone
<1> QED BY <1>1, <1>2, <1>4, <1>5, <1>6, <1>7, <1>8

LEMMA InterruptedEffect ==
  ASSUME IInv, NEW e \in Execs, NEW s \in Steps, StepInterrupted(e, s)
  PROVE  /\ exec[e].phase = "work" /\ s = NextStep(exec[e].todo) /\ s \in exec[e].todo
         /\ row'.deleted = row.deleted /\ row'.steps[s] = "QUEUED"
         /\ \A t \in Steps \ {s} : row'.steps[t] = row.steps[t]
         /\ UNCHANGED <<contentVars, settingsVars, request>>
         /\ Throw(e, TRUE) /\ Spend("outages", MaxOutages)
<1>1. exec[e].phase = "work" /\ s = NextStep(exec[e].todo) /\ Running(e)
  BY DEF StepInterrupted, Working, Running
<1>2. row \in Rows /\ s \in exec[e].todo
  <2>1. exec[e].todo # {} /\ exec[e].todo \in SUBSET Steps
    BY <1>1, RunFacts DEF IInv, ErrorIsBehind
  <2> QED BY <1>1, <2>1, RunFacts, NextStepChosen
<1>3. row' = [row EXCEPT !.steps[s] = "QUEUED"]
  BY DEF StepInterrupted
<1>4. row'.deleted = row.deleted
  BY <1>2, <1>3 DEF Rows
<1>5. row'.steps[s] = "QUEUED" /\ \A t \in Steps \ {s} : row'.steps[t] = row.steps[t]
  BY <1>2, <1>3 DEF Rows
<1> QED BY <1>1, <1>2, <1>4, <1>5 DEF StepInterrupted

LEMMA SpendEffect ==
  ASSUME SpentOK, NEW what \in Kinds, NEW bound, Spend(what, bound)
  PROVE  /\ SpentOK' /\ spent[what] < bound /\ spent'[what] = spent[what] + 1
         /\ \A k \in Kinds \ {what} : spent'[k] = spent[k]
<1>1. spent[what] \in Nat /\ spent' = [spent EXCEPT ![what] = @ + 1] /\ spent[what] < bound
  BY DEF SpentOK, Kinds, Spend
<1>2. SpentOK'
  BY <1>1 DEF SpentOK, Kinds
<1>3. spent'[what] = spent[what] + 1 /\ \A k \in Kinds \ {what} : spent'[k] = spent[k]
  BY <1>1 DEF SpentOK, Kinds
<1> QED BY <1>1, <1>2, <1>3

\* The events of a step are counted, and the counts never go down.
LEMMA CountsGoUp ==
  ASSUME IInv, Counted, [Next]_vars
  PROVE  Counted' /\ \A k \in Kinds : spent[k] \in Nat /\ spent'[k] \in Nat /\ spent'[k] >= spent[k]
<1>0. /\ Bound("asks") = MaxAsks /\ Bound("edits") = MaxEdits /\ Bound("outages") = MaxOutages
      /\ Bound("faults") = MaxFaults /\ Bound("typings") = MaxTypings
      /\ Bound("switches") = MaxSwitches
  BY DEF Bound
<1>00. \A k \in Kinds : Bound(k) \in Nat
  BY BoundsAssumption, <1>0 DEF Kinds
<1>1. spent' = spent \/ \E k \in Kinds : Spend(k, Bound(k))
  <2>1. ASSUME NEW e \in Execs, Run(e)
        PROVE  spent' = spent \/ \E k \in Kinds : Spend(k, Bound(k))
    <3>1. CASE \E s \in Steps : StepInterrupted(e, s)
      BY <1>0, <3>1, Zenon DEF StepInterrupted, Kinds
    <3>2. CASE \E s \in Steps : Settles(e, s)
      BY <3>2, SettleEffect
    <3> QED BY <2>1, <3>1, <3>2 DEF Run, Settles, Read, Slate, Begin, Reread, End, PreviewOfDeleted, Steps
  <2>2. ASSUME NEW j \in Jobs, Deliver(j) \/ Expire(j) \/ Archive(j) \/ RetryFailed(j)
        PROVE  spent' = spent \/ \E k \in Kinds : Spend(k, Bound(k))
    BY <1>0, <2>2, Zenon DEF Deliver, Expire, Archive, RetryFailed, Kinds
  <2>3. ASSUME NEW r \in Requests, \/ Ask(r) \/ Allow(r) \/ Submit(r) \/ SetType(r)
                                   \/ Resume(r) \/ ResumedCall(r)
        PROVE  spent' = spent \/ \E k \in Kinds : Spend(k, Bound(k))
    BY <1>0, <2>3, Zenon DEF Ask, Allow, Submit, SetType, Resume, ResumedCall, Kinds
  <2>4. ASSUME NEW e \in Execs, Abort(e)
        PROVE  spent' = spent \/ \E k \in Kinds : Spend(k, Bound(k))
    BY <1>0, <2>4, Zenon DEF Abort, Kinds
  <2>5. CASE Crash \/ Edit \/ SelectPreview \/ Delete \/ SetPauses \/ Sweep
    BY <1>0, <2>5, Zenon DEF Crash, Edit, SelectPreview, Delete, SetPauses, Sweep, Kinds
  <2>6. CASE UNCHANGED vars
    BY <2>6 DEF vars
  <2> QED BY <2>1, <2>2, <2>3, <2>4, <2>5, <2>6 DEF Next
<1>2. \A k \in Kinds : spent[k] \in Nat
  BY DEF Counted, SpentOK, Kinds
<1>3. ASSUME NEW k \in Kinds, Spend(k, Bound(k))
      PROVE  Counted' /\ \A i \in Kinds : spent'[i] \in Nat /\ spent'[i] >= spent[i]
  <2>1. /\ SpentOK' /\ spent[k] < Bound(k) /\ spent'[k] = spent[k] + 1
        /\ \A i \in Kinds \ {k} : spent'[i] = spent[i]
    BY <1>3, SpendEffect DEF Counted
  <2>2. \A i \in Kinds : spent'[i] <= Bound(i) /\ spent'[i] \in Nat /\ spent'[i] >= spent[i]
    BY <1>00, <1>2, <2>1 DEF Counted
  <2>3. Counted'
    BY <2>1, <2>2 DEF Counted, Bound
  <2> QED BY <2>2, <2>3
<1>4. CASE spent' = spent
  <2>1. Counted'
    BY <1>4 DEF Counted, SpentOK, Bound
  <2> QED BY <1>2, <1>4, <2>1
<1> QED BY <1>1, <1>2, <1>3, <1>4

\* Whoever is not a run leaves the steps as they are or queues them.
ByOthers ==
    \/ \E j \in Jobs : Deliver(j) \/ Expire(j) \/ Archive(j) \/ RetryFailed(j)
    \/ \E r \in Requests : \/ Ask(r) \/ Allow(r) \/ Submit(r) \/ SetType(r)
                           \/ Resume(r) \/ ResumedCall(r)
    \/ Crash \/ Edit \/ SelectPreview \/ Delete \/ SetPauses \/ Sweep
    \/ UNCHANGED vars

LEMMA OthersEffect ==
  ASSUME IInv, ByOthers
  PROVE  /\ \A s \in Steps : row'.steps[s] \in {row.steps[s], "QUEUED"}
         /\ row.deleted => row'.deleted
         /\ built' = built
<1>0. row \in Rows
  BY Types DEF IInv, Rest
<1>1. ASSUME NEW S, NEW f, NEW r,
             r = [row EXCEPT !.steps = [s \in Steps |-> IF s \in S THEN "QUEUED" ELSE @[s]]]
             \/ r = [row EXCEPT !.steps = [s \in Steps |-> IF s \in S THEN "QUEUED" ELSE @[s]],
                               !.failedStep = f],
             row' = r
      PROVE  (\A s \in Steps : row'.steps[s] \in {row.steps[s], "QUEUED"}) /\ row'.deleted = row.deleted
  <2>1. row'.deleted = row.deleted
    BY <1>0, <1>1 DEF Rows
  <2>2. row'.steps = [s \in Steps |-> IF s \in S THEN "QUEUED" ELSE row.steps[s]]
    BY <1>0, <1>1 DEF Rows
  <2> QED BY <2>1, <2>2
<1>2. ASSUME NEW j \in Jobs, Deliver(j) \/ Expire(j) \/ Archive(j) \/ RetryFailed(j)
      PROVE  row' = row /\ built' = built
  BY <1>2 DEF Deliver, Expire, Archive, RetryFailed, contentVars
<1>3. ASSUME NEW r \in Requests, Ask(r) \/ Submit(r) \/ Resume(r) \/ ResumedCall(r)
      PROVE  row' = row /\ built' = built
  BY <1>3 DEF Ask, Submit, Resume, ResumedCall, contentVars
<1>4. ASSUME NEW r \in Requests, Allow(r)
      PROVE  /\ \A s \in Steps : row'.steps[s] \in {row.steps[s], "QUEUED"}
             /\ row'.deleted = row.deleted /\ built' = built
  <2> DEFINE seen == request[r].row
             S == request[r].steps \ HeldSteps(paused, seen.steps, Typed(seen))
             f == IF ClearsRecordedFailure(seen.failedStep, S) THEN NoStep ELSE row.failedStep
  <2>1. \/ row' = row
        \/ row' = [row EXCEPT !.steps = [s \in Steps |-> IF s \in S THEN "QUEUED" ELSE @[s]],
                              !.failedStep = f]
    BY <1>4 DEF Allow
  <2> HIDE DEF S, f
  <2>2. built' = built
    BY <1>4 DEF Allow, contentVars
  <2>3. CASE row' = row
    BY <2>2, <2>3
  <2>4. CASE row' # row
    <3>1. row' = [row EXCEPT !.steps = [s \in Steps |-> IF s \in S THEN "QUEUED" ELSE @[s]],
                             !.failedStep = f]
      BY <2>1, <2>4
    <3>2. (\A s \in Steps : row'.steps[s] \in {row.steps[s], "QUEUED"}) /\ row'.deleted = row.deleted
      BY <3>1, <1>1
    <3> QED BY <2>2, <3>2
  <2> QED BY <2>3, <2>4
<1>5. ASSUME NEW r \in Requests, SetType(r)
      PROVE  row'.steps = row.steps /\ row'.deleted = row.deleted /\ built' = built
  <2>1. PICK x : row' = [row EXCEPT !.typeSource = x]
    BY <1>5 DEF SetType
  <2>2. row'.steps = row.steps
    BY <1>0, <2>1 DEF Rows
  <2>3. row'.deleted = row.deleted
    BY <1>0, <2>1 DEF Rows
  <2> QED BY <1>5, <2>2, <2>3 DEF SetType, contentVars
<1>6. CASE SelectPreview \/ Sweep
  <2>1. \E S : row' = [row EXCEPT !.steps = [s \in Steps |-> IF s \in S THEN "QUEUED" ELSE @[s]]]
    BY <1>6 DEF SelectPreview, Sweep
  <2>2. built' = built
    BY <1>6 DEF SelectPreview, Sweep, contentVars
  <2> QED BY <1>1, <2>1, <2>2
<1>7. CASE Delete
  <2>1. row' = [row EXCEPT !.deleted = TRUE] /\ built' = built
    BY <1>7 DEF Delete, contentVars
  <2>2. row'.steps = row.steps
    BY <1>0, <2>1 DEF Rows
  <2>3. row'.deleted
    BY <1>0, <2>1 DEF Rows
  <2> QED BY <2>1, <2>2, <2>3
<1>8. CASE Crash \/ Edit \/ SetPauses \/ UNCHANGED vars
  BY <1>8 DEF Crash, Edit, SetPauses, vars, contentVars
<1> QED BY <1>2, <1>3, <1>4, <1>5, <1>6, <1>7, <1>8 DEF ByOthers

LEMMA StepsOfTheNext ==
  ASSUME IInv, [Next]_vars
  PROVE  \/ ByOthers
         \/ \E e \in Execs :
               \/ Read(e) \/ Slate(e) \/ Begin(e) \/ Reread(e) \/ End(e) \/ Abort(e)
               \/ \E s \in Steps : Settles(e, s) \/ StepInterrupted(e, s)
<1>1. ASSUME NEW e \in Execs, PreviewOfDeleted(e)
      PROVE  \E s \in Steps : Settles(e, s)
  BY <1>1 DEF Settles, Steps
<1> QED BY <1>1, Zenon DEF Next, Run, ByOthers, Settles

-----------------------------------------------------------------------------
(* A pause that was there from the start.                                   *)

\* What the configured pauses hold while none of the steps they name has an
\* answer.
Frozen ==
    paused \cup (IF "canonical" \in paused THEN ReadsCanonical \cup ReadsMarkdown ELSE {})
           \cup (IF "markdown" \in paused THEN ReadsMarkdown ELSE {})

Waits(r) == \A s \in Frozen : r.steps[s] \in {"PENDING", "QUEUED"}

(* Until an operator changes the pauses, no step they hold has begun, the   *)
(* row a run decides from says so, and no run has one of them to do.        *)
PausesHold ==
    spent.switches = 0 =>
        /\ Waits(row)
        /\ \A e \in Execs : exec[e].phase = "slate" => Waits(exec[e].row)
        /\ \A e \in Execs : exec[e].phase \in {"begin", "work", "reread", "end"} =>
               exec[e].todo \cap Frozen = {}

LEMMA FrozenIsHeld ==
  ASSUME paused \in SUBSET Pausable, NEW r, Waits(r), NEW typed
  PROVE  Frozen \subseteq HeldSteps(paused, r.steps, typed) /\ Frozen \subseteq Steps
BY StepsAssumption DEF Frozen, Waits, HeldSteps, HeldByAnalysis, HeldByMarkdown, HeldByCanonical,
   Steps, ReadsCanonical, ReadsMarkdown, Settled

\* Who is not a run leaves the steps as they are or queues them.
LEMMA QuietPauses ==
  ASSUME PausesHold, spent.switches = 0, paused' = paused,
         \A s \in Frozen : row'.steps[s] \in {row.steps[s], "QUEUED"},
         \A e \in Execs : Same(e) \/ exec'[e].phase \in {"idle", "chained"}
  PROVE  PausesHold'
<1>1. Frozen' = Frozen
  BY DEF Frozen
<1>2. Waits(row)'
  BY <1>1 DEF PausesHold, Waits
<1>3. ASSUME NEW e \in Execs, exec'[e].phase = "slate"
      PROVE  Waits(exec[e].row)'
  BY <1>1, <1>3 DEF PausesHold, Waits, Same
<1>4. ASSUME NEW e \in Execs, exec'[e].phase \in {"begin", "work", "reread", "end"}
      PROVE  exec'[e].todo \cap Frozen' = {}
  BY <1>1, <1>4 DEF PausesHold, Same
<1> QED BY <1>2, <1>3, <1>4 DEF PausesHold

LEMMA GoingPauses ==
  ASSUME IInv, PausesHold, spent.switches = 0, paused' = paused, NEW e \in Execs, Going(e),
         exec[e].phase \in {"slate", "begin", "work", "reread"},
         exec'[e].phase \in {"begin", "work", "reread", "end"},
         exec[e].phase = "slate" => exec'[e].todo \cap Frozen = {},
         \A s \in Frozen : \/ row'.steps[s] \in {row.steps[s], "QUEUED"}
                           \/ s \in exec'[e].todo
                           \/ s \in exec[e].todo /\ exec[e].phase # "slate"
  PROVE  PausesHold'
<1>1. Frozen' = Frozen
  BY DEF Frozen
<1>2. exec'[e].todo \cap Frozen = {} /\ (exec[e].phase # "slate" => exec[e].todo \cap Frozen = {})
  BY DEF PausesHold, Going
<1>3. Waits(row)'
  BY <1>1, <1>2 DEF PausesHold, Waits
<1>4. ASSUME NEW f \in Execs, exec'[f].phase = "slate"
      PROVE  Waits(exec[f].row)'
  BY <1>1, <1>4 DEF PausesHold, Waits, Same, Going
<1>5. ASSUME NEW f \in Execs, exec'[f].phase \in {"begin", "work", "reread", "end"}
      PROVE  exec'[f].todo \cap Frozen' = {}
  BY <1>1, <1>2, <1>5 DEF PausesHold, Same, Going
<1> QED BY <1>3, <1>4, <1>5 DEF PausesHold

LEMMA PausesKept ==
  ASSUME IInv, Counted, PausesHold, [Next]_vars
  PROVE  PausesHold'
<1> SUFFICES ASSUME spent'.switches = 0 PROVE PausesHold'
  BY DEF PausesHold
<1>1. spent.switches = 0
  BY CountsGoUp DEF Kinds
<1>2. paused' = paused
  <2>1. CASE SetPauses
    <3>1. Spend("switches", MaxSwitches)
      BY <2>1 DEF SetPauses
    <3>2. spent'["switches"] = spent["switches"] + 1
      BY <3>1, SpendEffect DEF Kinds, Counted
    <3> QED BY <1>1, <3>2
  <2>2. CASE ~SetPauses
    <3>1. ASSUME NEW e \in Execs, NEW s \in Steps, Settles(e, s) \/ StepInterrupted(e, s)
          PROVE  paused' = paused
      BY <3>1, SettleEffect, InterruptedEffect DEF settingsVars
    <3>2. ASSUME NEW e \in Execs,
                 Read(e) \/ Slate(e) \/ Begin(e) \/ Reread(e) \/ End(e) \/ Abort(e)
          PROVE  paused' = paused
      BY <3>2 DEF Read, Slate, Begin, Reread, End, Abort, settingsVars
    <3>3. ASSUME NEW r \in Requests, \/ Ask(r) \/ Allow(r) \/ Submit(r) \/ SetType(r)
                                     \/ Resume(r) \/ ResumedCall(r)
          PROVE  paused' = paused
      BY <3>3 DEF Ask, Allow, Submit, SetType, Resume, ResumedCall, settingsVars
    <3>4. ASSUME NEW j \in Jobs, Deliver(j) \/ Expire(j) \/ Archive(j) \/ RetryFailed(j)
          PROVE  paused' = paused
      BY <3>4 DEF Deliver, Expire, Archive, RetryFailed, settingsVars
    <3>5. CASE Crash \/ Edit \/ SelectPreview \/ Delete \/ Sweep \/ UNCHANGED vars
      BY <3>5 DEF Crash, Edit, SelectPreview, Delete, Sweep, settingsVars, vars
    <3> QED BY <2>2, <3>1, <3>2, <3>3, <3>4, <3>5, StepsOfTheNext DEF ByOthers
  <2> QED BY <2>1, <2>2
<1>3. /\ exec \in [Execs -> Calls] /\ paused \in SUBSET Pausable /\ Waits(row)
      /\ Frozen \subseteq Steps
  <2>1. exec \in [Execs -> Calls] /\ paused \in SUBSET Pausable /\ Waits(row)
    BY <1>1, Types DEF IInv, Rest, PausesHold
  <2> QED BY <2>1, FrozenIsHeld
<1>4. CASE ByOthers
  <2>1. \A s \in Frozen : row'.steps[s] \in {row.steps[s], "QUEUED"}
    BY <1>3, <1>4, OthersEffect
  <2>2. \A e \in Execs : Same(e) \/ exec'[e].phase \in {"idle", "chained"}
    <3>1. ASSUME NEW j \in Jobs, Deliver(j)
          PROVE  \A e \in Execs : Same(e) \/ exec'[e].phase \in {"idle", "chained"}
      <4>1. PICK e \in Execs :
                   exec' = [exec EXCEPT ![e] =
                      [NoExec EXCEPT
                          !.phase = "chained", !.job = j, !.after = tail,
                          !.resume = \/ job[j].resume
                                     \/ job[j].retries > 0 /\ job[j].checkpoint,
                          !.todo = PayloadSteps(job[j].steps)]]
        BY <3>1 DEF Deliver
      <4>2. exec'[e].phase = "chained"
        BY <1>3, <4>1 DEF NoExec
      <4>3. \A f \in Execs \ {e} : Same(f)
        BY <1>3, <4>1 DEF Same
      <4> QED BY <4>2, <4>3
    <3>2. CASE Crash
      BY <3>2 DEF Crash, NoExec
    <3>3. CASE exec' = exec
      BY <3>3 DEF Same
    <3>4. ASSUME NEW r \in Requests, \/ Ask(r) \/ Allow(r) \/ Submit(r) \/ SetType(r)
                                     \/ Resume(r) \/ ResumedCall(r)
          PROVE  exec' = exec
      BY <3>4 DEF Ask, Allow, Submit, SetType, Resume, ResumedCall
    <3>5. ASSUME NEW j \in Jobs, Expire(j) \/ Archive(j) \/ RetryFailed(j)
          PROVE  exec' = exec
      BY <3>5 DEF Expire, Archive, RetryFailed
    <3>6. CASE Edit \/ SelectPreview \/ Delete \/ SetPauses \/ Sweep \/ UNCHANGED vars
      BY <3>3, <3>6 DEF Edit, SelectPreview, Delete, SetPauses, Sweep, vars
    <3> QED BY <1>4, <3>1, <3>2, <3>3, <3>4, <3>5, <3>6 DEF ByOthers
  <2> QED BY <1>1, <1>2, <2>1, <2>2, QuietPauses
<1>5. ASSUME NEW e \in Execs, NEW s \in Steps, Settles(e, s) PROVE PausesHold'
  <2>1. /\ exec[e].phase = "work" /\ s \in exec[e].todo /\ exec'[e].phase \in {"begin", "reread", "end"}
        /\ Going(e) /\ \A t \in Steps \ {s} : row'.steps[t] = row.steps[t]
    BY <1>5, SettleEffect
  <2> QED BY <1>1, <1>2, <1>3, <2>1, GoingPauses
<1>6. ASSUME NEW e \in Execs, Leave(e), \A s \in Frozen : row'.steps[s] \in {row.steps[s], "QUEUED"}
      PROVE  PausesHold'
  <2>1. \A f \in Execs : Same(f) \/ exec'[f].phase \in {"idle", "chained"}
    BY <1>3, <1>6, LeaveEffect DEF NoExec
  <2> QED BY <1>1, <1>2, <1>6, <2>1, QuietPauses
<1>7. ASSUME NEW e \in Execs, NEW s \in Steps, StepInterrupted(e, s) PROVE PausesHold'
  <2>1. Leave(e) /\ \A t \in Steps : row'.steps[t] \in {row.steps[t], "QUEUED"}
    BY <1>7, InterruptedEffect DEF Throw
  <2> QED BY <1>3, <1>6, <2>1
<1>8. ASSUME NEW e \in Execs, End(e) \/ Abort(e) \/ (Read(e) /\ row.deleted) PROVE PausesHold'
  <2>1. Leave(e) /\ row' = row
    BY <1>8 DEF End, Abort, Read, Complete, Throw
  <2> QED BY <1>6, <2>1
<1>9. ASSUME NEW e \in Execs, Read(e), ~row.deleted PROVE PausesHold'
  <2>1. exec'[e].phase = "slate" /\ exec'[e].row = row /\ Going(e) /\ row' = row
    BY <1>9, ReadEffect DEF Read
  <2>2. Frozen' = Frozen
    BY <1>2 DEF Frozen
  <2> QED BY <1>1, <1>3, <2>1, <2>2 DEF PausesHold, Waits, Going, Same
<1>10. ASSUME NEW e \in Execs, Slate(e) PROVE PausesHold'
  <2>1. /\ exec[e].phase = "slate" /\ exec'[e].phase \in {"begin", "reread", "end"} /\ Going(e)
        /\ exec'[e].todo = exec[e].todo \ HeldSteps(paused, exec[e].row.steps, Typed(exec[e].row))
        /\ \A s \in Steps : row'.steps[s] \in {row.steps[s], "QUEUED"}
    BY <1>10, SlateEffect
  <2> DEFINE typed == Typed(exec[e].row)
             r == exec[e].row
  <2>2. Waits(r)
    BY <1>1, <2>1 DEF PausesHold
  <2>3. exec'[e].todo \cap HeldSteps(paused, r.steps, typed) = {}
    BY <2>1
  <2> HIDE DEF typed, r
  <2>4. Frozen \subseteq HeldSteps(paused, r.steps, typed)
    BY <1>3, <2>2, FrozenIsHeld
  <2> QED BY <1>1, <1>2, <1>3, <2>1, <2>3, <2>4, GoingPauses
<1>11. ASSUME NEW e \in Execs, Begin(e) \/ Reread(e) PROVE PausesHold'
  <2>1. /\ exec[e].phase \in {"begin", "reread"} /\ exec'[e].phase \in {"begin", "work"} /\ Going(e)
        /\ exec'[e].todo = exec[e].todo
        /\ \A s \in Steps : row'.steps[s] = row.steps[s] \/ s \in exec[e].todo
    BY <1>11, BeginEffect, RereadEffect
  <2> QED BY <1>1, <1>2, <1>3, <2>1, GoingPauses
<1> QED BY <1>4, <1>5, <1>7, <1>8, <1>9, <1>10, <1>11, StepsOfTheNext

-----------------------------------------------------------------------------
(* An edit is not forgotten while the canonical PDF cannot be paused and a  *)
(* job has more retries than there are faults.                              *)

Rebuilds(e) == exec[e].phase = "work" /\ "canonical" \in exec[e].todo

\* The stored PDF, or the one being built, shows an older composition.
Stale ==
    /\ ~row.deleted
    /\ \/ row.steps["canonical"] = "DONE" /\ built # composition
       \/ \E e \in Execs : Rebuilds(e) /\ exec[e].input # composition

\* A call that has yet to read the composition for the PDF it will build.
Untouched(e) ==
    /\ exec[e].phase \in {"chained", "slate", "begin"} /\ "canonical" \in exec[e].todo
    /\ exec[e].phase = "chained" => ~exec[e].resume

\* A job whose call a crash has taken.
Lost(j) == job[j].state = "active" /\ \A e \in Execs : exec[e].job # j

\* A job that owes the rebuild: every call made of it so far has yet to read
\* the composition, and each attempt it has lost was lost to a fault.
Owes(j) ==
    /\ job[j].state \in LiveStates
    /\ "canonical" \in PayloadSteps(job[j].steps) /\ ~job[j].resume
    /\ job[j].state = "retry" => ~job[j].checkpoint
    /\ \A e \in Execs : exec[e].job = j => Untouched(e)
    /\ job[j].retries + (IF Lost(j) THEN 1 ELSE 0) <= spent.faults

(* While faults are fewer than attempts, a job owes every rebuild.          *)
DebtIsOwed ==
    "canonical" \notin Pausable /\ spent.faults <= RETRY_LIMIT /\ Stale
        => \E j \in Jobs : Owes(j)

(* A job waiting for its first call has none yet; nor is there a job of a   *)
(* call that is over.                                                       *)
CreatedIsNew ==
    /\ \A j \in Jobs : job[j].state = "created" =>
           job[j].retries = 0 /\ \A e \in Execs : exec[e].job # j
    /\ \A e \in Execs : ~Live(e) => exec[e].job = None

LEMMA EnqueueEffect ==
  ASSUME job \in [Jobs -> JobRows], NEW steps, NEW resume, Enqueue(steps, resume)
  PROVE  \/ /\ job' = job
            /\ \E j \in Jobs : /\ job[j].state = "created" /\ job[j].steps = steps
                               /\ job[j].resume = resume
         \/ \E j \in Jobs :
              /\ job[j].state = "none" /\ \A e \in Execs : exec[e].job # j
              /\ job'[j].state = "created" /\ job'[j].steps = steps /\ job'[j].resume = resume
              /\ job'[j].retries = 0 /\ ~job'[j].checkpoint
              /\ \A i \in Jobs \ {j} : job'[i] = job[i]
<1> DEFINE same == {j \in Jobs : job[j].state = "created" /\ JobKey(j) = WorkKey(steps, resume)}
<1>1. CASE same # {}
  <2>1. PICK j \in Jobs : job[j].state = "created" /\ JobKey(j) = WorkKey(steps, resume)
    BY <1>1
  <2>2. job[j].steps = steps /\ job[j].resume = resume
    BY <2>1 DEF JobKey, WorkKey
  <2>3. job' = job
    BY <1>1 DEF Enqueue
  <2> QED BY <2>1, <2>2, <2>3
<1>2. CASE same = {}
  <2>1. PICK j \in Jobs :
           /\ job[j].state = "none" /\ \A e \in Execs : exec[e].job # j
           /\ job' = [job EXCEPT ![j] =
                  [NoJob EXCEPT !.state = "created", !.steps = steps, !.resume = resume]]
    BY <1>2 DEF Enqueue
  <2>2. job'[j] = [NoJob EXCEPT !.state = "created", !.steps = steps, !.resume = resume]
    BY <2>1
  <2>3. job'[j].state = "created" /\ job'[j].steps = steps /\ job'[j].resume = resume
    BY <2>2 DEF NoJob
  <2>4. job'[j].retries = 0 /\ job'[j].checkpoint = FALSE
    BY <2>2 DEF NoJob
  <2>5. \A i \in Jobs \ {j} : job'[i] = job[i]
    BY <2>1
  <2> QED BY <2>1, <2>3, <2>4, <2>5
<1> QED BY <1>1, <1>2

LEMMA FailedJobEffect ==
  ASSUME job \in [Jobs -> JobRows], NEW j \in Jobs, NEW checkpoint \in BOOLEAN
  PROVE  LET x == FailedJob(j, checkpoint) IN
         /\ x.steps = job[j].steps /\ x.resume = job[j].resume /\ (x.checkpoint <=> checkpoint)
         /\ job[j].retries < RETRY_LIMIT => x.state = "retry" /\ x.retries = job[j].retries + 1
         /\ ~(job[j].retries < RETRY_LIMIT) => x.state = "failed"
<1>1. job[j] \in JobRows
  OBVIOUS
<1>2. CASE job[j].retries < RETRY_LIMIT
  <2>1. FailedJob(j, checkpoint) =
            [job[j] EXCEPT !.state = "retry", !.retries = @ + 1, !.checkpoint = checkpoint]
    BY <1>2 DEF FailedJob
  <2> QED BY <1>1, <1>2, <2>1 DEF JobRows
<1>3. CASE ~(job[j].retries < RETRY_LIMIT)
  <2>1. FailedJob(j, checkpoint) = [job[j] EXCEPT !.state = "failed", !.checkpoint = checkpoint]
    BY <1>3 DEF FailedJob
  <2> QED BY <1>1, <1>3, <2>1 DEF JobRows
<1> QED BY <1>2, <1>3

\* What a step does to the jobs and to whose they are.
LEMMA JobsOfCalls ==
  ASSUME IInv, NEW e \in Execs, Complete(e) \/ (\E c \in BOOLEAN : Throw(e, c))
  PROVE  \A j \in Jobs : j # exec[e].job => job'[j] = job[j]
BY Types DEF Complete, Throw, IInv, Rest

LEMMA DeliverEffect ==
  ASSUME IInv, NEW j \in Jobs, Deliver(j)
  PROVE  /\ job[j].state \in {"created", "retry"}
         /\ job'[j].state = "active" /\ job'[j].steps = job[j].steps
         /\ job'[j].resume = job[j].resume /\ job'[j].retries = job[j].retries
         /\ \A i \in Jobs \ {j} : job'[i] = job[i]
         /\ \E e \in Execs :
              /\ ~Live(e) /\ \A f \in Execs \ {e} : exec'[f] = exec[f]
              /\ exec'[e].phase = "chained" /\ exec'[e].job = j
              /\ exec'[e].todo = PayloadSteps(job[j].steps)
              /\ exec'[e].resume <=> job[j].resume \/ (job[j].retries > 0 /\ job[j].checkpoint)
<1>1. job \in [Jobs -> JobRows] /\ exec \in [Execs -> Calls] /\ job[j] \in JobRows
  BY Types DEF IInv, Rest
<1>2. job[j].state \in {"created", "retry"} /\ job' = [job EXCEPT ![j].state = "active"]
  BY DEF Deliver
<1>3. job'[j].state = "active" /\ job'[j].steps = job[j].steps
  BY <1>1, <1>2 DEF JobRows
<1>4. job'[j].resume = job[j].resume /\ job'[j].retries = job[j].retries
  BY <1>1, <1>2 DEF JobRows
<1>5. PICK e \in Execs :
           /\ ~Live(e)
           /\ exec' = [exec EXCEPT ![e] =
                  [NoExec EXCEPT
                      !.phase = "chained", !.job = j, !.after = tail,
                      !.resume = job[j].resume \/ (job[j].retries > 0 /\ job[j].checkpoint),
                      !.todo = PayloadSteps(job[j].steps)]]
  BY DEF Deliver
<1> DEFINE again == job[j].resume \/ (job[j].retries > 0 /\ job[j].checkpoint)
<1>6. exec'[e] = [NoExec EXCEPT !.phase = "chained", !.job = j, !.after = tail,
                                !.resume = again, !.todo = PayloadSteps(job[j].steps)]
  BY <1>1, <1>5
<1> HIDE DEF again
<1>7. exec'[e].phase = "chained" /\ exec'[e].job = j
  BY <1>6 DEF NoExec
<1>8. exec'[e].todo = PayloadSteps(job[j].steps) /\ exec'[e].resume = again
  BY <1>6 DEF NoExec
<1>9. \A f \in Execs \ {e} : exec'[f] = exec[f]
  BY <1>1, <1>5
<1>10. exec'[e].resume <=> again
  BY <1>8
<1>11. \A i \in Jobs \ {j} : job'[i] = job[i]
  BY <1>1, <1>2
<1> QED BY <1>2, <1>3, <1>4, <1>5, <1>7, <1>8, <1>9, <1>10, <1>11 DEF again

LEMMA CreatedKept ==
  ASSUME IInv, CreatedIsNew, [Next]_vars
  PROVE  CreatedIsNew'
<1>1. job \in [Jobs -> JobRows] /\ exec \in [Execs -> Calls]
  BY Types DEF IInv, Rest
\* the calls are those there were, and the jobs are too, but for one that is enqueued
<1>2. ASSUME \A e \in Execs : exec'[e].job = exec[e].job \/ exec'[e].job = None,
             \A e \in Execs : ~Live(e)' => exec'[e].job = None,
             \A j \in Jobs : job'[j].state = "created" =>
                 \/ job'[j] = job[j]
                 \/ job'[j].retries = 0 /\ \A e \in Execs : exec[e].job # j
      PROVE  CreatedIsNew'
  <2>1. ASSUME NEW j \in Jobs, job'[j].state = "created"
        PROVE  job'[j].retries = 0 /\ \A e \in Execs : exec[e].job # j
    BY <1>2, <2>1 DEF CreatedIsNew
  <2>2. \A j \in Jobs, e \in Execs : exec[e].job # j => exec'[e].job # j
    BY <1>2, NoneAssumption
  <2> QED BY <1>2, <2>1, <2>2 DEF CreatedIsNew
<1>3. ASSUME NEW e \in Execs, Going(e), exec'[e].phase # "idle", job' = job
      PROVE  CreatedIsNew'
  <2>1. \A f \in Execs : exec'[f].job = exec[f].job /\ (~Live(f)' => ~Live(f))
    BY <1>3 DEF Going, Same, Live
  <2> QED BY <1>2, <1>3, <2>1 DEF CreatedIsNew
<1>4. ASSUME NEW e \in Execs, Complete(e) \/ (\E c \in BOOLEAN : Throw(e, c))
      PROVE  CreatedIsNew'
  <2>1. exec'[e] = NoExec /\ \A f \in Execs \ {e} : Same(f)
    BY <1>1, <1>4, LeaveEffect DEF Complete, Throw
  <2>2. \A f \in Execs : /\ exec'[f].job = exec[f].job \/ exec'[f].job = None
                         /\ ~Live(f)' => exec'[f].job = None
    BY <2>1 DEF Same, Live, NoExec, CreatedIsNew
  <2>3. ASSUME NEW j \in Jobs, job'[j].state = "created" PROVE job'[j] = job[j]
    <3>1. CASE j # exec[e].job
      BY <1>4, <3>1, JobsOfCalls
    <3>2. CASE j = exec[e].job
      <4>1. job'[j] = job[j] \/ job'[j] = NoJob \/ \E c \in BOOLEAN : job'[j] = FailedJob(j, c)
        BY <1>1, <1>4, <3>2 DEF Complete, Throw
      <4>2. \A c \in BOOLEAN : FailedJob(j, c).state \in {"retry", "failed"}
        BY <1>1, FailedJobEffect
      <4> QED BY <2>3, <4>1, <4>2 DEF NoJob
    <3> QED BY <3>1, <3>2
  <2> QED BY <1>2, <2>2, <2>3
<1>5. ASSUME NEW e \in Execs, NEW s \in Steps, Settles(e, s) \/ StepInterrupted(e, s)
      PROVE  CreatedIsNew'
  BY <1>3, <1>4, <1>5, SettleEffect, InterruptedEffect
<1>6. ASSUME NEW e \in Execs,
             Read(e) \/ Slate(e) \/ Begin(e) \/ Reread(e) \/ End(e) \/ Abort(e)
      PROVE  CreatedIsNew'
  <2>1. CASE End(e) \/ Abort(e) \/ (Read(e) /\ row.deleted)
    BY <1>4, <2>1 DEF End, Abort, Read
  <2>2. CASE Read(e) /\ ~row.deleted
    BY <1>3, <2>2, ReadEffect
  <2>3. CASE Slate(e) \/ Begin(e) \/ Reread(e)
    BY <1>3, <2>3, SlateEffect, BeginEffect, RereadEffect
  <2> QED BY <1>6, <2>1, <2>2, <2>3
<1>7. ASSUME NEW j \in Jobs, Deliver(j) PROVE CreatedIsNew'
  <2>1. PICK e \in Execs :
              /\ ~Live(e) /\ \A f \in Execs \ {e} : exec'[f] = exec[f]
              /\ exec'[e].phase = "chained" /\ exec'[e].job = j
    BY <1>7, DeliverEffect
  <2>2. job'[j].state = "active" /\ \A i \in Jobs \ {j} : job'[i] = job[i]
    BY <1>7, DeliverEffect
  <2> QED BY <2>1, <2>2 DEF CreatedIsNew, Live
<1>8. ASSUME exec' = exec,
             \/ job' = job \/ (\E steps, resume : Enqueue(steps, resume))
             \/ \E j \in Jobs : job' = [job EXCEPT ![j] = NoJob]
                                \/ job' = [job EXCEPT ![j] = FailedJob(j, FALSE)]
      PROVE  CreatedIsNew'
  <2>1. ASSUME NEW j \in Jobs, job'[j].state = "created"
        PROVE  job'[j] = job[j] \/ (job'[j].retries = 0 /\ \A e \in Execs : exec[e].job # j)
    <3>1. CASE \E steps, resume : Enqueue(steps, resume)
      BY <1>1, <2>1, <3>1, EnqueueEffect
    <3>2. CASE \E i \in Jobs : job' = [job EXCEPT ![i] = NoJob]
                               \/ job' = [job EXCEPT ![i] = FailedJob(i, FALSE)]
      <4>1. \A i \in Jobs : FailedJob(i, FALSE).state \in {"retry", "failed"}
        BY <1>1, FailedJobEffect
      <4>2. PICK i \in Jobs : job' = [job EXCEPT ![i] = NoJob]
                              \/ job' = [job EXCEPT ![i] = FailedJob(i, FALSE)]
        BY <3>2
      <4>3. job'[i] \in {NoJob, FailedJob(i, FALSE)} /\ NoJob.state = "none"
        BY <1>1, <4>2 DEF NoJob
      <4>4. job'[i].state # "created"
        BY <4>1, <4>3
      <4>5. \A k \in Jobs \ {i} : job'[k] = job[k]
        BY <1>1, <4>2
      <4> QED BY <2>1, <4>4, <4>5
    <3> QED BY <1>8, <3>1, <3>2
  <2> QED BY <1>2, <1>8, <2>1 DEF CreatedIsNew, Live
<1>9. ASSUME NEW j \in Jobs, Expire(j) \/ Archive(j) \/ RetryFailed(j) PROVE CreatedIsNew'
  BY <1>8, <1>9 DEF Expire, Archive, RetryFailed
<1>10. ASSUME NEW r \in Requests,
              Ask(r) \/ Allow(r) \/ Submit(r) \/ SetType(r) \/ Resume(r) \/ ResumedCall(r)
       PROVE  CreatedIsNew'
  BY <1>8, <1>10 DEF Ask, Allow, Submit, SetType, Resume, ResumedCall
<1>11. CASE Edit \/ SelectPreview \/ Delete \/ SetPauses \/ Sweep \/ UNCHANGED vars
  BY <1>8, <1>11 DEF Edit, SelectPreview, Delete, SetPauses, Sweep, vars
<1>12. CASE Crash
  <2>1. job' = job /\ \A e \in Execs : exec'[e].job = None
    BY <1>12 DEF Crash, NoExec
  <2> QED BY <1>2, <2>1
<1> QED BY <1>5, <1>6, <1>7, <1>9, <1>10, <1>11, <1>12, StepsOfTheNext DEF ByOthers

\* No PDF becomes stale by a step that builds none and edits nothing.
LEMMA StaleBefore ==
  ASSUME composition' = composition, row.deleted => row'.deleted,
         row'.steps["canonical"] = "DONE" => row.steps["canonical"] = "DONE" /\ built' = built,
         \A e \in Execs : Rebuilds(e)' => Rebuilds(e) /\ exec'[e].input = exec[e].input,
         Stale'
  PROVE  Stale
BY DEF Stale

\* A job goes on owing when it is left alone and its calls are still untouched.
LEMMA StillOwes ==
  ASSUME NEW j \in Jobs, Owes(j), job'[j] = job[j], job \in [Jobs -> JobRows],
         spent.faults \in Nat, spent'.faults \in Nat, spent'.faults >= spent.faults,
         \A e \in Execs : exec'[e].job = j => Untouched(e)',
         Lost(j)' => Lost(j)
  PROVE  Owes(j)'
<1>1. job[j].retries \in Nat
  BY BoundsAssumption DEF JobRows
<1>2. job[j].retries + (IF Lost(j)' THEN 1 ELSE 0) <= spent'.faults
  BY <1>1 DEF Owes
<1> QED BY <1>2 DEF Owes

LEMMA CanonicalFirst ==
  ASSUME NEW todo
  PROVE  "canonical" \in todo <=> NextStep(todo) = "canonical"
BY DEF NextStep

LEMMA CanonicalFree ==
  ASSUME "canonical" \notin Pausable, paused \in SUBSET Pausable, NEW st, NEW t
  PROVE  "canonical" \notin HeldSteps(paused, st, t)
BY DEF HeldSteps, HeldByAnalysis, HeldByMarkdown, HeldByCanonical, ReadsCanonical, ReadsMarkdown

\* A run that goes on.
LEMMA GoingDebt ==
  ASSUME IInv, Counted, Counted', spent' = spent, Stale => \E j \in Jobs : Owes(j), Stale' => Stale,
         NEW e \in Execs, Going(e), job' = job, Untouched(e) => Untouched(e)', Stale'
  PROVE  \E j \in Jobs : Owes(j)'
<1>1. PICK j \in Jobs : Owes(j)
  OBVIOUS
<1>2. job \in [Jobs -> JobRows] /\ spent.faults \in Nat
  BY Types DEF IInv, Rest, Counted, SpentOK
<1>3. ASSUME NEW f \in Execs, exec'[f].job = j PROVE Untouched(f)'
  BY <1>1, <1>3 DEF Going, Same, Owes, Untouched
<1>4. Lost(j)' => Lost(j)
  BY DEF Lost, Going, Same
<1> QED BY <1>1, <1>2, <1>3, <1>4, StillOwes

\* A run that is over and had read the composition, or had it not to read.
LEMMA OverDebt ==
  ASSUME IInv, Counted, Counted', Stale => \E j \in Jobs : Owes(j), Stale' => Stale, Stale',
         spent'.faults >= spent.faults, NEW e \in Execs, ~Untouched(e),
         Complete(e) \/ (\E c \in BOOLEAN : Throw(e, c))
  PROVE  \E j \in Jobs : Owes(j)'
<1>1. PICK j \in Jobs : Owes(j)
  OBVIOUS
<1>2. /\ job \in [Jobs -> JobRows] /\ exec \in [Execs -> Calls]
      /\ spent.faults \in Nat /\ spent'.faults \in Nat
  BY Types DEF IInv, Rest, Counted, SpentOK
<1>3. exec[e].job # j /\ job'[j] = job[j]
  BY <1>1, JobsOfCalls DEF Owes
<1>4. exec'[e] = NoExec /\ \A f \in Execs \ {e} : Same(f)
  BY <1>2, LeaveEffect DEF Complete, Throw
<1>5. exec'[e].job # j
  BY <1>4, NoneAssumption DEF NoExec
<1>6. ASSUME NEW f \in Execs, exec'[f].job = j PROVE Untouched(f)'
  BY <1>1, <1>4, <1>5, <1>6 DEF Same, Owes, Untouched
<1>7. Lost(j)' => Lost(j)
  BY <1>3, <1>4 DEF Lost, Same
<1> QED BY <1>1, <1>2, <1>3, <1>6, <1>7, StillOwes

\* Nobody but the run that works on a step has it, and no two runs work.
LEMMA OneWorks ==
  ASSUME IInv, NEW e \in Execs, Running(e), NEW f \in Execs, Rebuilds(f)
  PROVE  f = e
<1>1. Running(f) /\ OneRunAtATime
  BY LineRuns DEF IInv, Rebuilds, Running
<1> QED BY <1>1 DEF OneRunAtATime

\* The job that owes is left alone by whoever is not a run and edits nothing.
LEMMA OthersDebt ==
  ASSUME IInv, Counted, Counted', Stale => \E j \in Jobs : Owes(j), Stale' => Stale, Stale',
         spent'.faults >= spent.faults, exec' = exec,
         \/ job' = job
         \/ \E steps, resume : Enqueue(steps, resume)
         \/ \E i \in Jobs : job[i].state = "failed" /\ job' = [job EXCEPT ![i] = NoJob]
  PROVE  \E j \in Jobs : Owes(j)'
<1>1. PICK j \in Jobs : Owes(j)
  OBVIOUS
<1>2. job \in [Jobs -> JobRows] /\ spent.faults \in Nat /\ spent'.faults \in Nat
  BY Types DEF IInv, Rest, Counted, SpentOK
<1>3. job[j].state \in LiveStates
  BY <1>1 DEF Owes
<1>4. job'[j] = job[j]
  <2>1. CASE \E steps, resume : Enqueue(steps, resume)
    BY <1>2, <1>3, <2>1, EnqueueEffect DEF LiveStates
  <2>2. CASE \E i \in Jobs : job[i].state = "failed" /\ job' = [job EXCEPT ![i] = NoJob]
    BY <1>2, <1>3, <2>2 DEF LiveStates
  <2> QED BY <2>1, <2>2
<1>5. \A e \in Execs : exec'[e].job = j => Untouched(e)'
  BY <1>1 DEF Owes, Untouched
<1>6. Lost(j)' => Lost(j)
  BY <1>4 DEF Lost
<1> QED BY <1>1, <1>2, <1>4, <1>5, <1>6, StillOwes

LEMMA EditDebt ==
  ASSUME IInv, CreatedIsNew, Counted, Counted', spent'.faults >= spent.faults, Edit
  PROVE  \E j \in Jobs : Owes(j)'
<1>1. Enqueue({}, FALSE) /\ exec' = exec
  BY DEF Edit
<1>2. job \in [Jobs -> JobRows] /\ spent'.faults \in Nat
  BY Types DEF IInv, Rest, Counted, SpentOK
<1> DEFINE steps == {}
           resume == FALSE
<1>0. Enqueue(steps, resume)
  BY <1>1
<1> HIDE DEF steps, resume
<1>3. PICK j \in Jobs : /\ job'[j].state = "created" /\ job'[j].steps = {} /\ ~job'[j].resume
                        /\ job'[j].retries = 0 /\ \A e \in Execs : exec[e].job # j
  <2>1. CASE job' = job /\ \E j \in Jobs : /\ job[j].state = "created" /\ job[j].steps = steps
                                          /\ job[j].resume = resume
    BY <2>1 DEF CreatedIsNew, steps, resume
  <2>2. CASE \E j \in Jobs :
                /\ job[j].state = "none" /\ \A e \in Execs : exec[e].job # j
                /\ job'[j].state = "created" /\ job'[j].steps = steps /\ job'[j].resume = resume
                /\ job'[j].retries = 0
    BY <2>2 DEF steps, resume
  <2> QED BY <1>0, <1>2, <2>1, <2>2, EnqueueEffect
<1>4. "canonical" \in PayloadSteps(job'[j].steps)
  BY <1>3 DEF PayloadSteps, Steps
<1>5. ~Lost(j)' /\ job'[j].state \in LiveStates
  BY <1>3 DEF Lost, LiveStates
<1>6. job'[j].retries + (IF Lost(j)' THEN 1 ELSE 0) <= spent'.faults
  BY <1>2, <1>3, <1>5
<1> QED BY <1>1, <1>3, <1>4, <1>5, <1>6 DEF Owes

LEMMA DeliverDebt ==
  ASSUME IInv, CreatedIsNew, Counted, Counted', Stale => \E j \in Jobs : Owes(j), Stale,
         NEW i \in Jobs, Deliver(i)
  PROVE  \E j \in Jobs : Owes(j)'
<1>1. PICK j \in Jobs : Owes(j)
  OBVIOUS
<1>2. /\ job \in [Jobs -> JobRows] /\ spent.faults \in Nat /\ spent' = spent
      /\ job[j].retries \in Nat
  BY Types DEF IInv, Rest, Counted, SpentOK, Deliver, JobRows
<1>3. PICK e \in Execs :
        /\ ~Live(e) /\ \A f \in Execs \ {e} : exec'[f] = exec[f]
        /\ exec'[e].phase = "chained" /\ exec'[e].job = i
        /\ exec'[e].todo = PayloadSteps(job[i].steps)
        /\ exec'[e].resume <=> job[i].resume \/ (job[i].retries > 0 /\ job[i].checkpoint)
  BY DeliverEffect
<1>4. CASE i # j
  <2>1. job'[j] = job[j]
    BY <1>4, DeliverEffect
  <2>2. \A f \in Execs : exec'[f].job = j => Untouched(f)'
    BY <1>1, <1>3, <1>4 DEF Owes, Untouched
  <2>3. Lost(j)' => Lost(j)
    BY <1>3, <1>4, <2>1, NoneAssumption DEF Lost, CreatedIsNew
  <2> QED BY <1>1, <1>2, <2>1, <2>2, <2>3, StillOwes
<1>5. CASE i = j
  <2>1. /\ job[j].state \in {"created", "retry"} /\ job'[j].state = "active"
        /\ job'[j].steps = job[j].steps
        /\ job'[j].resume = job[j].resume /\ job'[j].retries = job[j].retries
    BY <1>5, DeliverEffect
  <2>2. ~exec'[e].resume
    BY <1>1, <1>3, <1>5, <2>1 DEF Owes, CreatedIsNew
  <2>3. Untouched(e)'
    BY <1>1, <1>3, <1>5, <2>2 DEF Untouched, Owes
  <2>4. \A f \in Execs : exec'[f].job = j => Untouched(f)'
    BY <1>1, <1>3, <2>3 DEF Owes, Untouched
  <2>5. ~Lost(j) /\ ~Lost(j)'
    BY <1>3, <1>5, <2>1 DEF Lost
  <2>6. job'[j].retries + (IF Lost(j)' THEN 1 ELSE 0) <= spent'.faults
    BY <1>1, <1>2, <2>1, <2>5 DEF Owes
  <2> QED BY <1>1, <2>1, <2>4, <2>6 DEF Owes, LiveStates
<1> QED BY <1>4, <1>5

LEMMA ExpireDebt ==
  ASSUME IInv, Counted, Counted', Stale => \E j \in Jobs : Owes(j), Stale,
         spent'.faults <= RETRY_LIMIT, NEW i \in Jobs, Expire(i)
  PROVE  \E j \in Jobs : Owes(j)'
<1>1. PICK j \in Jobs : Owes(j)
  OBVIOUS
<1>2. /\ job \in [Jobs -> JobRows] /\ spent.faults \in Nat /\ exec' = exec
      /\ job[j].retries \in Nat /\ spent'.faults \in Nat
      /\ job[i].state = "active" /\ job' = [job EXCEPT ![i] = FailedJob(i, FALSE)]
  BY Types DEF IInv, Rest, Counted, SpentOK, Expire, JobRows
<1>3. \/ spent' = spent /\ \A e \in Execs : exec[e].job # i
      \/ spent'.faults = spent.faults + 1
  <2>1. CASE Spend("faults", MaxFaults)
    <3>1. spent'["faults"] = spent["faults"] + 1
      BY <2>1, SpendEffect DEF Kinds, Counted
    <3> QED BY <3>1
  <2> QED BY <2>1 DEF Expire
<1>4. CASE i # j
  <2>1. job'[j] = job[j]
    BY <1>2, <1>4
  <2>2. \A f \in Execs : exec'[f].job = j => Untouched(f)'
    BY <1>1, <1>2 DEF Owes, Untouched
  <2>3. Lost(j)' => Lost(j)
    BY <1>2, <2>1 DEF Lost
  <2>4. spent'.faults >= spent.faults
    BY <1>2, <1>3
  <2> QED BY <1>1, <1>2, <2>1, <2>2, <2>3, <2>4, StillOwes
<1>5. CASE i = j
  <2>1. job[j].retries < spent'.faults \/ job[j].retries + 1 <= spent'.faults
    BY <1>1, <1>2, <1>3, <1>5 DEF Owes, Lost
  <2>2. job[j].retries < RETRY_LIMIT /\ job[j].retries + 1 <= spent'.faults
    BY <1>2, <2>1, BoundsAssumption
  <2>3. /\ job'[j].steps = job[j].steps /\ job'[j].resume = job[j].resume
        /\ ~job'[j].checkpoint /\ job'[j].state = "retry" /\ job'[j].retries = job[j].retries + 1
    <3>1. job'[j] = FailedJob(j, FALSE)
      BY <1>2, <1>5
    <3> QED BY <1>2, <2>2, <3>1, FailedJobEffect
  <2>4. \A f \in Execs : exec'[f].job = j => Untouched(f)'
    BY <1>1, <1>2 DEF Owes, Untouched
  <2>5. ~Lost(j)'
    BY <2>3 DEF Lost
  <2>6. job'[j].retries + (IF Lost(j)' THEN 1 ELSE 0) = job[j].retries + 1
    <3>0. job[j].retries \in Nat
      BY <1>2
    <3>1. job[j].retries + 1 \in Nat /\ job'[j].retries = job[j].retries + 1
      BY ONLY <3>0, <2>3
    <3> QED BY ONLY <3>1, <2>5
  <2>7. job'[j].retries + (IF Lost(j)' THEN 1 ELSE 0) <= spent'.faults
    BY <2>2, <2>6
  <2> QED BY <1>1, <2>3, <2>4, <2>7 DEF Owes, LiveStates
<1> QED BY <1>4, <1>5

LEMMA CrashDebt ==
  ASSUME IInv, Counted, Counted', Stale => \E j \in Jobs : Owes(j), Stale, Crash
  PROVE  \E j \in Jobs : Owes(j)'
<1>1. PICK j \in Jobs : Owes(j)
  OBVIOUS
<1>2. /\ job \in [Jobs -> JobRows] /\ spent.faults \in Nat /\ job' = job
      /\ job[j].retries \in Nat /\ \A e \in Execs : exec'[e].job = None
  BY Types DEF IInv, Rest, Counted, SpentOK, Crash, JobRows, NoExec
<1>3. spent'["faults"] = spent["faults"] + 1
  BY SpendEffect DEF Kinds, Counted, Crash
<1>4. job'[j].retries + (IF Lost(j)' THEN 1 ELSE 0) <= spent'.faults
  BY <1>1, <1>2, <1>3 DEF Owes
<1>5. \A e \in Execs : exec'[e].job # j
  BY <1>2, NoneAssumption
<1> QED BY <1>1, <1>2, <1>4, <1>5 DEF Owes

LEMMA AbortDebt ==
  ASSUME IInv, Counted, Counted', Stale => \E j \in Jobs : Owes(j), Stale' => Stale, Stale',
         spent'.faults <= RETRY_LIMIT, NEW e \in Execs, Abort(e)
  PROVE  \E j \in Jobs : Owes(j)'
<1>1. CASE ~Untouched(e)
  <2>1. spent'["faults"] = spent["faults"] + 1
    BY SpendEffect DEF Kinds, Counted, Abort
  <2>2. spent'.faults >= spent.faults
    BY <2>1 DEF Counted, SpentOK
  <2>3. \E c \in BOOLEAN : Throw(e, c)
    BY DEF Abort
  <2> QED BY <1>1, <2>2, <2>3, OverDebt
<1>2. CASE Untouched(e)
  <2>1. PICK j \in Jobs : Owes(j)
    OBVIOUS
  <2>2. /\ job \in [Jobs -> JobRows] /\ exec \in [Execs -> Calls] /\ spent.faults \in Nat
        /\ spent'.faults \in Nat /\ job[j].retries \in Nat
        /\ Throw(e, FALSE) /\ Leave(e)
    BY Types DEF IInv, Rest, Counted, SpentOK, Abort, Throw, JobRows
  <2>3. spent'["faults"] = spent["faults"] + 1
    BY SpendEffect DEF Kinds, Counted, Abort
  <2>9. exec'[e] = NoExec /\ \A f \in Execs \ {e} : Same(f)
    BY <2>2, LeaveEffect
  <2>4. exec'[e].job # j /\ \A f \in Execs \ {e} : Same(f)
    BY <2>9, NoneAssumption DEF NoExec
  <2>5. \A f \in Execs : exec'[f].job = j => Untouched(f)'
    BY <2>1, <2>4 DEF Owes, Untouched, Same
  <2>6. CASE job'[j] = job[j] /\ (exec[e].job # j \/ job[j].state # "active")
    <3>1. Lost(j)' => Lost(j)
      BY <2>4, <2>6 DEF Lost, Same
    <3> QED BY <2>1, <2>2, <2>3, <2>5, <2>6, <3>1, StillOwes
  <2>7. CASE exec[e].job = j /\ job[j].state = "active"
    <3>1. job[j].retries < RETRY_LIMIT /\ job[j].retries + 1 <= spent'.faults
      BY <2>1, <2>2, <2>3, BoundsAssumption DEF Owes
    <3>2. job'[j] = FailedJob(j, FALSE)
      BY <2>2, <2>7 DEF Throw
    <3>3. /\ job'[j].steps = job[j].steps /\ job'[j].resume = job[j].resume
          /\ ~job'[j].checkpoint /\ job'[j].state = "retry" /\ job'[j].retries = job[j].retries + 1
      BY <2>2, <3>1, <3>2, FailedJobEffect
    <3>4. ~Lost(j)'
      BY <3>3 DEF Lost
    <3>5. job'[j].retries + (IF Lost(j)' THEN 1 ELSE 0) <= spent'.faults
      BY <2>2, <3>1, <3>3, <3>4
    <3> QED BY <2>1, <2>5, <3>3, <3>5 DEF Owes, LiveStates
  <2>8. exec[e].job # j \/ job[j].state # "active" => job'[j] = job[j]
    BY <2>2 DEF Throw
  <2> QED BY <2>6, <2>7, <2>8
<1> QED BY <1>1, <1>2

LEMMA DebtKept ==
  ASSUME IInv, Counted, CreatedIsNew, DebtIsOwed, [Next]_vars
  PROVE  DebtIsOwed'
<1> SUFFICES ASSUME "canonical" \notin Pausable, spent'.faults <= RETRY_LIMIT, Stale'
             PROVE  \E j \in Jobs : Owes(j)'
  BY DEF DebtIsOwed
<1>1. Counted' /\ spent'.faults >= spent.faults /\ spent.faults \in Nat /\ spent'.faults \in Nat
  BY CountsGoUp DEF Kinds
<1>2. Stale => \E j \in Jobs : Owes(j)
  BY <1>1, BoundsAssumption DEF DebtIsOwed
<1>3. /\ exec \in [Execs -> Calls] /\ paused \in SUBSET Pausable
      /\ "canonical" \in Steps /\ composition \in Nat
  BY Types DEF IInv, Rest, Steps
<1>4. ASSUME NEW e \in Execs, NEW s \in Steps, Settles(e, s)
      PROVE  \E j \in Jobs : Owes(j)'
  <2>1. /\ exec[e].phase = "work" /\ s = NextStep(exec[e].todo) /\ s \in exec[e].todo
        /\ exec'[e].phase \in {"begin", "reread", "end"}
        /\ row'.deleted = row.deleted
        /\ \A t \in Steps \ {s} : row'.steps[t] = row.steps[t]
        /\ s # "canonical" => built' = built
        /\ s = "canonical" /\ row'.steps[s] = "DONE" => built' = exec[e].input
        /\ Going(e) /\ composition' = composition /\ job' = job /\ spent' = spent
    BY <1>4, SettleEffect
  <2>2. \A f \in Execs : Rebuilds(f)' => Rebuilds(f) /\ exec'[f].input = exec[f].input
    BY <2>1 DEF Rebuilds, Going, Same
  <2>3. Stale' => Stale
    <3>1. CASE s # "canonical"
      BY <1>3, <2>1, <2>2, <3>1, StaleBefore
    <3>2. CASE s = "canonical"
      <4>1. Rebuilds(e)
        BY <2>1, <3>2 DEF Rebuilds
      <4> QED BY <2>1, <2>2, <3>2, <4>1 DEF Stale
    <3> QED BY <3>1, <3>2
  <2>4. ~Untouched(e)
    BY <2>1 DEF Untouched
  <2> QED BY <1>1, <1>2, <2>1, <2>3, <2>4, GoingDebt
<1>5. ASSUME NEW e \in Execs, NEW s \in Steps, StepInterrupted(e, s)
      PROVE  \E j \in Jobs : Owes(j)'
  <2>1. /\ exec[e].phase = "work" /\ row'.deleted = row.deleted
        /\ \A t \in Steps : row'.steps[t] \in {row.steps[t], "QUEUED"}
        /\ UNCHANGED contentVars /\ Throw(e, TRUE) /\ Leave(e)
    BY <1>5, InterruptedEffect DEF Throw
  <2>2. \A f \in Execs : Rebuilds(f)' => Rebuilds(f) /\ exec'[f].input = exec[f].input
    BY <1>3, <2>1, LeaveEffect DEF Rebuilds, Same, NoExec
  <2>3. composition' = composition /\ built' = built
    BY <2>1 DEF contentVars
  <2>4. Stale' => Stale
    BY <1>3, <2>1, <2>2, <2>3, StaleBefore
  <2>5. ~Untouched(e) /\ \E c \in BOOLEAN : Throw(e, c)
    BY <2>1 DEF Untouched
  <2> QED BY <1>1, <1>2, <2>4, <2>5, OverDebt
<1>6. ASSUME NEW e \in Execs, Read(e) PROVE \E j \in Jobs : Owes(j)'
  <2>1. row' = row /\ built' = built /\ composition' = composition /\ spent' = spent
    BY <1>6 DEF Read, contentVars
  <2>2. ~row.deleted
    BY <2>1 DEF Stale
  <2>3. /\ exec[e].phase = "chained" /\ exec'[e].phase = "slate"
        /\ exec'[e].todo = IF exec[e].resume
                           THEN {s \in exec[e].todo : row.steps[s] \notin {"DONE", "SKIPPED"}}
                           ELSE exec[e].todo
        /\ Going(e) /\ job' = job
    BY <1>6, <2>2, ReadEffect
  <2>4. \A f \in Execs : Rebuilds(f)' => Rebuilds(f) /\ exec'[f].input = exec[f].input
    BY <2>3 DEF Rebuilds, Going, Same
  <2>5. Stale' => Stale
    BY <2>1, <2>4, StaleBefore
  <2>6. Untouched(e) => Untouched(e)'
    BY <2>3 DEF Untouched
  <2> QED BY <1>1, <1>2, <2>1, <2>3, <2>5, <2>6, GoingDebt
<1>7. ASSUME NEW e \in Execs, Slate(e) PROVE \E j \in Jobs : Owes(j)'
  <2> DEFINE st == exec[e].row.steps
             ty == Typed(exec[e].row)
  <2>1. /\ exec[e].phase = "slate" /\ exec'[e].phase \in {"begin", "reread", "end"}
        /\ exec'[e].todo = exec[e].todo \ HeldSteps(paused, st, ty)
        /\ "canonical" \in exec'[e].todo => exec'[e].phase = "begin"
        /\ row'.deleted = row.deleted
        /\ row'.steps["canonical"] \in {"QUEUED", row.steps["canonical"]}
        /\ Going(e) /\ job' = job
    BY <1>3, <1>7, SlateEffect
  <2>2. built' = built /\ composition' = composition /\ spent' = spent
    BY <1>7 DEF Slate, contentVars
  <2>3. \A f \in Execs : Rebuilds(f)' => Rebuilds(f) /\ exec'[f].input = exec[f].input
    BY <2>1 DEF Rebuilds, Going, Same
  <2>4. Stale' => Stale
    BY <2>1, <2>2, <2>3, StaleBefore
  <2> HIDE DEF st, ty
  <2>5. "canonical" \notin HeldSteps(paused, st, ty)
    BY <1>3, CanonicalFree
  <2>6. Untouched(e) => Untouched(e)'
    BY <2>1, <2>5 DEF Untouched
  <2> QED BY <1>1, <1>2, <2>1, <2>2, <2>4, <2>6, GoingDebt
<1>8. ASSUME NEW e \in Execs, Begin(e) PROVE \E j \in Jobs : Owes(j)'
  <2> DEFINE s == NextStep(exec[e].todo)
  <2>1. /\ exec[e].phase = "begin" /\ exec'[e].phase = "work" /\ exec'[e].todo = exec[e].todo
        /\ s = "canonical" => exec'[e].input = composition
        /\ row'.deleted = row.deleted
        /\ \A t \in Steps : row'.steps[t] = IF t = s THEN "RUNNING" ELSE row.steps[t]
        /\ Going(e) /\ job' = job
        /\ "canonical" \in exec[e].todo <=> s = "canonical"
    BY <1>8, BeginEffect, CanonicalFirst
  <2>2. built' = built /\ composition' = composition /\ spent' = spent
    BY <1>8 DEF Begin, contentVars
  <2> HIDE DEF s
  <2>3. \A f \in Execs \ {e} : ~Rebuilds(f)'
    <3>1. Running(e)
      BY <2>1 DEF Running
    <3>2. \A f \in Execs \ {e} : ~Rebuilds(f)
      BY <3>1, OneWorks
    <3> QED BY <2>1, <3>2 DEF Rebuilds, Going, Same
  <2>4. s # "canonical"
    <3> SUFFICES ASSUME s = "canonical" PROVE FALSE
      OBVIOUS
    <3>1. row'.steps["canonical"] = "RUNNING" /\ exec'[e].input = composition'
      BY <1>3, <2>1, <2>2
    <3> QED BY <2>3, <3>1 DEF Stale
  <2>5. ~Rebuilds(e)' /\ ~Untouched(e)
    BY <2>1, <2>4 DEF Rebuilds, Untouched
  <2>6. Stale' => Stale
    BY <1>3, <2>1, <2>2, <2>3, <2>4, <2>5, StaleBefore
  <2> QED BY <1>1, <1>2, <2>1, <2>2, <2>5, <2>6, GoingDebt
<1>9. ASSUME NEW e \in Execs, Reread(e) PROVE \E j \in Jobs : Owes(j)'
  <2>1. /\ exec[e].phase = "reread" /\ exec'[e].phase = "begin"
        /\ Going(e) /\ job' = job /\ row' = row
    BY <1>9, RereadEffect
  <2>2. built' = built /\ composition' = composition /\ spent' = spent
    BY <1>9 DEF Reread, contentVars
  <2>3. \A f \in Execs : Rebuilds(f)' => Rebuilds(f) /\ exec'[f].input = exec[f].input
    BY <2>1 DEF Rebuilds, Going, Same
  <2>4. Stale' => Stale
    BY <2>1, <2>2, <2>3, StaleBefore
  <2>5. ~Untouched(e)
    BY <2>1 DEF Untouched
  <2> QED BY <1>1, <1>2, <2>1, <2>2, <2>4, <2>5, GoingDebt
<1>10. ASSUME NEW e \in Execs, End(e) \/ Abort(e) PROVE \E j \in Jobs : Owes(j)'
  <2>1. row' = row /\ built' = built /\ composition' = composition /\ Leave(e)
    BY <1>10 DEF End, Abort, Complete, Throw, contentVars
  <2>2. \A f \in Execs : Rebuilds(f)' => Rebuilds(f) /\ exec'[f].input = exec[f].input
    BY <1>3, <2>1, LeaveEffect DEF Rebuilds, Same, NoExec
  <2>3. Stale' => Stale
    BY <2>1, <2>2, StaleBefore
  <2>4. CASE End(e)
    <3>1. ~Untouched(e) /\ Complete(e)
      BY <2>4 DEF End, Untouched
    <3> QED BY <1>1, <1>2, <2>3, <3>1, OverDebt
  <2>5. CASE Abort(e)
    BY <1>1, <1>2, <2>3, <2>5, AbortDebt
  <2> QED BY <1>10, <2>4, <2>5
<1>11. CASE Edit
  BY <1>1, <1>11, EditDebt
<1>12. CASE ByOthers /\ ~Edit
  <2>1. /\ \A s \in Steps : row'.steps[s] \in {row.steps[s], "QUEUED"}
        /\ row.deleted => row'.deleted
        /\ built' = built
    BY <1>12, OthersEffect
  <2>2. ASSUME composition' = composition,
               \A f \in Execs : Rebuilds(f)' => Rebuilds(f) /\ exec'[f].input = exec[f].input
        PROVE  Stale
    BY <1>3, <2>1, <2>2, StaleBefore
  <2>3. ASSUME composition' = composition, exec' = exec PROVE Stale
    BY <2>2, <2>3 DEF Rebuilds
  <2>4. ASSUME NEW i \in Jobs, Deliver(i) PROVE \E j \in Jobs : Owes(j)'
    <3>1. PICK e \in Execs : /\ \A f \in Execs \ {e} : exec'[f] = exec[f]
                             /\ exec'[e].phase = "chained"
      BY <2>4, DeliverEffect
    <3>2. Stale
      BY <2>2, <2>4, <3>1 DEF Deliver, contentVars, Rebuilds
    <3> QED BY <1>1, <1>2, <2>4, <3>2, DeliverDebt
  <2>5. ASSUME NEW i \in Jobs, Expire(i) PROVE \E j \in Jobs : Owes(j)'
    <3>1. Stale
      BY <2>3, <2>5 DEF Expire, contentVars
    <3> QED BY <1>1, <1>2, <2>5, <3>1, ExpireDebt
  <2>6. CASE Crash
    <3>1. Stale
      BY <2>2, <2>6 DEF Crash, contentVars, Rebuilds, NoExec
    <3> QED BY <1>1, <1>2, <2>6, <3>1, CrashDebt
  <2>7. ASSUME composition' = composition, exec' = exec,
               \/ job' = job
               \/ \E steps, resume : Enqueue(steps, resume)
               \/ \E i \in Jobs : job[i].state = "failed" /\ job' = [job EXCEPT ![i] = NoJob]
        PROVE  \E j \in Jobs : Owes(j)'
    BY <1>1, <1>2, <2>3, <2>7, OthersDebt
  <2>8. ASSUME NEW i \in Jobs, Archive(i) \/ RetryFailed(i) PROVE \E j \in Jobs : Owes(j)'
    BY <2>7, <2>8 DEF Archive, RetryFailed, contentVars
  <2>9. ASSUME NEW r \in Requests,
               Ask(r) \/ Allow(r) \/ Submit(r) \/ SetType(r) \/ Resume(r) \/ ResumedCall(r)
        PROVE  \E j \in Jobs : Owes(j)'
    BY <2>7, <2>9 DEF Ask, Allow, Submit, SetType, Resume, ResumedCall, contentVars
  <2>10. CASE SelectPreview \/ Delete \/ SetPauses \/ Sweep \/ UNCHANGED vars
    BY <2>7, <2>10 DEF SelectPreview, Delete, SetPauses, Sweep, vars, contentVars
  <2> QED BY <1>12, <2>4, <2>5, <2>6, <2>8, <2>9, <2>10 DEF ByOthers
<1> QED BY <1>4, <1>5, <1>6, <1>7, <1>8, <1>9, <1>10, <1>11, <1>12, StepsOfTheNext

\* A job that owes, or the call made of it, is a rebuild ahead.
LEMMA OwedIsAhead ==
  ASSUME NEW j \in Jobs, Owes(j)
  PROVE  RebuildAhead
<1>1. CASE \E e \in Execs : exec[e].job = j
  <2>1. PICK e \in Execs : exec[e].job = j
    BY <1>1
  <2>2. Untouched(e)
    BY <2>1 DEF Owes
  <2> QED BY <2>2 DEF Untouched, RebuildAhead
<1>2. CASE \A e \in Execs : exec[e].job # j
  BY <1>2 DEF Owes, RebuildAhead, LiveJobs
<1> QED BY <1>1, <1>2

-----------------------------------------------------------------------------
(* A document nobody has touched.                                           *)

(* While nobody asks, edits or crashes: each call has its own active job,   *)
(* and each active job its call; a job that is retried goes on from where   *)
(* it stopped; a run from the start is the only one there is, of a document *)
(* none of whose steps is done; and no run has a step to do that is done.   *)
EachItsJob ==
    /\ \A e \in Execs : Live(e) => job[exec[e].job].state = "active"
    /\ \A e, f \in Execs : Live(e) /\ Live(f) /\ exec[e].job = exec[f].job => e = f
    /\ \A j \in Jobs : job[j].state = "active" => \E e \in Execs : Live(e) /\ exec[e].job = j
    /\ \A j \in Jobs : job[j].state = "retry" => job[j].checkpoint /\ job[j].retries > 0

NothingDone == \A s \in Steps : row.steps[s] # "DONE"

NoJobBut(j) == \A i \in Jobs \ {j} : job[i].state = "none"

FirstAlone ==
    /\ \A j \in Jobs : job[j].state = "created" /\ ~job[j].resume => NothingDone /\ NoJobBut(j)
    /\ \A e \in Execs : exec[e].phase = "chained" /\ ~exec[e].resume =>
           NothingDone /\ NoJobBut(exec[e].job)

NoneToRedo ==
    \A e \in Execs : exec[e].phase \in {"slate", "begin", "work", "reread"} =>
        \A s \in exec[e].todo : row.steps[s] # "DONE"

OnItsOwn ==
    Undisturbed =>
        /\ released = NoRelease /\ \A r \in Requests : request[r].phase = "idle"
        /\ EachItsJob /\ FirstAlone /\ NoneToRedo

\* A step that leaves the document undisturbed.
LEMMA QuietStep ==
  ASSUME IInv, Counted, OnItsOwn, [Next]_vars, Undisturbed'
  PROVE  /\ Undisturbed /\ released' = NoRelease /\ \A r \in Requests : request'[r].phase = "idle"
         /\ EachItsJob /\ FirstAlone /\ NoneToRedo
         /\ \/ \E j \in Jobs : Deliver(j) \/ Archive(j) \/ RetryFailed(j)
            \/ \E e \in Execs :
                  \/ Read(e) \/ Slate(e) \/ Begin(e) \/ Reread(e) \/ End(e)
                  \/ \E s \in Steps : Settles(e, s) \/ StepInterrupted(e, s)
            \/ Delete \/ Sweep \/ UNCHANGED vars
<1>1. /\ \A k \in Kinds : spent[k] \in Nat /\ spent'[k] \in Nat /\ spent'[k] >= spent[k]
      /\ DOMAIN spent = Kinds /\ DOMAIN spent' = Kinds
  BY CountsGoUp DEF Counted, SpentOK, Kinds
<1>2. \A k \in Kinds \ {"outages"} : spent'[k] = 0 /\ spent[k] = 0
  BY <1>1 DEF Undisturbed, Kinds
<1>3. Undisturbed
  BY <1>1, <1>2 DEF Undisturbed
<1>4. /\ released = NoRelease /\ \A r \in Requests : request[r].phase = "idle"
      /\ EachItsJob /\ FirstAlone /\ NoneToRedo
  BY <1>3 DEF OnItsOwn
<1>5. ASSUME NEW k \in Kinds \ {"outages"}, NEW b, Spend(k, b) PROVE FALSE
  BY <1>1, <1>2, <1>5, SpendEffect DEF Counted
<1>6. ~Edit /\ ~SelectPreview /\ ~Crash /\ ~SetPauses
  BY <1>5, Zenon DEF Edit, SelectPreview, Crash, SetPauses, Kinds
<1>7. \A r \in Requests : ~Ask(r) /\ ~SetType(r)
  BY <1>5, Zenon DEF Ask, SetType, Kinds
<1>8. \A r \in Requests : ~Allow(r) /\ ~Submit(r) /\ ~Resume(r) /\ ~ResumedCall(r)
  BY <1>4 DEF Allow, Submit, Resume, ResumedCall
<1>9. \A e \in Execs : ~Abort(e)
  BY <1>5, Zenon DEF Abort, Kinds
<1>10. \A j \in Jobs : ~Expire(j)
  <2> SUFFICES ASSUME NEW j \in Jobs, Expire(j) PROVE FALSE
    OBVIOUS
  <2>1. \A e \in Execs : exec[e].job # j
    BY <1>5, Zenon DEF Expire, Kinds
  <2>2. job[j].state = "active"
    BY DEF Expire
  <2> QED BY <1>4, <2>1, <2>2, Zenon DEF EachItsJob
<1>11. \/ \E j \in Jobs : Deliver(j) \/ Archive(j) \/ RetryFailed(j)
       \/ \E e \in Execs :
              \/ Read(e) \/ Slate(e) \/ Begin(e) \/ Reread(e) \/ End(e)
              \/ \E s \in Steps : Settles(e, s) \/ StepInterrupted(e, s)
       \/ Delete \/ Sweep \/ UNCHANGED vars
  <2>1. CASE ByOthers
    BY <1>6, <1>7, <1>8, <1>10, <2>1, Zenon DEF ByOthers
  <2>2. CASE ~ByOthers
    BY <1>9, <2>2, StepsOfTheNext, Zenon
  <2> QED BY <2>1, <2>2
<1>12. released' = released /\ request' = request
  <2>1. ASSUME NEW e \in Execs, NEW s \in Steps, Settles(e, s) \/ StepInterrupted(e, s)
        PROVE  released' = released /\ request' = request
    BY <2>1, SettleEffect, InterruptedEffect DEF settingsVars
  <2>2. ASSUME NEW e \in Execs, Read(e) \/ Slate(e) \/ Begin(e) \/ Reread(e) \/ End(e)
        PROVE  released' = released /\ request' = request
    BY <2>2 DEF Read, Slate, Begin, Reread, End, settingsVars
  <2>3. ASSUME NEW j \in Jobs, Deliver(j) \/ Archive(j) \/ RetryFailed(j)
        PROVE  released' = released /\ request' = request
    BY <2>3 DEF Deliver, Archive, RetryFailed, settingsVars
  <2>4. CASE Delete \/ Sweep \/ UNCHANGED vars
    BY <2>4 DEF Delete, Sweep, vars, settingsVars
  <2> QED BY <1>11, <2>1, <2>2, <2>3, <2>4
<1> QED BY <1>3, <1>4, <1>11, <1>12

\* While a call is past its first wait, no job and no call is a first one.
LEMMA NoFirst ==
  ASSUME EachItsJob, FirstAlone, NEW e \in Execs, Live(e), exec[e].phase # "chained",
         exec[e].job \in Jobs
  PROVE  /\ \A j \in Jobs : ~(job[j].state = "created" /\ ~job[j].resume)
         /\ \A f \in Execs : ~(exec[f].phase = "chained" /\ ~exec[f].resume)
<1>1. job[exec[e].job].state = "active"
  BY DEF EachItsJob
<1>2. ASSUME NEW j \in Jobs, job[j].state = "created", ~job[j].resume PROVE FALSE
  BY <1>1, <1>2 DEF FirstAlone, NoJobBut
<1>3. ASSUME NEW f \in Execs, exec[f].phase = "chained", ~exec[f].resume PROVE FALSE
  <2>1. exec[f].job = exec[e].job
    BY <1>1, <1>3 DEF FirstAlone, NoJobBut
  <2> QED BY <1>3, <2>1 DEF EachItsJob, Live
<1> QED BY <1>2, <1>3

\* A call that goes on, with no step to do that is done.
LEMMA GoingOwn ==
  ASSUME IInv, EachItsJob, FirstAlone, NoneToRedo, job' = job,
         NEW e \in Execs, Going(e), Live(e), exec'[e].phase \notin {"idle", "chained"},
         exec[e].phase = "chained" => row' = row,
         \A t \in exec'[e].todo : row'.steps[t] # "DONE"
  PROVE  EachItsJob' /\ FirstAlone' /\ NoneToRedo'
<1>1. \A f \in Execs : exec'[f].job = exec[f].job /\ (Live(f)' <=> Live(f))
  BY DEF Going, Same, Live
<1>2. EachItsJob'
  BY <1>1 DEF EachItsJob
<1>3. \A f \in Execs : exec'[f].phase = "chained" =>
          exec[f].phase = "chained" /\ (exec'[f].resume <=> exec[f].resume)
  BY DEF Going, Same
<1>4. FirstAlone'
  <2>1. CASE exec[e].phase = "chained"
    <3>1. NothingDone => NothingDone'
      BY <2>1 DEF NothingDone
    <3> QED BY <1>1, <1>3, <3>1 DEF FirstAlone, NoJobBut
  <2>2. CASE exec[e].phase # "chained"
    <3>1. exec[e].job \in Jobs
      BY DEF IInv, RunsFirst
    <3> QED BY <1>3, <2>2, <3>1, NoFirst DEF FirstAlone
  <2> QED BY <2>1, <2>2
<1>5. ASSUME NEW f \in Execs \ {e}, exec'[f].phase \in {"slate", "begin", "work", "reread"},
             NEW t \in exec'[f].todo
      PROVE  row'.steps[t] # "DONE"
  <2>1. Running(f) /\ row.steps[t] # "DONE"
    BY <1>5 DEF Going, Same, NoneToRedo, Running
  <2>2. ~Running(e)
    BY <2>1, LineRuns DEF IInv, OneRunAtATime
  <2> QED BY <2>1, <2>2 DEF Running, Live
<1> QED BY <1>2, <1>4, <1>5 DEF NoneToRedo

\* A call that is over, and with it its job, for now or for good.
LEMMA OverOwn ==
  ASSUME IInv, EachItsJob, FirstAlone, NoneToRedo, NEW e \in Execs, Live(e),
         \/ Complete(e) /\ row'.steps = row.steps
         \/ Throw(e, TRUE) /\ exec[e].phase # "chained"
            /\ \A t \in Steps : row'.steps[t] \in {row.steps[t], "QUEUED"}
  PROVE  EachItsJob' /\ FirstAlone' /\ NoneToRedo'
<1>1. job \in [Jobs -> JobRows] /\ exec \in [Execs -> Calls] /\ exec[e].job \in Jobs
  BY Types DEF IInv, Rest, RunsFirst
<1> DEFINE j == exec[e].job
<1>2. j \in Jobs /\ job[j].state = "active"
  BY <1>1 DEF EachItsJob
<1>3. /\ exec'[e].phase = "idle"
      /\ \A f \in Execs \ {e} : Same(f) /\ (Live(f)' <=> Live(f)) /\ exec'[f].job = exec[f].job
  <2>1. exec'[e] = NoExec /\ \A f \in Execs \ {e} : Same(f)
    BY <1>1, LeaveEffect DEF Complete, Throw
  <2> QED BY <2>1 DEF NoExec, Same, Live
<1>4. \A i \in Jobs \ {j} : job'[i] = job[i]
  BY JobsOfCalls
<1>5. \/ Complete(e) /\ row'.steps = row.steps /\ job'[j].state = "none"
      \/ /\ exec[e].phase # "chained"
         /\ job'[j].state = "failed" \/ (job'[j].state = "retry" /\ job'[j].checkpoint /\ job'[j].retries > 0)
  <2>1. CASE Complete(e) /\ row'.steps = row.steps
    <3>1. job' = [job EXCEPT ![j] = NoJob]
      BY <1>2, <2>1 DEF Complete
    <3>2. job'[j].state = "none"
      BY <1>1, <1>2, <3>1 DEF NoJob
    <3> QED BY <2>1, <3>2
  <2>2. CASE Throw(e, TRUE) /\ exec[e].phase # "chained"
    <3>1. job'[j] = FailedJob(j, TRUE)
      BY <1>1, <1>2, <2>2 DEF Throw
    <3>2. job[j].retries \in Nat
      BY <1>1, <1>2, BoundsAssumption DEF JobRows
    <3> HIDE DEF j
    <3>3. \/ job'[j].state = "failed"
          \/ job'[j].state = "retry" /\ job'[j].checkpoint /\ job'[j].retries = job[j].retries + 1
      BY <1>1, <1>2, <3>1, FailedJobEffect
    <3> QED BY <2>2, <3>2, <3>3
  <2> QED BY <2>1, <2>2
<1>6. EachItsJob'
  <2>1. \A f \in Execs \ {e} : Live(f) => exec[f].job # j
    BY DEF EachItsJob
  <2> HIDE DEF j
  <2>2. \A f \in Execs : Live(f)' => f # e /\ Live(f) /\ exec'[f].job = exec[f].job /\ exec[f].job # j
    BY <1>3, <2>1 DEF Live
  <2>3. \A f \in Execs : Live(f) => exec[f].job \in Jobs
    BY DEF IInv, RunsFirst
  <2>4. job'[j].state # "active"
    BY <1>5
  <2>5. ASSUME NEW i \in Jobs, job'[i].state = "active"
        PROVE  \E f \in Execs : Live(f)' /\ exec'[f].job = i
    <3>1. i # j /\ job[i].state = "active"
      BY <1>4, <2>4, <2>5
    <3>2. PICK f \in Execs : Live(f) /\ exec[f].job = i
      BY <3>1 DEF EachItsJob
    <3>3. f # e
      BY <3>1, <3>2 DEF j
    <3> QED BY <1>3, <3>2, <3>3
  <2>6. \A i \in Jobs : job'[i].state = "retry" => job'[i].checkpoint /\ job'[i].retries > 0
    BY <1>4, <1>5 DEF EachItsJob
  <2> QED BY <1>4, <2>2, <2>3, <2>5, <2>6 DEF EachItsJob
<1>7. \A f \in Execs : exec'[f].phase = "chained" =>
          f # e /\ exec[f].phase = "chained" /\ (exec'[f].resume <=> exec[f].resume)
  BY <1>3 DEF Same
<1>8. FirstAlone'
  <2>1. CASE exec[e].phase # "chained"
    <3>1. job'[j].state # "created"
      BY <1>5
    <3>2. \A i \in Jobs : ~(job'[i].state = "created" /\ ~job'[i].resume)
      BY <1>1, <1>4, <2>1, <3>1, NoFirst
    <3>3. \A f \in Execs : ~(exec'[f].phase = "chained" /\ ~exec'[f].resume)
      BY <1>1, <1>7, <2>1, NoFirst
    <3> QED BY <3>2, <3>3 DEF FirstAlone
  <2>2. CASE row'.steps = row.steps /\ job'[j].state = "none"
    <3>1. NothingDone => NothingDone'
      BY <2>2 DEF NothingDone
    <3>2. \A i \in Jobs : job'[i] = job[i] \/ job'[i].state = "none"
      BY <1>4, <2>2
    <3>3. \A i \in Jobs : NoJobBut(i) => NoJobBut(i)'
      BY <3>2 DEF NoJobBut
    <3>4. \A f \in Execs : Live(f) => exec[f].job \in Jobs
      BY DEF IInv, RunsFirst
    <3> QED BY <1>3, <1>7, <3>1, <3>2, <3>3, <3>4 DEF FirstAlone, Live
  <2> QED BY <1>5, <2>1, <2>2
<1>9. NoneToRedo'
  <2>1. \A f \in Execs : exec'[f].phase \in {"slate", "begin", "work", "reread"} =>
            exec[f].phase = exec'[f].phase /\ exec[f].todo = exec'[f].todo
    BY <1>3 DEF Same
  <2>2. \A f \in Execs : exec[f].todo \subseteq Steps
    BY <1>1 DEF Calls
  <2>3. \A t \in Steps : row.steps[t] # "DONE" => row'.steps[t] # "DONE"
    OBVIOUS
  <2> QED BY <2>1, <2>2, <2>3 DEF NoneToRedo
<1> QED BY <1>6, <1>8, <1>9

\* A job that is delivered has its call.
LEMMA DeliverOwn ==
  ASSUME IInv, CreatedIsNew, EachItsJob, FirstAlone, NoneToRedo, NEW j \in Jobs, Deliver(j)
  PROVE  EachItsJob' /\ FirstAlone' /\ NoneToRedo'
<1>1. PICK e \in Execs :
        /\ ~Live(e) /\ \A f \in Execs \ {e} : exec'[f] = exec[f]
        /\ exec'[e].phase = "chained" /\ exec'[e].job = j
        /\ exec'[e].resume <=> job[j].resume \/ (job[j].retries > 0 /\ job[j].checkpoint)
  BY DeliverEffect
<1>2. /\ job[j].state \in {"created", "retry"} /\ job'[j].state = "active" /\ row' = row
      /\ \A i \in Jobs \ {j} : job'[i] = job[i]
  BY DeliverEffect DEF Deliver
<1>3. \A f \in Execs : Live(f) => exec[f].job \in Jobs /\ exec[f].job # j /\ f # e
  BY <1>1, <1>2 DEF EachItsJob, IInv, RunsFirst
<1>4. \A f \in Execs : Live(f)' <=> f = e \/ Live(f)
  BY <1>1 DEF Live
<1>5. \A f \in Execs : Live(f) => exec'[f] = exec[f]
  BY <1>1, <1>3
<1>6. EachItsJob'
  <2>1. \A f \in Execs : Live(f)' => job'[exec'[f].job].state = "active"
    BY <1>1, <1>2, <1>3, <1>4, <1>5 DEF EachItsJob
  <2>2. \A f, g \in Execs : Live(f)' /\ Live(g)' /\ exec'[f].job = exec'[g].job => f = g
    BY <1>1, <1>3, <1>4, <1>5 DEF EachItsJob
  <2>3. ASSUME NEW i \in Jobs, job'[i].state = "active"
        PROVE  \E f \in Execs : Live(f)' /\ exec'[f].job = i
    <3>1. CASE i = j
      BY <1>1, <1>4, <3>1
    <3>2. CASE i # j
      BY <1>2, <1>4, <1>5, <2>3, <3>2 DEF EachItsJob
    <3> QED BY <3>1, <3>2
  <2>4. \A i \in Jobs : job'[i].state = "retry" => job'[i].checkpoint /\ job'[i].retries > 0
    BY <1>2 DEF EachItsJob
  <2> QED BY <2>1, <2>2, <2>3, <2>4 DEF EachItsJob
<1>7. FirstAlone'
  <2>1. NothingDone' <=> NothingDone
    BY <1>2 DEF NothingDone
  <2>2. ASSUME NEW i \in Jobs, job'[i].state = "created", ~job'[i].resume
        PROVE  NothingDone' /\ NoJobBut(i)'
    <3>1. i # j /\ job[i].state = "created" /\ ~job[i].resume
      BY <1>2, <2>2
    <3>2. NoJobBut(i)
      BY <3>1 DEF FirstAlone
    <3> QED BY <1>2, <3>1, <3>2 DEF NoJobBut
  <2>3. ASSUME NEW f \in Execs, exec'[f].phase = "chained", ~exec'[f].resume
        PROVE  NothingDone' /\ NoJobBut(exec[f].job)'
    <3>1. CASE f = e
      <4>1. job[j].state = "created" /\ ~job[j].resume
        BY <1>1, <1>2, <2>3, <3>1 DEF EachItsJob
      <4>2. NothingDone /\ NoJobBut(j)
        BY <4>1 DEF FirstAlone
      <4> QED BY <1>1, <1>2, <2>1, <3>1, <4>2 DEF NoJobBut
    <3>2. CASE f # e
      <4>1. exec'[f] = exec[f] /\ Live(f)
        BY <1>1, <2>3, <3>2 DEF Live
      <4>2. NoJobBut(exec[f].job) /\ exec[f].job # j
        BY <1>3, <2>3, <4>1 DEF FirstAlone
      <4> QED BY <1>2, <4>2 DEF NoJobBut
    <3> QED BY <3>1, <3>2
  <2> QED BY <2>2, <2>3 DEF FirstAlone
<1>8. NoneToRedo'
  BY <1>1, <1>2 DEF NoneToRedo
<1> QED BY <1>6, <1>7, <1>8

\* A failed job is taken up again, or forgotten.
LEMMA FailedOwn ==
  ASSUME IInv, EachItsJob, FirstAlone, NoneToRedo, NEW j \in Jobs, Archive(j) \/ RetryFailed(j)
  PROVE  EachItsJob' /\ FirstAlone' /\ NoneToRedo'
<1>1. /\ job \in [Jobs -> JobRows] /\ job[j].state = "failed" /\ exec' = exec /\ row' = row
  BY Types DEF IInv, Rest, Archive, RetryFailed
<1>2. /\ \A i \in Jobs : ~(job[i].state = "created" /\ ~job[i].resume)
      /\ \A f \in Execs : exec[f].phase = "chained" => exec[f].resume
  <2>1. ASSUME NEW i \in Jobs, job[i].state = "created", ~job[i].resume PROVE FALSE
    BY <1>1, <2>1 DEF FirstAlone, NoJobBut
  <2>2. ASSUME NEW f \in Execs, exec[f].phase = "chained", ~exec[f].resume PROVE FALSE
    <3>1. job[exec[f].job].state = "active"
      BY <2>2 DEF EachItsJob, Live
    <3> QED BY <1>1, <2>2, <3>1 DEF FirstAlone, NoJobBut
  <2> QED BY <2>1, <2>2
<1>3. ASSUME NEW i \in Jobs
      PROVE  \/ job'[i] = job[i]
             \/ job[i].state \in {"none", "failed"} /\ job'[i].state = "none"
             \/ job[i].state = "none" /\ job'[i].state = "created" /\ job'[i].resume
  <2>1. CASE Archive(j)
    <3>1. job' = [job EXCEPT ![j] = NoJob] /\ NoJob.state = "none"
      BY <2>1 DEF Archive, NoJob
    <3> HIDE DEF NoJob
    <3> QED BY <1>1, <3>1
  <2>2. CASE RetryFailed(j)
    <3> DEFINE steps == job[j].steps
               resume == TRUE
    <3>1. Enqueue(steps, resume)
      BY <2>2 DEF RetryFailed
    <3> HIDE DEF steps, resume
    <3>2. job' = job \/ \E k \in Jobs : /\ job[k].state = "none" /\ job'[k].state = "created"
                                       /\ job'[k].resume = resume
                                       /\ \A h \in Jobs \ {k} : job'[h] = job[h]
      BY <1>1, <3>1, EnqueueEffect
    <3>3. resume = TRUE
      BY DEF resume
    <3> QED BY <3>2, <3>3
  <2> QED BY <2>1, <2>2
<1>4. EachItsJob'
  <2>1. \A i \in Jobs : (job'[i].state = "active" <=> job[i].state = "active")
    BY <1>3
  <2>2. \A f \in Execs : (Live(f)' <=> Live(f)) /\ (Live(f) => exec[f].job \in Jobs)
    BY <1>1 DEF Live, IInv, RunsFirst
  <2>3. \A i \in Jobs : job'[i].state = "retry" => job'[i] = job[i]
    BY <1>3
  <2> QED BY <1>1, <2>1, <2>2, <2>3 DEF EachItsJob
<1>5. FirstAlone'
  BY <1>1, <1>2, <1>3 DEF FirstAlone
<1>6. NoneToRedo'
  BY <1>1 DEF NoneToRedo
<1> QED BY <1>4, <1>5, <1>6

\* The sweep finds no job and no call, and asks for what is not done.
LEMMA SweepOwn ==
  ASSUME IInv, EachItsJob, FirstAlone, NoneToRedo, Sweep
  PROVE  /\ EachItsJob' /\ FirstAlone' /\ NoneToRedo'
         /\ \A s \in Steps : row.steps[s] = "DONE" => row'.steps[s] = "DONE"
<1>1. job \in [Jobs -> JobRows] /\ LiveJobs = {} /\ exec' = exec /\ row \in Rows
  BY Types DEF IInv, Rest, Sweep
<1>2. \A e \in Execs : exec[e].phase = "idle" /\ exec'[e].phase = "idle"
  <2>1. \A e \in Execs : Live(e) => job[exec[e].job].state = "active" /\ exec[e].job \in Jobs
    BY DEF EachItsJob, IInv, RunsFirst
  <2>2. \A e \in Execs : ~Live(e)
    BY <1>1, <2>1 DEF LiveJobs, LiveStates
  <2> QED BY <1>1, <2>2 DEF Live
<1> DEFINE steps == {s \in Steps \ paused : row.steps[s] \in Unstarted}
           resume == TRUE
<1>3. /\ Enqueue(steps, resume) /\ resume = TRUE
      /\ row' = [row EXCEPT !.steps = [s \in Steps |-> IF s \in steps THEN "QUEUED" ELSE @[s]]]
  BY DEF Sweep
<1>4. \A s \in Steps : row.steps[s] = "DONE" => row'.steps[s] = "DONE"
  <2>1. \A s \in steps : row.steps[s] # "DONE"
    BY DEF Unstarted
  <2> HIDE DEF steps
  <2>2. row'.steps = [s \in Steps |-> IF s \in steps THEN "QUEUED" ELSE row.steps[s]]
    BY <1>1, <1>3 DEF Rows
  <2> QED BY <2>1, <2>2
<1> HIDE DEF steps, resume
<1>5. \A i \in Jobs : \/ job'[i].state = "created" /\ job'[i].resume
                      \/ job'[i].state \notin LiveStates
  <2>0. Enqueue(steps, resume) /\ job \in [Jobs -> JobRows]
    BY <1>1, <1>3
  <2>1. \/ \E k \in Jobs : job[k].state = "created"
        \/ \E k \in Jobs : /\ job[k].state = "none" /\ job'[k].state = "created"
                           /\ job'[k].resume = resume
                           /\ \A h \in Jobs \ {k} : job'[h] = job[h]
    BY <2>0, EnqueueEffect
  <2>2. \A k \in Jobs : job[k].state \notin LiveStates
    BY <1>1 DEF LiveJobs
  <2>3. PICK k \in Jobs : /\ job'[k].state = "created" /\ job'[k].resume = resume
                          /\ \A h \in Jobs \ {k} : job'[h] = job[h]
    BY <2>1, <2>2 DEF LiveStates
  <2> QED BY <1>3, <2>2, <2>3
<1>6. EachItsJob'
  BY <1>2, <1>5 DEF EachItsJob, Live, LiveStates
<1>7. FirstAlone'
  BY <1>2, <1>5 DEF FirstAlone, LiveStates
<1>8. NoneToRedo'
  BY <1>2 DEF NoneToRedo
<1> QED BY <1>4, <1>6, <1>7, <1>8

\* A step of a document on its own: it stays so, and nothing done is undone.
LEMMA QuietKept ==
  ASSUME IInv, Counted, CreatedIsNew, OnItsOwn, [Next]_vars, Undisturbed'
  PROVE  /\ EachItsJob' /\ FirstAlone' /\ NoneToRedo'
         /\ \A s \in Steps : row.steps[s] = "DONE" => row'.steps[s] = "DONE"
<1> DEFINE Kept == /\ EachItsJob' /\ FirstAlone' /\ NoneToRedo'
                   /\ \A s \in Steps : row.steps[s] = "DONE" => row'.steps[s] = "DONE"
<1>1. /\ EachItsJob /\ FirstAlone /\ NoneToRedo
      /\ exec \in [Execs -> Calls] /\ row \in Rows
  BY QuietStep, Types DEF IInv, Rest
<1>2. \A e \in Execs : exec[e].todo \subseteq Steps
  BY <1>1 DEF Calls
<1>3. ASSUME NEW j \in Jobs, Deliver(j) \/ Archive(j) \/ RetryFailed(j) PROVE Kept
  <2>1. row' = row
    BY <1>3 DEF Deliver, Archive, RetryFailed
  <2>2. CASE Deliver(j)
    BY <1>1, <2>1, <2>2, DeliverOwn
  <2>3. CASE Archive(j) \/ RetryFailed(j)
    BY <1>1, <2>1, <2>3, FailedOwn
  <2> QED BY <1>3, <2>2, <2>3
<1>4. ASSUME NEW e \in Execs, (Read(e) /\ row.deleted) \/ End(e) PROVE Kept
  <2>1. Live(e) /\ Complete(e) /\ row' = row
    BY <1>4 DEF Read, End, Live
  <2> QED BY <1>1, <2>1, OverOwn
<1>5. ASSUME NEW e \in Execs, Read(e), ~row.deleted PROVE Kept
  <2>1. /\ exec[e].phase = "chained" /\ exec'[e].phase = "slate"
        /\ exec'[e].todo = IF exec[e].resume
                           THEN {s \in exec[e].todo : row.steps[s] \notin {"DONE", "SKIPPED"}}
                           ELSE exec[e].todo
        /\ Going(e) /\ job' = job /\ row' = row /\ Live(e)
    BY <1>5, ReadEffect DEF Read, Live
  <2>2. \A t \in exec'[e].todo : row'.steps[t] # "DONE"
    BY <1>1, <1>2, <2>1 DEF FirstAlone, NothingDone
  <2> QED BY <1>1, <2>1, <2>2, GoingOwn
<1>6. ASSUME NEW e \in Execs, Slate(e) \/ Begin(e) \/ Reread(e) PROVE Kept
  <2>1. /\ exec[e].phase \in {"slate", "begin", "reread"} /\ job' = job /\ Going(e) /\ Live(e)
        /\ exec'[e].phase \in {"begin", "work", "reread", "end"}
        /\ exec'[e].todo \subseteq exec[e].todo
        /\ \A s \in Steps : row'.steps[s] = row.steps[s]
                            \/ (s \in exec[e].todo /\ row'.steps[s] \in {"QUEUED", "RUNNING"})
    <3>1. CASE Slate(e)
      <4>1. /\ exec[e].phase = "slate" /\ exec'[e].phase \in {"begin", "reread", "end"}
            /\ \A s \in Steps : row'.steps[s] = IF s \in exec'[e].todo THEN "QUEUED"
                                                ELSE row.steps[s]
            /\ Going(e) /\ job' = job
        BY <3>1, SlateEffect
      <4> QED BY <4>1 DEF Going, Live
    <3>2. CASE Begin(e)
      <4>1. /\ exec[e].phase = "begin" /\ exec'[e].phase = "work"
            /\ NextStep(exec[e].todo) \in exec[e].todo
            /\ \A s \in Steps : row'.steps[s] = IF s = NextStep(exec[e].todo) THEN "RUNNING"
                                                ELSE row.steps[s]
            /\ Going(e) /\ job' = job
        BY <3>2, BeginEffect
      <4> QED BY <4>1 DEF Going, Live
    <3>3. CASE Reread(e)
      BY <3>3, RereadEffect DEF Going, Live
    <3> QED BY <1>6, <3>1, <3>2, <3>3
  <2>2. \A s \in exec[e].todo : row.steps[s] # "DONE"
    BY <1>1, <2>1 DEF NoneToRedo
  <2>3. \A s \in Steps : row.steps[s] = "DONE" <=> row'.steps[s] = "DONE"
    BY <2>1, <2>2
  <2>4. \A t \in exec'[e].todo : row'.steps[t] # "DONE"
    BY <1>2, <2>1, <2>2, <2>3
  <2> QED BY <1>1, <2>1, <2>3, <2>4, GoingOwn
<1>7. ASSUME NEW e \in Execs, NEW s \in Steps, Settles(e, s) PROVE Kept
  <2>1. /\ exec[e].phase = "work" /\ s \in exec[e].todo
        /\ exec'[e].phase \in {"begin", "reread", "end"} /\ exec'[e].todo = exec[e].todo \ {s}
        /\ \A t \in Steps \ {s} : row'.steps[t] = row.steps[t]
        /\ Going(e) /\ job' = job /\ Live(e)
    BY <1>7, SettleEffect DEF Live
  <2>2. \A t \in exec[e].todo : row.steps[t] # "DONE"
    BY <1>1, <2>1 DEF NoneToRedo
  <2>3. \A t \in Steps : row.steps[t] = "DONE" => row'.steps[t] = "DONE"
    BY <2>1, <2>2
  <2>4. \A t \in exec'[e].todo : row'.steps[t] # "DONE"
    BY <1>2, <2>1, <2>2
  <2> QED BY <1>1, <2>1, <2>3, <2>4, GoingOwn
<1>8. ASSUME NEW e \in Execs, NEW s \in Steps, StepInterrupted(e, s) PROVE Kept
  <2>1. /\ exec[e].phase = "work" /\ s \in exec[e].todo
        /\ row'.steps[s] = "QUEUED" /\ \A t \in Steps \ {s} : row'.steps[t] = row.steps[t]
        /\ Throw(e, TRUE) /\ Live(e)
    BY <1>8, InterruptedEffect DEF Live
  <2>2. row.steps[s] # "DONE"
    BY <1>1, <2>1 DEF NoneToRedo
  <2>3. \A t \in Steps : row'.steps[t] \in {row.steps[t], "QUEUED"}
    BY <2>1
  <2>4. \A t \in Steps : row.steps[t] = "DONE" => row'.steps[t] = "DONE"
    BY <2>1, <2>2
  <2> QED BY <1>1, <2>1, <2>3, <2>4, OverOwn
<1>9. ASSUME Delete \/ UNCHANGED vars PROVE Kept
  <2>1. exec' = exec /\ job' = job /\ row'.steps = row.steps
    <3>1. CASE Delete
      <4>1. exec' = exec /\ job' = job /\ row' = [row EXCEPT !.deleted = TRUE]
        BY <3>1 DEF Delete
      <4>2. row'.steps = row.steps
        BY <1>1, <4>1 DEF Rows
      <4> QED BY <4>1, <4>2
    <3> QED BY <1>9, <3>1 DEF vars
  <2>2. EachItsJob'
    BY <1>1, <2>1 DEF EachItsJob, Live
  <2>3. FirstAlone'
    BY <1>1, <2>1 DEF FirstAlone, NothingDone, NoJobBut
  <2>4. NoneToRedo'
    BY <1>1, <2>1 DEF NoneToRedo
  <2> QED BY <2>1, <2>2, <2>3, <2>4
<1>10. ASSUME Sweep PROVE Kept
  BY <1>1, <1>10, SweepOwn
<1> HIDE DEF Kept
<1>11. Kept
  <2>1. \/ \E j \in Jobs : Deliver(j) \/ Archive(j) \/ RetryFailed(j)
        \/ \E e \in Execs :
              \/ Read(e) \/ Slate(e) \/ Begin(e) \/ Reread(e) \/ End(e)
              \/ \E s \in Steps : Settles(e, s) \/ StepInterrupted(e, s)
        \/ Delete \/ Sweep \/ UNCHANGED vars
    BY QuietStep
  <2>2. CASE \E j \in Jobs : Deliver(j) \/ Archive(j) \/ RetryFailed(j)
    BY <1>3, <2>2, Zenon
  <2>3. CASE \E e \in Execs :
                \/ Read(e) \/ Slate(e) \/ Begin(e) \/ Reread(e) \/ End(e)
                \/ \E s \in Steps : Settles(e, s) \/ StepInterrupted(e, s)
    <3>1. PICK e \in Execs :
                \/ Read(e) \/ Slate(e) \/ Begin(e) \/ Reread(e) \/ End(e)
                \/ \E s \in Steps : Settles(e, s) \/ StepInterrupted(e, s)
      BY <2>3
    <3>2. CASE \E s \in Steps : Settles(e, s) \/ StepInterrupted(e, s)
      BY <1>7, <1>8, <3>2, Zenon
    <3>3. CASE Read(e) \/ Slate(e) \/ Begin(e) \/ Reread(e) \/ End(e)
      BY <1>4, <1>5, <1>6, <3>3, Zenon
    <3> QED BY <3>1, <3>2, <3>3
  <2>4. CASE Delete \/ UNCHANGED vars
    BY <1>9, <2>4, Zenon
  <2> QED BY <1>10, <2>1, <2>2, <2>3, <2>4, Zenon
<1> QED BY <1>11 DEF Kept

LEMMA OnItsOwnKept ==
  ASSUME IInv, Counted, CreatedIsNew, OnItsOwn, [Next]_vars
  PROVE  OnItsOwn'
<1> SUFFICES ASSUME Undisturbed' PROVE OnItsOwn'
  BY DEF OnItsOwn
<1>1. released' = NoRelease /\ \A r \in Requests : request'[r].phase = "idle"
  BY QuietStep
<1>2. EachItsJob' /\ FirstAlone' /\ NoneToRedo'
  BY QuietKept
<1> QED BY <1>1, <1>2 DEF OnItsOwn

-----------------------------------------------------------------------------
LEMMA InitStarts ==
  ASSUME Init
  PROVE  Counted /\ PausesHold /\ CreatedIsNew /\ DebtIsOwed /\ OnItsOwn
<1>1. /\ row = NoRow /\ \A e \in Execs : exec[e] = NoExec
      /\ composition = 1 /\ built = 0 /\ paused \in SUBSET Pausable
      /\ \A r \in Requests : request[r] = NoRequest
      /\ released = NoRelease
  BY DEF Init
<1>2. Counted
  <2>1. spent = [asks |-> 0, edits |-> 0, outages |-> 0, faults |-> 0,
                 typings |-> 0, switches |-> 0]
    BY DEF Init
  <2>2. SpentOK /\ \A k \in Kinds : spent[k] = 0
    BY <2>1 DEF SpentOK, Kinds
  <2>3. \A k \in Kinds : Bound(k) \in Nat
    BY BoundsAssumption DEF Bound, Kinds
  <2> QED BY <2>2, <2>3 DEF Counted
<1>3. /\ \A s \in Steps : row.steps[s] = "PENDING"
      /\ \A e \in Execs : exec[e].phase = "idle" /\ exec[e].job = None
  BY <1>1 DEF NoRow, NoExec
<1>4. PausesHold
  <2>1. Frozen \subseteq Steps
    BY <1>1, StepsAssumption DEF Frozen, Steps, ReadsCanonical, ReadsMarkdown
  <2> QED BY <1>3, <2>1 DEF PausesHold, Waits
<1>5. \A j \in Jobs : /\ job[j].state \in {"none", "created"} /\ job[j].retries = 0
                      /\ job[j].state = "created" => NoJobBut(j)
  BY DEF Init, NoJob, NoJobBut
<1>6. CreatedIsNew
  <2>1. \A e \in Execs, j \in Jobs : exec[e].job # j
    BY <1>3, NoneAssumption
  <2> QED BY <1>3, <1>5, <2>1 DEF CreatedIsNew, Live
<1>7. DebtIsOwed
  BY <1>3 DEF DebtIsOwed, Stale, Rebuilds, Steps
<1>8. OnItsOwn
  <2>1. \A r \in Requests : request[r].phase = "idle"
    BY <1>1 DEF NoRequest
  <2>2. EachItsJob
    BY <1>3, <1>5 DEF EachItsJob, Live
  <2>3. FirstAlone
    BY <1>3, <1>5 DEF FirstAlone, NothingDone
  <2>4. NoneToRedo
    BY <1>3 DEF NoneToRedo
  <2> QED BY <1>1, <2>1, <2>2, <2>3, <2>4 DEF OnItsOwn
<1> QED BY <1>2, <1>4, <1>6, <1>7, <1>8

(* The counts, what the pauses hold, the debts of the queue and the state   *)
(* of a document nobody touches, for every state the pipeline reaches.      *)
THEOREM Accounts ==
  Spec => [](IInv /\ Counted /\ PausesHold /\ CreatedIsNew /\ DebtIsOwed /\ OnItsOwn)
<1> DEFINE Inv == Counted /\ PausesHold /\ CreatedIsNew /\ DebtIsOwed /\ OnItsOwn
<1>1. Init => Inv
  BY InitStarts
<1>2. IInv /\ Inv /\ [Next]_vars => Inv'
  BY CountsGoUp, PausesKept, CreatedKept, DebtKept, OnItsOwnKept
<1> QED BY <1>1, <1>2, Invariant, PTL DEF Spec

(* A composition edit enqueues a rebuild in its own transaction, and the    *)
(* rebuild is not lost to crashes, expiries and database errors while they  *)
(* are no more than the retries of a job (pg-boss-policy.ts), however many  *)
(* jobs, calls and edits there are.  The canonical step must not be one a   *)
(* pause can hold: with it the code does lose a rebuild, as the run         *)
(* pipeline_lost_rebuild shows.                                             *)
THEOREM EditsAreRebuilt ==
  ASSUME "canonical" \notin Pausable
  PROVE  Spec => [](spent.faults <= RETRY_LIMIT => NoEditForgotten)
<1>1. ASSUME DebtIsOwed, spent.faults <= RETRY_LIMIT PROVE NoEditForgotten
  <2> SUFFICES ASSUME Stale PROVE RebuildAhead
    BY DEF NoEditForgotten, Stale
  <2>1. PICK j \in Jobs : Owes(j)
    BY <1>1 DEF DebtIsOwed
  <2> QED BY <2>1, OwedIsAhead
<1>2. DebtIsOwed => (spent.faults <= RETRY_LIMIT => NoEditForgotten)
  BY <1>1
<1> QED BY <1>2, Accounts, PTL

(* As long as the operator leaves the pauses as they were, no step that     *)
(* reads a paused one is settled for want of its input (heldSteps, read     *)
(* before the clean slate and by every reprocess and sweep).                *)
THEOREM PausesGiveNoVerdict == Spec => [](spent.switches = 0 => PauseIsNoVerdict)
<1>1. ASSUME PausesHold, spent.switches = 0 PROVE PauseIsNoVerdict
  <2>1. \A s \in Frozen : row.steps[s] \in {"PENDING", "QUEUED"}
    BY <1>1 DEF PausesHold, Waits
  <2> QED BY <2>1 DEF Frozen, PauseIsNoVerdict, Settled
<1>2. PausesHold => (spent.switches = 0 => PauseIsNoVerdict)
  BY <1>1
<1> QED BY <1>2, Accounts, PTL

(* Nor is a paused step started, by the first job, a retry, a reprocess or  *)
(* the sweep, although the pauses are read against an older row.            *)
THEOREM PausesStartNothing == Spec /\ [](spent.switches = 0) => PausedStepNotStarted
<1>1. ASSUME IInv, Counted, PausesHold', spent.switches = 0, spent'.switches = 0, [Next]_vars
      PROVE  \A s \in paused : row'.steps[s] = "RUNNING" => row.steps[s] = "RUNNING"
  <2>1. paused' = paused
    <3>1. ~SetPauses
      <4> SUFFICES ASSUME SetPauses PROVE FALSE
        OBVIOUS
      <4>1. spent'["switches"] = spent["switches"] + 1
        BY <1>1, SpendEffect DEF SetPauses, Kinds, Counted
      <4> QED BY <1>1, <4>1
    <3>2. CASE ByOthers
      BY <3>1, <3>2 DEF ByOthers, Deliver, Expire, Archive, RetryFailed, Ask, Allow, Submit, SetType,
         Resume, ResumedCall, Crash, Edit, SelectPreview, Delete, Sweep, vars, settingsVars
    <3>3. ASSUME NEW e \in Execs, \/ Read(e) \/ Slate(e) \/ Begin(e) \/ Reread(e) \/ End(e) \/ Abort(e)
          PROVE  paused' = paused
      BY <3>3 DEF Read, Slate, Begin, Reread, End, Abort, settingsVars
    <3>4. ASSUME NEW e \in Execs, NEW s \in Steps, Settles(e, s) \/ StepInterrupted(e, s)
          PROVE  paused' = paused
      BY <1>1, <3>4, SettleEffect, InterruptedEffect DEF settingsVars
    <3> QED BY <1>1, <3>2, <3>3, <3>4, StepsOfTheNext
  <2>2. paused \subseteq Frozen'
    BY <2>1 DEF Frozen
  <2>3. \A s \in Frozen' : row'.steps[s] \in {"PENDING", "QUEUED"}
    BY <1>1 DEF PausesHold, Waits
  <2> QED BY <2>2, <2>3
<1>2. /\ IInv /\ Counted /\ PausesHold' /\ spent.switches = 0 /\ (spent.switches = 0)' /\ [Next]_vars
      => [\A s \in paused : row'.steps[s] = "RUNNING" => row.steps[s] = "RUNNING"]_vars
  BY <1>1
<1> QED BY <1>2, Accounts, PTL DEF Spec, PausedStepNotStarted

(* Outages, retries, resumed failures and the sweep undo nothing that is    *)
(* done of a document nobody touches: a checkpoint makes every later call   *)
(* a resume, and each resume drops what it finds done, with no other call   *)
(* to change it before the clean slate.                                     *)
THEOREM NothingDoneIsUndone == Spec => DoneStaysDone
<1>1. /\ IInv /\ Counted /\ CreatedIsNew /\ OnItsOwn /\ [Next]_vars
      => [Undisturbed' => \A s \in Steps :
              row.steps[s] = "DONE" => row'.steps[s] = "DONE"]_vars
  BY QuietKept
<1> QED BY <1>1, Accounts, PTL DEF Spec, DoneStaysDone
=============================================================================
