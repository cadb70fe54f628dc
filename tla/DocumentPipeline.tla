-------------------------- MODULE DocumentPipeline --------------------------
(***************************************************************************)
(* The life of one document in the processing pipeline of legere: its row, *)
(* its document-process jobs in pg-boss, the runs that a worker makes of   *)
(* them (src/server/application/jobs/handle-document-process.ts), and      *)
(* everybody who touches the row or the queue meanwhile: people, the       *)
(* pauses an operator sets, the hourly sweep, outages and crashes.         *)
(*                                                                         *)
(* One document is enough: a run reads and writes only its own document,   *)
(* and its runs are chained per document.  Each action is one database     *)
(* access of the code, with what the code computes from it, so that        *)
(* everything may happen between two of them.                              *)
(***************************************************************************)
EXTENDS PipelinePause, Naturals

CONSTANTS
    Jobs,          \* rows of pgboss.job that can be alive at one time
    Execs,         \* calls of handle() that can be alive at one time
    Requests,      \* requests of people that can be in progress at one time
    RETRY_LIMIT,   \* pg-boss-policy.ts
    Asks,          \* the step lists a person may ask to reprocess
    Pausable,      \* the steps an operator may pause
    Outcomes,      \* how the work of each step may end: a subset of Results
    MaxAsks,       \* bound on the reprocesses people ask for
    MaxEdits,      \* bound on composition edits and preview choices
    MaxOutages,    \* bound on calls that find a service away
    MaxFaults,     \* bound on crashes, expiries and database errors
    MaxTypings,    \* bound on the types a person sets
    MaxSwitches,   \* bound on the times an operator changes the pauses
    MaxEvents      \* bound on all of these together

Results == {"done", "skipped", "failed", "away"}

None == "none"

ASSUME StepsAssumption ==
    /\ Asks \subseteq SUBSET Steps
    /\ Pausable \subseteq Steps
    /\ Outcomes \in [Steps -> SUBSET Results]
ASSUME NoneAssumption == None \notin Execs \cup Jobs
ASSUME BoundsAssumption ==
    /\ RETRY_LIMIT \in Nat /\ MaxAsks \in Nat /\ MaxEdits \in Nat
    /\ MaxOutages \in Nat
    /\ MaxFaults \in Nat /\ MaxTypings \in Nat /\ MaxSwitches \in Nat
    /\ MaxEvents \in Nat

NoRow == [steps |-> [s \in Steps |-> "PENDING"], failedStep |-> NoStep,
          typeSource |-> "NONE", deleted |-> FALSE]
NoRelease == [before |-> {}, after |-> {}]
NoJob == [state |-> "none", steps |-> {}, resume |-> FALSE,
          checkpoint |-> FALSE, retries |-> 0]
NoRequest == [phase |-> "idle", steps |-> {}, row |-> NoRow]
NoExec == [phase |-> "idle", job |-> None, after |-> None, resume |-> FALSE,
           todo |-> {}, row |-> NoRow, current |-> NoRow, canonical |-> None,
           input |-> 0]

VARIABLES
    row,           \* the document's row: steps, failedStep, typeSource, deleted
    composition,   \* the revision of its composition, 1 as it was created
    built,         \* the revision its stored canonical PDF shows, 0 for none
    paused,        \* the paused steps of the settings row
    job,           \* the document-process jobs of this document
    exec,          \* the calls of handle() for it, running or chained
    tail,          \* this.inFlight.get(documentId): the last call chained
    request,       \* the use cases people have in progress
    released,      \* the pauses a settings command is resuming
    away,          \* history: the steps an outage put back and nobody retook
    spent          \* the bounded events so far

vars == <<row, composition, built, paused, job, exec, tail, request, released,
          away, spent>>
contentVars == <<composition, built>>
settingsVars == <<paused, released>>

Typed(r) == r.typeSource # "NONE"

Spend(what, bound) ==
    /\ spent[what] < bound
    /\ spent.asks + spent.edits + spent.outages + spent.faults
       + spent.typings + spent.switches < MaxEvents
    /\ spent' = [spent EXCEPT ![what] = @ + 1]

-----------------------------------------------------------------------------
(*                               The queue                                 *)

(* An absent or empty list of steps is the whole pipeline. *)
PayloadSteps(steps) == IF steps = {} THEN Steps ELSE steps

(* fault: a resume and a rebuild are taken for the same work *)
WorkKeyOfSteps(steps, resume) == steps

(* documentProcessWorkKey: two payloads with this key are the same work *)
WorkKey(steps, resume) == <<steps, resume>>

JobKey(j) == WorkKey(job[j].steps, job[j].resume)

(* The `short' policy: a job waiting to start absorbs one of the same key. *)
Enqueue(steps, resume) ==
    LET same == {j \in Jobs : /\ job[j].state = "created"
                              /\ JobKey(j) = WorkKey(steps, resume)}
    IN  IF same # {} THEN job' = job
        ELSE \E j \in Jobs :
                 /\ job[j].state = "none" /\ \A e \in Execs : exec[e].job # j
                 /\ job' = [job EXCEPT ![j] =
                        [NoJob EXCEPT !.state = "created", !.steps = steps,
                                      !.resume = resume]]

(* boss.fail and expiry: another attempt, or no more *)
FailedJob(j, checkpoint) ==
    IF job[j].retries < RETRY_LIMIT
    THEN [job[j] EXCEPT !.state = "retry", !.retries = @ + 1,
                        !.checkpoint = checkpoint]
    ELSE [job[j] EXCEPT !.state = "failed", !.checkpoint = checkpoint]

LiveStates == {"created", "retry", "active"}
LiveJobs == {j \in Jobs : job[j].state \in LiveStates}

-----------------------------------------------------------------------------
(*                            A call of handle()                           *)

Live(e) == exec[e].phase # "idle"

(* the runs that touch the row now: the others wait for their predecessor *)
Running(e) == exec[e].phase \notin {"idle", "chained"}

(* fault: a retry does not take up where it was interrupted *)
DeliverAnew(j) ==
    /\ job[j].state \in {"created", "retry"}
    /\ \E e \in Execs :
           /\ ~Live(e)
           /\ job' = [job EXCEPT ![j].state = "active"]
           /\ exec' = [exec EXCEPT ![e] =
                  [NoExec EXCEPT
                      !.phase = "chained", !.job = j, !.after = tail,
                      !.resume = job[j].resume,
                      !.todo = PayloadSteps(job[j].steps)]]
           /\ tail' = e
    /\ UNCHANGED <<row, contentVars, settingsVars, request, away, spent>>

(* A worker fetches a job: the call is chained behind the document's last. *)
Deliver(j) ==
    /\ job[j].state \in {"created", "retry"}
    /\ \E e \in Execs :
           /\ ~Live(e)
           /\ job' = [job EXCEPT ![j].state = "active"]
           /\ exec' = [exec EXCEPT ![e] =
                  [NoExec EXCEPT
                      !.phase = "chained", !.job = j, !.after = tail,
                      !.resume = \/ job[j].resume
                                 \/ job[j].retries > 0 /\ job[j].checkpoint,
                      !.todo = PayloadSteps(job[j].steps)]]
           /\ tail' = e
    /\ UNCHANGED <<row, contentVars, settingsVars, request, away, spent>>

(* fault: the chain is forgotten by any call that ends *)
LeaveForgetful(e) ==
    /\ exec' = [f \in Execs |->
           IF f = e THEN NoExec
           ELSE IF exec[f].after = e THEN [exec[f] EXCEPT !.after = None]
           ELSE exec[f]]
    /\ tail' = None

(* exec' and tail' when call e is over: those chained behind it may start, *)
(* and the map forgets the chain only when e was its end.                  *)
Leave(e) ==
    /\ exec' = [f \in Execs |->
           IF f = e THEN NoExec
           ELSE IF exec[f].after = e THEN [exec[f] EXCEPT !.after = None]
           ELSE exec[f]]
    /\ tail' = IF tail = e THEN None ELSE tail

(* The handler returned: pg-boss completes the job if it is still active. *)
Complete(e) ==
    /\ Leave(e)
    /\ job' = IF job[exec[e].job].state = "active"
              THEN [job EXCEPT ![exec[e].job] = NoJob] ELSE job

(* The handler threw: the registry fails the job if it is still active. *)
Throw(e, checkpoint) ==
    /\ Leave(e)
    /\ job' = IF job[exec[e].job].state = "active"
              THEN [job EXCEPT ![exec[e].job] =
                       FailedJob(exec[e].job, checkpoint)]
              ELSE job

(* The first read of the row; a resume drops what has an answer already. *)
Read(e) ==
    /\ exec[e].phase = "chained" /\ exec[e].after = None
    /\ \/ /\ row.deleted
          /\ Complete(e)
       \/ /\ ~row.deleted
          /\ exec' = [exec EXCEPT
                 ![e].phase = "slate", ![e].row = row,
                 ![e].todo = IF exec[e].resume
                     THEN {s \in @ : row.steps[s] \notin {"DONE", "SKIPPED"}}
                     ELSE @]
          /\ UNCHANGED <<job, tail>>
    /\ UNCHANGED <<row, contentVars, settingsVars, request, away, spent>>

Early == {"canonical", "preview", "markdown"}

(* where a run goes when `todo' is left and `early' tells if it is still   *)
(* before its second read of the row                                       *)
NextPhase(todo, early) ==
    IF todo = {} THEN "end"
    ELSE IF todo \cap Early # {} \/ ~early THEN "begin" ELSE "reread"

(* the step a run takes next *)
NextStep(todo) ==
    IF "canonical" \in todo THEN "canonical"
    ELSE IF "preview" \in todo THEN "preview"
    ELSE IF "markdown" \in todo THEN "markdown"
    ELSE IF "analysis" \in todo THEN "analysis"
    ELSE IF "fields" \in todo THEN "fields"
    ELSE "vectorization"

(* The pauses are read, against the row read before; then the clean slate. *)
Slate(e) ==
    LET seen == exec[e].row
        todo == exec[e].todo \ HeldSteps(paused, seen.steps, Typed(seen))
    IN  /\ exec[e].phase = "slate"
        /\ \/ /\ todo = {}
              /\ exec' = [exec EXCEPT ![e].phase = "end", ![e].row = NoRow,
                                      ![e].todo = {}]
              /\ UNCHANGED row
           \/ /\ todo # {}
              /\ row' = [row EXCEPT
                     !.steps = [s \in Steps |->
                                   IF s \in todo THEN "QUEUED" ELSE @[s]],
                     !.failedStep = IF ClearsRecordedFailure(seen.failedStep, todo)
                                    THEN NoStep ELSE @]
              /\ exec' = [exec EXCEPT
                     ![e].phase = NextPhase(todo, TRUE), ![e].todo = todo,
                     ![e].row = NoRow,
                     ![e].canonical = AlreadyBuilt(seen.steps["canonical"])]
        /\ UNCHANGED <<contentVars, settingsVars, job, tail, request, away, spent>>

(* running(): the step says it is being worked on.  The canonical step     *)
(* reads the composition here, the fields step the row.                    *)
Begin(e) ==
    LET s == NextStep(exec[e].todo)
    IN  /\ exec[e].phase = "begin"
        /\ row' = [row EXCEPT !.steps[s] = "RUNNING"]
        /\ away' = away \ {s}
        /\ exec' = [exec EXCEPT
               ![e].phase = "work",
               ![e].input = IF s = "canonical" THEN composition ELSE 0,
               ![e].current = IF s = "fields" THEN row ELSE NoRow]
        /\ UNCHANGED <<contentVars, settingsVars, job, tail, request, spent>>

(* the row as the steps after the text see it *)
Reread(e) ==
    /\ exec[e].phase = "reread"
    /\ exec' = [exec EXCEPT ![e].phase = "begin", ![e].row = row,
                            ![e].canonical = None]
    /\ UNCHANGED <<row, contentVars, settingsVars, job, tail, request, away, spent>>

(* what the input of step s is to this run, as the run has read it *)
InputOf(e, s) ==
    CASE s = "canonical" -> "ready"
      [] s \in ReadsCanonical -> exec[e].canonical
      [] s = "fields" -> ExtractionOf(exec[e].current.steps["markdown"])
      [] OTHER -> ExtractionOf(exec[e].row.steps["markdown"])

(* exec' when step s has settled: on to the next one *)
Proceed(e, s) ==
    LET todo == exec[e].todo \ {s}
    IN  [exec EXCEPT
            ![e].phase = NextPhase(todo, s \in Early), ![e].todo = todo,
            ![e].input = 0, ![e].current = NoRow,
            ![e].row = IF todo = {} THEN NoRow ELSE @]

Working(e, s) == exec[e].phase = "work" /\ s = NextStep(exec[e].todo)

(* Step s goes through.  Only here does the analysis write a type, unless  *)
(* the row it read says that a person chose one.                           *)
StepDone(e, s) ==
    /\ Working(e, s) /\ "done" \in Outcomes[s] /\ InputOf(e, s) = "ready"
    /\ s = "fields" => Typed(exec[e].current)
    /\ \/ /\ s # "analysis"
          /\ row' = [row EXCEPT !.steps[s] = "DONE"]
       \/ /\ s = "analysis" /\ exec[e].row.typeSource = "MANUAL"
          /\ row' = [row EXCEPT !.steps[s] = "DONE"]
       \/ /\ s = "analysis" /\ exec[e].row.typeSource # "MANUAL"
          /\ \E source \in {"NONE", "AUTO"} :
                 row' = [row EXCEPT !.steps[s] = "DONE",
                                    !.typeSource = source]
    /\ exec' = [Proceed(e, s) EXCEPT
                   ![e].canonical = IF s = "canonical" THEN "ready" ELSE @]
    /\ built' = IF s = "canonical" THEN exec[e].input ELSE built
    /\ UNCHANGED <<composition, settingsVars, job, tail, request, away, spent>>

(* Step s has nothing to do: nothing to build, no provider, no schema, too *)
(* many pages, no text; or its input was skipped, or is not there yet.     *)
StepSkipped(e, s) ==
    /\ Working(e, s)
    /\ \/ InputOf(e, s) = "nothing"
       \/ /\ InputOf(e, s) = "ready" /\ s \notin ReadsCanonical
          /\ \/ "skipped" \in Outcomes[s]
             \/ s = "fields" /\ ~Typed(exec[e].current)
    /\ row' = [row EXCEPT !.steps[s] = "SKIPPED"]
    /\ exec' = [Proceed(e, s) EXCEPT
                   ![e].canonical = IF s = "canonical" THEN "nothing" ELSE @]
    /\ built' = IF s = "canonical" THEN 0 ELSE built
    /\ UNCHANGED <<composition, settingsVars, job, tail, request, away, spent>>

(* Step s fails for its input, which is FAILED or not built: the error     *)
(* stays with the step it happened in.                                     *)
StepBlocked(e, s) ==
    /\ Working(e, s) /\ InputOf(e, s) = "failed"
    /\ row' = [row EXCEPT !.steps[s] = "FAILED"]
    /\ exec' = Proceed(e, s)
    /\ UNCHANGED <<contentVars, settingsVars, job, tail, request, away, spent>>

(* recordFailure: the document's own failure *)
StepFailed(e, s) ==
    /\ Working(e, s) /\ "failed" \in Outcomes[s] /\ InputOf(e, s) = "ready"
    /\ row' = [row EXCEPT !.steps[s] = "FAILED", !.failedStep = s]
    /\ exec' = [Proceed(e, s) EXCEPT
                   ![e].canonical = IF s = "canonical" THEN "failed" ELSE @]
    /\ UNCHANGED <<contentVars, settingsVars, job, tail, request, away, spent>>

(* failOrInterrupt: the service is away, the job carries the error out *)
StepInterrupted(e, s) ==
    /\ Working(e, s) /\ "away" \in Outcomes[s] /\ InputOf(e, s) = "ready"
    /\ Spend("outages", MaxOutages)
    /\ row' = [row EXCEPT !.steps[s] = "QUEUED"]
    /\ away' = away \cup {s}
    /\ Throw(e, TRUE)
    /\ UNCHANGED <<contentVars, settingsVars, request>>

(* The preview step finds the document deleted and leaves it RUNNING. *)
PreviewOfDeleted(e) ==
    /\ Working(e, "preview") /\ InputOf(e, "preview") = "ready" /\ row.deleted
    /\ exec' = Proceed(e, "preview")
    /\ UNCHANGED <<row, contentVars, settingsVars, job, tail, request, away, spent>>

End(e) ==
    /\ exec[e].phase = "end"
    /\ Complete(e)
    /\ UNCHANGED <<row, contentVars, settingsVars, request, away, spent>>

(* A database access of the run fails: the job fails without a checkpoint. *)
Abort(e) ==
    /\ Running(e)
    /\ Spend("faults", MaxFaults)
    /\ Throw(e, FALSE)
    /\ UNCHANGED <<row, contentVars, settingsVars, request, away>>

Run(e) ==
    \/ Read(e) \/ Slate(e) \/ Begin(e) \/ Reread(e) \/ End(e)
    \/ PreviewOfDeleted(e)
    \/ \E s \in Steps : \/ StepDone(e, s) \/ StepSkipped(e, s)
                        \/ StepBlocked(e, s) \/ StepFailed(e, s)
                        \/ StepInterrupted(e, s)

-----------------------------------------------------------------------------
(*                            The queue, on its own                        *)

(* A job has been active for longer than its queue allows.  A run that is  *)
(* still going goes on; after a crash there is none.                       *)
Expire(j) ==
    /\ job[j].state = "active"
    /\ job' = [job EXCEPT ![j] = FailedJob(j, FALSE)]
    /\ \/ /\ \A e \in Execs : exec[e].job # j
          /\ UNCHANGED spent
       \/ /\ \E e \in Execs : exec[e].job = j
          /\ Spend("faults", MaxFaults)
    /\ UNCHANGED <<row, contentVars, settingsVars, exec, tail, request, away>>

(* pg-boss deletes failed jobs after a time. *)
Archive(j) ==
    /\ job[j].state = "failed"
    /\ job' = [job EXCEPT ![j] = NoJob]
    /\ UNCHANGED <<row, contentVars, settingsVars, exec, tail, request, away,
                   spent>>

(* RetryFailedJob: the same work again, from where it stopped *)
RetryFailed(j) ==
    /\ job[j].state = "failed"
    /\ Enqueue(job[j].steps, TRUE)
    /\ UNCHANGED <<row, contentVars, settingsVars, exec, tail, request, away,
                   spent>>

(* The process dies: its calls, chains and requests are gone. *)
Crash ==
    /\ Spend("faults", MaxFaults)
    /\ exec' = [e \in Execs |-> NoExec]
    /\ tail' = None
    /\ request' = [r \in Requests |-> NoRequest]
    /\ released' = NoRelease
    /\ UNCHANGED <<row, contentVars, paused, job, away>>

-----------------------------------------------------------------------------
(*                                 People                                  *)

(* ReprocessDocument.execute: the row is read ... *)
ReadForReprocess(r, steps) ==
    request' = [request EXCEPT ![r] =
        IF row.deleted THEN NoRequest
        ELSE [phase |-> "asked", steps |-> steps, row |-> row]]

Ask(r) ==
    /\ request[r].phase = "idle" /\ ~row.deleted
    /\ Spend("asks", MaxAsks)
    /\ \E steps \in Asks : ReadForReprocess(r, steps)
    /\ UNCHANGED <<row, contentVars, settingsVars, job, exec, tail, away>>

(* ... then the pauses, and the steps allowed are written as queued, with  *)
(* a recorded failure wiped if the row as it was read allows it ...        *)
Allow(r) ==
    LET seen == request[r].row
        steps == request[r].steps \ HeldSteps(paused, seen.steps, Typed(seen))
    IN  /\ request[r].phase = "asked"
        /\ \/ /\ steps = {}
              /\ request' = [request EXCEPT ![r] = NoRequest]
              /\ UNCHANGED row
           \/ /\ steps # {}
              /\ request' = [request EXCEPT ![r] =
                     [phase |-> "written", steps |-> steps, row |-> NoRow]]
              /\ row' = [row EXCEPT
                     !.steps = [s \in Steps |->
                                   IF s \in steps THEN "QUEUED" ELSE @[s]],
                     !.failedStep = IF ClearsRecordedFailure(seen.failedStep, steps)
                                    THEN NoStep ELSE @]
        /\ UNCHANGED <<contentVars, settingsVars, job, exec, tail, away, spent>>

(* ... and the job is enqueued, outside any transaction. *)
Submit(r) ==
    /\ request[r].phase = "written"
    /\ Enqueue(request[r].steps, FALSE)
    /\ request' = [request EXCEPT ![r] = NoRequest]
    /\ UNCHANGED <<row, contentVars, settingsVars, exec, tail, away, spent>>

(* UpdateDocumentMeta: a person chooses the type, clears it or takes back  *)
(* what the analysis read; the fields are then asked for.                  *)
SetType(r) ==
    /\ request[r].phase = "idle" /\ ~row.deleted
    /\ Spend("typings", MaxTypings)
    /\ \E source \in {"NONE", "AUTO", "MANUAL"} :
           /\ source = "AUTO" => row.steps["analysis"] = "DONE"
           /\ row' = [row EXCEPT !.typeSource = source]
    /\ request' = [request EXCEPT ![r] =
           [phase |-> "written", steps |-> {"fields"}, row |-> NoRow]]
    /\ UNCHANGED <<contentVars, settingsVars, job, exec, tail, away>>

(* Any change to the composition enqueues a rebuild, in its transaction;   *)
(* the steps are left as they are until the rebuild runs.                  *)
Edit ==
    /\ ~row.deleted
    /\ Spend("edits", MaxEdits)
    /\ composition' = composition + 1
    /\ Enqueue({}, FALSE)
    /\ UNCHANGED <<row, built, settingsVars, exec, tail, request, away>>

(* SelectPreviewPage: the preview again, and the canonical PDF if it does  *)
(* not hold the page                                                       *)
SelectPreview ==
    /\ ~row.deleted
    /\ Spend("edits", MaxEdits)
    /\ \E steps \in {{"preview"}, {"canonical", "preview"}} :
           /\ "canonical" \in steps => built # composition
           /\ "canonical" \notin steps => built # 0
           /\ row' = [row EXCEPT !.steps = [s \in Steps |->
                          IF s \in steps THEN "QUEUED" ELSE @[s]]]
           /\ Enqueue(steps, FALSE)
    /\ UNCHANGED <<contentVars, settingsVars, exec, tail, request, away>>

Delete ==
    /\ ~row.deleted
    /\ row' = [row EXCEPT !.deleted = TRUE]
    /\ UNCHANGED <<contentVars, settingsVars, job, exec, tail, request, away,
                   spent>>

-----------------------------------------------------------------------------
(*                         Pauses and maintenance                          *)

(* A settings command changes the paused steps; what it releases is        *)
(* resumed before the next command.                                        *)
SetPauses ==
    /\ released = NoRelease
    /\ Spend("switches", MaxSwitches)
    /\ \E steps \in SUBSET Pausable :
           /\ steps # paused
           /\ paused' = steps
           /\ released' = IF paused \subseteq steps THEN NoRelease
                          ELSE [before |-> paused, after |-> steps]
    /\ UNCHANGED <<row, contentVars, job, exec, tail, request, away>>

(* ResumeReleasedPipelineWork: the steps this command released, of a       *)
(* document that has not started one of the released controls              *)
ReleasedSteps ==
    LET before == HeldSteps(released.before, row.steps, Typed(row))
        after == HeldSteps(released.after, row.steps, Typed(row))
        waits(s) == row.steps[s] \in {"PENDING", "QUEUED"}
    IN  IF \E s \in released.before \ released.after : waits(s)
        THEN {s \in before \ after : waits(s)} ELSE {}

Resume(r) ==
    /\ released # NoRelease /\ request[r].phase = "idle"
    /\ released' = NoRelease
    /\ request' = IF row.deleted \/ ReleasedSteps = {} THEN request
                  ELSE [request EXCEPT ![r] =
                      [phase |-> "called", steps |-> ReleasedSteps, row |-> NoRow]]
    /\ UNCHANGED <<row, contentVars, paused, job, exec, tail, away, spent>>

ResumedCall(r) ==
    /\ request[r].phase = "called"
    /\ ReadForReprocess(r, request[r].steps)
    /\ UNCHANGED <<row, contentVars, settingsVars, job, exec, tail, away, spent>>

(* fault: a step that was never queued is not looked for *)
SweepQueued ==
    LET steps == {s \in Steps \ paused : row.steps[s] \in {"QUEUED", "RUNNING"}}
    IN  /\ ~row.deleted /\ LiveJobs = {} /\ steps # {}
        /\ \A r \in Requests : request[r].phase # "written"
        /\ Enqueue(steps, TRUE)
        /\ row' = [row EXCEPT !.steps = [s \in Steps |->
                      IF s \in steps THEN "QUEUED" ELSE @[s]]]
        /\ UNCHANGED <<contentVars, settingsVars, exec, tail, request, away,
                       spent>>

(* The hourly sweep, over a row nobody has written to for two hours: the   *)
(* unfinished steps that no configured pause names, in one transaction.    *)
Sweep ==
    LET steps == {s \in Steps \ paused : row.steps[s] \in Unstarted}
    IN  /\ ~row.deleted /\ LiveJobs = {} /\ steps # {}
        /\ \A r \in Requests : request[r].phase # "written"
        /\ Enqueue(steps, TRUE)
        /\ row' = [row EXCEPT !.steps = [s \in Steps |->
                      IF s \in steps THEN "QUEUED" ELSE @[s]]]
        /\ UNCHANGED <<contentVars, settingsVars, exec, tail, request, away,
                       spent>>

-----------------------------------------------------------------------------
(* A document as it is created, with its job; or as a migration that resets *)
(* every step leaves it, with none.  The pauses are what they are.          *)
Init ==
    /\ row = NoRow
    /\ composition = 1 /\ built = 0
    /\ paused \in SUBSET Pausable
    /\ \/ \E j \in Jobs : job = [i \in Jobs |->
              IF i = j THEN [NoJob EXCEPT !.state = "created"] ELSE NoJob]
       \/ job = [j \in Jobs |-> NoJob]
    /\ exec = [e \in Execs |-> NoExec]
    /\ tail = None
    /\ request = [r \in Requests |-> NoRequest]
    /\ released = NoRelease
    /\ away = {}
    /\ spent = [asks |-> 0, edits |-> 0, outages |-> 0, faults |-> 0,
                typings |-> 0, switches |-> 0]

Next ==
    \/ \E j \in Jobs : Deliver(j) \/ Expire(j) \/ Archive(j) \/ RetryFailed(j)
    \/ \E e \in Execs : Run(e) \/ Abort(e)
    \/ \E r \in Requests : \/ Ask(r) \/ Allow(r) \/ Submit(r) \/ SetType(r)
                           \/ Resume(r) \/ ResumedCall(r)
    \/ Crash \/ Edit \/ SelectPreview \/ Delete \/ SetPauses \/ Sweep

Spec == Init /\ [][Next]_vars

(* Workers fetch, runs go on, a job nobody runs expires, the cron sweeps,  *)
(* and a request that has begun is carried through.  Nobody has to ask.    *)
Fairness ==
    /\ \A j \in Jobs : /\ SF_vars(Deliver(j)) /\ WF_vars(Expire(j))
                     /\ WF_vars(Archive(j))
    /\ \A e \in Execs : WF_vars(Run(e))
    /\ \A r \in Requests : /\ WF_vars(Allow(r)) /\ SF_vars(Submit(r))
                            /\ WF_vars(Resume(r)) /\ WF_vars(ResumedCall(r))
    /\ WF_vars(Sweep)

FairSpec == Spec /\ Fairness

-----------------------------------------------------------------------------
Rows == [steps: [Steps -> Statuses], failedStep: Steps \cup {NoStep},
         typeSource: {"NONE", "AUTO", "MANUAL"}, deleted: BOOLEAN]

TypeOK ==
    /\ row \in Rows
    /\ composition \in Nat /\ built \in 0..composition
    /\ paused \in SUBSET Pausable
    /\ job \in [Jobs -> [state: {"none", "failed"} \cup LiveStates,
                         steps: SUBSET Steps, resume: BOOLEAN,
                         checkpoint: BOOLEAN, retries: 0..RETRY_LIMIT]]
    /\ exec \in [Execs -> [phase: {"idle", "chained", "slate", "begin", "work",
                                   "reread", "end"},
                           job: Jobs \cup {None}, after: Execs \cup {None},
                           resume: BOOLEAN, todo: SUBSET Steps,
                           row: Rows, current: Rows,
                           canonical: {"ready", "nothing", "failed", None},
                           input: 0..composition]]
    /\ tail \in Execs \cup {None}
    /\ request \in [Requests -> [phase: {"idle", "called", "asked", "written"},
                                 steps: SUBSET Steps, row: Rows]]
    /\ released \in [before: SUBSET Pausable, after: SUBSET Pausable]
    /\ away \in SUBSET Steps

(* Two calls never work on the document at one time, although any number   *)
(* of its jobs may be active: chaining survives a job that is redelivered  *)
(* while its first call goes on, and calls that end while others wait.     *)
OneRunAtATime == \A e, f \in Execs : Running(e) /\ Running(f) => e = f

(* The error the document shows never belongs to a step that has gone      *)
(* through since, whoever re-ran what and in whatever order.               *)
RecordedErrorIsCurrent ==
    row.failedStep # NoStep =>
        row.steps[row.failedStep] \notin {"DONE", "SKIPPED"}

(* a job not yet fetched, or whose call is lost, or a call that has not    *)
(* read the composition yet, that will build the canonical PDF again       *)
RebuildAhead ==
    \/ \E j \in LiveJobs :
           /\ "canonical" \in PayloadSteps(job[j].steps) /\ ~job[j].resume
           /\ \A e \in Execs : exec[e].job # j
           /\ job[j].state = "retry" => ~job[j].checkpoint
    \/ \E e \in Execs :
           /\ exec[e].phase \in {"chained", "slate", "begin"}
           /\ exec[e].phase = "chained" => ~exec[e].resume
           /\ "canonical" \in exec[e].todo

(* No edit is forgotten: a canonical PDF that reads as done and shows an   *)
(* older composition is always going to be rebuilt.                        *)
NoEditForgotten ==
    row.steps["canonical"] = "DONE" /\ built # composition /\ ~row.deleted
        => RebuildAhead

(* While a step is paused and has no answer, the steps that read it have   *)
(* none either: a pause is never turned into a verdict.                    *)
PauseIsNoVerdict ==
    /\ "canonical" \in paused /\ row.steps["canonical"] \notin Settled
           => \A s \in ReadsCanonical : row.steps[s] \notin Settled
    /\ "markdown" \in paused /\ row.steps["markdown"] \notin Settled
           => \A s \in ReadsMarkdown : row.steps[s] \notin Settled

(* A paused step is not started by anybody. *)
PausedStepNotStarted ==
    [][\A s \in paused : row'.steps[s] = "RUNNING" => row.steps[s] = "RUNNING"]_vars

(* Nobody has asked for, edited or released anything, and no process died. *)
Undisturbed == \A what \in DOMAIN spent : what # "outages" => spent[what] = 0

(* An outage costs no step that was done: the retry, or the sweep after    *)
(* the last one, takes up where the run was interrupted.                   *)
DoneStaysDone ==
    [][Undisturbed' => \A s \in Steps :
           row.steps[s] = "DONE" => row'.steps[s] = "DONE"]_vars

(* Nothing waits for ever but on a pause: however a run was interrupted,   *)
(* by a crash, an expiry, an outage or retries that ran out, and once the  *)
(* pause that held a step is released, every step gets its answer, as long *)
(* as people leave the document alone.                                     *)
EverythingSettles ==
    []<>(row.deleted \/ paused # {} \/ \A s \in Steps : row.steps[s] \in Settled)

-----------------------------------------------------------------------------
(* What the docs and comments say of the pipeline, and the code does not   *)
(* keep                                                                    *)

NothingUnderWay ==
    /\ LiveJobs = {}
    /\ \A e \in Execs : ~Live(e)
    /\ \A r \in Requests : request[r].phase = "idle"

(* With no pause left and nothing under way, a canonical PDF that reads as *)
(* done shows the composition the document has: a rebuild that met a pause *)
(* is drained when the pause is released.                                  *)
RebuildOutlivesPause ==
    /\ paused = {} /\ released = NoRelease /\ NothingUnderWay
    /\ row.steps["canonical"] = "DONE" /\ ~row.deleted
    => built = composition

(* A type a person chose is never overwritten by the analysis. *)
ManualTypeKept ==
    [][row.typeSource = "MANUAL" /\ spent'.typings = spent.typings
           => row'.typeSource = "MANUAL"]_vars

(* A step a pause is holding is left as it was. *)
HeldStepUntouched ==
    [][\A s \in HeldSteps(paused, row.steps, Typed(row)) :
          row.steps[s] = "PENDING" => row'.steps[s] = "PENDING"]_vars

(* No step is marked FAILED for want of an input that an outage put back   *)
(* in the queue.                                                           *)
OutageIsNoVerdict ==
    [][\A s \in ReadsCanonical :
          row.steps[s] # "FAILED" /\ row'.steps[s] = "FAILED"
          /\ row'.failedStep # s => "canonical" \notin away]_vars

(* A recorded error is wiped only by a run that may re-run its step. *)
ErrorKeptUntilRerun ==
    [][row.failedStep # NoStep /\ row'.failedStep = NoStep
           => row'.steps[row.failedStep] = "QUEUED"]_vars
=============================================================================
