------------------------- MODULE ProcessingControl -------------------------
(***************************************************************************)
(* How a settings command of an operator becomes live                      *)
(* (application/processing/processing-control-plane.ts): commands are      *)
(* serialized in the process, persisted first as a new revision of the one *)
(* settings row (application/queue/queue-settings.ts), then applied to the *)
(* service gates and to the affected queue workers                         *)
(* (infrastructure/queue/worker-registry.ts), and put back when that fails.*)
(*                                                                         *)
(* Of the services one is modelled; the steps that are paused stand for    *)
(* every setting that no live machinery holds a copy of.  A concurrency of *)
(* zero stands for no override.                                            *)
(***************************************************************************)
EXTENDS Naturals, Sequences, FiniteSets

CONSTANTS
    Queues,              \* the queues with a worker
    Commands,            \* commands that can be in progress at one time
    MaxConcurrency,      \* QUEUE_CONCURRENCY_MAX
    DefaultConcurrency,  \* what a queue without an override gets
    MaxRevision,         \* bound on the revisions commands may write
    MaxFaults            \* bound on the calls that fail

ASSUME ConcurrencyAssumption ==
    /\ MaxConcurrency \in Nat /\ DefaultConcurrency \in 1..MaxConcurrency
ASSUME BoundsAssumption == MaxRevision \in Nat /\ MaxFaults \in Nat

VARIABLES
    stored,     \* the settings row: its revision and its settings
    workers,    \* how many subscribers of each queue poll
    applied,    \* this.applied of the registry: 0 is not registered
    gate,       \* what the service's gate was last configured with
    lastApply,  \* this.lastApply
    chain,      \* the commands behind this.mutationTail, first the running one
    cmd,        \* where each command is
    up,         \* the process runs, and its port is open
    lost,       \* history: the revision a failed recovery left, 0 for none
    faults

vars == <<stored, workers, applied, gate, lastApply, chain, cmd, up, lost, faults>>
live == <<workers, applied, gate>>

Settings == [conc: [Queues -> 0..MaxConcurrency], paused: SUBSET Queues,
             gate: 0..1, steps: BOOLEAN]
Defaults == [conc |-> [q \in Queues |-> 0], paused |-> {}, gate |-> 0,
             steps |-> FALSE]
NoApply == [status |-> "APPLIED", desired |-> 0, known |-> FALSE]
Empty == [revision |-> 0, settings |-> Defaults]

(* queue, step and service commands change one scope; a legacy one replaces*)
(* everything, from numbers as they were sent                              *)
Ops == [kind: {"concurrency"}, queue: Queues, value: 0..MaxConcurrency]
       \cup [kind: {"pause"}, queue: Queues, value: BOOLEAN]
       \cup [kind: {"step"}, value: BOOLEAN]
       \cup [kind: {"service"}, value: 0..1]
       \cup [kind: {"legacy"}, value: 0..(MaxConcurrency + 1)]
NoOp == [kind |-> "none"]
NoCommand == [phase |-> "idle", op |-> NoOp, expected |-> 0, before |-> Empty,
              after |-> Empty, off |-> {}, start |-> {}, recovering |-> FALSE,
              restored |-> FALSE]

-----------------------------------------------------------------------------
Clamp(n) == IF n < 1 THEN 1 ELSE IF n > MaxConcurrency THEN MaxConcurrency ELSE n

(* the settings a command asks for, from those it read *)
Candidate(op, settings) ==
    CASE op.kind = "concurrency" -> [settings EXCEPT !.conc[op.queue] = op.value]
      [] op.kind = "pause" ->
             [settings EXCEPT !.paused = IF op.value THEN @ \cup {op.queue}
                                         ELSE @ \ {op.queue}]
      [] op.kind = "step" -> [settings EXCEPT !.steps = op.value]
      [] op.kind = "service" -> [settings EXCEPT !.gate = op.value]
      [] op.kind = "legacy" ->
             [Defaults EXCEPT !.conc = [q \in Queues |-> Clamp(op.value)]]

Concurrency(settings, q) ==
    IF settings.conc[q] = 0 THEN DefaultConcurrency ELSE settings.conc[q]

(* how many subscribers queue q should have *)
Wanted(settings, q) ==
    IF q \in settings.paused THEN 0 ELSE Concurrency(settings, q)

(* fault: a pause alone is not taken for a change of the worker *)
ChangedConcurrency(before, after) ==
    {q \in Queues : Concurrency(before, q) # Concurrency(after, q)}

ChangedQueues(before, after) ==
    {q \in Queues : \/ Concurrency(before, q) # Concurrency(after, q)
                    \/ (q \in before.paused) # (q \in after.paused)}

(* applyState: what a snapshot of a revision says of it *)
ApplyState(revision) ==
    IF lastApply.known /\ lastApply.desired = revision THEN lastApply.status
    ELSE "APPLIED"

Fault == faults < MaxFaults /\ faults' = faults + 1

(* fault: a command does not wait for the one before it *)
AnyTurn(c) == TRUE

(* serialized: the tail of the chain is awaited, whatever became of it *)
Turn(c) == Head(chain) = c

(* fault: a command that is over keeps the next one waiting *)
EndStuck(c) ==
    /\ cmd' = [cmd EXCEPT ![c] = NoCommand]
    /\ UNCHANGED chain

(* the command, whose turn it is, is answered and the next one may run *)
End(c) ==
    /\ cmd' = [cmd EXCEPT ![c] = NoCommand]
    /\ chain' = Tail(chain)

-----------------------------------------------------------------------------
(* a command arrives, from a client that has read some earlier revision;  *)
(* a legacy one does not say which                                        *)
Send(c) ==
    /\ up /\ cmd[c].phase = "idle"
    /\ stored.revision < MaxRevision
    /\ \E op \in Ops, expected \in 0..stored.revision :
           /\ op.kind = "legacy" => expected = 0
           /\ cmd' = [cmd EXCEPT ![c] = [NoCommand EXCEPT
                       !.phase = "queued", !.op = op, !.expected = expected]]
    /\ chain' = Append(chain, c)
    /\ UNCHANGED <<stored, live, lastApply, up, lost, faults>>

(* the row is read: a stale command is refused, one that changes nothing   *)
(* is answered at once.  A second read in QueueSettings.apply repeats this.*)
Read(c) ==
    LET candidate == Candidate(cmd[c].op, stored.settings)
        stale == cmd[c].op.kind # "legacy" /\ cmd[c].expected # stored.revision
    IN  /\ cmd[c].phase = "queued" /\ Turn(c)
        /\ \/ /\ stale \/ candidate = stored.settings
              /\ End(c)
           \/ /\ ~stale /\ candidate # stored.settings
              /\ cmd' = [cmd EXCEPT ![c].phase = "persist", ![c].before = stored,
                             ![c].after = [revision |-> stored.revision + 1,
                                           settings |-> candidate]]
              /\ UNCHANGED chain
        /\ UNCHANGED <<stored, live, lastApply, up, lost, faults>>

(* persist: the desired state first, or nothing at all *)
Persist(c) ==
    /\ cmd[c].phase = "persist"
    /\ \/ /\ stored' = cmd[c].after
          /\ cmd' = [cmd EXCEPT ![c].phase = "gates", ![c].expected = 0]
          /\ UNCHANGED <<chain, faults>>
       \/ /\ Fault
          /\ End(c)
          /\ UNCHANGED stored
    /\ UNCHANGED <<live, lastApply, up, lost>>

(* lastApply once the runtime holds the candidate; what a pause released   *)
(* is resumed next, and the command answered                               *)
Published(c) ==
    /\ lastApply' = [status |-> "APPLIED", desired |-> cmd[c].after.revision,
                     known |-> TRUE]
    /\ \/ /\ cmd[c].before.settings.steps /\ ~cmd[c].after.settings.steps
          /\ cmd' = [cmd EXCEPT ![c].phase = "resume", ![c].op = NoOp,
                                ![c].off = {}, ![c].start = {}]
          /\ UNCHANGED chain
       \/ /\ cmd[c].before.settings.steps => cmd[c].after.settings.steps
          /\ End(c)

(* finishChange: the gates, and which queues are affected *)
Gates(c) ==
    LET before == cmd[c].before.settings
        after == cmd[c].after.settings
        queues == ChangedQueues(before, after)
    IN  /\ cmd[c].phase = "gates"
        /\ gate' = IF cmd[c].op.kind \in {"service", "legacy"} THEN after.gate
                   ELSE gate
        /\ \/ /\ queues = {}
              /\ Published(c)
           \/ /\ queues # {}
              /\ cmd' = [cmd EXCEPT ![c].phase = "off", ![c].op = NoOp,
                                    ![c].off = queues, ![c].start = queues]
              /\ UNCHANGED <<chain, lastApply>>
        /\ UNCHANGED <<stored, workers, applied, up, lost, faults>>

(* fault: the state that a failed recovery leaves is told of the revision  *)
(* the command was based on                                                *)
DesiredBefore(c) == cmd[c].before.revision

(* the revision the row holds after a recovery *)
Desired(c) == IF cmd[c].restored THEN cmd[c].after.revision + 1
              ELSE cmd[c].after.revision

(* compensate, once the runtime has been put back or that failed too       *)
Recovered(c, ok) ==
    /\ lastApply' = [status |-> IF ok THEN "APPLIED" ELSE "DEGRADED",
                     desired |-> Desired(c), known |-> TRUE]
    /\ lost' = IF ok THEN lost ELSE stored.revision
    /\ End(c)

(* a call of the queue failed: recovery, unless this was the recovery *)
Failed(c) ==
    \/ /\ ~cmd[c].recovering
       /\ cmd' = [cmd EXCEPT ![c].phase = "restore"]
       /\ UNCHANGED <<chain, lastApply, lost>>
    \/ /\ cmd[c].recovering
       /\ Recovered(c, FALSE)

(* reconfigure, its first half: the queue is served no more.  Callbacks    *)
(* that run go on.                                                         *)
Off(c) ==
    /\ cmd[c].phase = "off"
    /\ \E q \in cmd[c].off :
           \/ /\ workers' = [workers EXCEPT ![q] = 0]
              /\ applied' = [applied EXCEPT ![q] = 0]
              /\ cmd' = [cmd EXCEPT ![c].off = @ \ {q},
                             ![c].phase = IF cmd[c].off = {q} THEN "start" ELSE @]
              /\ UNCHANGED <<chain, lastApply, lost, faults>>
           \/ /\ Fault
              /\ Failed(c)
              /\ UNCHANGED <<workers, applied>>
    /\ UNCHANGED <<stored, gate, up>>

(* its second half, startOne: a paused queue gets no worker; a failure     *)
(* leaves the subscribers that were registered before it                   *)
Start(c) ==
    LET target == IF cmd[c].recovering THEN cmd[c].before.settings
                  ELSE cmd[c].after.settings
        last(q) == cmd[c].start = {q}
    IN  /\ cmd[c].phase = "start"
        /\ \E q \in cmd[c].start :
               \/ /\ workers' = [workers EXCEPT ![q] = Wanted(target, q)]
                  /\ applied' = [applied EXCEPT ![q] = Wanted(target, q)]
                  /\ \/ /\ ~last(q)
                        /\ cmd' = [cmd EXCEPT ![c].start = @ \ {q}]
                        /\ UNCHANGED <<chain, lastApply, lost>>
                     \/ /\ last(q) /\ ~cmd[c].recovering
                        /\ Published(c)
                        /\ UNCHANGED lost
                     \/ /\ last(q) /\ cmd[c].recovering
                        /\ Recovered(c, cmd[c].restored)
                  /\ UNCHANGED faults
               \/ /\ Fault
                  /\ \E n \in 0..MaxConcurrency :
                         /\ n < Wanted(target, q)
                         /\ workers' = [workers EXCEPT ![q] = n]
                  /\ Failed(c)
                  /\ UNCHANGED applied
        /\ UNCHANGED <<stored, gate, up>>

(* what restore() writes: the before-image as a new revision *)
BeforeImage(c) == [revision |-> stored.revision + 1,
                   settings |-> cmd[c].before.settings]

(* compensate up to the workers: the row, which may fail, then the gates *)
Restore(c) ==
    LET queues == ChangedQueues(cmd[c].before.settings, cmd[c].after.settings)
    IN  /\ cmd[c].phase = "restore"
        /\ \E ok \in BOOLEAN :
               /\ \/ ok /\ stored' = BeforeImage(c) /\ UNCHANGED faults
                  \/ ~ok /\ Fault /\ UNCHANGED stored
               /\ cmd' = [cmd EXCEPT ![c].phase = "off", ![c].recovering = TRUE,
                              ![c].restored = ok, ![c].off = queues,
                              ![c].start = queues]
        /\ gate' = cmd[c].before.settings.gate
        /\ UNCHANGED <<workers, applied, lastApply, chain, up, lost>>

(* resumeAfterChange: its failure is a warning *)
Resumed(c) ==
    /\ cmd[c].phase = "resume"
    /\ \/ UNCHANGED <<lastApply, faults>>
       \/ /\ Fault
          /\ lastApply' = [lastApply EXCEPT !.status = "APPLIED_WITH_WARNINGS"]
    /\ End(c)
    /\ UNCHANGED <<stored, live, up, lost>>

Crash ==
    /\ up /\ Fault
    /\ up' = FALSE
    /\ workers' = [q \in Queues |-> 0] /\ applied' = [q \in Queues |-> 0]
    /\ gate' = 0
    /\ lastApply' = NoApply
    /\ chain' = <<>>
    /\ cmd' = [c \in Commands |-> NoCommand]
    /\ UNCHANGED <<stored, lost>>

(* WorkerRegistry.start, before the port opens: a boot that fails is no boot *)
Boot ==
    /\ ~up
    /\ up' = TRUE
    /\ gate' = stored.settings.gate
    /\ workers' = [q \in Queues |-> Wanted(stored.settings, q)]
    /\ applied' = [q \in Queues |-> Wanted(stored.settings, q)]
    /\ lost' = 0
    /\ UNCHANGED <<stored, lastApply, chain, cmd, faults>>

-----------------------------------------------------------------------------
Init ==
    /\ stored = Empty
    /\ workers = [q \in Queues |-> 0] /\ applied = [q \in Queues |-> 0]
    /\ gate = 0
    /\ lastApply = NoApply
    /\ chain = <<>>
    /\ cmd = [c \in Commands |-> NoCommand]
    /\ up = FALSE
    /\ lost = 0 /\ faults = 0

Step(c) == \/ Read(c) \/ Persist(c) \/ Gates(c) \/ Off(c) \/ Start(c)
           \/ Restore(c) \/ Resumed(c)

Next == \/ Crash \/ Boot
        \/ \E c \in Commands : Send(c) \/ Step(c)

Spec == Init /\ [][Next]_vars

(* Every database call and every call of the queue returns or fails. *)
FairSpec == Spec /\ \A c \in Commands : WF_vars(Step(c))

-----------------------------------------------------------------------------
States == [revision: Nat, settings: Settings]

TypeOK ==
    /\ stored \in States
    /\ workers \in [Queues -> 0..MaxConcurrency]
    /\ applied \in [Queues -> 0..MaxConcurrency]
    /\ gate \in 0..1
    /\ lastApply \in [status: {"APPLIED", "APPLIED_WITH_WARNINGS", "DEGRADED"},
                      desired: Nat, known: BOOLEAN]
    /\ chain \in Seq(Commands)
    /\ cmd \in [Commands ->
                   [phase: {"idle", "queued", "persist", "gates", "off", "start",
                            "restore", "resume"},
                    op: Ops \cup {NoOp}, expected: Nat, before: States,
                    after: States, off: SUBSET Queues, start: SUBSET Queues,
                    recovering: BOOLEAN, restored: BOOLEAN]]
    /\ up \in BOOLEAN /\ lost \in Nat /\ faults \in 0..MaxFaults

RuntimeIsDesired ==
    /\ gate = stored.settings.gate
    /\ workers = [q \in Queues |-> Wanted(stored.settings, q)]
    /\ applied = workers

(* Between commands the gates and the workers are what the settings row    *)
(* says, through every failure that was recovered from, and after restarts.*)
RuntimeFollowsStored ==
    up /\ chain = <<>> /\ lost = 0 => RuntimeIsDesired

(* A recovery that failed is told by every snapshot of the revision it     *)
(* left, until that revision is replaced.                                  *)
FailedRecoveryTold ==
    up /\ lost # 0 /\ lost = stored.revision => ApplyState(lost) = "DEGRADED"

(* No write of a command covers one it has not read: what it replaces is   *)
(* the revision its sender had seen, or the one it wrote itself.           *)
NoUnreadOverwrite ==
    [][stored' # stored =>
          \E c \in Commands :
              \/ /\ cmd[c].phase = "persist"
                 /\ \/ cmd[c].op.kind = "legacy" /\ cmd[c].before = stored
                    \/ cmd[c].expected = stored.revision
              \/ cmd[c].phase = "restore" /\ cmd[c].after = stored]_vars

(* Every command is answered, whatever becomes of those before it. *)
CommandAnswered == \A c \in Commands : cmd[c].phase = "queued" ~> cmd[c].phase = "idle"

(* What the API says, and the code does not keep: an APPLIED snapshot of   *)
(* the current revision means that the runtime holds it.                   *)
AppliedIsLive ==
    up /\ chain = <<>> /\ ApplyState(stored.revision) # "DEGRADED"
        => RuntimeIsDesired
=============================================================================
