--------------------------- MODULE WorkerRegistry ---------------------------
(***************************************************************************)
(* The workers of one queue (infrastructure/queue/worker-registry.ts): the *)
(* subscribers that poll pg-boss, one job at a time each, and the slots    *)
(* that all of them share.  A reconfiguration stops the subscribers from   *)
(* polling, without waiting for the callbacks they are in, and registers   *)
(* new ones; old and new run side by side until the old have drained.      *)
(***************************************************************************)
EXTENDS Integers, Sequences, FiniteSets

CONSTANTS
    Subs,            \* subscribers that can exist at one time
    MaxConcurrency,  \* QUEUE_CONCURRENCY_MAX
    MaxFaults        \* bound on the calls of pg-boss that fail

ASSUME SubsAssumption == IsFiniteSet(Subs)
ASSUME BoundsAssumption == MaxConcurrency \in Nat \ {0} /\ MaxFaults \in Nat

VARIABLES
    limit,     \* WorkerSlots.limit
    active,    \* WorkerSlots.active
    waiting,   \* WorkerSlots.waiting, as the subscribers whose callback waits
    sub,       \* where each subscriber is
    stopped,   \* the subscribers that offWork has told to poll no more
    applied,   \* this.applied of the queue, 0 when it has none
    change,    \* the reconfiguration in progress: its target, how many
               \* subscribers it has still to register, and how far it is
    settled,   \* history: the last reconfiguration did not throw
    faults

vars == <<limit, active, waiting, sub, stopped, applied, change,
          settled, faults>>
slotVars == <<limit, active, waiting>>

Stages == {"none", "polling", "waiting", "working"}
Idle == [phase |-> "idle", target |-> 0, left |-> 0]

Polls(s) == sub[s] # "none" /\ s \notin stopped
Working == {s \in Subs : sub[s] = "working"}

-----------------------------------------------------------------------------
(* fault: the callbacks of another generation are not counted *)
RoomOfGeneration(held, lim, queue) ==
    LET mine == held - Cardinality(Working \cap stopped)
    IN  IF mine >= lim THEN 0
        ELSE IF lim - mine < Len(queue) THEN lim - mine ELSE Len(queue)

Room(held, lim, queue) ==
    IF held >= lim THEN 0
    ELSE IF lim - held < Len(queue) THEN lim - held ELSE Len(queue)

(* fault: the slot is counted when the callback goes on *)
AdmitUncounted(held, lim, queue, stage) ==
    LET n == Room(held, lim, queue)
    IN  /\ active' = held
        /\ waiting' = SubSeq(queue, n + 1, Len(queue))
        /\ sub' = [s \in Subs |-> IF \E i \in 1..n : queue[i] = s
                                  THEN "working" ELSE stage[s]]

(* admit(), with the slots and the subscribers as they are before it *)
Admit(held, lim, queue, stage) ==
    LET n == Room(held, lim, queue)
    IN  /\ active' = held + n
        /\ waiting' = SubSeq(queue, n + 1, Len(queue))
        /\ sub' = [s \in Subs |-> IF \E i \in 1..n : queue[i] = s
                                  THEN "working" ELSE stage[s]]

(* a poll brings a job, whose callback asks for a slot *)
Fetch(s) ==
    /\ sub[s] = "polling"
    /\ Admit(active, limit, Append(waiting, s), [sub EXCEPT ![s] = "waiting"])
    /\ UNCHANGED <<limit, stopped, applied, change, settled, faults>>

(* fault: the slot is given back, and nobody let in *)
DoneSilent(s) ==
    /\ sub[s] = "working"
    /\ active' = active - 1
    /\ sub' = [sub EXCEPT ![s] = IF s \in stopped THEN "none" ELSE "polling"]
    /\ stopped' = stopped \ {s}
    /\ UNCHANGED <<limit, waiting, applied, change, settled, faults>>

(* runOne is over, well or badly: the subscriber polls again if it may *)
Done(s) ==
    /\ sub[s] = "working"
    /\ Admit(active - 1, limit, waiting,
             [sub EXCEPT ![s] = IF s \in stopped THEN "none" ELSE "polling"])
    /\ stopped' = stopped \ {s}
    /\ UNCHANGED <<limit, applied, change, settled, faults>>

(* a call of reconfigure, 0 for a pause *)
Reconfigure ==
    /\ change = Idle
    /\ \E c \in 0..MaxConcurrency :
           change' = [phase |-> "off", target |-> c, left |-> 0]
    /\ settled' = TRUE
    /\ UNCHANGED <<slotVars, sub, stopped, applied, faults>>

(* a call of pg-boss rejects: reconfigure throws, leaving what it has done *)
Throw ==
    /\ change # Idle
    /\ faults < MaxFaults /\ faults' = faults + 1
    /\ change' = Idle
    /\ settled' = FALSE
    /\ UNCHANGED <<slotVars, sub, stopped, applied>>

(* fault: a queue that is not registered is not stopped *)
OffWorkRegistered ==
    /\ change.phase = "off"
    /\ \/ /\ applied # 0
          /\ sub' = [s \in Subs |-> IF sub[s] = "polling" THEN "none" ELSE sub[s]]
          /\ stopped' = {s \in Subs : sub[s] \in {"waiting", "working"}}
       \/ /\ applied = 0
          /\ UNCHANGED <<sub, stopped>>
    /\ applied' = 0
    /\ change' = [change EXCEPT !.phase = "start"]
    /\ UNCHANGED <<slotVars, settled, faults>>

(* boss.offWork: every subscriber of the queue, whoever registered it *)
OffWork ==
    /\ change.phase = "off"
    /\ sub' = [s \in Subs |-> IF sub[s] = "polling" THEN "none" ELSE sub[s]]
    /\ stopped' = {s \in Subs : sub[s] \in {"waiting", "working"}}
    /\ applied' = 0
    /\ change' = [change EXCEPT !.phase = "start"]
    /\ UNCHANGED <<slotVars, settled, faults>>

(* fault: a wider limit lets nobody in *)
StartSilent ==
    /\ change.phase = "start"
    /\ IF change.target = 0
       THEN change' = Idle /\ UNCHANGED limit
       ELSE /\ limit' = change.target
            /\ change' = [change EXCEPT !.phase = "work", !.left = change.target]
    /\ UNCHANGED <<active, waiting, sub, stopped, applied, settled, faults>>

(* startOne up to its first await: a paused queue is left without, for     *)
(* another the shared slots are resized                                    *)
Start ==
    /\ change.phase = "start"
    /\ \/ /\ change.target = 0
          /\ change' = Idle
          /\ UNCHANGED <<slotVars, sub>>
       \/ /\ change.target # 0
          /\ limit' = change.target
          /\ Admit(active, change.target, waiting, sub)
          /\ change' = [change EXCEPT !.phase = "work", !.left = change.target]
    /\ UNCHANGED <<stopped, applied, settled, faults>>

(* boss.work, once for each subscriber *)
Work ==
    /\ change.phase = "work"
    /\ \E s \in Subs :
           /\ sub[s] = "none"
           /\ sub' = [sub EXCEPT ![s] = "polling"]
    /\ change' = IF change.left = 1 THEN Idle
                 ELSE [change EXCEPT !.left = @ - 1]
    /\ applied' = IF change.left = 1 THEN change.target ELSE applied
    /\ UNCHANGED <<slotVars, stopped, settled, faults>>

-----------------------------------------------------------------------------
Init ==
    /\ limit = 1 /\ active = 0 /\ waiting = <<>>
    /\ sub = [s \in Subs |-> "none"] /\ stopped = {}
    /\ applied = 0 /\ change = Idle /\ settled = TRUE /\ faults = 0

Next ==
    \/ \E s \in Subs : Fetch(s) \/ Done(s)
    \/ Reconfigure \/ Throw \/ OffWork \/ Start \/ Work

Spec == Init /\ [][Next]_vars

(* Jobs end, by their own timeouts if need be. *)
FairSpec == Spec /\ \A s \in Subs : WF_vars(Done(s))

-----------------------------------------------------------------------------
TypeOK ==
    /\ limit \in 1..MaxConcurrency
    /\ active \in Nat
    /\ waiting \in Seq(Subs)
    /\ sub \in [Subs -> Stages]
    /\ stopped \subseteq Subs
    /\ applied \in 0..MaxConcurrency
    /\ change \in [phase: {"idle", "off", "start", "work"},
                   target: 0..MaxConcurrency, left: 0..MaxConcurrency]
    /\ settled \in BOOLEAN /\ faults \in 0..MaxFaults

(* The counter is the number of jobs being worked on, of every generation. *)
SlotsAreJobs == active = Cardinality(Working)

(* A fetched job waits only behind a full set of running ones, which will  *)
(* let it in: no reconfiguration strands one between two generations.      *)
NobodyStranded == waiting # <<>> => active >= limit

(* A registered queue has exactly the subscribers its setting says, and a  *)
(* paused one none, also after attempts that failed half way.              *)
SubscribersAreApplied ==
    change = Idle /\ settled =>
        Cardinality({s \in Subs : Polls(s)}) = applied

(* No job starts while as many as the limit run, old and new together. *)
ConcurrencyHeld ==
    [][\A s \in Subs : sub[s] # "working" /\ sub'[s] = "working"
           => Cardinality(Working') <= limit']_vars

(* A job that was fetched is worked on in the end. *)
FetchedIsWorked == \A s \in Subs : sub[s] = "waiting" ~> sub[s] = "working"
=============================================================================
