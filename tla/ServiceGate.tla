---------------------------- MODULE ServiceGate ----------------------------
(***************************************************************************)
(* One gate of src/server/application/queue/service-gate.ts: the FIFO      *)
(* semaphore, with a cooldown, in front of one external service; the       *)
(* breaker that refuses calls after the service was unreachable; and the   *)
(* hold that a provider's Retry-After puts on the queue.                   *)
(*                                                                         *)
(* Time is relative: a deadline is the number of ticks left until it, so   *)
(* the state does not grow with the clock.  A unit is one call of run();   *)
(* it is one of Units from its call until its slot is free again.          *)
(*                                                                         *)
(* The event loop is kept: a promise resolved by admit() or by the end of  *)
(* a call is continued in a microtask, before any timer, but other         *)
(* microtasks (calls, answers, configure) may run first.                   *)
(***************************************************************************)
EXTENDS Integers, Sequences, FiniteSets

CONSTANTS
    Units,               \* calls of run() that can exist at one time
    MaxConcurrency,      \* bound on the configured concurrency
    MaxCooldown,         \* bound on the configured cooldown, in ticks
    UNAVAILABLE_HOLD,    \* how long the breaker refuses, in ticks
    RETRY_AFTER_SAFETY,  \* a deadline this close is taken literally
    MAX_RETRY_AFTER      \* the furthest deadline the gate accepts

ASSUME UnitsAssumption == IsFiniteSet(Units)
ASSUME BoundsAssumption == MaxConcurrency \in Nat /\ MaxCooldown \in Nat
ASSUME TimesAssumption ==
    /\ UNAVAILABLE_HOLD \in Nat \ {0}
    /\ RETRY_AFTER_SAFETY \in Nat \ {0}
    /\ MAX_RETRY_AFTER \in Nat
    /\ RETRY_AFTER_SAFETY <= MAX_RETRY_AFTER

VARIABLES
    concurrency,   \* this.concurrency: 0 is no gate at all
    cooldown,      \* this.cooldownMs
    inFlight,      \* this.inFlight, the counter
    holdLeft,      \* this.unavailableUntil - now, at least 0
    throttleLeft,  \* this.throttledUntil - now, at least 0
    timerLeft,     \* this.throttleTimer: ticks left, or NoTimer
    waiting,       \* this.waiting, in arrival order
    pc,            \* where each unit is
    coolLeft,      \* ticks left of the setTimeout that frees a unit's slot
    providerLeft   \* history: the latest accepted provider deadline - now

vars == <<concurrency, cooldown, inFlight, holdLeft, throttleLeft, timerLeft,
          waiting, pc, coolLeft, providerLeft>>
settings == <<concurrency, cooldown>>
deadlines == <<holdLeft, throttleLeft, timerLeft, providerLeft>>

NoTimer == -1

(* idle: not called, or over.  admitted: slot taken, run() not resumed.    *)
(* gated and ungated: dialing, with and without a slot.  answered: the     *)
(* work is over, its finally block has not run.  cooling: slot held shut.  *)
Stages == {"idle", "waiting", "admitted", "gated", "ungated", "answered",
           "cooling"}
SlotStages == {"admitted", "gated", "answered", "cooling"}
SlotHolders == {u \in Units : pc[u] \in SlotStages}

-----------------------------------------------------------------------------
(* fault: half-way is always enough *)
MidpointResume(d) == d \div 2

(* safeRetryAfterResumeAt, with the provider's deadline d ticks away *)
SafeResume(d) ==
    LET midpoint == d \div 2
        lastSafeHour == d - RETRY_AFTER_SAFETY
    IN  IF d <= RETRY_AFTER_SAFETY THEN d
        ELSE IF midpoint >= lastSafeHour THEN midpoint ELSE lastSafeHour

IsThrottled == throttleLeft > 0

Unavailable == holdLeft > 0

(* how many heads of a queue q fit when `held' slots of `limit' are taken *)
Room(q, held, limit) ==
    IF limit = 0 THEN Len(q)
    ELSE IF held >= limit THEN 0
    ELSE IF limit - held >= Len(q) THEN Len(q) ELSE limit - held

(* fault: a freed slot lets the next one in during a provider's hold *)
AdmitThrottled(stage, held, limit) ==
    LET n == Room(waiting, held, limit)
    IN  /\ inFlight' = held + n
        /\ waiting' = SubSeq(waiting, n + 1, Len(waiting))
        /\ pc' = [u \in Units |-> IF \E i \in 1..n : waiting[i] = u
                                  THEN "admitted" ELSE stage[u]]

(* admit(), run with the counter at `held' and the other units at `stage'  *)
Admit(stage, held, limit) ==
    LET n == IF IsThrottled THEN 0 ELSE Room(waiting, held, limit)
    IN  /\ inFlight' = held + n
        /\ waiting' = SubSeq(waiting, n + 1, Len(waiting))
        /\ pc' = [u \in Units |-> IF \E i \in 1..n : waiting[i] = u
                                  THEN "admitted" ELSE stage[u]]

(* fault: a freed slot goes to the next in line, however narrow the gate   *)
(* has become                                                              *)
FreeHandsOver(u) ==
    Admit([pc EXCEPT ![u] = "idle"], inFlight - 1,
          IF concurrency > 0 /\ inFlight > concurrency THEN inFlight
          ELSE concurrency)

Free(u) == Admit([pc EXCEPT ![u] = "idle"], inFlight - 1, concurrency)

(* release(): the slot is freed now, or after the configured cooldown *)
Release(u) ==
    \/ /\ concurrency = 0 \/ cooldown = 0
       /\ Free(u)
       /\ UNCHANGED coolLeft
    \/ /\ concurrency > 0 /\ cooldown > 0
       /\ pc' = [pc EXCEPT ![u] = "cooling"]
       /\ coolLeft' = [coolLeft EXCEPT ![u] = cooldown]
       /\ UNCHANGED <<inFlight, waiting>>

-----------------------------------------------------------------------------
Init ==
    /\ concurrency = 0 /\ cooldown = 0 /\ inFlight = 0
    /\ holdLeft = 0 /\ throttleLeft = 0 /\ timerLeft = NoTimer
    /\ waiting = <<>>
    /\ pc = [u \in Units |-> "idle"]
    /\ coolLeft = [u \in Units |-> 0]
    /\ providerLeft = 0

(* fault: nobody is let in by a wider setting *)
ConfigureSilent ==
    /\ concurrency' \in 0..MaxConcurrency
    /\ cooldown' \in 0..MaxCooldown
    /\ UNCHANGED <<inFlight, waiting, pc, deadlines, coolLeft>>

(* configure(): the new settings, then everyone the gate can now hold *)
Configure ==
    /\ \E c \in 0..MaxConcurrency, d \in 0..MaxCooldown :
           /\ <<c, d>> # settings
           /\ concurrency' = c
           /\ cooldown' = d
           /\ Admit(pc, inFlight, c)
    /\ UNCHANGED <<deadlines, coolLeft>>

(* fault: a free slot is taken past the queue *)
CallOvertaking(u) ==
    /\ pc[u] = "idle" /\ ~Unavailable
    /\ \/ /\ concurrency = 0 /\ ~IsThrottled
          /\ pc' = [pc EXCEPT ![u] = "ungated"]
          /\ UNCHANGED <<inFlight, waiting>>
       \/ /\ concurrency > 0 /\ ~IsThrottled /\ inFlight < concurrency
          /\ inFlight' = inFlight + 1
          /\ pc' = [pc EXCEPT ![u] = "admitted"]
          /\ UNCHANGED waiting
       \/ /\ IsThrottled \/ (concurrency > 0 /\ inFlight >= concurrency)
          /\ waiting' = Append(waiting, u)
          /\ pc' = [pc EXCEPT ![u] = "waiting"]
          /\ UNCHANGED inFlight
    /\ UNCHANGED <<settings, deadlines, coolLeft>>

(* run() up to its first await.  A call refused by the breaker changes     *)
(* nothing and is not a step.                                              *)
Call(u) ==
    /\ pc[u] = "idle"
    /\ ~Unavailable
    /\ \/ /\ concurrency = 0 /\ ~IsThrottled /\ waiting = <<>>
          /\ pc' = [pc EXCEPT ![u] = "ungated"]
          /\ UNCHANGED <<inFlight, waiting>>
       \/ /\ concurrency > 0 /\ ~IsThrottled /\ waiting = <<>>
          /\ inFlight < concurrency
          /\ inFlight' = inFlight + 1
          /\ pc' = [pc EXCEPT ![u] = "admitted"]
          /\ UNCHANGED waiting
       \/ /\ \/ IsThrottled
             \/ waiting # <<>>
             \/ concurrency > 0 /\ inFlight >= concurrency
          /\ waiting' = Append(waiting, u)
          /\ pc' = [pc EXCEPT ![u] = "waiting"]
          /\ UNCHANGED inFlight
    /\ UNCHANGED <<settings, deadlines, coolLeft>>

(* fault: a unit refused after its wait keeps its slot *)
ResumeLeaky(u) ==
    /\ pc[u] = "admitted"
    /\ pc' = [pc EXCEPT ![u] = IF Unavailable THEN "idle" ELSE "gated"]
    /\ UNCHANGED <<settings, deadlines, inFlight, waiting, coolLeft>>

(* fault: the breaker is not asked again after the wait *)
ResumeUnchecked(u) ==
    /\ pc[u] = "admitted"
    /\ pc' = [pc EXCEPT ![u] = "gated"]
    /\ UNCHANGED <<settings, deadlines, inFlight, waiting, coolLeft>>

(* run() after acquire(): the breaker is asked again on the far side *)
Resume(u) ==
    /\ pc[u] = "admitted"
    /\ \/ /\ Unavailable
          /\ Release(u)
       \/ /\ ~Unavailable
          /\ pc' = [pc EXCEPT ![u] = "gated"]
          /\ UNCHANGED <<inFlight, waiting, coolLeft>>
    /\ UNCHANGED <<settings, deadlines>>

(* the end of the unit's work: its slot is released in a later microtask *)
WorkOver(u) ==
    /\ pc[u] \in {"gated", "ungated"}
    /\ pc' = [pc EXCEPT ![u] = IF pc[u] = "gated" THEN "answered" ELSE "idle"]
    /\ UNCHANGED <<settings, inFlight, waiting, coolLeft>>

(* success, or an error that is about the document and not the service *)
Answered(u) ==
    /\ WorkOver(u)
    /\ UNCHANGED deadlines

(* ServiceUnavailableError: the breaker is armed *)
Unreachable(u) ==
    /\ WorkOver(u)
    /\ holdLeft' = UNAVAILABLE_HOLD
    /\ UNCHANGED <<throttleLeft, timerLeft, providerLeft>>

(* ServiceThrottledError with a deadline d away: a deadline in range holds *)
(* the queue, unless an existing hold is later; any other arms the breaker *)
Throttled(u) ==
    /\ WorkOver(u)
    /\ \E d \in 0..(MAX_RETRY_AFTER + 1) :
           \/ /\ d \in 1..MAX_RETRY_AFTER
              /\ providerLeft' = IF d > providerLeft THEN d ELSE providerLeft
              /\ \/ /\ SafeResume(d) > throttleLeft
                    /\ throttleLeft' = SafeResume(d)
                    /\ timerLeft' = SafeResume(d)
                 \/ /\ SafeResume(d) <= throttleLeft
                    /\ UNCHANGED <<throttleLeft, timerLeft>>
              /\ UNCHANGED holdLeft
           \/ /\ d \notin 1..MAX_RETRY_AFTER
              /\ holdLeft' = UNAVAILABLE_HOLD
              /\ UNCHANGED <<throttleLeft, timerLeft, providerLeft>>

(* the finally block of run() *)
Finally(u) ==
    /\ pc[u] = "answered"
    /\ Release(u)
    /\ UNCHANGED <<settings, deadlines>>

MicrotasksDrained == \A u \in Units : pc[u] \notin {"admitted", "answered"}

(* the timer of release() *)
CooldownOver(u) ==
    /\ MicrotasksDrained
    /\ pc[u] = "cooling" /\ coolLeft[u] = 0
    /\ Free(u)
    /\ UNCHANGED <<settings, deadlines, coolLeft>>

(* fault: a timer that comes early is not armed again *)
ThrottleTimerOnce ==
    /\ MicrotasksDrained
    /\ timerLeft = 0
    /\ timerLeft' = NoTimer
    /\ \/ IsThrottled /\ UNCHANGED <<inFlight, waiting, pc>>
       \/ ~IsThrottled /\ Admit(pc, inFlight, concurrency)
    /\ UNCHANGED <<settings, holdLeft, throttleLeft, coolLeft, providerLeft>>

(* the timer of scheduleResume(): re-armed when the clock says it is early *)
ThrottleTimer ==
    /\ MicrotasksDrained
    /\ timerLeft = 0
    /\ \/ /\ IsThrottled
          /\ timerLeft' = throttleLeft
          /\ UNCHANGED <<inFlight, waiting, pc>>
       \/ /\ ~IsThrottled
          /\ timerLeft' = NoTimer
          /\ Admit(pc, inFlight, concurrency)
    /\ UNCHANGED <<settings, holdLeft, throttleLeft, coolLeft, providerLeft>>

Less(n) == IF n > 0 THEN n - 1 ELSE n

(* time passes; a timer that is due may fire late *)
Tick ==
    /\ MicrotasksDrained
    /\ holdLeft' = Less(holdLeft)
    /\ throttleLeft' = Less(throttleLeft)
    /\ timerLeft' = Less(timerLeft)
    /\ providerLeft' = Less(providerLeft)
    /\ coolLeft' = [u \in Units |-> Less(coolLeft[u])]
    /\ UNCHANGED <<settings, inFlight, waiting, pc>>

(* the platform's timers run ahead of the clock the gate reads *)
Drift ==
    /\ MicrotasksDrained
    /\ timerLeft > 0
    /\ timerLeft' = timerLeft - 1
    /\ UNCHANGED <<settings, inFlight, holdLeft, throttleLeft, waiting, pc,
                   coolLeft, providerLeft>>

Next ==
    \/ Configure \/ ThrottleTimer \/ Tick \/ Drift
    \/ \E u \in Units : \/ Call(u) \/ Resume(u)
                        \/ Answered(u) \/ Unreachable(u) \/ Throttled(u)
                        \/ Finally(u) \/ CooldownOver(u)

Spec == Init /\ [][Next]_vars

(* Timers, the clock and the microtask queue go on, and every call to a    *)
(* service ends, by its own timeout if need be.  Nothing makes a new call, *)
(* a new setting or a drift happen.                                        *)
Fairness ==
    /\ WF_vars(ThrottleTimer) /\ WF_vars(Tick)
    /\ \A u \in Units :
           /\ WF_vars(Resume(u)) /\ WF_vars(Finally(u))
           /\ WF_vars(CooldownOver(u))
           /\ WF_vars(Answered(u) \/ Unreachable(u) \/ Throttled(u))

FairSpec == Spec /\ Fairness

-----------------------------------------------------------------------------
TypeOK ==
    /\ concurrency \in Nat /\ cooldown \in Nat
    /\ inFlight \in Nat
    /\ holdLeft \in Nat /\ throttleLeft \in Nat /\ providerLeft \in Nat
    /\ timerLeft \in Nat \cup {NoTimer}
    /\ waiting \in Seq(Units)
    /\ pc \in [Units -> Stages]
    /\ coolLeft \in [Units -> Nat]

(* The counter is the number of slots really held: a unit that got in      *)
(* ungated never decrements it, and no path of run() frees a slot twice or *)
(* keeps one, whatever configure() did to the gate meanwhile.              *)
SlotAccounting == inFlight = Cardinality(SlotHolders)

(* The queue holds each waiting unit exactly once, and nobody else. *)
QueueMatchesStages ==
    /\ \A i, j \in 1..Len(waiting) : waiting[i] = waiting[j] => i = j
    /\ \A u \in Units : pc[u] = "waiting" <=>
                            \E i \in 1..Len(waiting) : waiting[i] = u

(* A unit waits only while something that is sure to call admit() again is *)
(* pending: the timer of a provider hold, or a full gate's slot holders.   *)
NoLostWakeup ==
    waiting # <<>> => \/ timerLeft # NoTimer
                      \/ concurrency > 0 /\ inFlight >= concurrency

(* The queue is held at least until a safety margin before the latest      *)
(* deadline a provider has asked for, and a hold always has its timer.     *)
ProviderDeadlineKept ==
    /\ providerLeft <= throttleLeft + RETRY_AFTER_SAFETY
    /\ IsThrottled => timerLeft # NoTimer

(* Units that get past the gate in this step *)
GetsIn(u) == /\ pc[u] \in {"idle", "waiting"}
             /\ pc'[u] \in {"admitted", "ungated"}

(* Nobody overtakes: a unit gets in only when every unit that stays in the *)
(* queue arrived after it.                                                 *)
NoOvertaking ==
    [][\A u, v \in Units :
          GetsIn(u) /\ pc[v] = "waiting" /\ pc'[v] = "waiting" =>
              \E i, j \in 1..Len(waiting) :
                  waiting[i] = u /\ waiting[j] = v /\ i < j]_vars

(* Whoever gets in leaves the gate within the limit of that moment, also   *)
(* when the slot is one that another unit has just freed: a limit lowered  *)
(* below the slots taken (or none at all before it) is waited for, not     *)
(* passed on.                                                              *)
LimitRespected ==
    [][\A u \in Units : GetsIn(u) /\ concurrency' > 0
                            => inFlight' <= concurrency']_vars

(* Nobody gets in during a provider hold, nor earlier than the safety      *)
(* margin before the deadline the provider gave.                           *)
HoldRespected ==
    [][\A u \in Units : GetsIn(u) =>
           ~IsThrottled /\ providerLeft <= RETRY_AFTER_SAFETY]_vars

(* No unit dials while the breaker refuses, however it had waited. *)
BreakerRespected ==
    [][\A u \in Units :
          pc[u] \notin {"gated", "ungated"} /\ pc'[u] \in {"gated", "ungated"}
              => ~Unavailable]_vars

(* Every unit that waits is let through in the end, although providers may *)
(* go on throttling and an operator may go on changing the settings.       *)
WaiterServed == \A u \in Units : pc[u] = "waiting" ~> pc[u] # "waiting"
=============================================================================
