--------------------------- MODULE WholeFileReads ---------------------------
(***************************************************************************)
(* src/server/application/documents/whole-file-reads.ts: how many requests *)
(* may hold a whole file in memory at one time, and how many may wait.     *)
(*                                                                         *)
(* A waiter that release() wakes takes its slot when it is resumed, in a   *)
(* later microtask; calls made in microtasks before it come first.         *)
(***************************************************************************)
EXTENDS Integers, Sequences, FiniteSets

CONSTANTS Calls, Limit, MaxWaiting

ASSUME CallsAssumption == IsFiniteSet(Calls)
ASSUME LimitsAssumption == Limit \in Nat \ {0} /\ MaxWaiting \in Nat

VARIABLES
    inFlight,   \* this.inFlight
    waiting,    \* this.waiting
    pc          \* idle, waiting, woken (resolved, not resumed) or reading

vars == <<inFlight, waiting, pc>>

Stages == {"idle", "waiting", "woken", "reading"}
At(stage) == {c \in Calls : pc[c] = stage}

Init == inFlight = 0 /\ waiting = <<>> /\ pc = [c \in Calls |-> "idle"]

(* acquire() up to its await; a call over the depth is refused with 429    *)
Acquire(c) ==
    /\ pc[c] = "idle"
    /\ \/ /\ waiting = <<>> /\ inFlight < Limit
          /\ inFlight' = inFlight + 1
          /\ pc' = [pc EXCEPT ![c] = "reading"]
          /\ UNCHANGED waiting
       \/ /\ waiting # <<>> \/ inFlight >= Limit
          /\ Len(waiting) < MaxWaiting
          /\ waiting' = Append(waiting, c)
          /\ pc' = [pc EXCEPT ![c] = "waiting"]
          /\ UNCHANGED inFlight

(* fault: the slot is taken for the waiter when it is woken, not here *)
ResumeUncounted(c) ==
    /\ pc[c] = "woken"
    /\ pc' = [pc EXCEPT ![c] = "reading"]
    /\ UNCHANGED <<inFlight, waiting>>

(* acquire() after its await *)
Resume(c) ==
    /\ pc[c] = "woken"
    /\ inFlight' = inFlight + 1
    /\ pc' = [pc EXCEPT ![c] = "reading"]
    /\ UNCHANGED waiting

(* fault: only the read that empties the gate wakes a waiter *)
ReleaseLast(c) ==
    /\ pc[c] = "reading"
    /\ inFlight' = inFlight - 1
    /\ \/ /\ waiting = <<>> \/ inFlight > 1
          /\ pc' = [pc EXCEPT ![c] = "idle"]
          /\ UNCHANGED waiting
       \/ /\ waiting # <<>> /\ inFlight = 1
          /\ pc' = [pc EXCEPT ![c] = "idle", ![Head(waiting)] = "woken"]
          /\ waiting' = Tail(waiting)

(* fault: the newest waiter is woken *)
ReleaseNewest(c) ==
    /\ pc[c] = "reading"
    /\ inFlight' = inFlight - 1
    /\ \/ /\ waiting = <<>>
          /\ pc' = [pc EXCEPT ![c] = "idle"]
          /\ UNCHANGED waiting
       \/ /\ waiting # <<>>
          /\ pc' = [pc EXCEPT ![c] = "idle",
                             ![waiting[Len(waiting)]] = "woken"]
          /\ waiting' = SubSeq(waiting, 1, Len(waiting) - 1)

(* run()'s finally: the slot is given back and the first waiter is woken   *)
Release(c) ==
    /\ pc[c] = "reading"
    /\ inFlight' = inFlight - 1
    /\ \/ /\ waiting = <<>>
          /\ pc' = [pc EXCEPT ![c] = "idle"]
          /\ UNCHANGED waiting
       \/ /\ waiting # <<>>
          /\ pc' = [pc EXCEPT ![c] = "idle", ![Head(waiting)] = "woken"]
          /\ waiting' = Tail(waiting)

Next == \E c \in Calls : Acquire(c) \/ Resume(c) \/ Release(c)

Spec == Init /\ [][Next]_vars

(* A microtask runs, and a read ends: the work is bounded by its caller.   *)
FairSpec == Spec /\ \A c \in Calls : WF_vars(Resume(c)) /\ WF_vars(Release(c))

-----------------------------------------------------------------------------
TypeOK ==
    /\ inFlight \in Nat
    /\ waiting \in Seq(Calls)
    /\ pc \in [Calls -> Stages]

(* A call waits only while enough others read, or are about to, to wake it *)
(* in the end: no call is left in a queue nobody serves.                   *)
QueueIsServed == waiting # <<>> => inFlight + Cardinality(At("woken")) >= Limit

(* The counter is the number of calls that hold a file. *)
CounterIsReaders == inFlight = Cardinality(At("reading"))

(* Every call that waits reads in the end. *)
WaiterReads == \A c \in Calls : pc[c] = "waiting" ~> pc[c] = "reading"

(* No more calls hold a file at one time than the limit. *)
ReadsWithinLimit == Cardinality(At("reading")) <= Limit
=============================================================================
