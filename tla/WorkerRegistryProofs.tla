------------------------ MODULE WorkerRegistryProofs ------------------------
(***************************************************************************)
(* What the workers of one queue promise for any number of subscribers,    *)
(* any setting and any failures of pg-boss.  Two arguments: the counter of *)
(* the shared slots is the number of running jobs, because the queue names *)
(* each callback that waits once (QueueIsExact); and a reconfiguration     *)
(* that ends well leaves the subscribers it was asked for, because it      *)
(* starts from none and counts those it has still to register              *)
(* (ChangeProgress).                                                       *)
(***************************************************************************)
EXTENDS WorkerRegistry, FiniteSetTheorems, FunctionTheorems, SequenceTheorems, TLAPS

(* n members of a queue, none of them among the holders, are n more: this  *)
(* is why a gate may count the units it lets in instead of the holders.    *)
LEMMA HeadsCount ==
    \A S, q, H, U : \A n \in 0..Len(q) :
        /\ IsFiniteSet(S) /\ q \in Seq(S)
        /\ H \subseteq S /\ U \subseteq S
        /\ \A i \in 1..n : q[i] \notin H
        /\ \A i, j \in 1..n : q[i] = q[j] => i = j
        /\ \A x \in S : x \in U <=> x \in H \/ \E i \in 1..n : q[i] = x
        => Cardinality(U) = Cardinality(H) + n
<1> SUFFICES ASSUME NEW S, NEW q, NEW H, NEW U, NEW n \in 0..Len(q),
                    IsFiniteSet(S), q \in Seq(S), H \subseteq S, U \subseteq S,
                    \A i \in 1..n : q[i] \notin H,
                    \A i, j \in 1..n : q[i] = q[j] => i = j,
                    \A x \in S : x \in U <=> x \in H \/ \E i \in 1..n : q[i] = x
             PROVE  Cardinality(U) = Cardinality(H) + n
  OBVIOUS
<1> DEFINE T == {q[i] : i \in 1..n}
           f == [i \in 1..n |-> q[i]]
<1>1. n \in Nat /\ IsFiniteSet(H) /\ \A i \in 1..n : q[i] \in S
  BY LenProperties, ElementOfSeq, FS_Subset
<1>2. U = H \cup T /\ H \cap T = {}
  BY <1>1
<1>3. f \in Bijection(1..n, T)
  <2>1. f \in [1..n -> T] /\ \A t \in T : \E i \in 1..n : f[i] = t
    OBVIOUS
  <2>2. \A i, j \in 1..n : f[i] = f[j] => i = j
    OBVIOUS
  <2> HIDE DEF f, T
  <2> QED BY <2>1, <2>2, Fun_IsBij
<1> HIDE DEF f, T
<1>4. Cardinality(T) = n /\ IsFiniteSet(T)
  BY <1>1, <1>3, FS_CountingElements, FS_Bijection, FS_Interval DEF ExistsBijection
<1>5. Cardinality(U) = Cardinality(H) + Cardinality(T) - Cardinality(H \cap T)
  BY <1>1, <1>2, <1>4, FS_Union
<1>6. Cardinality(H) \in Nat /\ Cardinality(H \cap T) = 0
  BY <1>1, <1>2, FS_EmptySet, FS_CardinalityType
<1> QED BY <1>1, <1>4, <1>5, <1>6

(* What is left of a queue when its first n members are let in. *)
LEMMA RestOfQueue ==
    ASSUME NEW S, NEW q \in Seq(S), NEW n \in 0..Len(q)
    PROVE  LET rest == SubSeq(q, n + 1, Len(q))
           IN  /\ rest \in Seq(S)
               /\ Len(rest) = Len(q) - n
               /\ \A i \in 1..Len(rest) : rest[i] = q[n + i]
<1>1. Len(q) \in Nat /\ n \in Nat /\ n <= Len(q) /\ \A i \in (n + 1)..Len(q) : q[i] \in S
  BY LenProperties, ElementOfSeq
<1>2. /\ SubSeq(q, n + 1, Len(q)) \in Seq(S)
      /\ Len(SubSeq(q, n + 1, Len(q))) = Len(q) - n
      /\ \A i \in 1..(Len(q) - n) : SubSeq(q, n + 1, Len(q))[i] = q[(n + 1) + i - 1]
  BY <1>1, SubSeqProperties
<1> QED BY <1>1, <1>2

(* The queue names every callback that waits once, and nobody else. *)
QueueIsExact ==
    /\ \A i, j \in 1..Len(waiting) : waiting[i] = waiting[j] => i = j
    /\ \A s \in Subs : sub[s] = "waiting" <=>
                           \E i \in 1..Len(waiting) : waiting[i] = s

Pollers == {s \in Subs : Polls(s)}

(* How many subscribers poll at each point of a reconfiguration. *)
ChangeProgress ==
    /\ \A s \in stopped : sub[s] \in {"waiting", "working"}
    /\ change.phase = "idle" => change = Idle
    /\ change.phase = "start" => Cardinality(Pollers) = 0 /\ applied = 0
    /\ change.phase = "work" =>
           change.left > 0 /\ Cardinality(Pollers) = change.target - change.left

IInv == TypeOK /\ SlotsAreJobs /\ QueueIsExact /\ NobodyStranded
        /\ ChangeProgress /\ SubscribersAreApplied

(* The parts about the slots, and the parts about the subscribers. *)
SlotsInv == /\ active \in Nat /\ waiting \in Seq(Subs) /\ sub \in [Subs -> Stages]
            /\ limit \in 1..MaxConcurrency
            /\ SlotsAreJobs /\ QueueIsExact /\ NobodyStranded
ChangeInv == /\ stopped \subseteq Subs /\ applied \in 0..MaxConcurrency
             /\ change \in [phase: {"idle", "off", "start", "work"},
                            target: 0..MaxConcurrency, left: 0..MaxConcurrency]
             /\ settled \in BOOLEAN /\ faults \in 0..MaxFaults
             /\ ChangeProgress /\ SubscribersAreApplied

LEMMA Parts == /\ IInv <=> SlotsInv /\ ChangeInv
               /\ IInv' <=> SlotsInv' /\ ChangeInv'
<1> QED BY DEF IInv, TypeOK, SlotsInv, ChangeInv

-----------------------------------------------------------------------------
(* The subscribers of a kind are finitely many; one more is one more.      *)
LEMMA Counts ==
    ASSUME NEW S \in SUBSET Subs, NEW s \in Subs
    PROVE  /\ Cardinality(S) \in Nat
           /\ s \notin S => Cardinality(S \cup {s}) = Cardinality(S) + 1
           /\ s \in S => /\ Cardinality(S \ {s}) = Cardinality(S) - 1
                         /\ Cardinality(S) - 1 \in Nat
<1>1. IsFiniteSet(S)
  BY SubsAssumption, FS_Subset
<1>2. IsFiniteSet(S \ {s}) /\ Cardinality(S \ {s}) \in Nat
  BY <1>1, FS_RemoveElement, FS_CardinalityType
<1> QED BY <1>1, <1>2, FS_AddElement, FS_RemoveElement, FS_CardinalityType

(* admit() lets in no more than wait, no more than there are free slots,   *)
(* and leaves somebody waiting only behind a full set of slots.            *)
LEMMA RoomRange ==
    ASSUME NEW q \in Seq(Subs), NEW held \in Nat, NEW lim \in Nat
    PROVE  /\ Room(held, lim, q) \in 0..Len(q)
           /\ Room(held, lim, q) > 0 => held + Room(held, lim, q) <= lim
           /\ Room(held, lim, q) < Len(q) => held + Room(held, lim, q) >= lim
<1>1. Len(q) \in Nat
  BY LenProperties
<1> QED BY <1>1 DEF Room

(* admit(), from a state whose other variables are right: the counter is   *)
(* still the number of running jobs, the queue still names who waits, and  *)
(* whoever starts does so within the limit.                                *)
LEMMA AdmitKeeps ==
    ASSUME NEW stage \in [Subs -> Stages], NEW held \in Nat, NEW lim \in Nat,
           NEW q \in Seq(Subs),
           \A i, j \in 1..Len(q) : q[i] = q[j] => i = j,
           \A s \in Subs : stage[s] = "waiting" <=> \E i \in 1..Len(q) : q[i] = s,
           held = Cardinality({s \in Subs : stage[s] = "working"}),
           Admit(held, lim, q, stage)
    PROVE  /\ active' \in Nat /\ waiting' \in Seq(Subs)
           /\ sub' \in [Subs -> Stages]
           /\ SlotsAreJobs' /\ QueueIsExact'
           /\ waiting' # <<>> => active' >= lim
           /\ \A s \in Subs : \/ sub'[s] = stage[s]
                              \/ /\ stage[s] = "waiting" /\ sub'[s] = "working"
                                 /\ active' <= lim
<1> DEFINE n == Room(held, lim, q)
           H == {s \in Subs : stage[s] = "working"}
<1>1. n \in Nat /\ Len(q) \in Nat /\ n \in 0..Len(q)
  BY RoomRange, LenProperties
<1>2. /\ active' = held + n
      /\ waiting' = SubSeq(q, n + 1, Len(q))
      /\ sub' = [s \in Subs |-> IF \E i \in 1..n : q[i] = s
                                THEN "working" ELSE stage[s]]
  BY DEF Admit
<1>3. /\ n > 0 => held + n <= lim
      /\ n < Len(q) => held + n >= lim
  BY RoomRange
<1> HIDE DEF n
<1>4. /\ waiting' \in Seq(Subs)
      /\ Len(waiting') = Len(q) - n
      /\ \A i \in 1..Len(waiting') : waiting'[i] = q[n + i]
  BY <1>1, <1>2, RestOfQueue
<1>5. \A i \in 1..n : i \in 1..Len(q) /\ q[i] \in Subs
  BY <1>1, ElementOfSeq
<1>6. sub' \in [Subs -> Stages]
  BY <1>2 DEF Stages
<1>7. SlotsAreJobs'
  <2>1. \A i \in 1..n : q[i] \notin H
    BY <1>5
  <2>2. \A i, j \in 1..n : q[i] = q[j] => i = j
    BY <1>5
  <2> DEFINE U == Working'
  <2>3. /\ U \in SUBSET Subs /\ H \in SUBSET Subs
        /\ \A x \in Subs : x \in U <=> x \in H \/ \E i \in 1..n : q[i] = x
    BY <1>2, <1>5 DEF Working
  <2>4. IsFiniteSet(Subs) /\ q \in Seq(Subs) /\ n \in 0..Len(q)
    BY <1>1, SubsAssumption
  <2> HIDE DEF U, H
  <2>5. Cardinality(U) = Cardinality(H) + n
    BY <2>1, <2>2, <2>3, <2>4, HeadsCount
  <2> QED BY <2>5, <1>2 DEF U, H, SlotsAreJobs
<1>8. QueueIsExact'
  <2>1. ASSUME NEW i \in 1..Len(waiting'), NEW j \in 1..Len(waiting'),
               waiting'[i] = waiting'[j]
        PROVE  i = j
    <3>1. n + i \in 1..Len(q) /\ n + j \in 1..Len(q)
      BY <1>1, <1>4
    <3>2. q[n + i] = q[n + j]
      BY <1>4, <2>1
    <3>3. n + i = n + j
      BY <3>1, <3>2
    <3> QED BY <3>3, <1>1
  <2>2. ASSUME NEW s \in Subs, sub'[s] = "waiting"
        PROVE  \E i \in 1..Len(waiting') : waiting'[i] = s
    <3>1. stage[s] = "waiting" /\ ~\E i \in 1..n : q[i] = s
      BY <1>2, <2>2
    <3>2. PICK i \in 1..Len(q) : q[i] = s
      BY <3>1
    <3>3. i - n \in 1..Len(waiting') /\ n + (i - n) = i
      BY <3>1, <3>2, <1>1, <1>4
    <3> QED BY <3>2, <3>3, <1>4
  <2>3. ASSUME NEW s \in Subs, NEW i \in 1..Len(waiting'), waiting'[i] = s
        PROVE  sub'[s] = "waiting"
    <3>1. n + i \in 1..Len(q) /\ q[n + i] = s
      BY <1>1, <1>4, <2>3
    <3>2. stage[s] = "waiting"
      BY <3>1
    <3>3. ~\E k \in 1..n : q[k] = s
      <4> SUFFICES ASSUME NEW k \in 1..n, q[k] = s PROVE FALSE
        OBVIOUS
      <4>1. k = n + i
        BY <3>1, <1>5
      <4> QED BY <4>1, <1>1, <1>4
    <3> QED BY <3>2, <3>3, <1>2
  <2> QED BY <2>1, <2>2, <2>3 DEF QueueIsExact
<1>9. waiting' # <<>> => active' >= lim
  <2> SUFFICES ASSUME waiting' # <<>> PROVE active' >= lim
    OBVIOUS
  <2>1. Len(waiting') \in Nat /\ Len(waiting') # 0
    BY <1>4, LenProperties, EmptySeq
  <2>2. n < Len(q)
    BY <1>1, <1>4, <2>1
  <2> QED BY <2>2, <1>2, <1>3
<1>10. ASSUME NEW s \in Subs
       PROVE  \/ sub'[s] = stage[s]
              \/ /\ stage[s] = "waiting" /\ sub'[s] = "working"
                 /\ active' <= lim
  <2>1. CASE ~\E i \in 1..n : q[i] = s
    BY <2>1, <1>2
  <2>2. CASE \E i \in 1..n : q[i] = s
    <3>1. n > 0
      BY <2>2, <1>1
    <3>2. stage[s] = "waiting" /\ sub'[s] = "working"
      BY <2>2, <1>2, <1>5
    <3> QED BY <3>1, <3>2, <1>2, <1>3
  <2> QED BY <2>1, <2>2
<1>11. active' \in Nat
  BY <1>1, <1>2
<1> QED BY <1>4, <1>6, <1>7, <1>8, <1>9, <1>10, <1>11

-----------------------------------------------------------------------------
(* What one step may do: start a job only within the limit. *)
StartsWithinLimit ==
    \A s \in Subs : sub[s] # "working" /\ sub'[s] = "working"
        => Cardinality(Working') <= limit'

(* Nothing is registered yet, and nobody runs. *)
LEMMA InitGives == Init => IInv
<1> SUFFICES ASSUME Init PROVE IInv
  OBVIOUS
<1>1. Working = {} /\ Pollers = {} /\ {s \in Subs : Polls(s)} = {}
  BY DEF Init, Working, Pollers, Polls
<1>2. Cardinality({}) = 0
  BY FS_EmptySet
<1>3. TypeOK
  BY BoundsAssumption DEF Init, TypeOK, Stages, Idle
<1>4. SlotsAreJobs /\ NobodyStranded /\ SubscribersAreApplied
  BY <1>1, <1>2 DEF Init, SlotsAreJobs, NobodyStranded, SubscribersAreApplied
<1>5. QueueIsExact
  <2>1. Len(waiting) = 0
    BY EmptySeq DEF Init
  <2> QED BY <2>1 DEF Init, QueueIsExact
<1>6. ChangeProgress
  BY DEF Init, ChangeProgress, Idle
<1> QED BY <1>3, <1>4, <1>5, <1>6 DEF IInv

(* A step that leaves the slots and every subscriber alone, or only makes  *)
(* those that sit in the queue or hold a slot go on, keeps the slots right.*)
LEMMA SlotsAlone ==
    ASSUME SlotsInv, UNCHANGED slotVars, sub' \in [Subs -> Stages],
           \A s \in Subs : \/ sub'[s] = sub[s]
                           \/ /\ sub[s] \in {"none", "polling"}
                              /\ sub'[s] \in {"none", "polling"}
    PROVE  SlotsInv' /\ StartsWithinLimit
<1>1. Working' = Working
  BY DEF Working
<1>2. SlotsAreJobs' /\ NobodyStranded'
  BY <1>1 DEF SlotsInv, SlotsAreJobs, NobodyStranded, slotVars
<1>3. QueueIsExact'
  BY DEF SlotsInv, QueueIsExact, slotVars
<1> QED BY <1>2, <1>3 DEF SlotsInv, slotVars, StartsWithinLimit

(* A step of the slots that makes nobody poll or stop polling leaves the   *)
(* reconfiguration where it was.                                           *)
LEMMA ChangeAlone ==
    ASSUME ChangeInv, UNCHANGED <<applied, change, settled, faults>>,
           stopped' \subseteq Subs,
           \A s \in stopped' : sub'[s] \in {"waiting", "working"},
           Pollers' = Pollers
    PROVE  ChangeInv'
<1>1. ChangeProgress'
  BY DEF ChangeInv, ChangeProgress
<1>2. SubscribersAreApplied'
  BY DEF ChangeInv, SubscribersAreApplied, Pollers
<1> QED BY <1>1, <1>2 DEF ChangeInv

(* A job that has been fetched waits at the end of the queue. *)
LEMMA FetchKeeps ==
    ASSUME NEW s \in Subs, IInv, Fetch(s) PROVE IInv' /\ StartsWithinLimit
<1> DEFINE stage == [sub EXCEPT ![s] = "waiting"]
           q == Append(waiting, s)
<1>1. /\ active \in Nat /\ waiting \in Seq(Subs) /\ limit \in Nat
      /\ sub \in [Subs -> Stages] /\ sub[s] = "polling"
      /\ stopped \subseteq Subs
      /\ UNCHANGED <<limit, stopped, applied, change, settled, faults>>
  BY BoundsAssumption DEF IInv, TypeOK, Fetch
<1>2. /\ q \in Seq(Subs) /\ Len(q) = Len(waiting) + 1 /\ Len(waiting) \in Nat
      /\ q[Len(waiting) + 1] = s
      /\ \A i \in 1..Len(waiting) : q[i] = waiting[i]
  BY <1>1, AppendProperties, LenProperties
<1>3. /\ \A i \in 1..Len(waiting) : waiting[i] \in Subs /\ waiting[i] # s
      /\ \A i \in 1..Len(q) : i \in 1..Len(waiting) \/ i = Len(waiting) + 1
      /\ Len(waiting) + 1 \in 1..Len(q)
      /\ 1..Len(waiting) \subseteq 1..Len(q)
  BY <1>1, <1>2, ElementOfSeq DEF IInv, QueueIsExact
<1>4. stage \in [Subs -> Stages] /\ Admit(active, limit, q, stage)
  BY <1>1 DEF Stages, Fetch
<1> HIDE DEF q
<1>5. \A i, j \in 1..Len(q) : q[i] = q[j] => i = j
  BY <1>2, <1>3 DEF IInv, QueueIsExact
<1>6. \A t \in Subs : stage[t] = "waiting" <=> \E i \in 1..Len(q) : q[i] = t
  <2>1. ASSUME NEW t \in Subs, stage[t] = "waiting"
        PROVE  \E i \in 1..Len(q) : q[i] = t
    <3>1. CASE t = s
      BY <3>1, <1>2, <1>3
    <3>2. CASE t # s
      <4>1. sub[t] = "waiting"
        BY <1>1, <2>1, <3>2
      <4>2. PICK i \in 1..Len(waiting) : waiting[i] = t
        BY <4>1 DEF IInv, QueueIsExact
      <4> QED BY <4>2, <1>2, <1>3
    <3> QED BY <3>1, <3>2
  <2>2. ASSUME NEW t \in Subs, NEW i \in 1..Len(q), q[i] = t
        PROVE  stage[t] = "waiting"
    <3>1. CASE t = s
      BY <3>1, <1>1
    <3>2. CASE t # s
      <4>1. i \in 1..Len(waiting) /\ waiting[i] = t
        BY <1>2, <1>3, <2>2, <3>2
      <4>2. sub[t] = "waiting"
        BY <4>1 DEF IInv, QueueIsExact
      <4> QED BY <4>2, <1>1, <3>2
    <3> QED BY <3>1, <3>2
  <2> QED BY <2>1, <2>2
<1>7. active = Cardinality({t \in Subs : stage[t] = "working"})
  <2>1. {t \in Subs : stage[t] = "working"} = Working
    BY <1>1 DEF Working
  <2> QED BY <2>1 DEF IInv, SlotsAreJobs
<1> HIDE DEF stage
<1>8. /\ active' \in Nat /\ waiting' \in Seq(Subs) /\ sub' \in [Subs -> Stages]
      /\ SlotsAreJobs' /\ QueueIsExact'
      /\ waiting' # <<>> => active' >= limit
      /\ \A t \in Subs : \/ sub'[t] = stage[t]
                         \/ /\ stage[t] = "waiting" /\ sub'[t] = "working"
                            /\ active' <= limit
  <2>1. q \in Seq(Subs) /\ active \in Nat /\ limit \in Nat
    BY <1>1, <1>2
  <2> QED BY <2>1, <1>4, <1>5, <1>6, <1>7, AdmitKeeps
<1>9. SlotsInv'
  BY <1>1, <1>8 DEF SlotsInv, IInv, TypeOK, NobodyStranded
<1>10. \A t \in Subs : stage[t] = sub[t] \/ (t = s /\ stage[t] = "waiting")
  BY <1>1 DEF stage
<1>11. StartsWithinLimit
  BY <1>1, <1>8, <1>10 DEF StartsWithinLimit, SlotsAreJobs
<1>12. Pollers' = Pollers
  <2>1. \A t \in Subs : sub'[t] # "none" <=> sub[t] # "none"
    BY <1>1, <1>8, <1>10
  <2> QED BY <2>1, <1>1 DEF Pollers, Polls
<1>13. \A t \in stopped' : sub'[t] \in {"waiting", "working"}
  <2>1. \A t \in stopped : sub[t] \in {"waiting", "working"}
    BY DEF IInv, ChangeProgress
  <2> QED BY <2>1, <1>1, <1>8, <1>10
<1>14. ChangeInv'
  BY <1>1, <1>12, <1>13, ChangeAlone, Parts
<1> QED BY <1>9, <1>11, <1>14, Parts

(* A job that ends gives its slot to the first in the queue. *)
LEMMA DoneKeeps ==
    ASSUME NEW s \in Subs, IInv, Done(s) PROVE IInv' /\ StartsWithinLimit
<1> DEFINE next == IF s \in stopped THEN "none" ELSE "polling"
           stage == [sub EXCEPT ![s] = next]
<1>1. /\ active \in Nat /\ waiting \in Seq(Subs) /\ limit \in Nat
      /\ sub \in [Subs -> Stages] /\ sub[s] = "working"
      /\ stopped \subseteq Subs /\ stopped' = stopped \ {s}
      /\ UNCHANGED <<limit, applied, change, settled, faults>>
  BY BoundsAssumption DEF IInv, TypeOK, Done
<1>2. next \in {"none", "polling"} /\ (next = "none" <=> s \in stopped)
  OBVIOUS
<1>3. Admit(active - 1, limit, waiting, stage)
  BY DEF Done
<1> HIDE DEF next
<1>4. stage \in [Subs -> Stages]
  BY <1>1, <1>2 DEF Stages
<1>5. \A i, j \in 1..Len(waiting) : waiting[i] = waiting[j] => i = j
  BY DEF IInv, QueueIsExact
<1>6. \A t \in Subs : stage[t] = "waiting"
                          <=> \E i \in 1..Len(waiting) : waiting[i] = t
  <2>1. \A t \in Subs : stage[t] = "waiting" <=> sub[t] = "waiting"
    BY <1>1, <1>2
  <2> QED BY <2>1 DEF IInv, QueueIsExact
<1>7. /\ active - 1 = Cardinality({t \in Subs : stage[t] = "working"})
      /\ active - 1 \in Nat
  <2>1. {t \in Subs : stage[t] = "working"} = Working \ {s}
    BY <1>1, <1>2 DEF Working
  <2>2. s \in Working /\ Working \in SUBSET Subs
    BY <1>1 DEF Working
  <2>3. active = Cardinality(Working)
    BY DEF IInv, SlotsAreJobs
  <2> QED BY <2>1, <2>2, <2>3, Counts
<1>8. \A t \in Subs : \/ t # s /\ stage[t] = sub[t]
                      \/ t = s /\ stage[t] = next
  BY <1>1
<1> HIDE DEF stage
<1>9. /\ active' \in Nat /\ waiting' \in Seq(Subs) /\ sub' \in [Subs -> Stages]
      /\ SlotsAreJobs' /\ QueueIsExact'
      /\ waiting' # <<>> => active' >= limit
      /\ \A t \in Subs : \/ sub'[t] = stage[t]
                         \/ /\ stage[t] = "waiting" /\ sub'[t] = "working"
                            /\ active' <= limit
  BY <1>1, <1>3, <1>4, <1>5, <1>6, <1>7, AdmitKeeps
<1>10. SlotsInv'
  BY <1>1, <1>9 DEF SlotsInv, IInv, TypeOK, NobodyStranded
<1>11. StartsWithinLimit
  BY <1>1, <1>2, <1>8, <1>9 DEF StartsWithinLimit, SlotsAreJobs
<1>12. Pollers' = Pollers
  <2>1. \A t \in Subs : t # s => (sub'[t] # "none" <=> sub[t] # "none")
    BY <1>8, <1>9
  <2>2. sub'[s] = next
    BY <1>2, <1>8, <1>9
  <2>3. Polls(s)' <=> Polls(s)
    BY <2>2, <1>1, <1>2 DEF Polls
  <2>4. \A t \in Subs : Polls(t)' <=> Polls(t)
    BY <2>1, <2>3, <1>1 DEF Polls
  <2> QED BY <2>4 DEF Pollers
<1>13. \A t \in stopped' : sub'[t] \in {"waiting", "working"}
  <2>1. \A t \in stopped : sub[t] \in {"waiting", "working"}
    BY DEF IInv, ChangeProgress
  <2> QED BY <2>1, <1>1, <1>8, <1>9
<1>14. stopped' \subseteq Subs
  BY <1>1
<1>15. ChangeInv'
  BY <1>1, <1>12, <1>13, <1>14, ChangeAlone, Parts
<1> QED BY <1>10, <1>11, <1>15, Parts

(* A reconfiguration is asked for. *)
LEMMA ReconfigureKeeps ==
    ASSUME IInv, Reconfigure PROVE IInv' /\ StartsWithinLimit
<1>1. PICK c \in 0..MaxConcurrency :
          change' = [phase |-> "off", target |-> c, left |-> 0]
  BY DEF Reconfigure
<1>2. UNCHANGED <<limit, active, waiting, sub, stopped, applied, faults>>
      /\ settled' = TRUE
  BY DEF Reconfigure, slotVars
<1>3. SlotsInv' /\ StartsWithinLimit
  BY <1>2, SlotsAlone, Parts DEF SlotsInv, slotVars
<1>4. change'.phase = "off" /\ change' # Idle
  BY <1>1 DEF Idle
<1>5. ChangeProgress' /\ SubscribersAreApplied'
  BY <1>2, <1>4 DEF IInv, ChangeProgress, SubscribersAreApplied
<1>6. ChangeInv'
  BY <1>1, <1>2, <1>5, BoundsAssumption DEF IInv, TypeOK, ChangeInv
<1> QED BY <1>3, <1>6, Parts

(* A call of pg-boss fails: whatever has been done so far stays. *)
LEMMA ThrowKeeps ==
    ASSUME IInv, Throw PROVE IInv' /\ StartsWithinLimit
<1>1. /\ UNCHANGED <<limit, active, waiting, sub, stopped, applied>>
      /\ settled' = FALSE /\ change' = Idle
      /\ faults < MaxFaults /\ faults' = faults + 1
  BY DEF Throw, slotVars
<1>2. SlotsInv' /\ StartsWithinLimit
  BY <1>1, SlotsAlone, Parts DEF SlotsInv, slotVars
<1>3. ChangeProgress' /\ SubscribersAreApplied'
  BY <1>1 DEF IInv, ChangeProgress, SubscribersAreApplied, Idle
<1>4. /\ change' \in [phase: {"idle", "off", "start", "work"},
                      target: 0..MaxConcurrency, left: 0..MaxConcurrency]
      /\ faults' \in 0..MaxFaults
  BY <1>1, BoundsAssumption DEF IInv, TypeOK, Idle
<1>5. ChangeInv'
  BY <1>1, <1>3, <1>4 DEF IInv, TypeOK, ChangeInv
<1> QED BY <1>2, <1>5, Parts

(* offWork leaves nobody who polls, whoever registered it. *)
LEMMA OffWorkKeeps ==
    ASSUME IInv, OffWork PROVE IInv' /\ StartsWithinLimit
<1>1. /\ UNCHANGED <<limit, active, waiting, settled, faults>>
      /\ sub \in [Subs -> Stages]
      /\ change.phase = "off" /\ applied' = 0
      /\ sub' = [s \in Subs |-> IF sub[s] = "polling" THEN "none" ELSE sub[s]]
      /\ stopped' = {s \in Subs : sub[s] \in {"waiting", "working"}}
      /\ change' = [change EXCEPT !.phase = "start"]
  BY DEF IInv, TypeOK, OffWork, slotVars
<1>2. SlotsInv' /\ StartsWithinLimit
  <2>1. sub' \in [Subs -> Stages]
    BY <1>1 DEF Stages
  <2>2. \A s \in Subs : \/ sub'[s] = sub[s]
                        \/ /\ sub[s] \in {"none", "polling"}
                           /\ sub'[s] \in {"none", "polling"}
    BY <1>1
  <2> QED BY <1>1, <2>1, <2>2, SlotsAlone, Parts DEF slotVars
<1>3. Pollers' = {}
  BY <1>1 DEF Pollers, Polls, Stages
<1>4. Cardinality(Pollers') = 0
  BY <1>3, FS_EmptySet
<1>5. /\ change' \in [phase: {"idle", "off", "start", "work"},
                      target: 0..MaxConcurrency, left: 0..MaxConcurrency]
      /\ change'.phase = "start" /\ change' # Idle
  BY <1>1 DEF IInv, TypeOK, Idle
<1>6. ChangeProgress'
  BY <1>1, <1>4, <1>5 DEF ChangeProgress
<1>7. SubscribersAreApplied'
  BY <1>5 DEF SubscribersAreApplied
<1>8. ChangeInv'
  BY <1>1, <1>5, <1>6, <1>7, BoundsAssumption DEF IInv, TypeOK, ChangeInv
<1> QED BY <1>2, <1>8, Parts

(* startOne: a pause ends here, and other settings resize the slots. *)
LEMMA StartKeeps ==
    ASSUME IInv, Start PROVE IInv' /\ StartsWithinLimit
<1>1. /\ change.phase = "start" /\ change.target \in 0..MaxConcurrency
      /\ UNCHANGED <<stopped, applied, settled, faults>>
      /\ stopped \subseteq Subs
      /\ Cardinality(Pollers) = 0 /\ applied = 0
      /\ \A s \in stopped : sub[s] \in {"waiting", "working"}
  BY DEF IInv, TypeOK, ChangeProgress, Start
<1>2. CASE /\ change.target = 0 /\ change' = Idle /\ UNCHANGED <<slotVars, sub>>
  <2>1. SlotsInv' /\ StartsWithinLimit
    BY <1>2, SlotsAlone, Parts DEF SlotsInv
  <2>2. Pollers' = Pollers
    BY <1>1, <1>2 DEF Pollers, Polls
  <2>3. ChangeProgress' /\ SubscribersAreApplied'
    BY <1>1, <1>2, <2>2
       DEF ChangeProgress, SubscribersAreApplied, Pollers, Idle
  <2>4. change' \in [phase: {"idle", "off", "start", "work"},
                     target: 0..MaxConcurrency, left: 0..MaxConcurrency]
    BY <1>1, <1>2 DEF Idle
  <2>5. ChangeInv'
    BY <1>1, <2>3, <2>4 DEF IInv, TypeOK, ChangeInv
  <2> QED BY <2>1, <2>5, Parts
<1>3. CASE /\ change.target # 0 /\ limit' = change.target
           /\ Admit(active, change.target, waiting, sub)
           /\ change' = [change EXCEPT !.phase = "work", !.left = change.target]
  <2>1. /\ change.target \in 1..MaxConcurrency /\ change.target \in Nat
        /\ active \in Nat /\ waiting \in Seq(Subs) /\ sub \in [Subs -> Stages]
    BY <1>1, <1>3, BoundsAssumption DEF IInv, TypeOK
  <2>2. /\ \A i, j \in 1..Len(waiting) : waiting[i] = waiting[j] => i = j
        /\ \A s \in Subs : sub[s] = "waiting"
                               <=> \E i \in 1..Len(waiting) : waiting[i] = s
    BY DEF IInv, QueueIsExact
  <2>3. active = Cardinality({s \in Subs : sub[s] = "working"})
    BY DEF IInv, SlotsAreJobs, Working
  <2>4. /\ active' \in Nat /\ waiting' \in Seq(Subs) /\ sub' \in [Subs -> Stages]
        /\ SlotsAreJobs' /\ QueueIsExact'
        /\ waiting' # <<>> => active' >= change.target
        /\ \A s \in Subs : \/ sub'[s] = sub[s]
                           \/ /\ sub[s] = "waiting" /\ sub'[s] = "working"
                              /\ active' <= change.target
    <3> DEFINE target == change.target
    <3>1. target \in Nat /\ Admit(active, target, waiting, sub)
      BY <1>3, <2>1
    <3> HIDE DEF target
    <3>2. /\ active' \in Nat /\ waiting' \in Seq(Subs) /\ sub' \in [Subs -> Stages]
          /\ SlotsAreJobs' /\ QueueIsExact'
          /\ waiting' # <<>> => active' >= target
          /\ \A s \in Subs : \/ sub'[s] = sub[s]
                             \/ /\ sub[s] = "waiting" /\ sub'[s] = "working"
                                /\ active' <= target
      BY <2>1, <2>2, <2>3, <3>1, AdmitKeeps
    <3> QED BY <3>2 DEF target
  <2>5. SlotsInv'
    BY <1>3, <2>1, <2>4 DEF SlotsInv, NobodyStranded
  <2>6. StartsWithinLimit
    BY <1>3, <2>4 DEF StartsWithinLimit, SlotsAreJobs
  <2>7. Pollers' = Pollers
    BY <1>1, <2>4 DEF Pollers, Polls
  <2>8. /\ change' \in [phase: {"idle", "off", "start", "work"},
                        target: 0..MaxConcurrency, left: 0..MaxConcurrency]
        /\ change'.phase = "work" /\ change' # Idle
        /\ change'.left = change.target /\ change'.target = change.target
    BY <1>1, <1>3 DEF IInv, TypeOK, Idle
  <2>9. \A s \in stopped' : sub'[s] \in {"waiting", "working"}
    BY <1>1, <2>4
  <2>10. ChangeProgress'
    BY <1>1, <2>1, <2>7, <2>8, <2>9 DEF ChangeProgress
  <2>11. SubscribersAreApplied'
    BY <2>8 DEF SubscribersAreApplied
  <2>12. ChangeInv'
    BY <1>1, <2>8, <2>10, <2>11 DEF IInv, TypeOK, ChangeInv
  <2> QED BY <2>5, <2>6, <2>12, Parts
<1> QED BY <1>2, <1>3 DEF Start

(* boss.work: one subscriber more, and one less to register. *)
LEMMA WorkKeeps ==
    ASSUME IInv, Work PROVE IInv' /\ StartsWithinLimit
<1>1. PICK s \in Subs : sub[s] = "none" /\ sub' = [sub EXCEPT ![s] = "polling"]
  BY DEF Work
<1>2. /\ change.phase = "work" /\ sub \in [Subs -> Stages]
      /\ change \in [phase: {"idle", "off", "start", "work"},
                     target: 0..MaxConcurrency, left: 0..MaxConcurrency]
      /\ UNCHANGED <<limit, active, waiting, stopped, settled, faults>>
      /\ change' = IF change.left = 1 THEN Idle
                   ELSE [change EXCEPT !.left = change.left - 1]
      /\ applied' = IF change.left = 1 THEN change.target ELSE applied
      /\ stopped \subseteq Subs
  BY DEF IInv, TypeOK, Work, slotVars
<1>3. /\ change.left > 0 /\ change.left \in 0..MaxConcurrency
      /\ change.target \in 0..MaxConcurrency
      /\ Cardinality(Pollers) = change.target - change.left
      /\ \A t \in stopped : sub[t] \in {"waiting", "working"}
  BY <1>2 DEF IInv, ChangeProgress
<1>4. SlotsInv' /\ StartsWithinLimit
  <2>1. sub' \in [Subs -> Stages]
    BY <1>1, <1>2 DEF Stages
  <2>2. \A t \in Subs : \/ sub'[t] = sub[t]
                        \/ /\ sub[t] \in {"none", "polling"}
                           /\ sub'[t] \in {"none", "polling"}
    BY <1>1, <1>2
  <2> QED BY <1>2, <2>1, <2>2, SlotsAlone, Parts DEF slotVars
<1>5. s \notin stopped /\ \A t \in stopped' : sub'[t] \in {"waiting", "working"}
  BY <1>1, <1>2, <1>3
<1>6. /\ Pollers' = Pollers \cup {s} /\ s \notin Pollers
      /\ Pollers \in SUBSET Subs
  BY <1>1, <1>2, <1>5 DEF Pollers, Polls
<1>7. Cardinality(Pollers') = Cardinality(Pollers) + 1
  BY <1>6, Counts
<1>8. CASE change.left = 1
  <2>1. /\ change' = Idle /\ applied' = change.target
        /\ Cardinality(Pollers') = applied'
    BY <1>2, <1>3, <1>7, <1>8
  <2>2. ChangeProgress' /\ SubscribersAreApplied'
    BY <1>5, <2>1 DEF ChangeProgress, SubscribersAreApplied, Pollers, Idle
  <2>3. ChangeInv'
    BY <1>2, <1>3, <2>1, <2>2, BoundsAssumption
       DEF IInv, TypeOK, ChangeInv, Idle
  <2> QED BY <1>4, <2>3, Parts
<1>9. CASE change.left # 1
  <2>1. /\ change' \in [phase: {"idle", "off", "start", "work"},
                        target: 0..MaxConcurrency, left: 0..MaxConcurrency]
        /\ change'.phase = "work" /\ change'.target = change.target
        /\ change'.left = change.left - 1 /\ change'.left > 0
        /\ change' # Idle
    BY <1>2, <1>3, <1>9, BoundsAssumption DEF Idle
  <2>2. ChangeProgress' /\ SubscribersAreApplied'
    BY <1>3, <1>5, <1>7, <2>1 DEF ChangeProgress, SubscribersAreApplied
  <2>3. ChangeInv'
    BY <1>2, <1>9, <2>1, <2>2 DEF IInv, TypeOK, ChangeInv
  <2> QED BY <1>4, <2>3, Parts
<1> QED BY <1>8, <1>9

-----------------------------------------------------------------------------
(* Every step keeps the invariant and starts jobs only within the limit. *)
LEMMA StepKeeps == IInv /\ Next => IInv' /\ StartsWithinLimit
<1> QED BY FetchKeeps, DoneKeeps, ReconfigureKeeps, ThrowKeeps, OffWorkKeeps,
           StartKeeps, WorkKeeps DEF Next

LEMMA StutterKeeps == IInv /\ UNCHANGED vars => IInv'
<1> QED BY DEF IInv, TypeOK, SlotsAreJobs, Working, QueueIsExact,
               NobodyStranded, ChangeProgress, SubscribersAreApplied, Pollers,
               Polls, vars

(* All parts hold in every reachable state, for any subscribers, settings  *)
(* and failures.                                                           *)
THEOREM Invariant == Spec => []IInv
<1> QED BY InitGives, StepKeeps, StutterKeeps, PTL DEF Spec

(* The variables of worker-registry.ts never leave their types. *)
THEOREM TypeCorrect == Spec => []TypeOK
<1>1. IInv => TypeOK
  BY DEF IInv
<1> QED BY <1>1, Invariant, PTL

(* The counter of the shared slots is the number of running jobs, of the   *)
(* old subscribers and of the new.                                         *)
THEOREM SlotsExact == Spec => []SlotsAreJobs
<1>1. IInv => SlotsAreJobs
  BY DEF IInv
<1> QED BY <1>1, Invariant, PTL

(* No reconfiguration leaves a fetched job waiting with slots free. *)
THEOREM NobodyForgotten == Spec => []NobodyStranded
<1>1. IInv => NobodyStranded
  BY DEF IInv
<1> QED BY <1>1, Invariant, PTL

(* A reconfiguration that ends well leaves exactly the subscribers it was  *)
(* asked for, however many before it failed half way.                      *)
THEOREM SubscribersExact == Spec => []SubscribersAreApplied
<1>1. IInv => SubscribersAreApplied
  BY DEF IInv
<1> QED BY <1>1, Invariant, PTL

(* No step starts a job while as many as the limit run. *)
THEOREM LimitHolds == Spec => ConcurrencyHeld
<1>1. IInv /\ [Next]_vars =>
          [\A s \in Subs : sub[s] # "working" /\ sub'[s] = "working"
               => Cardinality(Working') <= limit']_vars
  BY StepKeeps DEF StartsWithinLimit
<1> QED BY <1>1, Invariant, PTL DEF Spec, ConcurrencyHeld
=============================================================================
