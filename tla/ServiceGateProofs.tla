------------------------- MODULE ServiceGateProofs -------------------------
(***************************************************************************)
(* What the gate promises for any number of units, any settings and any    *)
(* times.  The invariants hold each other up: a unit let in is counted     *)
(* once because the queue names it once (QueueMatchesStages), a slot is    *)
(* freed with the counter above zero because the counter is the number of  *)
(* holders (SlotAccounting), and a unit that stays in the queue has a      *)
(* timer to wait for because a hold has one (ProviderDeadlineKept).        *)
(***************************************************************************)
EXTENDS ServiceGate, FiniteSetTheorems, FunctionTheorems, SequenceTheorems, TLAPS

(* n members of a queue, none of them among the holders, are n more: this  *)
(* is why a gate may count the units it lets in instead of the holders.    *)
LEMMA HeadsCount ==
    \A S, q, H, U : \A n \in 0..Len(q) :
        /\ IsFiniteSet(S) /\ q \in Seq(S)
        /\ H \subseteq S /\ U \subseteq S
        /\ \A i \in 1..n : q[i] \notin H
        /\ \A i, j \in 1..n : q[i] = q[j] => i = j
        /\ \A x \in S : x \in U <=> x \in H \/ \E i \in 1..n : q[i] = x
        => Cardinality(U) = Cardinality(H) + n
<1> SUFFICES ASSUME NEW S, NEW q, NEW H, NEW U, NEW n \in 0..Len(q),
                    IsFiniteSet(S), q \in Seq(S), H \subseteq S, U \subseteq S,
                    \A i \in 1..n : q[i] \notin H,
                    \A i, j \in 1..n : q[i] = q[j] => i = j,
                    \A x \in S : x \in U <=> x \in H \/ \E i \in 1..n : q[i] = x
             PROVE  Cardinality(U) = Cardinality(H) + n
  OBVIOUS
<1> DEFINE T == {q[i] : i \in 1..n}
           f == [i \in 1..n |-> q[i]]
<1>1. n \in Nat /\ IsFiniteSet(H) /\ \A i \in 1..n : q[i] \in S
  BY LenProperties, ElementOfSeq, FS_Subset
<1>2. U = H \cup T /\ H \cap T = {}
  BY <1>1
<1>3. f \in Bijection(1..n, T)
  <2>1. f \in [1..n -> T] /\ \A t \in T : \E i \in 1..n : f[i] = t
    OBVIOUS
  <2>2. \A i, j \in 1..n : f[i] = f[j] => i = j
    OBVIOUS
  <2> HIDE DEF f, T
  <2> QED BY <2>1, <2>2, Fun_IsBij
<1> HIDE DEF f, T
<1>4. Cardinality(T) = n /\ IsFiniteSet(T)
  BY <1>1, <1>3, FS_CountingElements, FS_Bijection, FS_Interval DEF ExistsBijection
<1>5. Cardinality(U) = Cardinality(H) + Cardinality(T) - Cardinality(H \cap T)
  BY <1>1, <1>2, <1>4, FS_Union
<1>6. Cardinality(H) \in Nat /\ Cardinality(H \cap T) = 0
  BY <1>1, <1>2, FS_EmptySet, FS_CardinalityType
<1> QED BY <1>1, <1>4, <1>5, <1>6

(* What is left of a queue when its first n members are let in. *)
LEMMA RestOfQueue ==
    ASSUME NEW S, NEW q \in Seq(S), NEW n \in 0..Len(q)
    PROVE  LET rest == SubSeq(q, n + 1, Len(q))
           IN  /\ rest \in Seq(S)
               /\ Len(rest) = Len(q) - n
               /\ \A i \in 1..Len(rest) : rest[i] = q[n + i]
<1>1. Len(q) \in Nat /\ n \in Nat /\ n <= Len(q) /\ \A i \in (n + 1)..Len(q) : q[i] \in S
  BY LenProperties, ElementOfSeq
<1>2. /\ SubSeq(q, n + 1, Len(q)) \in Seq(S)
      /\ Len(SubSeq(q, n + 1, Len(q))) = Len(q) - n
      /\ \A i \in 1..(Len(q) - n) : SubSeq(q, n + 1, Len(q))[i] = q[(n + 1) + i - 1]
  BY <1>1, SubSeqProperties
<1> QED BY <1>1, <1>2

IInv == TypeOK /\ SlotAccounting /\ QueueMatchesStages /\ NoLostWakeup
        /\ ProviderDeadlineKept

(* safeRetryAfterResumeAt never resumes before now, after the deadline, or *)
(* earlier than the safety margin before it.                               *)
LEMMA SafeResumeRange ==
    ASSUME NEW d \in 1..MAX_RETRY_AFTER
    PROVE  /\ SafeResume(d) \in 1..d
           /\ d <= SafeResume(d) + RETRY_AFTER_SAFETY
<1>1. RETRY_AFTER_SAFETY \in Nat \ {0} /\ MAX_RETRY_AFTER \in Nat
  BY TimesAssumption
<1>2. CASE d <= RETRY_AFTER_SAFETY
  BY <1>1, <1>2 DEF SafeResume
<1>3. CASE d > RETRY_AFTER_SAFETY
  <2>1. d >= 2 /\ d \div 2 \in 1..d
    BY <1>1, <1>3
  <2> QED BY <1>1, <1>3, <2>1 DEF SafeResume
<1> QED BY <1>1, <1>2, <1>3

(* Room never lets in more than wait, nor more than the limit has slots,   *)
(* and leaves somebody waiting only behind a full gate.                    *)
LEMMA RoomRange ==
    ASSUME NEW q \in Seq(Units), NEW held \in Nat, NEW limit \in Nat
    PROVE  /\ Room(q, held, limit) \in 0..Len(q)
           /\ Room(q, held, limit) > 0 /\ limit > 0
                  => held + Room(q, held, limit) <= limit
           /\ Room(q, held, limit) < Len(q)
                  => limit > 0 /\ held + Room(q, held, limit) >= limit
<1>1. Len(q) \in Nat
  BY LenProperties
<1> QED BY <1>1 DEF Room

(* admit(), from a state whose other variables are right: the queue still  *)
(* names who waits, the counter is still the number of holders, and nobody *)
(* is left waiting without a reason.                                       *)
LEMMA AdmitKeeps ==
    ASSUME NEW stage \in [Units -> Stages], NEW held \in Nat, NEW limit \in Nat,
           waiting \in Seq(Units),
           \A i, j \in 1..Len(waiting) : waiting[i] = waiting[j] => i = j,
           \A u \in Units : stage[u] = "waiting" <=>
                                \E i \in 1..Len(waiting) : waiting[i] = u,
           held = Cardinality({u \in Units : stage[u] \in SlotStages}),
           Admit(stage, held, limit)
    PROVE  /\ inFlight' \in Nat
           /\ waiting' \in Seq(Units)
           /\ pc' \in [Units -> Stages]
           /\ SlotAccounting'
           /\ QueueMatchesStages'
           /\ waiting' # <<>> => IsThrottled \/ (limit > 0 /\ inFlight' >= limit)
<1> DEFINE n == IF IsThrottled THEN 0 ELSE Room(waiting, held, limit)
           H == {u \in Units : stage[u] \in SlotStages}
<1>1. /\ n \in Nat /\ Len(waiting) \in Nat
      /\ n \in 0..Len(waiting)
  BY RoomRange, LenProperties
<1>2. /\ inFlight' = held + n
      /\ waiting' = SubSeq(waiting, n + 1, Len(waiting))
      /\ pc' = [u \in Units |-> IF \E i \in 1..n : waiting[i] = u
                                THEN "admitted" ELSE stage[u]]
  BY DEF Admit
<1> HIDE DEF n
<1>3. /\ waiting' \in Seq(Units)
      /\ Len(waiting') = Len(waiting) - n
      /\ \A i \in 1..Len(waiting') : waiting'[i] = waiting[n + i]
  BY <1>1, <1>2, RestOfQueue
<1>4. \A i \in 1..n : i \in 1..Len(waiting) /\ waiting[i] \in Units
  BY <1>1, ElementOfSeq
<1>5. pc' \in [Units -> Stages]
  BY <1>2 DEF Stages
<1>6. SlotAccounting'
  <2>2. \A i \in 1..n : waiting[i] \notin H
    BY <1>4 DEF SlotStages
  <2>3. \A i, j \in 1..n : waiting[i] = waiting[j] => i = j
    BY <1>4
  <2>4. \A u \in Units :
            u \in SlotHolders' <=> u \in H \/ \E i \in 1..n : waiting[i] = u
    BY <1>2, <1>4 DEF SlotHolders, SlotStages
  <2>5. Cardinality(SlotHolders') = Cardinality(H) + n
    <3>1. SlotHolders' \in SUBSET Units /\ H \in SUBSET Units
      BY DEF SlotHolders
    <3> HIDE DEF H
    <3> DEFINE U == SlotHolders'
    <3>3. IsFiniteSet(Units) /\ waiting \in Seq(Units) /\ n \in 0..Len(waiting)
      BY <1>1, UnitsAssumption
    <3>4. /\ U \in SUBSET Units /\ H \in SUBSET Units
          /\ \A x \in Units : x \in U <=> x \in H \/ \E i \in 1..n : waiting[i] = x
      BY <3>1, <2>4
    <3> HIDE DEF U
    <3>5. Cardinality(U) = Cardinality(H) + n
      BY <3>3, <3>4, <2>2, <2>3, HeadsCount
    <3> QED BY <3>5 DEF U
  <2> QED BY <2>5, <1>2 DEF SlotAccounting
<1>7. QueueMatchesStages'
  <2>1. ASSUME NEW i \in 1..Len(waiting'), NEW j \in 1..Len(waiting'),
               waiting'[i] = waiting'[j]
        PROVE  i = j
    <3>1. n + i \in 1..Len(waiting) /\ n + j \in 1..Len(waiting)
      BY <1>1, <1>3
    <3>2. waiting[n + i] = waiting[n + j]
      BY <1>3, <2>1
    <3>3. n + i = n + j
      BY <3>1, <3>2
    <3> QED BY <3>3, <1>1
  <2>2. ASSUME NEW u \in Units, pc'[u] = "waiting"
        PROVE  \E i \in 1..Len(waiting') : waiting'[i] = u
    <3>1. stage[u] = "waiting" /\ ~\E i \in 1..n : waiting[i] = u
      BY <1>2, <2>2
    <3>2. PICK i \in 1..Len(waiting) : waiting[i] = u
      BY <3>1
    <3>3. i - n \in 1..Len(waiting') /\ n + (i - n) = i
      BY <3>1, <3>2, <1>1, <1>3
    <3> QED BY <3>2, <3>3, <1>3
  <2>3. ASSUME NEW u \in Units, NEW i \in 1..Len(waiting'), waiting'[i] = u
        PROVE  pc'[u] = "waiting"
    <3>1. n + i \in 1..Len(waiting) /\ waiting[n + i] = u
      BY <1>1, <1>3, <2>3
    <3>2. stage[u] = "waiting"
      BY <3>1
    <3>3. ~\E k \in 1..n : waiting[k] = u
      <4> SUFFICES ASSUME NEW k \in 1..n, waiting[k] = u PROVE FALSE
        OBVIOUS
      <4>1. k = n + i
        BY <3>1, <1>4
      <4> QED BY <4>1, <1>1, <1>3
    <3> QED BY <3>2, <3>3, <1>2
  <2> QED BY <2>1, <2>2, <2>3 DEF QueueMatchesStages
<1>8. waiting' # <<>> => IsThrottled \/ (limit > 0 /\ inFlight' >= limit)
  <2> SUFFICES ASSUME waiting' # <<>>, ~IsThrottled
               PROVE  limit > 0 /\ inFlight' >= limit
    OBVIOUS
  <2>1. Len(waiting') > 0
    BY <1>3, EmptySeq
  <2>2. n = Room(waiting, held, limit) /\ n < Len(waiting)
    BY <2>1, <1>1, <1>3 DEF n
  <2> QED BY <2>2, <1>2, RoomRange
<1> QED BY <1>1, <1>2, <1>3, <1>5, <1>6, <1>7, <1>8

-----------------------------------------------------------------------------
(* A unit that moves between stages of the same kind, outside the queue,   *)
(* disturbs neither the counter nor the queue.                             *)
LEMMA MoveKeeps ==
    ASSUME IInv, NEW u \in Units, NEW s \in Stages \ {"waiting"},
           pc[u] # "waiting",
           s \in SlotStages <=> pc[u] \in SlotStages,
           pc' = [pc EXCEPT ![u] = s],
           UNCHANGED <<inFlight, waiting>>
    PROVE  /\ pc' \in [Units -> Stages]
           /\ SlotAccounting'
           /\ QueueMatchesStages'
<1>1. pc \in [Units -> Stages]
  BY DEF IInv, TypeOK
<1>2. pc' \in [Units -> Stages]
  BY <1>1
<1>3. SlotHolders' = SlotHolders
  BY <1>1 DEF SlotHolders
<1>4. SlotAccounting'
  BY <1>3 DEF IInv, SlotAccounting
<1>5. QueueMatchesStages'
  <2>1. \A v \in Units : pc'[v] = "waiting" <=> pc[v] = "waiting"
    BY <1>1
  <2> QED BY <2>1 DEF IInv, QueueMatchesStages
<1> QED BY <1>2, <1>4, <1>5

(* A unit that holds a slot is one of those the counter counts. *)
LEMMA HolderCounted ==
    ASSUME IInv, NEW u \in Units, pc[u] \in SlotStages
    PROVE  /\ inFlight - 1 \in Nat
           /\ inFlight - 1 = Cardinality(SlotHolders \ {u})
<1>1. u \in SlotHolders /\ IsFiniteSet(SlotHolders)
  BY UnitsAssumption, FS_Subset DEF SlotHolders
<1>2. Cardinality(SlotHolders \ {u}) = Cardinality(SlotHolders) - 1
  BY <1>1, FS_RemoveElement
<1>3. Cardinality(SlotHolders \ {u}) \in Nat
  BY <1>1, FS_RemoveElement, FS_CardinalityType
<1> QED BY <1>2, <1>3 DEF IInv, SlotAccounting

(* Freeing a slot that is held, and letting in whoever now fits: the       *)
(* counter is above zero because its holder is one of those it counts.     *)
LEMMA FreeKeeps ==
    ASSUME IInv, NEW u \in Units, pc[u] \in SlotStages, Free(u)
    PROVE  /\ inFlight' \in Nat
           /\ waiting' \in Seq(Units)
           /\ pc' \in [Units -> Stages]
           /\ SlotAccounting'
           /\ QueueMatchesStages'
           /\ waiting' # <<>> =>
                  IsThrottled \/ (concurrency > 0 /\ inFlight' >= concurrency)
<1> DEFINE stage == [pc EXCEPT ![u] = "idle"]
           H == {v \in Units : stage[v] \in SlotStages}
<1>1. /\ pc \in [Units -> Stages] /\ waiting \in Seq(Units)
      /\ concurrency \in Nat
      /\ inFlight = Cardinality(SlotHolders)
  BY DEF IInv, TypeOK, SlotAccounting
<1>3. H = SlotHolders \ {u}
  BY <1>1 DEF SlotHolders, SlotStages
<1>4. inFlight - 1 = Cardinality(H) /\ inFlight - 1 \in Nat
  BY <1>3, HolderCounted
<1>5. stage \in [Units -> Stages]
  BY <1>1 DEF Stages
<1>6. \A v \in Units : stage[v] = "waiting" <=>
          \E i \in 1..Len(waiting) : waiting[i] = v
  <2>1. \A v \in Units : stage[v] = "waiting" <=> pc[v] = "waiting"
    BY <1>1 DEF SlotStages
  <2> QED BY <2>1 DEF IInv, QueueMatchesStages
<1>7. Admit(stage, inFlight - 1, concurrency)
  BY DEF Free
<1>8. \A i, j \in 1..Len(waiting) : waiting[i] = waiting[j] => i = j
  BY DEF IInv, QueueMatchesStages
<1> HIDE DEF stage
<1> QED BY <1>1, <1>4, <1>5, <1>6, <1>7, <1>8, AdmitKeeps

(* release(), at once or by way of the cooldown *)
LEMMA ReleaseKeeps ==
    ASSUME IInv, NEW u \in Units, pc[u] \in SlotStages, Release(u),
           UNCHANGED <<settings, deadlines>>
    PROVE  IInv'
<1>1. /\ TypeOK /\ NoLostWakeup /\ ProviderDeadlineKept
      /\ IsThrottled => timerLeft # NoTimer
  BY DEF IInv, ProviderDeadlineKept
<1>2. CASE Free(u) /\ UNCHANGED coolLeft
  <2>1. /\ inFlight' \in Nat /\ waiting' \in Seq(Units)
        /\ pc' \in [Units -> Stages]
        /\ SlotAccounting' /\ QueueMatchesStages'
        /\ waiting' # <<>> =>
               IsThrottled \/ (concurrency > 0 /\ inFlight' >= concurrency)
    BY <1>2, FreeKeeps
  <2>2. TypeOK'
    BY <1>1, <1>2, <2>1 DEF TypeOK, settings, deadlines
  <2>3. NoLostWakeup'
    BY <1>1, <2>1 DEF NoLostWakeup, settings, deadlines
  <2>4. ProviderDeadlineKept'
    BY <1>1 DEF ProviderDeadlineKept, IsThrottled, deadlines
  <2> QED BY <2>1, <2>2, <2>3, <2>4 DEF IInv
<1>3. CASE /\ concurrency > 0 /\ cooldown > 0
           /\ pc' = [pc EXCEPT ![u] = "cooling"]
           /\ coolLeft' = [coolLeft EXCEPT ![u] = cooldown]
           /\ UNCHANGED <<inFlight, waiting>>
  <2>1. /\ pc' \in [Units -> Stages]
        /\ SlotAccounting' /\ QueueMatchesStages'
    <3>1. "cooling" \in Stages \ {"waiting"} /\ "cooling" \in SlotStages
          /\ pc[u] # "waiting"
      BY DEF Stages, SlotStages
    <3> QED BY <1>3, <3>1, MoveKeeps
  <2>2. TypeOK'
    BY <1>1, <1>3, <2>1 DEF TypeOK, settings, deadlines
  <2>3. NoLostWakeup'
    BY <1>1, <1>3 DEF NoLostWakeup, settings, deadlines
  <2>4. ProviderDeadlineKept'
    BY <1>1 DEF ProviderDeadlineKept, IsThrottled, deadlines
  <2> QED BY <2>1, <2>2, <2>3, <2>4 DEF IInv
<1> QED BY <1>2, <1>3 DEF Release

-----------------------------------------------------------------------------
(* A gate nobody has called has no slot taken and nobody in its queue. *)
LEMMA InitGives == Init => IInv
<1> SUFFICES ASSUME Init PROVE IInv
  OBVIOUS
<1>1. TypeOK
  BY DEF Init, TypeOK, Stages, NoTimer
<1>2. SlotAccounting
  <2>1. SlotHolders = {}
    BY DEF Init, SlotHolders, SlotStages
  <2> QED BY <2>1, FS_EmptySet DEF Init, SlotAccounting
<1>3. QueueMatchesStages
  BY DEF Init, QueueMatchesStages
<1>4. NoLostWakeup /\ ProviderDeadlineKept
  BY TimesAssumption DEF Init, NoLostWakeup, ProviderDeadlineKept, IsThrottled
<1> QED BY <1>1, <1>2, <1>3, <1>4 DEF IInv

(* configure() *)
LEMMA ConfigureKeeps == IInv /\ Configure => IInv'
<1> SUFFICES ASSUME IInv, Configure PROVE IInv'
  OBVIOUS
<1>1. /\ TypeOK /\ ProviderDeadlineKept /\ SlotAccounting
      /\ QueueMatchesStages
  BY DEF IInv
<1>2. PICK c \in 0..MaxConcurrency, d \in 0..MaxCooldown :
          concurrency' = c /\ cooldown' = d /\ Admit(pc, inFlight, c)
  BY DEF Configure
<1>3. c \in Nat /\ d \in Nat
  BY BoundsAssumption
<1>4. /\ inFlight' \in Nat /\ waiting' \in Seq(Units)
      /\ pc' \in [Units -> Stages]
      /\ SlotAccounting' /\ QueueMatchesStages'
      /\ waiting' # <<>> => IsThrottled \/ (c > 0 /\ inFlight' >= c)
  BY <1>1, <1>2, <1>3, AdmitKeeps
     DEF TypeOK, SlotAccounting, SlotHolders, QueueMatchesStages
<1>5. UNCHANGED deadlines /\ UNCHANGED coolLeft
  BY DEF Configure
<1>6. TypeOK'
  BY <1>1, <1>2, <1>3, <1>4, <1>5 DEF TypeOK, deadlines
<1>7. NoLostWakeup' /\ ProviderDeadlineKept'
  BY <1>1, <1>2, <1>4, <1>5
     DEF NoLostWakeup, ProviderDeadlineKept, IsThrottled, deadlines
<1> QED BY <1>4, <1>6, <1>7 DEF IInv

(* run() up to its first await: the unit dials, takes a slot or queues up *)
LEMMA CallKeeps == ASSUME NEW u \in Units PROVE IInv /\ Call(u) => IInv'
<1> SUFFICES ASSUME IInv, Call(u) PROVE IInv'
  OBVIOUS
<1>1. /\ TypeOK /\ ProviderDeadlineKept /\ SlotAccounting
      /\ QueueMatchesStages /\ NoLostWakeup
      /\ pc[u] = "idle"
      /\ UNCHANGED <<settings, deadlines, coolLeft>>
  BY DEF IInv, Call
<1>2. ProviderDeadlineKept'
  BY <1>1 DEF ProviderDeadlineKept, IsThrottled, deadlines
<1>3. /\ pc \in [Units -> Stages] /\ inFlight \in Nat
      /\ waiting \in Seq(Units) /\ concurrency \in Nat
  BY <1>1 DEF TypeOK
<1>4. CASE /\ concurrency = 0 /\ ~IsThrottled /\ waiting = <<>>
           /\ pc' = [pc EXCEPT ![u] = "ungated"]
           /\ UNCHANGED <<inFlight, waiting>>
  <2>1. pc' \in [Units -> Stages] /\ SlotAccounting' /\ QueueMatchesStages'
    <3>1. /\ "ungated" \in Stages \ {"waiting"} /\ "ungated" \notin SlotStages
          /\ pc[u] # "waiting" /\ pc[u] \notin SlotStages
      BY <1>1 DEF Stages, SlotStages
    <3> QED BY <1>4, <3>1, MoveKeeps
  <2>2. TypeOK' /\ NoLostWakeup'
    BY <1>1, <1>4, <2>1 DEF TypeOK, NoLostWakeup, settings, deadlines
  <2> QED BY <1>2, <2>1, <2>2 DEF IInv
<1>5. CASE /\ waiting = <<>> /\ concurrency > 0
           /\ inFlight' = inFlight + 1
           /\ pc' = [pc EXCEPT ![u] = "admitted"]
           /\ UNCHANGED waiting
  <2>1. pc' \in [Units -> Stages]
    BY <1>3, <1>5 DEF Stages
  <2>2. SlotAccounting'
    <3>1. SlotHolders' = SlotHolders \cup {u} /\ u \notin SlotHolders
      BY <1>1, <1>3, <1>5 DEF SlotHolders, SlotStages
    <3>2. IsFiniteSet(SlotHolders)
      BY UnitsAssumption, FS_Subset DEF SlotHolders
    <3>3. Cardinality(SlotHolders \cup {u}) = Cardinality(SlotHolders) + 1
      BY <3>1, <3>2, FS_AddElement
    <3> QED BY <1>1, <1>5, <3>1, <3>3 DEF SlotAccounting
  <2>3. QueueMatchesStages'
    <3>1. \A v \in Units : pc'[v] = "waiting" <=> pc[v] = "waiting"
      BY <1>1, <1>3, <1>5
    <3> QED BY <3>1, <1>1, <1>5 DEF QueueMatchesStages
  <2>4. TypeOK' /\ NoLostWakeup'
    BY <1>1, <1>5, <2>1 DEF TypeOK, NoLostWakeup, settings, deadlines
  <2> QED BY <1>2, <2>2, <2>3, <2>4 DEF IInv
<1>6. CASE /\ \/ IsThrottled
              \/ waiting # <<>>
              \/ concurrency > 0 /\ inFlight >= concurrency
           /\ waiting' = Append(waiting, u)
           /\ pc' = [pc EXCEPT ![u] = "waiting"]
           /\ UNCHANGED inFlight
  <2>1. pc' \in [Units -> Stages]
    BY <1>3, <1>6 DEF Stages
  <2>2. SlotAccounting'
    <3>1. SlotHolders' = SlotHolders
      BY <1>1, <1>3, <1>6 DEF SlotHolders, SlotStages
    <3> QED BY <3>1, <1>1, <1>6 DEF SlotAccounting
  <2>3. /\ waiting' \in Seq(Units)
        /\ Len(waiting) \in Nat /\ Len(waiting') = Len(waiting) + 1
        /\ \A i \in 1..Len(waiting) : waiting'[i] = waiting[i]
        /\ waiting'[Len(waiting) + 1] = u
    BY <1>3, <1>6, AppendProperties, LenProperties
  <2>4. \A i \in 1..Len(waiting) : waiting[i] # u
    BY <1>1 DEF QueueMatchesStages
  <2>5. QueueMatchesStages'
    <3>1. \A i, j \in 1..Len(waiting') : waiting'[i] = waiting'[j] => i = j
      <4> SUFFICES ASSUME NEW i \in 1..Len(waiting'), NEW j \in 1..Len(waiting'),
                          waiting'[i] = waiting'[j]
                   PROVE  i = j
        OBVIOUS
      <4>1. CASE i \in 1..Len(waiting) /\ j \in 1..Len(waiting)
        BY <4>1, <2>3, <1>1 DEF QueueMatchesStages
      <4>2. CASE i = Len(waiting) + 1 \/ j = Len(waiting) + 1
        BY <4>2, <2>3, <2>4
      <4> QED BY <4>1, <4>2, <2>3
    <3>2. ASSUME NEW v \in Units
          PROVE  pc'[v] = "waiting" <=>
                     \E i \in 1..Len(waiting') : waiting'[i] = v
      <4>1. CASE v = u
        <5>1. Len(waiting) + 1 \in 1..Len(waiting')
          BY <2>3
        <5> QED BY <4>1, <5>1, <2>3, <1>3, <1>6
      <4>2. CASE v # u
        <5>1. pc'[v] = "waiting" <=> pc[v] = "waiting"
          BY <4>2, <1>3, <1>6
        <5>2. ASSUME NEW i \in 1..Len(waiting), waiting[i] = v
              PROVE  \E k \in 1..Len(waiting') : waiting'[k] = v
          BY <5>2, <2>3
        <5>3. ASSUME NEW i \in 1..Len(waiting'), waiting'[i] = v
              PROVE  \E k \in 1..Len(waiting) : waiting[k] = v
          <6>1. i # Len(waiting) + 1
            BY <5>3, <4>2, <2>3
          <6>2. i \in 1..Len(waiting)
            BY <6>1, <2>3
          <6> QED BY <6>2, <5>3, <2>3
        <5> QED BY <5>1, <5>2, <5>3, <1>1 DEF QueueMatchesStages
      <4> QED BY <4>1, <4>2
    <3> QED BY <3>1, <3>2 DEF QueueMatchesStages
  <2>6. TypeOK'
    BY <1>1, <1>6, <2>1, <2>3 DEF TypeOK, settings, deadlines
  <2>7. NoLostWakeup'
    BY <1>1, <1>6
       DEF NoLostWakeup, ProviderDeadlineKept, settings, deadlines
  <2> QED BY <1>2, <2>2, <2>5, <2>6, <2>7 DEF IInv
<1> QED BY <1>4, <1>5, <1>6 DEF Call

(* run() after acquire(): turned away by the breaker, or dialing *)
LEMMA ResumeKeeps == ASSUME NEW u \in Units PROVE IInv /\ Resume(u) => IInv'
<1> SUFFICES ASSUME IInv, Resume(u) PROVE IInv'
  OBVIOUS
<1>1. /\ pc[u] = "admitted" /\ pc[u] \in SlotStages /\ pc[u] # "waiting"
      /\ UNCHANGED <<settings, deadlines>>
  BY DEF Resume, SlotStages
<1>2. CASE Release(u)
  BY <1>1, <1>2, ReleaseKeeps
<1>3. CASE /\ pc' = [pc EXCEPT ![u] = "gated"]
           /\ UNCHANGED <<inFlight, waiting, coolLeft>>
  <2>1. pc' \in [Units -> Stages] /\ SlotAccounting' /\ QueueMatchesStages'
    <3>1. "gated" \in Stages \ {"waiting"} /\ "gated" \in SlotStages
      BY DEF Stages, SlotStages
    <3> QED BY <1>1, <1>3, <3>1, MoveKeeps
  <2>2. TypeOK' /\ NoLostWakeup' /\ ProviderDeadlineKept'
    BY <1>1, <1>3, <2>1
       DEF IInv, TypeOK, NoLostWakeup, ProviderDeadlineKept, IsThrottled,
           settings, deadlines
  <2> QED BY <2>1, <2>2 DEF IInv
<1> QED BY <1>2, <1>3 DEF Resume

(* The end of a unit's work moves it on without touching the gate. *)
LEMMA WorkOverKeeps ==
    ASSUME IInv, NEW u \in Units, WorkOver(u)
    PROVE  /\ pc' \in [Units -> Stages]
           /\ SlotAccounting' /\ QueueMatchesStages'
           /\ UNCHANGED <<settings, inFlight, waiting, coolLeft>>
<1>1. UNCHANGED <<settings, inFlight, waiting, coolLeft>>
  BY DEF WorkOver
<1>2. CASE pc[u] = "gated"
  <2>1. /\ "answered" \in Stages \ {"waiting"} /\ "answered" \in SlotStages
        /\ pc[u] \in SlotStages /\ pc[u] # "waiting"
        /\ pc' = [pc EXCEPT ![u] = "answered"]
    BY <1>2 DEF Stages, SlotStages, WorkOver
  <2> QED BY <1>1, <2>1, MoveKeeps
<1>3. CASE pc[u] = "ungated"
  <2>1. /\ "idle" \in Stages \ {"waiting"} /\ "idle" \notin SlotStages
        /\ pc[u] \notin SlotStages /\ pc[u] # "waiting"
        /\ pc' = [pc EXCEPT ![u] = "idle"]
    BY <1>3 DEF Stages, SlotStages, WorkOver
  <2> QED BY <1>1, <2>1, MoveKeeps
<1> QED BY <1>2, <1>3 DEF WorkOver

(* watch(): an answer, or an error about the document *)
LEMMA AnsweredKeeps == ASSUME NEW u \in Units PROVE IInv /\ Answered(u) => IInv'
<1> SUFFICES ASSUME IInv, Answered(u) PROVE IInv'
  OBVIOUS
<1>1. /\ pc' \in [Units -> Stages] /\ SlotAccounting' /\ QueueMatchesStages'
      /\ UNCHANGED <<settings, inFlight, waiting, coolLeft>>
      /\ UNCHANGED deadlines
  BY WorkOverKeeps DEF Answered
<1>2. TypeOK' /\ NoLostWakeup' /\ ProviderDeadlineKept'
  BY <1>1 DEF IInv, TypeOK, NoLostWakeup, ProviderDeadlineKept, IsThrottled,
              settings, deadlines
<1> QED BY <1>1, <1>2 DEF IInv

(* watch(): the service was not there *)
LEMMA UnreachableKeeps ==
    ASSUME NEW u \in Units PROVE IInv /\ Unreachable(u) => IInv'
<1> SUFFICES ASSUME IInv, Unreachable(u) PROVE IInv'
  OBVIOUS
<1>1. /\ pc' \in [Units -> Stages] /\ SlotAccounting' /\ QueueMatchesStages'
      /\ UNCHANGED <<settings, inFlight, waiting, coolLeft>>
      /\ holdLeft' = UNAVAILABLE_HOLD
      /\ UNCHANGED <<throttleLeft, timerLeft, providerLeft>>
  BY WorkOverKeeps DEF Unreachable
<1>2. TypeOK' /\ NoLostWakeup' /\ ProviderDeadlineKept'
  BY <1>1, TimesAssumption
     DEF IInv, TypeOK, NoLostWakeup, ProviderDeadlineKept, IsThrottled, settings
<1> QED BY <1>1, <1>2 DEF IInv

(* holdUntil(): a later deadline replaces the hold together with its       *)
(* timer, an earlier one leaves both, so the margin is kept either way.    *)
LEMMA ThrottledKeeps ==
    ASSUME NEW u \in Units PROVE IInv /\ Throttled(u) => IInv'
<1> SUFFICES ASSUME IInv, Throttled(u) PROVE IInv'
  OBVIOUS
<1>1. /\ pc' \in [Units -> Stages] /\ SlotAccounting' /\ QueueMatchesStages'
      /\ UNCHANGED <<settings, inFlight, waiting, coolLeft>>
  BY WorkOverKeeps DEF Throttled
<1>2. /\ TypeOK /\ NoLostWakeup /\ ProviderDeadlineKept
      /\ RETRY_AFTER_SAFETY \in Nat /\ UNAVAILABLE_HOLD \in Nat
      /\ MAX_RETRY_AFTER \in Nat
  BY TimesAssumption DEF IInv
<1>3. PICK d \in 0..(MAX_RETRY_AFTER + 1) :
          \/ /\ d \in 1..MAX_RETRY_AFTER
             /\ providerLeft' = IF d > providerLeft THEN d ELSE providerLeft
             /\ \/ /\ SafeResume(d) > throttleLeft
                   /\ throttleLeft' = SafeResume(d)
                   /\ timerLeft' = SafeResume(d)
                \/ /\ SafeResume(d) <= throttleLeft
                   /\ UNCHANGED <<throttleLeft, timerLeft>>
             /\ UNCHANGED holdLeft
          \/ /\ d \notin 1..MAX_RETRY_AFTER
             /\ holdLeft' = UNAVAILABLE_HOLD
             /\ UNCHANGED <<throttleLeft, timerLeft, providerLeft>>
  BY DEF Throttled
<1>4. CASE d \in 1..MAX_RETRY_AFTER
  <2>1. SafeResume(d) \in 1..d /\ d <= SafeResume(d) + RETRY_AFTER_SAFETY
    BY <1>4, SafeResumeRange
  <2> DEFINE s == SafeResume(d)
  <2>2. s \in Nat \ {0} /\ s <= d /\ d <= s + RETRY_AFTER_SAFETY /\ d \in Nat
    BY <2>1, <1>4
  <2>3. /\ providerLeft' = IF d > providerLeft THEN d ELSE providerLeft
        /\ \/ s > throttleLeft /\ throttleLeft' = s /\ timerLeft' = s
           \/ s <= throttleLeft /\ UNCHANGED <<throttleLeft, timerLeft>>
        /\ UNCHANGED holdLeft
    BY <1>3, <1>4
  <2> HIDE DEF s
  <2>4. TypeOK'
    BY <1>1, <1>2, <2>2, <2>3 DEF TypeOK, settings
  <2>5. NoLostWakeup'
    BY <1>1, <1>2, <2>2, <2>3 DEF TypeOK, NoLostWakeup, NoTimer, settings
  <2>6. ProviderDeadlineKept'
    BY <1>2, <2>2, <2>3
       DEF TypeOK, ProviderDeadlineKept, IsThrottled, NoTimer
  <2> QED BY <1>1, <2>4, <2>5, <2>6 DEF IInv
<1>5. CASE d \notin 1..MAX_RETRY_AFTER
  <2>1. /\ holdLeft' = UNAVAILABLE_HOLD
        /\ UNCHANGED <<throttleLeft, timerLeft, providerLeft>>
    BY <1>3, <1>5
  <2>2. TypeOK' /\ NoLostWakeup' /\ ProviderDeadlineKept'
    BY <1>1, <1>2, <2>1
       DEF TypeOK, NoLostWakeup, ProviderDeadlineKept, IsThrottled, settings
  <2> QED BY <1>1, <2>2 DEF IInv
<1> QED BY <1>4, <1>5

(* the finally block of run() *)
LEMMA FinallyKeeps == ASSUME NEW u \in Units PROVE IInv /\ Finally(u) => IInv'
<1> SUFFICES ASSUME IInv, Finally(u) PROVE IInv'
  OBVIOUS
<1> QED BY ReleaseKeeps DEF Finally, SlotStages

(* the timer of release() *)
LEMMA CooldownOverKeeps ==
    ASSUME NEW u \in Units PROVE IInv /\ CooldownOver(u) => IInv'
<1> SUFFICES ASSUME IInv, CooldownOver(u) PROVE IInv'
  OBVIOUS
<1>1. /\ pc[u] \in SlotStages /\ Free(u)
      /\ UNCHANGED <<settings, deadlines, coolLeft>>
  BY DEF CooldownOver, SlotStages
<1>2. /\ inFlight' \in Nat /\ waiting' \in Seq(Units)
      /\ pc' \in [Units -> Stages]
      /\ SlotAccounting' /\ QueueMatchesStages'
      /\ waiting' # <<>> =>
             IsThrottled \/ (concurrency > 0 /\ inFlight' >= concurrency)
  BY <1>1, FreeKeeps
<1>3. TypeOK' /\ NoLostWakeup' /\ ProviderDeadlineKept'
  BY <1>1, <1>2 DEF IInv, TypeOK, NoLostWakeup, ProviderDeadlineKept,
                    IsThrottled, settings, deadlines
<1> QED BY <1>2, <1>3 DEF IInv

(* The timer of a hold that is over lets in all it can, so what still      *)
(* waits waits behind a full gate; one that comes early is armed again.    *)
LEMMA ThrottleTimerKeeps == IInv /\ ThrottleTimer => IInv'
<1> SUFFICES ASSUME IInv, ThrottleTimer PROVE IInv'
  OBVIOUS
<1>1. /\ TypeOK /\ SlotAccounting /\ QueueMatchesStages
      /\ ProviderDeadlineKept
      /\ UNCHANGED <<settings, holdLeft, throttleLeft, coolLeft, providerLeft>>
  BY DEF IInv, ThrottleTimer
<1>2. CASE /\ IsThrottled /\ timerLeft' = throttleLeft
           /\ UNCHANGED <<inFlight, waiting, pc>>
  <2>1. SlotAccounting' /\ QueueMatchesStages'
    BY <1>1, <1>2 DEF SlotAccounting, SlotHolders, QueueMatchesStages
  <2>2. TypeOK'
    BY <1>1, <1>2 DEF TypeOK, settings
  <2>3. NoLostWakeup' /\ ProviderDeadlineKept'
    BY <1>1, <1>2
       DEF TypeOK, NoLostWakeup, ProviderDeadlineKept, IsThrottled, NoTimer
  <2> QED BY <2>1, <2>2, <2>3 DEF IInv
<1>3. CASE /\ ~IsThrottled /\ timerLeft' = NoTimer
           /\ Admit(pc, inFlight, concurrency)
  <2>1. /\ inFlight' \in Nat /\ waiting' \in Seq(Units)
        /\ pc' \in [Units -> Stages]
        /\ SlotAccounting' /\ QueueMatchesStages'
        /\ waiting' # <<>> => (concurrency > 0 /\ inFlight' >= concurrency)
    BY <1>1, <1>3, AdmitKeeps
       DEF TypeOK, SlotAccounting, SlotHolders, QueueMatchesStages
  <2>2. TypeOK'
    BY <1>1, <1>3, <2>1 DEF TypeOK, settings
  <2>3. NoLostWakeup' /\ ProviderDeadlineKept'
    BY <1>1, <1>3, <2>1
       DEF NoLostWakeup, ProviderDeadlineKept, IsThrottled, settings
  <2> QED BY <2>1, <2>2, <2>3 DEF IInv
<1> QED BY <1>2, <1>3 DEF ThrottleTimer

(* Time moves every deadline alike; a timer may come early or late. *)
LEMMA TickKeeps == IInv /\ (Tick \/ Drift) => IInv'
<1> SUFFICES ASSUME IInv, Tick \/ Drift PROVE IInv'
  OBVIOUS
<1>1. /\ TypeOK /\ SlotAccounting /\ QueueMatchesStages /\ NoLostWakeup
      /\ ProviderDeadlineKept
      /\ UNCHANGED <<settings, inFlight, waiting, pc>>
  BY DEF IInv, Tick, Drift
<1>2. SlotAccounting' /\ QueueMatchesStages'
  BY <1>1 DEF SlotAccounting, SlotHolders, QueueMatchesStages
<1>3. RETRY_AFTER_SAFETY \in Nat
  BY TimesAssumption
<1>4. TypeOK'
  BY <1>1 DEF TypeOK, Tick, Drift, Less, NoTimer, settings
<1>5. timerLeft # NoTimer => timerLeft' # NoTimer
  BY <1>1 DEF TypeOK, Tick, Drift, Less, NoTimer
<1>6. NoLostWakeup'
  BY <1>1, <1>5 DEF NoLostWakeup, settings
<1>7. ProviderDeadlineKept'
  BY <1>1, <1>3, <1>5
     DEF TypeOK, ProviderDeadlineKept, IsThrottled, Tick, Drift, Less
<1> QED BY <1>2, <1>4, <1>6, <1>7 DEF IInv

(* Every step of the gate keeps the inductive invariant. *)
LEMMA StepKeeps == IInv /\ [Next]_vars => IInv'
<1> SUFFICES ASSUME IInv, [Next]_vars PROVE IInv'
  OBVIOUS
<1>1. CASE UNCHANGED vars
  BY <1>1 DEF IInv, TypeOK, SlotAccounting, SlotHolders, QueueMatchesStages,
              NoLostWakeup, ProviderDeadlineKept, IsThrottled, vars
<1>2. CASE Next
  BY <1>2, ConfigureKeeps, CallKeeps, ResumeKeeps, AnsweredKeeps,
     UnreachableKeeps, ThrottledKeeps, FinallyKeeps, CooldownOverKeeps,
     ThrottleTimerKeeps, TickKeeps
     DEF Next
<1> QED BY <1>1, <1>2

-----------------------------------------------------------------------------
(* The inductive invariant holds in every state the gate can reach. *)
THEOREM Invariant == Spec => []IInv
BY InitGives, StepKeeps, PTL DEF Spec

(* The gate's variables never leave their types. *)
THEOREM TypeCorrect == Spec => []TypeOK
<1>1. IInv => TypeOK
  BY DEF IInv
<1> QED BY <1>1, Invariant, PTL

(* The counter is the number of slots held, so no call of run() leaks one, *)
(* frees one twice, or drives the counter below zero.                      *)
THEOREM SlotsAccounted == Spec => []SlotAccounting
<1>1. IInv => SlotAccounting
  BY DEF IInv
<1> QED BY <1>1, Invariant, PTL

(* The queue names every waiting unit once and nobody else. *)
THEOREM QueueExact == Spec => []QueueMatchesStages
<1>1. IInv => QueueMatchesStages
  BY DEF IInv
<1> QED BY <1>1, Invariant, PTL

(* Nobody waits without a timer or a slot holder that will call admit(). *)
THEOREM WakeupsKept == Spec => []NoLostWakeup
<1>1. IInv => NoLostWakeup
  BY DEF IInv
<1> QED BY <1>1, Invariant, PTL

(* The queue is held until a safety margin before the latest deadline. *)
THEOREM DeadlinesKept == Spec => []ProviderDeadlineKept
<1>1. IInv => ProviderDeadlineKept
  BY DEF IInv
<1> QED BY <1>1, Invariant, PTL

-----------------------------------------------------------------------------
(* What one step may do: whom it lets past the gate, and who dials. *)
StepPolicy ==
    /\ \A u \in Units : GetsIn(u) =>
           ~IsThrottled /\ providerLeft <= RETRY_AFTER_SAFETY
    /\ \A u, v \in Units :
          GetsIn(u) /\ pc[v] = "waiting" /\ pc'[v] = "waiting" =>
              \E i, j \in 1..Len(waiting) :
                  waiting[i] = u /\ waiting[j] = v /\ i < j
    /\ \A u \in Units :
          pc[u] \notin {"gated", "ungated"} /\ pc'[u] \in {"gated", "ungated"}
              => ~Unavailable
    /\ \A u \in Units :
          GetsIn(u) /\ concurrency' > 0 => inFlight' <= concurrency'

(* A gate that lets anybody in is past every deadline it was given. *)
LEMMA PastDeadline == IInv /\ ~IsThrottled => providerLeft <= RETRY_AFTER_SAFETY
<1>1. RETRY_AFTER_SAFETY \in Nat
  BY TimesAssumption
<1> QED BY <1>1 DEF IInv, TypeOK, ProviderDeadlineKept, IsThrottled

(* admit() lets in the heads of the queue and nobody else. *)
LEMMA AdmitObeys ==
    ASSUME IInv, NEW stage \in [Units -> Stages], NEW held \in Nat,
           \A u \in Units : \/ stage[u] = pc[u]
                            \/ stage[u] = "idle" /\ pc[u] \in SlotStages,
           held <= inFlight,
           concurrency' \in Nat,
           Admit(stage, held, concurrency')
    PROVE  StepPolicy
<1> DEFINE n == IF IsThrottled THEN 0 ELSE Room(waiting, held, concurrency')
<1>1. /\ waiting \in Seq(Units) /\ inFlight \in Nat
      /\ pc \in [Units -> Stages]
  BY DEF IInv, TypeOK
<1>2. /\ n \in Nat /\ Len(waiting) \in Nat
      /\ n \in 0..Len(waiting)
  BY <1>1, RoomRange, LenProperties
<1>3. /\ inFlight' = held + n
      /\ pc' = [u \in Units |-> IF \E i \in 1..n : waiting[i] = u
                                THEN "admitted" ELSE stage[u]]
  BY DEF Admit
<1>4. n > 0 => ~IsThrottled
  OBVIOUS
<1>5. n > 0 /\ concurrency' > 0 => held + n <= concurrency'
  BY <1>1, RoomRange
<1> HIDE DEF n
<1>6. ASSUME NEW u \in Units, GetsIn(u)
      PROVE  \E i \in 1..n : waiting[i] = u
  BY <1>1, <1>3, <1>6 DEF GetsIn
<1>7. ASSUME NEW u \in Units, GetsIn(u)
      PROVE  ~IsThrottled /\ providerLeft <= RETRY_AFTER_SAFETY
  BY <1>2, <1>4, <1>6, <1>7, PastDeadline
<1>8. ASSUME NEW u \in Units, NEW v \in Units,
             GetsIn(u), pc[v] = "waiting", pc'[v] = "waiting"
      PROVE  \E i, j \in 1..Len(waiting) :
                 waiting[i] = u /\ waiting[j] = v /\ i < j
  <2>1. PICK i \in 1..n : waiting[i] = u
    BY <1>6, <1>8
  <2>2. PICK j \in 1..Len(waiting) : waiting[j] = v
    BY <1>8 DEF IInv, QueueMatchesStages
  <2>3. ~(j \in 1..n)
    BY <1>3, <1>8, <2>2
  <2>4. i \in 1..Len(waiting) /\ i < j
    BY <1>2, <2>3
  <2> QED BY <2>1, <2>2, <2>4
<1>9. ASSUME NEW u \in Units, pc'[u] \in {"gated", "ungated"}
      PROVE  pc[u] = pc'[u]
  BY <1>3, <1>9
<1>10. ASSUME NEW u \in Units, GetsIn(u), concurrency' > 0
       PROVE  inFlight' <= concurrency'
  <2>1. n > 0
    BY <1>2, <1>6, <1>10
  <2> QED BY <1>3, <1>5, <1>10, <2>1
<1> QED BY <1>7, <1>8, <1>9, <1>10 DEF StepPolicy

(* Every step of the gate keeps to the policy. *)
LEMMA StepObeys == IInv /\ Next => StepPolicy
<1> SUFFICES ASSUME IInv, Next PROVE StepPolicy
  OBVIOUS
<1>1. /\ pc \in [Units -> Stages] /\ inFlight \in Nat /\ concurrency \in Nat
      /\ waiting \in Seq(Units)
  BY DEF IInv, TypeOK
<1>2. CASE Configure
  <2>1. PICK c \in 0..MaxConcurrency :
            concurrency' = c /\ Admit(pc, inFlight, c)
    BY <1>2 DEF Configure
  <2>2. concurrency' \in Nat /\ Admit(pc, inFlight, concurrency')
    BY <2>1, BoundsAssumption
  <2> QED BY <1>1, <2>2, AdmitObeys
<1>3. CASE ThrottleTimer
  <2>1. CASE Admit(pc, inFlight, concurrency)
    <3>1. concurrency' = concurrency
      BY <1>3 DEF ThrottleTimer, settings
    <3> QED BY <1>1, <2>1, <3>1, AdmitObeys
  <2>2. CASE UNCHANGED <<inFlight, pc>>
    BY <1>1, <2>2 DEF StepPolicy, GetsIn
  <2> QED BY <1>3, <2>1, <2>2 DEF ThrottleTimer
<1>4. CASE Tick \/ Drift
  BY <1>1, <1>4 DEF Tick, Drift, StepPolicy, GetsIn
<1>5. ASSUME NEW u \in Units, Call(u)
      PROVE  StepPolicy
  <2>1. \A v \in Units : v # u => pc'[v] = pc[v]
    BY <1>1, <1>5 DEF Call
  <2>2. GetsIn(u) => ~IsThrottled /\ waiting = <<>>
    BY <1>1, <1>5 DEF Call, GetsIn
  <2>3. \A v \in Units : GetsIn(v) => v = u
    BY <2>1 DEF GetsIn
  <2>4. waiting = <<>> => \A v \in Units : pc[v] # "waiting"
    <3>1. Len(<<>>) = 0
      BY EmptySeq
    <3> QED BY <3>1 DEF IInv, QueueMatchesStages
  <2>5. ~Unavailable
    BY <1>5 DEF Call
  <2>6. GetsIn(u) /\ concurrency' > 0 => inFlight' <= concurrency'
    BY <1>1, <1>5 DEF Call, GetsIn, settings
  <2> QED BY <2>2, <2>3, <2>4, <2>5, <2>6, PastDeadline DEF StepPolicy
<1>6. ASSUME NEW u \in Units, pc[u] \in SlotStages, Release(u),
             UNCHANGED settings
      PROVE  StepPolicy
  <2>1. CASE Free(u)
    <3> DEFINE stage == [pc EXCEPT ![u] = "idle"]
    <3>1. stage \in [Units -> Stages]
      BY <1>1 DEF Stages
    <3>2. \A v \in Units : \/ stage[v] = pc[v]
                           \/ stage[v] = "idle" /\ pc[v] \in SlotStages
      BY <1>1, <1>6
    <3>3. inFlight - 1 \in Nat /\ inFlight - 1 <= inFlight
      <4>1. inFlight - 1 \in Nat
        BY <1>6, HolderCounted
      <4> QED BY <4>1, <1>1
    <3>4. concurrency' = concurrency /\ Admit(stage, inFlight - 1, concurrency')
      BY <1>6, <2>1 DEF Free, settings
    <3> HIDE DEF stage
    <3> QED BY <1>1, <3>1, <3>2, <3>3, <3>4, AdmitObeys
  <2>2. CASE pc' = [pc EXCEPT ![u] = "cooling"] /\ UNCHANGED <<inFlight, waiting>>
    BY <1>1, <2>2 DEF StepPolicy, GetsIn
  <2> QED BY <1>6, <2>1, <2>2 DEF Release
<1>7. ASSUME NEW u \in Units, Resume(u)
      PROVE  StepPolicy
  <2>1. CASE Release(u)
    BY <1>6, <1>7, <2>1 DEF Resume, SlotStages
  <2>2. CASE /\ ~Unavailable /\ pc' = [pc EXCEPT ![u] = "gated"]
             /\ UNCHANGED <<inFlight, waiting>>
    BY <1>1, <1>7, <2>2 DEF StepPolicy, GetsIn, Resume
  <2> QED BY <1>7, <2>1, <2>2 DEF Resume
<1>8. ASSUME NEW u \in Units, WorkOver(u)
      PROVE  StepPolicy
  BY <1>1, <1>8 DEF WorkOver, StepPolicy, GetsIn
<1>9. ASSUME NEW u \in Units, Finally(u) \/ CooldownOver(u)
      PROVE  StepPolicy
  <2>1. CASE Finally(u)
    BY <1>6, <2>1 DEF Finally, SlotStages
  <2>2. CASE CooldownOver(u)
    <3> DEFINE stage == [pc EXCEPT ![u] = "idle"]
    <3>1. stage \in [Units -> Stages]
      BY <1>1 DEF Stages
    <3>2. pc[u] \in SlotStages
      BY <2>2 DEF CooldownOver, SlotStages
    <3>3. \A v \in Units : \/ stage[v] = pc[v]
                           \/ stage[v] = "idle" /\ pc[v] \in SlotStages
      BY <1>1, <3>2
    <3>4. inFlight - 1 \in Nat /\ inFlight - 1 <= inFlight
      <4>1. inFlight - 1 \in Nat
        BY <3>2, HolderCounted
      <4> QED BY <4>1, <1>1
    <3>5. concurrency' = concurrency /\ Admit(stage, inFlight - 1, concurrency')
      BY <2>2 DEF CooldownOver, Free, settings
    <3> HIDE DEF stage
    <3> QED BY <1>1, <3>1, <3>3, <3>4, <3>5, AdmitObeys
  <2> QED BY <1>9, <2>1, <2>2
<1> QED BY <1>2, <1>3, <1>4, <1>5, <1>7, <1>8, <1>9
        DEF Next, Answered, Unreachable, Throttled

(* In no step does a unit pass one that arrived before it and still waits. *)
THEOREM NobodyOvertakes == Spec => NoOvertaking
<1>1. IInv /\ [Next]_vars =>
          [\A u, v \in Units :
              GetsIn(u) /\ pc[v] = "waiting" /\ pc'[v] = "waiting" =>
                  \E i, j \in 1..Len(waiting) :
                      waiting[i] = u /\ waiting[j] = v /\ i < j]_vars
  BY StepObeys DEF StepPolicy
<1> QED BY <1>1, Invariant, PTL DEF Spec, NoOvertaking

(* Whoever gets in, through a free slot or one just handed on, leaves the  *)
(* gate within the limit of that moment.                                   *)
THEOREM LimitHolds == Spec => LimitRespected
<1>1. IInv /\ [Next]_vars =>
          [\A u \in Units : GetsIn(u) /\ concurrency' > 0
              => inFlight' <= concurrency']_vars
  BY StepObeys DEF StepPolicy
<1> QED BY <1>1, Invariant, PTL DEF Spec, LimitRespected

(* No step lets a unit in before the safety margin of a provider's hold. *)
THEOREM HoldHolds == Spec => HoldRespected
<1>1. IInv /\ [Next]_vars =>
          [\A u \in Units : GetsIn(u) =>
              ~IsThrottled /\ providerLeft <= RETRY_AFTER_SAFETY]_vars
  BY StepObeys DEF StepPolicy
<1> QED BY <1>1, Invariant, PTL DEF Spec, HoldRespected

(* No unit starts to dial while the breaker refuses, however it waited. *)
THEOREM BreakerHolds == Spec => BreakerRespected
<1>1. IInv /\ [Next]_vars =>
          [\A u \in Units :
              pc[u] \notin {"gated", "ungated"} /\ pc'[u] \in {"gated", "ungated"}
                  => ~Unavailable]_vars
  BY StepObeys DEF StepPolicy
<1> QED BY <1>1, Invariant, PTL DEF Spec, BreakerRespected
=============================================================================
