----------------------- MODULE WholeFileReadsProofs -----------------------
(***************************************************************************)
(* What the gate in front of whole-file reads promises for any number of   *)
(* calls, any limit and any depth.  A release gives a slot up and wakes    *)
(* one waiter, which takes it: the sum of both is kept, if the waiter it   *)
(* wakes is one that neither reads nor is awake already (QueueIsExact).    *)
(***************************************************************************)
EXTENDS WholeFileReads, FiniteSetTheorems, SequenceTheorems, TLAPS

(* The queue names calls that wait, each once. *)
QueueIsExact ==
    /\ \A i \in 1..Len(waiting) : pc[waiting[i]] = "waiting"
    /\ \A i, j \in 1..Len(waiting) : waiting[i] = waiting[j] => i = j

IInv == TypeOK /\ QueueIsExact /\ CounterIsReaders /\ QueueIsServed

(* The calls at one stage are finitely many; one more or one less of them  *)
(* is one more or one less.                                                *)
LEMMA Counts ==
    ASSUME NEW S \in SUBSET Calls, NEW c \in Calls
    PROVE  /\ Cardinality(S) \in Nat
           /\ c \notin S => Cardinality(S \cup {c}) = Cardinality(S) + 1
           /\ c \in S => /\ Cardinality(S \ {c}) = Cardinality(S) - 1
                         /\ Cardinality(S) - 1 \in Nat
<1>1. IsFiniteSet(S)
  BY CallsAssumption, FS_Subset
<1>2. IsFiniteSet(S \ {c}) /\ Cardinality(S \ {c}) \in Nat
  BY <1>1, FS_RemoveElement, FS_CardinalityType
<1> QED BY <1>1, <1>2, FS_AddElement, FS_RemoveElement, FS_CardinalityType

(* The head of a queue, and what is left of it. *)
LEMMA HeadAndTail ==
    ASSUME TypeOK, waiting # <<>>
    PROVE  /\ Head(waiting) = waiting[1] /\ waiting[1] \in Calls
           /\ 1 \in 1..Len(waiting)
           /\ Tail(waiting) \in Seq(Calls)
           /\ Len(Tail(waiting)) = Len(waiting) - 1
           /\ \A i \in 1..Len(Tail(waiting)) :
                  /\ i + 1 \in 1..Len(waiting)
                  /\ Tail(waiting)[i] = waiting[i + 1]
<1>1. waiting \in Seq(Calls)
  BY DEF TypeOK
<1>2. Len(waiting) \in Nat /\ Len(waiting) > 0
  BY <1>1, LenProperties, EmptySeq
<1>3. 1 \in 1..Len(waiting) /\ waiting[1] \in Calls
  BY <1>1, <1>2, ElementOfSeq
<1>4. /\ Head(waiting) = waiting[1]
      /\ Tail(waiting) \in Seq(Calls)
      /\ Len(Tail(waiting)) = Len(waiting) - 1
      /\ \A i \in 1..Len(Tail(waiting)) : Tail(waiting)[i] = waiting[i + 1]
  BY <1>1, HeadTailProperties
<1>5. \A i \in 1..Len(Tail(waiting)) : i + 1 \in 1..Len(waiting)
  BY <1>2, <1>4
<1> QED BY <1>3, <1>4, <1>5

-----------------------------------------------------------------------------
(* Nobody has called yet. *)
LEMMA InitGives == Init => IInv
<1> SUFFICES ASSUME Init PROVE IInv
  OBVIOUS
<1>1. TypeOK /\ QueueIsExact /\ QueueIsServed
  BY DEF Init, TypeOK, Stages, QueueIsExact, QueueIsServed
<1>2. At("reading") = {}
  BY DEF Init, At
<1>3. CounterIsReaders
  BY <1>2, FS_EmptySet DEF Init, CounterIsReaders
<1> QED BY <1>1, <1>3 DEF IInv

(* acquire() up to its await: a slot at once, or the end of the queue *)
LEMMA AcquireKeeps == ASSUME NEW c \in Calls PROVE IInv /\ Acquire(c) => IInv'
<1> SUFFICES ASSUME IInv, Acquire(c) PROVE IInv'
  OBVIOUS
<1>1. /\ inFlight \in Nat /\ waiting \in Seq(Calls)
      /\ pc \in [Calls -> Stages] /\ pc[c] = "idle"
      /\ QueueIsExact /\ QueueIsServed
      /\ inFlight = Cardinality(At("reading"))
  BY DEF IInv, TypeOK, CounterIsReaders, Acquire
<1>2. \A i \in 1..Len(waiting) : waiting[i] \in Calls /\ waiting[i] # c
  BY <1>1, ElementOfSeq DEF QueueIsExact
<1>3. CASE /\ waiting = <<>> /\ inFlight' = inFlight + 1
           /\ pc' = [pc EXCEPT ![c] = "reading"] /\ UNCHANGED waiting
  <2>1. TypeOK' /\ QueueIsServed'
    BY <1>1, <1>3 DEF TypeOK, Stages, QueueIsServed
  <2>2. QueueIsExact'
    BY <1>1, <1>2, <1>3 DEF QueueIsExact
  <2>3. At("reading")' = At("reading") \cup {c} /\ c \notin At("reading")
    BY <1>1, <1>3 DEF At
  <2>4. Cardinality(At("reading")') = Cardinality(At("reading")) + 1
    <3>1. At("reading") \in SUBSET Calls
      BY DEF At
    <3> QED BY <2>3, <3>1, Counts
  <2>5. CounterIsReaders'
    BY <1>1, <1>3, <2>4 DEF CounterIsReaders
  <2> QED BY <2>1, <2>2, <2>5 DEF IInv
<1>4. CASE /\ waiting # <<>> \/ inFlight >= Limit
           /\ waiting' = Append(waiting, c)
           /\ pc' = [pc EXCEPT ![c] = "waiting"] /\ UNCHANGED inFlight
  <2>1. /\ waiting' \in Seq(Calls) /\ Len(waiting') = Len(waiting) + 1
        /\ Len(waiting) \in Nat
        /\ waiting'[Len(waiting) + 1] = c
        /\ \A i \in 1..Len(waiting) : waiting'[i] = waiting[i]
    BY <1>1, <1>4, AppendProperties, LenProperties
  <2>2. TypeOK'
    BY <1>1, <1>4, <2>1 DEF TypeOK, Stages
  <2>3. \A i \in 1..Len(waiting') :
            i \in 1..Len(waiting) \/ i = Len(waiting) + 1
    BY <2>1
  <2>4. \A i \in 1..Len(waiting') : pc'[waiting'[i]] = "waiting"
    BY <1>1, <1>2, <1>4, <2>1, <2>3 DEF QueueIsExact
  <2>5. \A i, j \in 1..Len(waiting') : waiting'[i] = waiting'[j] => i = j
    BY <1>1, <1>2, <2>1, <2>3 DEF QueueIsExact
  <2>6. /\ At("reading")' = At("reading") /\ At("woken")' = At("woken")
    BY <1>1, <1>4 DEF At
  <2>7. Cardinality(At("woken")) \in Nat
    <3>1. At("woken") \in SUBSET Calls
      BY DEF At
    <3> QED BY <3>1, Counts
  <2>8. CounterIsReaders' /\ QueueIsServed'
    <3>1. inFlight + Cardinality(At("woken")) >= Limit
      <4>1. Limit \in Nat
        BY LimitsAssumption
      <4> QED BY <1>1, <1>4, <2>7, <4>1 DEF QueueIsServed
    <3> QED BY <1>1, <1>4, <2>6, <3>1 DEF CounterIsReaders, QueueIsServed
  <2> QED BY <2>2, <2>4, <2>5, <2>8 DEF IInv, QueueIsExact
<1> QED BY <1>3, <1>4 DEF Acquire

(* acquire() after its await: the one who was woken counts itself *)
LEMMA ResumeKeeps == ASSUME NEW c \in Calls PROVE IInv /\ Resume(c) => IInv'
<1> SUFFICES ASSUME IInv, Resume(c) PROVE IInv'
  OBVIOUS
<1>1. /\ inFlight \in Nat /\ waiting \in Seq(Calls)
      /\ pc \in [Calls -> Stages] /\ pc[c] = "woken"
      /\ QueueIsExact /\ QueueIsServed
      /\ inFlight = Cardinality(At("reading"))
      /\ inFlight' = inFlight + 1
      /\ pc' = [pc EXCEPT ![c] = "reading"] /\ UNCHANGED waiting
  BY DEF IInv, TypeOK, CounterIsReaders, Resume
<1>2. \A i \in 1..Len(waiting) : waiting[i] \in Calls /\ waiting[i] # c
  BY <1>1, ElementOfSeq DEF QueueIsExact
<1>3. TypeOK' /\ QueueIsExact'
  BY <1>1, <1>2 DEF TypeOK, Stages, QueueIsExact
<1>4. /\ At("reading")' = At("reading") \cup {c} /\ c \notin At("reading")
      /\ At("woken")' = At("woken") \ {c} /\ c \in At("woken")
      /\ At("reading") \in SUBSET Calls /\ At("woken") \in SUBSET Calls
  BY <1>1 DEF At
<1>5. Cardinality(At("reading")') = Cardinality(At("reading")) + 1
  BY <1>4, Counts
<1>6. /\ Cardinality(At("woken")') = Cardinality(At("woken")) - 1
      /\ Cardinality(At("woken")) \in Nat
  BY <1>4, Counts
<1>7. CounterIsReaders'
  BY <1>1, <1>5 DEF CounterIsReaders
<1>8. QueueIsServed'
  BY <1>1, <1>6 DEF QueueIsServed
<1> QED BY <1>3, <1>7, <1>8 DEF IInv

(* run()'s finally: what the reader gives up the first waiter will take *)
LEMMA ReleaseKeeps == ASSUME NEW c \in Calls PROVE IInv /\ Release(c) => IInv'
<1> SUFFICES ASSUME IInv, Release(c) PROVE IInv'
  OBVIOUS
<1>1. /\ inFlight \in Nat /\ waiting \in Seq(Calls)
      /\ pc \in [Calls -> Stages] /\ pc[c] = "reading"
      /\ QueueIsExact /\ QueueIsServed /\ TypeOK
      /\ inFlight = Cardinality(At("reading"))
      /\ inFlight' = inFlight - 1
  BY DEF IInv, TypeOK, CounterIsReaders, Release
<1>2. \A i \in 1..Len(waiting) : waiting[i] \in Calls /\ waiting[i] # c
  BY <1>1, ElementOfSeq DEF QueueIsExact
<1>3. /\ At("reading") \in SUBSET Calls /\ At("woken") \in SUBSET Calls
      /\ c \in At("reading")
  BY <1>1 DEF At
<1>4. /\ Cardinality(At("reading") \ {c}) = Cardinality(At("reading")) - 1
      /\ Cardinality(At("reading")) - 1 \in Nat
  BY <1>3, Counts
<1>5. CASE /\ waiting = <<>> /\ pc' = [pc EXCEPT ![c] = "idle"]
           /\ UNCHANGED waiting
  <2>1. At("reading")' = At("reading") \ {c}
    BY <1>1, <1>5 DEF At
  <2>2. TypeOK' /\ CounterIsReaders'
    BY <1>1, <1>4, <1>5, <2>1 DEF TypeOK, Stages, CounterIsReaders
  <2>3. QueueIsExact' /\ QueueIsServed'
    BY <1>1, <1>2, <1>5 DEF QueueIsExact, QueueIsServed
  <2> QED BY <2>2, <2>3 DEF IInv
<1>6. CASE /\ waiting # <<>>
           /\ pc' = [pc EXCEPT ![c] = "idle", ![Head(waiting)] = "woken"]
           /\ waiting' = Tail(waiting)
  <2> DEFINE h == waiting[1]
  <2>1. /\ h \in Calls /\ pc[h] = "waiting" /\ h # c
        /\ pc' = [pc EXCEPT ![c] = "idle", ![h] = "woken"]
        /\ waiting' \in Seq(Calls)
        /\ \A i \in 1..Len(waiting') :
               i + 1 \in 1..Len(waiting) /\ waiting'[i] = waiting[i + 1]
        /\ 1 \in 1..Len(waiting)
    BY <1>1, <1>2, <1>6, HeadAndTail DEF QueueIsExact
  <2>2. \A i \in 1..Len(waiting') : waiting'[i] # h /\ i \in Nat
    <3> SUFFICES ASSUME NEW i \in 1..Len(waiting'), waiting'[i] = h
                 PROVE  FALSE
      OBVIOUS
    <3>1. i + 1 = 1
      BY <1>1, <2>1 DEF QueueIsExact
    <3> QED BY <3>1
  <2> HIDE DEF h
  <2>3. \A i \in 1..Len(waiting') : pc'[waiting'[i]] = "waiting"
    BY <1>1, <1>2, <2>1, <2>2 DEF QueueIsExact
  <2>4. \A i, j \in 1..Len(waiting') : waiting'[i] = waiting'[j] => i = j
    <3> SUFFICES ASSUME NEW i \in 1..Len(waiting'), NEW j \in 1..Len(waiting'),
                        waiting'[i] = waiting'[j]
                 PROVE  i = j
      OBVIOUS
    <3>1. i + 1 = j + 1
      BY <1>1, <2>1 DEF QueueIsExact
    <3> QED BY <3>1
  <2>5. /\ At("reading")' = At("reading") \ {c}
        /\ At("woken")' = At("woken") \cup {h} /\ h \notin At("woken")
    BY <1>1, <2>1 DEF At
  <2>6. /\ Cardinality(At("woken")') = Cardinality(At("woken")) + 1
        /\ Cardinality(At("woken")) \in Nat
    BY <1>3, <2>1, <2>5, Counts
  <2>7. TypeOK' /\ CounterIsReaders'
    BY <1>1, <1>4, <2>1, <2>5 DEF TypeOK, Stages, CounterIsReaders
  <2>8. QueueIsServed'
    <3>1. Limit \in Nat
      BY LimitsAssumption
    <3> QED BY <1>1, <1>6, <2>6, <3>1 DEF QueueIsServed
  <2> QED BY <2>3, <2>4, <2>7, <2>8 DEF IInv, QueueIsExact
<1> QED BY <1>5, <1>6 DEF Release

(* Every step keeps the invariant. *)
LEMMA StepKeeps == IInv /\ [Next]_vars => IInv'
<1>1. ASSUME IInv, UNCHANGED vars PROVE IInv'
  BY <1>1 DEF IInv, TypeOK, QueueIsExact, CounterIsReaders, QueueIsServed, At,
              vars
<1> QED BY <1>1, AcquireKeeps, ResumeKeeps, ReleaseKeeps DEF Next

-----------------------------------------------------------------------------
(* The counter, the queue and those it wakes fit each other in every       *)
(* reachable state, for any calls, limit and depth.                        *)
THEOREM Invariant == Spec => []IInv
<1> QED BY InitGives, StepKeeps, PTL DEF Spec

(* The counter of whole-file-reads.ts is the number of calls that hold a   *)
(* file, although a waiter counts itself only when it is resumed.          *)
THEOREM CounterExact == Spec => []CounterIsReaders
<1>1. IInv => CounterIsReaders
  BY DEF IInv
<1> QED BY <1>1, Invariant, PTL

(* Nobody is left in a queue that nobody serves: while a call waits, enough*)
(* others read, or are about to, to wake it.                               *)
THEOREM NobodyForgotten == Spec => []QueueIsServed
<1>1. IInv => QueueIsServed
  BY DEF IInv
<1> QED BY <1>1, Invariant, PTL
=============================================================================
