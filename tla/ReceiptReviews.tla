---------------------------- MODULE ReceiptReviews ----------------------------
(***************************************************************************)
(* The receipts of one owner: the decisions about pairs of them (different *)
(* purchases, keep one, combine both into a new receipt), their undoing,   *)
(* deletion and conversion, and the processing that goes on meanwhile.     *)
(*                                                                         *)
(* A decision is made about a pair as it was compared: a revision, a hash  *)
(* that every write to either receipt changes, comes with the request and  *)
(* is computed again under the locks of both rows.  A request whose pair   *)
(* has changed is refused and does nothing, so that comparing and deciding *)
(* are one step.  Combining is not: it assembles a PDF in between, one at  *)
(* a time, and its transaction reads the receipt it may reuse before it    *)
(* locks it.  `current` says of a combination and of a review that its     *)
(* pair is still as it was.                                                *)
(*                                                                         *)
(* Locks are taken NOWAIT: who does not get them is refused.  The numbers  *)
(* of Results name the receipts that combinations make and the files of    *)
(* assembled PDFs; a receipt made anew over a file has a new number.       *)
(*                                                                         *)
(* The hourly sweep of the bucket lists the objects, asks which have a row *)
(* and deletes the others, at any pace beside the rest.  The trash is out  *)
(* of this module: what is deleted here is not restored, and not purged.   *)
(***************************************************************************)
EXTENDS Naturals, Sequences, FiniteSets

CONSTANTS
  Sources,      \* the receipts there are at first
  Unprocessed,  \* those of them that have just been brought in
  Results,      \* the numbers of the receipts and files that combinations make
  Pairs,        \* the pairs that somebody compares
  Sweepers,     \* the sweeps of the bucket that go on at once
  MaxReviews,   \* the reviews of one behaviour
  Budget,       \* faults, retries, conversions and sweeps of one behaviour
  Configured    \* receipt extraction is configured

ASSUME SourcesAssumption == Unprocessed \subseteq Sources /\ Sources \cap (Results \cup {0}) = {}
ASSUME ResultsAssumption == Results \subseteq Nat \ {0}
ASSUME PairsAssumption == Pairs \subseteq SUBSET (Sources \cup Results) /\ \A pair \in Pairs : Cardinality(pair) = 2

VARIABLES
  receipts,     \* id -> [state, review, preview, extraction]
  reviews,      \* the reviews by position: [pair, action, result, undone, current]
  original,     \* the file of each combined receipt; 0 before there is one
  pdfs,         \* the assembled PDFs in the bucket
  sweep,        \* each sweep of the bucket: the objects it has listed, or will delete
  missed,       \* PDFs a sweep asked about before the combination they are for committed
  merge,        \* the combination that is being made
  waiting,      \* the receipts with a receipt-process job to be fetched
  lost,         \* the receipts with an active job whose call died
  run,          \* id -> the call of the handler, and whether the job is still its own
  converted,    \* combined receipts that were documents when their decision was undone
  left          \* what is left of the budget

vars == <<receipts, reviews, original, pdfs, sweep, missed, merge, waiting, lost, run, converted,
          left>>

bucket     == <<original, pdfs, sweep, missed>>
sweeping   == <<sweep, missed>>
processing == <<waiting, lost, run>>

Receipts == Sources \cup Results

Spend == left > 0 /\ left' = left - 1

(***************************************************************************)
(* Receipts                                                                *)
(***************************************************************************)

States == {"ACTIVE", "REPLACED", "MERGE_UNDONE"}

Exists(r) == receipts[r].state \in States
Active(r) == receipts[r].state = "ACTIVE"

Receipt(state, preview, extraction) ==
  [state |-> state, review |-> 0, preview |-> preview, extraction |-> extraction]

\* A row that is not there: never made, deleted, or made a document.
NoRow(state) == Receipt(state, "none", "none")

Unsettled == {"QUEUED", "RUNNING"}

IsReceiptProcessing(r) == {receipts[r].preview, receipts[r].extraction} \cap Unsettled # {}
HasFailed(r) == "FAILED" \in {receipts[r].preview, receipts[r].extraction}

SetReviewState(table, rs, state, review) ==
  [r \in Receipts |-> IF r \in rs THEN [table[r] EXCEPT !.state = state, !.review = review]
                      ELSE table[r]]

\* Every write to a receipt makes what was compared with it out of date.
Outdated(rs) == [i \in DOMAIN reviews |->
                   IF reviews[i].pair \cap rs # {} THEN [reviews[i] EXCEPT !.current = FALSE]
                   ELSE reviews[i]]
Idle == [at |-> "idle"]
Stale(rs) == IF merge # Idle /\ merge.pair \cap rs # {} THEN [merge EXCEPT !.current = FALSE]
             ELSE merge

Locked == IF merge.at = "locked" THEN merge.pair ELSE {}
Unlocked(rs) == rs \cap Locked = {}

(***************************************************************************)
(* Reviews                                                                 *)
(***************************************************************************)

NoResult == 0

Lives(i) == ~reviews[i].undone
Decides(i) == Lives(i) /\ reviews[i].action # "dismiss"

\* The receipts a review has hidden.
Hides(i) == IF reviews[i].action = "dismiss" THEN {} ELSE reviews[i].pair \ {reviews[i].result}

\* Mutant: a later review of the same pair is the only one in the way.
ReviewedAgain(i) ==
  \E j \in DOMAIN reviews : j > i /\ Decides(j) /\ reviews[i].pair = reviews[j].pair

HasDependents(i) ==
  \E j \in DOMAIN reviews : j > i /\ Decides(j) /\ reviews[i].result \in reviews[j].pair

\* latest(first, second) is in force and was made about the pair as it is.
AlreadyDecided(pair) ==
  \E i \in DOMAIN reviews :
    /\ reviews[i].pair = pair
    /\ \A j \in DOMAIN reviews : reviews[j].pair = pair => j <= i
    /\ Lives(i) /\ reviews[i].current

Made(m, pair) ==
  {i \in DOMAIN reviews :
     reviews[i].result = m /\ reviews[i].pair = pair /\ reviews[i].action = "merge"}

ReusableResult(m, pair) == \E i \in Made(m, pair) : ~Lives(i)

Init ==
  /\ receipts = [r \in Receipts |->
                   IF r \in Results THEN NoRow("none")
                   ELSE IF r \in Unprocessed THEN Receipt("ACTIVE", "QUEUED", "QUEUED")
                   ELSE Receipt("ACTIVE", "DONE", "DONE")]
  /\ waiting = Unprocessed
  /\ reviews = <<>>
  /\ original = [m \in Results |-> 0]
  /\ pdfs = {}
  /\ sweep = [s \in Sweepers |-> Idle]
  /\ missed = {}
  /\ merge = Idle
  /\ lost = {}
  /\ run = [r \in Receipts |-> Idle]
  /\ converted = {}
  /\ left = Budget

(***************************************************************************)
(* Deciding about a pair                                                   *)
(***************************************************************************)

Reviewable(pair) == \A r \in pair : Active(r) /\ ~IsReceiptProcessing(r)

\* MaxReviews bounds the behaviour, and leaves room for a transaction that has begun.
Room == Len(reviews) + (IF merge.at = "locked" THEN 1 ELSE 0) < MaxReviews

(* A decision takes effect: the review is written, the receipts it hides    *)
(* say which one hid them, and what was known of the receipts it touches is *)
(* out of date.                                                             *)
Decide(pair, action, result, table, touched) ==
  LET hidden == IF action = "dismiss" THEN {} ELSE pair \ {result} IN
  /\ receipts' = SetReviewState(table, hidden, "REPLACED", Len(reviews) + 1)
  /\ reviews' = Append(Outdated(touched),
                       [pair |-> pair, action |-> action, result |-> result,
                        undone |-> FALSE, current |-> hidden = {}])

Dismiss(pair) ==
  /\ Unlocked(pair)
  /\ Reviewable(pair)
  /\ ~AlreadyDecided(pair)
  /\ Room
  /\ Decide(pair, "dismiss", NoResult, receipts, {})
  /\ UNCHANGED <<bucket, merge, processing, converted, left>>

Keep(pair, kept) ==
  /\ Unlocked(pair)
  /\ Reviewable(pair)
  /\ ~AlreadyDecided(pair)
  /\ Room
  /\ Decide(pair, "keep", kept, receipts, pair \ {kept})
  /\ merge' = Stale(pair \ {kept})
  /\ UNCHANGED <<bucket, processing, converted, left>>

\* A number that no receipt, object or sweep has had to do with: ids are random.
Fresh ==
  {m \in Results : /\ receipts[m].state = "none"
                   /\ m \notin pdfs \cup missed
                   /\ \A s \in Sweepers : sweep[s] # Idle => m \notin sweep[s].objects}

\* The PDF is assembled, and put under the id of a file that may come to be.
StoreMerged(pair) ==
  /\ merge = Idle
  /\ Reviewable(pair)
  /\ \A r \in pair : receipts[r].preview = "DONE"
  /\ \E own \in Fresh :
       /\ \A m \in Fresh : own <= m
       /\ pdfs' = pdfs \cup {own}
       /\ merge' = [at |-> "stored", pair |-> pair, current |-> TRUE, own |-> own]
  /\ UNCHANGED <<receipts, reviews, original, sweeping, processing, converted, left>>

\* Mutant: what was shown is decided about, whatever it has become.
AsItWas == \A r \in merge.pair : Exists(r)

\* Under the locks: both are active and settled, and as they were compared.
Revalidated == Reviewable(merge.pair) /\ merge.current /\ ~AlreadyDecided(merge.pair)

\* The files the assembled bytes may turn out to be: a new one, or one made of this pair before.
SameBytes(pair) == {original[m] : m \in {x \in Results : Made(x, pair) # {}}}

ReceiptsOf(file) == {m \in Results : original[m] = file /\ Exists(m)}

Takes(file, result, busy) ==
  merge' = [at |-> "locked", pair |-> merge.pair, current |-> TRUE, own |-> merge.own,
            file |-> file, result |-> result, busy |-> busy]

(* The transaction locks the pair, and finds what the archive knows of the  *)
(* bytes: the receipt of a combination that was undone, or a file that is   *)
(* in no receipt and no document.                                           *)
FindResult ==
  /\ merge.at = "stored"
  /\ Revalidated
  /\ Room
  /\ \E file \in {merge.own} \cup SameBytes(merge.pair) :
       \/ \E m \in ReceiptsOf(file) :
            /\ receipts[m].state = "MERGE_UNDONE" /\ ReusableResult(m, merge.pair)
            /\ Takes(file, m, IsReceiptProcessing(m))
       \/ /\ ReceiptsOf(file) = {}
          /\ \A m \in Results : original[m] = file => receipts[m].state # "document"
          /\ Takes(file, merge.own, FALSE)
  /\ UNCHANGED <<receipts, reviews, bucket, processing, converted, left>>

Ending == [at |-> "cleanup", pair |-> {}, current |-> FALSE, own |-> merge.own]

\* It is enqueued whatever its steps say: its job may have passed it by while it was hidden.
EnqueueResult(m) == waiting \cup {m}

CommitMerge ==
  /\ merge.at = "locked"
  /\ LET m    == merge.result
         made == IF ~Exists(m) THEN Receipt("ACTIVE", "QUEUED", "QUEUED")
                 ELSE [receipts[m] EXCEPT !.state = "ACTIVE", !.review = 0,
                                          !.extraction = IF merge.busy THEN @ ELSE "QUEUED"]
     IN /\ Decide(merge.pair, "merge", m, [receipts EXCEPT ![m] = made], merge.pair \cup {m})
        /\ original' = [original EXCEPT ![m] = merge.file]
        /\ waiting' = EnqueueResult(m)
  /\ merge' = Ending
  /\ UNCHANGED <<pdfs, sweeping, lost, run, converted, left>>

\* The pair has changed, or the PDF cannot be made.
RefuseMerge ==
  /\ merge.at = "stored"
  /\ merge' = Ending
  /\ UNCHANGED <<receipts, reviews, bucket, processing, converted, left>>

\* The transaction fails: nothing of it was written.
FailMerge ==
  /\ Spend
  /\ merge.at = "locked"
  /\ merge' = Ending
  /\ UNCHANGED <<receipts, reviews, bucket, processing, converted>>

\* The object stays if a file row has its id, whatever became of the transaction.
Orphaned(file) == \A m \in Results : original[m] # file

CleanUp ==
  /\ merge.at = "cleanup"
  /\ pdfs' \in {pdfs, IF Orphaned(merge.own) THEN pdfs \ {merge.own} ELSE pdfs}
  /\ merge' = Idle
  /\ UNCHANGED <<receipts, reviews, original, sweeping, processing, converted, left>>

(***************************************************************************)
(* The sweep of the bucket                                                 *)
(***************************************************************************)

SweepList(s) ==
  /\ Spend
  /\ sweep[s] = Idle
  /\ sweep' = [sweep EXCEPT ![s] = [at |-> "listed", objects |-> pdfs]]
  /\ UNCHANGED <<receipts, reviews, original, pdfs, missed, merge, processing, converted>>

\* A file whose row has not been committed is not there for the question.
SweepAsk(s) ==
  /\ sweep[s].at = "listed"
  /\ LET orphans == {file \in sweep[s].objects : Orphaned(file)}
     IN /\ sweep' = [sweep EXCEPT ![s] = [at |-> "asked", objects |-> orphans]]
        /\ missed' = IF merge.at \in {"stored", "locked"} THEN missed \cup (orphans \cap {merge.own})
                     ELSE missed
  /\ UNCHANGED <<receipts, reviews, original, pdfs, merge, processing, converted, left>>

\* Key by key; what a failure leaves is for the next sweep.
SweepDelete(s) ==
  /\ sweep[s].at = "asked"
  /\ \E gone \in SUBSET sweep[s].objects : pdfs' = pdfs \ gone
  /\ sweep' = [sweep EXCEPT ![s] = Idle]
  /\ UNCHANGED <<receipts, reviews, original, missed, merge, processing, converted, left>>

(***************************************************************************)
(* Undoing, deleting, converting                                           *)
(***************************************************************************)

\* Mutant: the sources come back, and that is all.
NothingSteps(i) == {}

\* The receipt made by combining, if it is a receipt still.
StepsAside(i) ==
  IF reviews[i].action = "merge" /\ Exists(reviews[i].result) THEN {reviews[i].result} ELSE {}

(* The sources come back, and the receipt that combined them steps aside if *)
(* it is still a receipt; a later decision that uses it is undone first.    *)
Undo(i) ==
  /\ Lives(i)
  /\ Unlocked(reviews[i].pair \cup {reviews[i].result})
  /\ Decides(i) => ~HasDependents(i)
  /\ \A r \in Hides(i) : receipts[r].state = "REPLACED" /\ receipts[r].review = i
  /\ LET result == StepsAside(i)
     IN /\ receipts' = SetReviewState(SetReviewState(receipts, Hides(i), "ACTIVE", 0),
                                      result, "MERGE_UNDONE", i)
        /\ reviews' = [Outdated(Hides(i) \cup result) EXCEPT ![i].undone = TRUE]
        /\ merge' = Stale(Hides(i) \cup result)
  /\ converted' = IF reviews[i].action = "merge" /\ receipts[reviews[i].result].state = "document"
                  THEN converted \cup {reviews[i].result} ELSE converted
  /\ UNCHANGED <<bucket, processing, left>>

\* A row goes, or a new one comes: whatever was compared with it is no more.
Becomes(r, row) ==
  /\ receipts' = [receipts EXCEPT ![r] = row]
  /\ reviews' = Outdated({r})
  /\ merge' = Stale({r})

DeleteReceipt(r) ==
  /\ Spend
  /\ Unlocked({r})
  /\ Active(r)
  /\ Becomes(r, NoRow("deleted"))
  /\ UNCHANGED <<bucket, processing, converted>>

ToDocument(r) ==
  /\ Spend
  /\ Unlocked({r})
  /\ Active(r) /\ ~IsReceiptProcessing(r)
  /\ Becomes(r, NoRow("document"))
  /\ UNCHANGED <<bucket, processing, converted>>

ToReceipt(r) ==
  /\ receipts[r].state = "document"
  /\ Becomes(r, Receipt("ACTIVE", "QUEUED", "QUEUED"))
  /\ waiting' = waiting \cup {r}
  /\ UNCHANGED <<bucket, lost, run, converted, left>>

(***************************************************************************)
(* Processing.  Calls about one receipt follow each other in one process:  *)
(* a job fetched while an earlier call goes on waits for it, here in the   *)
(* queue.                                                                  *)
(***************************************************************************)

NoLiveJob(r) == r \notin waiting \cup lost /\ ~(run[r] # Idle /\ run[r].holder)

\* The call is over, and if the job is still its own the job is done.
Completes(r) == run' = [run EXCEPT ![r] = Idle] /\ UNCHANGED waiting

\* A failed job is delivered again, unless its retries are used up.
Throws(r) ==
  /\ run' = [run EXCEPT ![r] = Idle]
  /\ waiting' \in {waiting, IF run[r].holder THEN waiting \cup {r} ELSE waiting}

Goes(r, at) == run' = [run EXCEPT ![r].at = at] /\ UNCHANGED waiting

\* The row is read once: what it is later, nobody asks.
BeginRun(r) ==
  /\ run[r] = Idle
  /\ r \in waiting
  /\ waiting' = waiting \ {r}
  /\ run' = IF ~Active(r) \/ (receipts[r].preview = "DONE" /\ receipts[r].extraction = "DONE")
            THEN run
            ELSE [run EXCEPT ![r] = [at |-> IF receipts[r].preview = "DONE" THEN "load" ELSE "render",
                                     holder |-> TRUE]]
  /\ UNCHANGED <<receipts, reviews, bucket, merge, lost, converted, left>>

\* updateProcessing, by id: it waits for the lock of the row, and fails when there is none.
Write(r, preview, extraction) ==
  /\ Unlocked({r})
  /\ Exists(r)
  /\ Becomes(r, [receipts[r] EXCEPT !.preview = preview, !.extraction = extraction])
  /\ UNCHANGED <<bucket, lost, converted>>

WritePreview(r, status) == Write(r, status, receipts[r].extraction)
WriteExtraction(r, status) == Write(r, receipts[r].preview, status)

StartRender(r) ==
  /\ run[r].at = "render"
  /\ WritePreview(r, "RUNNING") /\ Goes(r, "rendering")
  /\ UNCHANGED left

Rendered(r) ==
  /\ run[r].at = "rendering"
  /\ WritePreview(r, "DONE") /\ Goes(r, "extract")
  /\ UNCHANGED left

RenderFails(r) ==
  /\ Spend
  /\ run[r].at = "rendering"
  /\ \/ Write(r, "FAILED", "FAILED") /\ Completes(r)
     \/ WritePreview(r, "QUEUED") /\ Throws(r)

LoadFails(r) ==
  /\ Spend
  /\ run[r].at = "load"
  /\ \/ WriteExtraction(r, "FAILED") /\ (Completes(r) \/ Throws(r))
     \/ WriteExtraction(r, "QUEUED") /\ Throws(r)

\* Pages in hand, extraction starts, or is skipped when nothing is configured.
StartExtraction(r) ==
  /\ run[r].at \in {"load", "extract"}
  /\ IF Configured THEN WriteExtraction(r, "RUNNING") /\ Goes(r, "extracting")
     ELSE WriteExtraction(r, "SKIPPED") /\ Completes(r)
  /\ UNCHANGED left

Extracted(r) ==
  /\ run[r].at = "extracting"
  /\ WriteExtraction(r, "DONE") /\ Completes(r)
  /\ UNCHANGED left

ExtractionFails(r) ==
  /\ Spend
  /\ run[r].at = "extracting"
  /\ \/ WriteExtraction(r, "FAILED") /\ Completes(r)
     \/ WriteExtraction(r, "QUEUED") /\ Throws(r)

\* The next write of the call finds no row.
RowGone(r) ==
  /\ run[r] # Idle
  /\ ~Exists(r)
  /\ Throws(r)
  /\ UNCHANGED <<receipts, reviews, bucket, merge, lost, converted, left>>

\* The call outlives the expiry of its job.
Expire(r) ==
  /\ Spend
  /\ run[r] # Idle /\ run[r].holder
  /\ run' = [run EXCEPT ![r].holder = FALSE]
  /\ waiting' \in {waiting, waiting \cup {r}}
  /\ UNCHANGED <<receipts, reviews, bucket, merge, lost, converted>>

\* The process dies: requests and calls are gone, their jobs stay active until they expire.
Crash ==
  /\ Spend
  /\ merge' = Idle
  /\ sweep' = [s \in Sweepers |-> Idle]
  /\ run' = [r \in Receipts |-> Idle]
  /\ lost' = lost \cup {r \in Receipts : run[r] # Idle /\ run[r].holder}
  /\ UNCHANGED <<receipts, reviews, original, pdfs, missed, waiting, converted>>

RecoverJob(r) ==
  /\ r \in lost
  /\ lost' = lost \ {r}
  /\ waiting' \in {waiting, waiting \cup {r}}
  /\ UNCHANGED <<receipts, reviews, bucket, merge, run, converted, left>>

Requeue(r) ==
  /\ Unlocked({r})
  /\ NoLiveJob(r)
  /\ waiting' = waiting \cup {r}
  /\ Becomes(r, [receipts[r] EXCEPT !.preview = IF @ = "DONE" THEN @ ELSE "QUEUED",
                                    !.extraction = "QUEUED"])
  /\ UNCHANGED <<bucket, run, lost, converted, left>>

\* Mutant: what is RUNNING has a call that will end it.
SweepQueued(r) ==
  /\ Active(r) /\ ~HasFailed(r)
  /\ "QUEUED" \in {receipts[r].preview, receipts[r].extraction}
  /\ Requeue(r)

\* lockStaleUnstarted: nobody works on it, and it has not failed.
SweepStale(r) ==
  /\ Active(r) /\ IsReceiptProcessing(r) /\ ~HasFailed(r)
  /\ Requeue(r)

\* Somebody asks for what has failed, or is stuck, to be tried again.
RetryFailedReceipts(r) ==
  /\ Configured
  /\ Active(r) /\ (HasFailed(r) \/ IsReceiptProcessing(r))
  /\ Requeue(r)

Deciding ==
  \/ \E pair \in Pairs :
       Dismiss(pair) \/ StoreMerged(pair) \/ \E kept \in pair : Keep(pair, kept)
  \/ FindResult \/ CommitMerge \/ RefuseMerge \/ FailMerge \/ CleanUp
  \/ \E i \in DOMAIN reviews : Undo(i)

Running(r) ==
  BeginRun(r) \/ StartRender(r) \/ Rendered(r) \/ StartExtraction(r) \/ Extracted(r) \/ RowGone(r)

Next ==
  \/ Crash
  \/ Deciding
  \/ \E s \in Sweepers : SweepList(s) \/ SweepAsk(s) \/ SweepDelete(s)
  \/ \E r \in Receipts :
       \/ DeleteReceipt(r) \/ ToDocument(r) \/ ToReceipt(r)
       \/ Running(r) \/ RenderFails(r) \/ LoadFails(r) \/ ExtractionFails(r)
       \/ Expire(r) \/ RecoverJob(r) \/ SweepStale(r) \/ RetryFailedReceipts(r)

(* A job that waits is fetched and a call under way goes on; an expired job *)
(* is found, the sweep comes back, and a transaction ends.                  *)
Fairness ==
  /\ \A r \in Receipts : WF_vars(Running(r)) /\ WF_vars(RecoverJob(r)) /\ WF_vars(SweepStale(r))
  /\ WF_vars(CommitMerge)

Spec == Init /\ [][Next]_vars
FairSpec == Spec /\ Fairness

(***************************************************************************)
(* Properties                                                              *)
(***************************************************************************)

Statuses == {"QUEUED", "RUNNING", "DONE", "FAILED", "SKIPPED"}

TypeOK ==
  /\ \A r \in Receipts :
       \/ receipts[r] = NoRow("none") \/ receipts[r] = NoRow("deleted") \/ receipts[r] = NoRow("document")
       \/ receipts[r] \in [state : States, review : 0 .. MaxReviews,
                           preview : Statuses, extraction : Statuses]
  /\ Len(reviews) <= MaxReviews
  /\ original \in [Results -> Results \cup {0}]
  /\ pdfs \cup missed \subseteq Results
  /\ waiting \cup lost \cup converted \subseteq Receipts

(* Nothing a decision hides is hidden for good: as long as the review is in *)
(* force the receipts it hid are there, hidden by it and by no other, so    *)
(* that undoing it (after the later ones that use its result) brings them   *)
(* back; and nothing else is hidden.                                        *)
HiddenIsUndoable ==
  /\ \A i \in DOMAIN reviews : Decides(i) =>
       \A r \in Hides(i) : receipts[r].state = "REPLACED" /\ receipts[r].review = i
  /\ \A r \in Receipts : receipts[r].state = "REPLACED" =>
       receipts[r].review \in {i \in DOMAIN reviews : Decides(i) /\ r \in Hides(i)}

(* A purchase does not vanish: what took the place of a hidden receipt is   *)
(* on the shelf with its original, or gave way to a later decision, or      *)
(* somebody deleted or converted it.  Only a sweep that asked about the PDF *)
(* before the row of its file was committed may have taken the original:    *)
(* whatever is asked, cleaned up or swept later leaves it.                  *)
PurchaseStaysVisible ==
  \A i \in DOMAIN reviews : Decides(i) =>
    LET result == reviews[i].result IN
    \/ Active(result) /\ (result \in Results => original[result] \in pdfs \cup missed)
    \/ receipts[result].state = "REPLACED" /\ receipts[result].review > i
    \/ receipts[result].state \in {"deleted", "document"}

(* A purchase is counted once: a combined receipt is on the shelf only      *)
(* while a decision that made it hides its parts (unless it was a document  *)
(* when that decision was undone, and is a receipt again; one restored from *)
(* the trash after its decision was undone is a new receipt, not modelled). *)
CountedOnce ==
  \A m \in Results \ converted : Active(m) =>
    \E i \in DOMAIN reviews : Decides(i) /\ reviews[i].action = "merge" /\ reviews[i].result = m

(* Every receipt on the shelf is settled in the end, or has failed and      *)
(* waits for somebody, whatever was hidden and brought back, failed, died   *)
(* or was delivered twice while it was being processed.                     *)
ReceiptsSettle ==
  \A r \in Receipts : []<>(Active(r) => ~IsReceiptProcessing(r) \/ HasFailed(r))
=============================================================================
