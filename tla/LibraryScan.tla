----------------------------- MODULE LibraryScan -----------------------------
(***************************************************************************)
(* The scans of one library and the ingest of the files they find.  A scan *)
(* compares what it walks with a snapshot of the refs taken when it began, *)
(* writes each ref by id whatever has become of it since, and enqueues an  *)
(* ingest for every path it is not sure of once the whole tree is known.   *)
(* An ingest reads its ref, hashes the file, and then marks the ref in one *)
(* transaction with the document it creates.  People delete, restore and   *)
(* purge what the refs point at meanwhile; the volume changes under all of *)
(* it; scans and ingests fail, die and are delivered again.                *)
(*                                                                         *)
(* The database is at READ COMMITTED: each statement of a transaction sees *)
(* what the others have committed by then.  The transaction of an ingest   *)
(* is one step for the row of its file, one for its ref, and the commit;   *)
(* that of a purge is one for the refs and the commit.  What is written    *)
(* and not committed is kept with the writer, and a statement waits as     *)
(* long as another transaction has written the ref it wants.               *)
(*                                                                         *)
(* A size and a modification time are one number here, taken from a clock  *)
(* that never gives the same one twice.  A content is its own file id: one *)
(* row a content, and a purge empties every ref that names the row.        *)
(***************************************************************************)
EXTENDS Naturals, FiniteSets

CONSTANTS
  Paths,        \* the paths of the volume
  Contents,     \* what may be at them
  Triggers,     \* the runs "Scan now" creates
  Scanners,     \* calls of the scan handler at once
  Ingesters,    \* calls of the ingest handler at once
  MaxScan,      \* SCAN_MAX_FILES; 0 for no limit
  Budget,       \* changes by the volume and by people, and faults, of one behaviour
  None          \* null

ASSUME NoneAssumption == None \notin Contents \cup Triggers \cup {"sweep"}
ASSUME BudgetAssumption == Budget \in Nat /\ MaxScan \in Nat

VARIABLES
  disk,         \* what is at each path: [content, mtime, there]
  clock,        \* the last modification time the volume gave
  refs,         \* file_refs: path -> [status, mtime, hash, file]; "NONE" is no row
  home,         \* the file row of each content: absent, read by a document, in the trash, both
  library,      \* the library row
  running,      \* the RUNNING scan run of the library
  jobs,         \* the library-scan jobs of the library: created, retry, active
  scan,         \* each call of the scan handler
  pending,      \* the paths of the refs with a file-ingest job waiting
  ingest,       \* each call of the ingest handler
  purging,      \* the contents whose purge has begun and is not committed
  tombs,        \* the refs that those purges have marked and not committed
  unread,       \* paths whose ref has a time that a scan wrote and no ingest has read at
  beside,       \* paths whose ref was last marked while a purge of the same file went on
  left          \* what is left of the budget

vars == <<disk, clock, refs, home, library, running, jobs, scan, pending, ingest, purging, tombs,
          unread, beside, left>>

volume   == <<disk, clock>>
archive  == <<refs, home, purging, tombs, unread, beside>>
trash    == <<purging, tombs>>
handlers == <<library, running, jobs, scan, pending, ingest>>

Spend == left > 0 /\ left' = left - 1

NoRef    == [status |-> "NONE", mtime |-> 0, hash |-> None, file |-> None]
Idle     == [at |-> "idle"]
Tombstone(c, mtime) == [status |-> "EXCLUDED", mtime |-> mtime, hash |-> c, file |-> None]
Hashed(c, mtime) == [status |-> "HASHED", mtime |-> mtime, hash |-> c, file |-> c]

(* The library is new, or it has files that were scanned and ingested, some *)
(* of which were deleted since; a scan is due.                              *)
Init ==
  /\ \E known \in [Paths -> Contents \cup {None}], deleted \in SUBSET Contents :
       LET old == {p \in Paths : known[p] # None} IN
       /\ \A c \in deleted : \E p \in Paths : known[p] = c
       /\ clock = IF old = {} THEN 0 ELSE 1
       /\ disk = [p \in Paths |-> [content |-> known[p], mtime |-> IF p \in old THEN 1 ELSE 0,
                                   there |-> p \in old]]
       /\ refs = [p \in Paths |-> IF p \notin old THEN NoRef
                                 ELSE IF known[p] \in deleted THEN Tombstone(known[p], 1)
                                 ELSE Hashed(known[p], 1)]
       /\ home = [c \in Contents |-> IF c \in deleted THEN "trash"
                                    ELSE IF \E p \in Paths : known[p] = c THEN "document"
                                    ELSE "absent"]
  /\ library = "on"
  /\ running = None
  /\ jobs = [created |-> "sweep", retry |-> None, active |-> None]
  /\ scan = [s \in Scanners |-> Idle]
  /\ pending = {}
  /\ ingest = [i \in Ingesters |-> Idle]
  /\ purging = {} /\ tombs = {}
  /\ unread = {} /\ beside = {}
  /\ left = Budget

(***************************************************************************)
(* The volume                                                              *)
(***************************************************************************)

\* A file appears, is replaced or is touched.
Write(p, c) ==
  /\ Spend
  /\ clock' = clock + 1
  /\ disk' = [disk EXCEPT ![p] = [content |-> c, mtime |-> clock + 1, there |-> TRUE]]
  /\ UNCHANGED <<archive, handlers>>

\* A folder is moved away, or back as it was.
Move(p) ==
  /\ Spend
  /\ disk[p].mtime > 0
  /\ disk' = [disk EXCEPT ![p].there = ~@]
  /\ UNCHANGED <<clock, archive, handlers>>

(***************************************************************************)
(* People: the library, its documents, the trash                           *)
(***************************************************************************)

SetLibrary(state) ==
  /\ Spend
  /\ library # "deleted" /\ library # state
  /\ library' = state
  /\ UNCHANGED <<volume, archive, running, jobs, scan, pending, ingest>>

\* The open transaction of an ingest holds the ref it has marked and the row the ref names.
Marks(i, c) == ingest[i].at = "marked" /\ ingest[i].hash = c
Ingested(p) == \E i \in Ingesters : ingest[i].at = "marked" /\ ingest[i].path = p

\* A ref that another transaction has written: a statement that wants it waits.
Locked(p) == p \in tombs \/ Ingested(p)

\* markExcluded keeps the hash of what was deleted, and the time last written.
Excluded(c) ==
  [p \in Paths |-> IF refs[p].file = c THEN [refs[p] EXCEPT !.status = "EXCLUDED", !.file = None]
                   ELSE refs[p]]

DeleteDocument(c) ==
  /\ Spend
  /\ home[c] \in {"document", "both"}
  /\ \A p \in Paths : refs[p].file = c => ~Locked(p)
  /\ home' = [home EXCEPT ![c] = "trash"]
  /\ refs' = Excluded(c)
  /\ UNCHANGED <<volume, trash, unread, beside, handlers>>

Buried(p, c) == refs[p].status = "EXCLUDED" /\ refs[p].hash = c
Restored(c) ==
  [p \in Paths |-> IF Buried(p, c) THEN [refs[p] EXCEPT !.status = "HASHED", !.file = c]
                   ELSE refs[p]]

Restore(c) ==
  /\ Spend
  /\ home[c] = "trash"
  /\ \A p \in Paths : Buried(p, c) => ~Locked(p)
  /\ home' = [home EXCEPT ![c] = "document"]
  /\ refs' = Restored(c)
  /\ UNCHANGED <<volume, trash, unread, beside, handlers>>

(* markExcluded, the first half of a purge.  A ref that an ingest has       *)
(* marked and not committed does not name the file yet and is passed by.    *)
BeginPurge(c) ==
  /\ Spend
  /\ home[c] \in {"trash", "both"}
  /\ c \notin purging
  /\ \A p \in Paths : refs[p].file = c => ~Locked(p)
  /\ purging' = purging \cup {c}
  /\ tombs' = tombs \cup {p \in Paths : refs[p].file = c}
  /\ ingest' = [i \in Ingesters |-> IF Marks(i, c) THEN [ingest[i] EXCEPT !.beside = TRUE]
                                    ELSE ingest[i]]
  /\ UNCHANGED <<volume, refs, home, unread, beside, library, running, jobs, scan, pending>>

\* Mutant: the row goes before its refs are excluded.
PurgedFirst(c) ==
  [p \in Paths |-> IF refs[p].file = c THEN [refs[p] EXCEPT !.file = None] ELSE refs[p]]

\* What was marked is a tombstone; the foreign key clears the other refs that name the file.
Purged(c) ==
  [p \in Paths |-> IF refs[p].file # c THEN refs[p]
                   ELSE IF p \in tombs THEN [refs[p] EXCEPT !.status = "EXCLUDED", !.file = None]
                   ELSE [refs[p] EXCEPT !.file = None]]

EndPurge(c) == /\ purging' = purging \ {c}
               /\ tombs' = {p \in tombs : refs[p].file # c}

(* hardDelete and the commit: the row waits for every ingest that names it, *)
(* and is kept by a document that has come to read it.                      *)
Purge(c) ==
  /\ c \in purging
  /\ home[c] = "trash"
  /\ \A i \in Ingesters : ~Marks(i, c)
  /\ \A p \in Paths : refs[p].file = c => ~Ingested(p)
  /\ home' = [home EXCEPT ![c] = "absent"]
  /\ refs' = Purged(c)
  /\ EndPurge(c)
  /\ UNCHANGED <<volume, unread, beside, handlers, left>>

\* A page still reads the file, or the transaction has waited too long.
AbortPurge(c) ==
  /\ c \in purging
  /\ EndPurge(c)
  /\ UNCHANGED <<volume, refs, home, unread, beside, handlers, left>>

(***************************************************************************)
(* The scan jobs: a stately queue holds one job created, one to retry and  *)
(* one active for the library.                                             *)
(***************************************************************************)

\* The minutely sweep finds the library due.
SweepDueLibraries ==
  /\ library = "on"
  /\ jobs.created = None
  /\ jobs' = [jobs EXCEPT !.created = "sweep"]
  /\ UNCHANGED <<volume, archive, library, running, scan, pending, ingest, left>>

\* "Scan now" creates the run with its job, or neither.
TriggerScan(t) ==
  /\ Spend
  /\ library # "deleted"
  /\ running = None
  /\ jobs.created = None
  /\ running' = t
  /\ jobs' = [jobs EXCEPT !.created = t]
  /\ UNCHANGED <<volume, archive, library, scan, pending, ingest>>

Complete == jobs' = [jobs EXCEPT !.active = None]

\* A failed job is delivered again unless its retries are used up.
FailJob == jobs' \in {[jobs EXCEPT !.active = None],
                      [jobs EXCEPT !.retry = jobs.active, !.active = None]}

Holds(s) == scan[s].at # "idle" /\ scan[s].holder

\* Only the call the job was last delivered to settles it.
Settle(s, how) == IF scan[s].holder THEN how ELSE UNCHANGED jobs

\* resolveRun, for a job that names the run of "Scan now" or none.
ResolveRun(payload) ==
  IF payload = "sweep" THEN IF running = None THEN "sweep" ELSE running
  ELSE IF running = payload THEN payload ELSE None

(* A job is fetched: its handler returns at once, or takes a run and the    *)
(* snapshot and starts to walk.                                             *)
Fetch(s, from) ==
  /\ scan[s].at = "idle"
  /\ jobs.active = None
  /\ jobs[from] # None
  /\ LET payload == jobs[from]
         run     == ResolveRun(payload)
     IN IF library # "on" \/ run = None
        THEN /\ jobs' = [jobs EXCEPT ![from] = None]
             /\ UNCHANGED <<running, scan>>
        ELSE /\ jobs' = [jobs EXCEPT ![from] = None, !.active = payload]
             /\ running' = run
             /\ scan' = [scan EXCEPT ![s] =
                           [at |-> "walking", holder |-> TRUE, run |-> run, snapshot |-> refs,
                            ahead |-> Paths, toIngest |-> {}]]
  /\ UNCHANGED <<volume, archive, library, pending, ingest, left>>

EndRun(s) == running' = IF running = scan[s].run THEN None ELSE running

Stop(s) == scan' = [scan EXCEPT ![s] = Idle]

(***************************************************************************)
(* The walk                                                                *)
(***************************************************************************)

\* Mutant: only a change of the file is a reason to read it.
ChangedOnly(ref, mtime) == ref.mtime # mtime

NeedsRehash(ref, mtime) ==
  \/ ref.mtime # mtime
  \/ ref.status # "EXCLUDED" /\ (ref.status # "HASHED" \/ ref.hash = None \/ ref.file = None)

\* Of the snapshot a walk still needs what it knew of the paths it has not seen.
Seen(s) == Paths \ DOMAIN scan[s].snapshot
Unseen(s, p) == [q \in DOMAIN scan[s].snapshot \ {p} |-> scan[s].snapshot[q]]

\* One entry of the walk: the ref is created or marked by what the snapshot said of it.
Visit(s, p) ==
  LET known == scan[s].snapshot[p]
      mtime == disk[p].mtime
      fresh == known.status = "NONE"
      again == ~fresh /\ NeedsRehash(known, mtime)
  IN /\ scan[s].at = "walking"
     /\ p \in scan[s].ahead
     /\ disk[p].there
     /\ MaxScan = 0 \/ Cardinality(Seen(s)) < MaxScan
     /\ fresh => refs[p].status = "NONE"
     /\ again => ~Locked(p)
     /\ refs' = IF fresh THEN [refs EXCEPT ![p] = [NoRef EXCEPT !.status = "DISCOVERED", !.mtime = mtime]]
                ELSE IF again THEN [refs EXCEPT ![p].status = "DISCOVERED", ![p].mtime = mtime]
                ELSE refs
     /\ unread' = IF fresh \/ again THEN unread \cup {p} ELSE unread
     /\ scan' = [scan EXCEPT ![s].ahead = @ \ {p}, ![s].snapshot = Unseen(s, p),
                             ![s].toIngest = IF fresh \/ again THEN @ \cup {p} ELSE @]
     /\ UNCHANGED <<volume, home, trash, beside, library, running, jobs, pending, ingest, left>>

\* Nothing is there as the walk passes.
PassBy(s, p) ==
  /\ scan[s].at = "walking"
  /\ p \in scan[s].ahead
  /\ ~disk[p].there
  /\ scan' = [scan EXCEPT ![s].ahead = @ \ {p}]
  /\ UNCHANGED <<volume, archive, library, running, jobs, pending, ingest, left>>

(* More files than a scan may see: the run fails, the job does not, and     *)
(* nothing is enqueued.                                                     *)
TooLarge(s) ==
  /\ scan[s].at = "walking"
  /\ MaxScan > 0
  /\ Cardinality(Seen(s)) = MaxScan
  /\ \E p \in scan[s].ahead : disk[p].there
  /\ EndRun(s) /\ Stop(s) /\ Settle(s, Complete)
  /\ UNCHANGED <<volume, archive, library, pending, ingest, left>>

\* Another scan has created the ref meanwhile: the unique index fails this one.
Collide(s, p) ==
  /\ scan[s].at = "walking"
  /\ p \in scan[s].ahead
  /\ disk[p].there
  /\ scan[s].snapshot[p].status = "NONE" /\ refs[p].status # "NONE"
  /\ EndRun(s) /\ Stop(s) /\ Settle(s, FailJob)
  /\ UNCHANGED <<volume, archive, library, pending, ingest, left>>

\* What the snapshot knew and the walk did not see is missing, whatever it is by now.
MarkMissing(s) ==
  /\ scan[s].at = "walking"
  /\ scan[s].ahead = {}
  /\ LET vanished == {p \in DOMAIN scan[s].snapshot :
                        scan[s].snapshot[p].status \in {"DISCOVERED", "HASHED"}}
     IN /\ \A p \in vanished : ~Locked(p)
        /\ refs' = [p \in Paths |-> IF p \in vanished THEN [refs[p] EXCEPT !.status = "MISSING"]
                                    ELSE refs[p]]
  /\ scan' = [scan EXCEPT ![s].at = "queueing", ![s].snapshot = <<>>]
  /\ UNCHANGED <<volume, home, trash, unread, beside, library, running, jobs, pending, ingest, left>>

EnqueueIngest(s, p) ==
  /\ scan[s].at = "queueing"
  /\ p \in scan[s].toIngest
  /\ pending' = pending \cup {p}
  /\ scan' = [scan EXCEPT ![s].toIngest = @ \ {p}]
  /\ UNCHANGED <<volume, archive, library, running, jobs, ingest, left>>

FinishScan(s) ==
  /\ scan[s].at = "queueing"
  /\ scan[s].toIngest = {}
  /\ EndRun(s) /\ Stop(s) /\ Settle(s, Complete)
  /\ UNCHANGED <<volume, archive, library, pending, ingest, left>>

\* The database or the volume fails in the middle of a scan.
FailScan(s) ==
  /\ Spend
  /\ scan[s].at # "idle"
  /\ EndRun(s) /\ Stop(s) /\ Settle(s, FailJob)
  /\ UNCHANGED <<volume, archive, library, pending, ingest>>

\* A scan outlives the expiry of its job, which is delivered again.
Expire(s) ==
  /\ Spend
  /\ Holds(s)
  /\ scan' = [scan EXCEPT ![s].holder = FALSE]
  /\ FailJob
  /\ UNCHANGED <<volume, archive, library, running, pending, ingest>>

\* The job of a process that died expires.
RecoverJob ==
  /\ jobs.active # None
  /\ \A s \in Scanners : ~Holds(s)
  /\ FailJob
  /\ UNCHANGED <<volume, archive, library, running, scan, pending, ingest, left>>

(***************************************************************************)
(* The ingest of one ref                                                   *)
(***************************************************************************)

BeginIngest(i, p) ==
  /\ ingest[i].at = "idle"
  /\ p \in pending
  /\ pending' = pending \ {p}
  /\ ingest' = IF \/ refs[p].status = "HASHED" /\ refs[p].hash # None /\ refs[p].file # None
                  \/ library = "deleted"
               THEN ingest
               ELSE [ingest EXCEPT ![i] = [at |-> "begun", path |-> p, mtime |-> refs[p].mtime]]
  /\ UNCHANGED <<volume, archive, library, running, jobs, scan, left>>

\* The file is opened and hashed.
HashFile(i) ==
  /\ ingest[i].at = "begun"
  /\ disk[ingest[i].path].there
  /\ ingest' = [ingest EXCEPT ![i] = [at |-> "hashed", path |-> @.path, mtime |-> @.mtime,
                                      hash |-> disk[@.path].content]]
  /\ UNCHANGED <<volume, archive, library, running, jobs, scan, pending, left>>

(* findOrCreateByContentHash: the row that has the hash, as it is now, or   *)
(* one that nobody else sees yet.  The hash is this transaction's from here.*)
FindFile(i) ==
  LET c == ingest[i].hash
  IN /\ ingest[i].at = "hashed"
     /\ \A j \in Ingesters : ingest[j].at \in {"found", "marked"} => ingest[j].hash # c
     /\ ingest' = [ingest EXCEPT ![i] =
          [at |-> "found", path |-> @.path, mtime |-> @.mtime, hash |-> c,
           file |-> IF home[c] = "absent" THEN "created"
                    ELSE IF home[c] = "document" THEN "live" ELSE "trashed"]]
     /\ UNCHANGED <<volume, archive, library, running, jobs, scan, pending, left>>

(* markHashed, and whether a document reads the file: if none does, the     *)
(* transaction goes on to create one, unless the row it found was trashed.  *)
MarkRef(i) ==
  LET c == ingest[i].hash
  IN /\ ingest[i].at = "found"
     /\ ingest[i].file = "created" \/ home[c] # "absent"
     /\ ~Locked(ingest[i].path)
     /\ ingest' = [ingest EXCEPT ![i] =
          [at |-> "marked", path |-> @.path, mtime |-> @.mtime, hash |-> c,
           creates |-> \/ @.file = "created"
                       \/ @.file = "live" /\ home[c] \notin {"document", "both"},
           beside |-> c \in purging]]
     /\ UNCHANGED <<volume, archive, library, running, jobs, scan, pending, left>>

\* Mutant: the ref keeps the time it has by now.
CommitIngestNow(i) ==
  LET p == ingest[i].path
      c == ingest[i].hash
  IN /\ ingest[i].at = "marked"
     /\ refs' = [refs EXCEPT ![p] = Hashed(c, @.mtime)]
     /\ home' = [home EXCEPT ![c] = IF ~ingest[i].creates THEN @
                                    ELSE IF @ \in {"trash", "both"} THEN "both" ELSE "document"]
     /\ unread' = unread \ {p}
     /\ beside' = IF ingest[i].beside THEN beside \cup {p} ELSE beside \ {p}
     /\ ingest' = [ingest EXCEPT ![i] = Idle]
     /\ UNCHANGED <<volume, trash, library, running, jobs, scan, pending, left>>

(* The commit: the ref with the time it had when the ingest read it, and    *)
(* the document.                                                            *)
CommitIngest(i) ==
  LET p == ingest[i].path
      c == ingest[i].hash
  IN /\ ingest[i].at = "marked"
     /\ refs' = [refs EXCEPT ![p] = Hashed(c, ingest[i].mtime)]
     /\ home' = [home EXCEPT ![c] = IF ~ingest[i].creates THEN @
                                    ELSE IF @ \in {"trash", "both"} THEN "both" ELSE "document"]
     /\ unread' = unread \ {p}
     /\ beside' = IF ingest[i].beside THEN beside \cup {p} ELSE beside \ {p}
     /\ ingest' = [ingest EXCEPT ![i] = Idle]
     /\ UNCHANGED <<volume, trash, library, running, jobs, scan, pending, left>>

\* The job of the call is delivered again, unless its retries are used up.
Again(p) == pending' \in {pending, pending \cup {p}}

\* The file has gone since the scan saw it.
FileGone(i) ==
  /\ ingest[i].at = "begun"
  /\ ~disk[ingest[i].path].there
  /\ Again(ingest[i].path)
  /\ ingest' = [ingest EXCEPT ![i] = Idle]
  /\ UNCHANGED <<volume, archive, library, running, jobs, scan, left>>

\* The row that was found has been purged since: the foreign key refuses the mark.
RowGone(i) ==
  /\ ingest[i].at = "found"
  /\ ingest[i].file # "created" /\ home[ingest[i].hash] = "absent"
  /\ Again(ingest[i].path)
  /\ ingest' = [ingest EXCEPT ![i] = Idle]
  /\ UNCHANGED <<volume, archive, library, running, jobs, scan, left>>

FailIngest(i) ==
  /\ Spend
  /\ ingest[i].at # "idle"
  /\ Again(ingest[i].path)
  /\ ingest' = [ingest EXCEPT ![i] = Idle]
  /\ UNCHANGED <<volume, archive, library, running, jobs, scan>>

\* The job expires and is delivered again while its call goes on.
ExpireIngest(i) ==
  /\ Spend
  /\ ingest[i].at # "idle"
  /\ pending' = pending \cup {ingest[i].path}
  /\ UNCHANGED <<volume, archive, library, running, jobs, scan, ingest>>

\* The process dies: every call and transaction is gone, and the ingest jobs expire.
Crash ==
  /\ Spend
  /\ scan' = [s \in Scanners |-> Idle]
  /\ ingest' = [i \in Ingesters |-> Idle]
  /\ pending' = pending \cup {ingest[i].path : i \in {j \in Ingesters : ingest[j].at # "idle"}}
  /\ purging' = {} /\ tombs' = {}
  /\ UNCHANGED <<volume, refs, home, unread, beside, library, running, jobs>>

Volume  == \E p \in Paths : Move(p) \/ \E c \in Contents : Write(p, c)
People  == \/ \E state \in {"on", "off", "deleted"} : SetLibrary(state)
           \/ \E c \in Contents : DeleteDocument(c) \/ Restore(c) \/ BeginPurge(c)
           \/ \E t \in Triggers : TriggerScan(t)
Faults  == \/ Crash
           \/ \E s \in Scanners : FailScan(s) \/ Expire(s)
           \/ \E i \in Ingesters : FailIngest(i) \/ ExpireIngest(i)
Scan(s) == \/ \E from \in {"created", "retry"} : Fetch(s, from)
           \/ \E p \in Paths : Visit(s, p) \/ PassBy(s, p) \/ Collide(s, p) \/ EnqueueIngest(s, p)
           \/ TooLarge(s) \/ MarkMissing(s) \/ FinishScan(s)
Ingest(i) == \/ \E p \in Paths : BeginIngest(i, p)
             \/ HashFile(i) \/ FindFile(i) \/ MarkRef(i) \/ CommitIngest(i)
             \/ FileGone(i) \/ RowGone(i)

Next ==
  \/ Volume \/ People \/ Faults \/ SweepDueLibraries \/ RecoverJob
  \/ \E s \in Scanners : Scan(s)
  \/ \E i \in Ingesters : Ingest(i)
  \/ \E c \in Contents : Purge(c) \/ AbortPurge(c)

(* The cron comes back, an expired job is found, a job that waits is        *)
(* fetched, and a call that is under way goes on.  The ingests of one       *)
(* priority are fetched in the order they came, so that none is passed over *)
(* for ever.  A transaction ends, by its time limit if need be.             *)
Fairness ==
  /\ WF_vars(SweepDueLibraries)
  /\ WF_vars(RecoverJob)
  /\ \A s \in Scanners : WF_vars(Scan(s))
  /\ \A i \in Ingesters : WF_vars(Ingest(i))
  /\ \A c \in Contents : WF_vars(Purge(c) \/ AbortPurge(c))
  /\ \A p \in Paths : SF_vars(\E i \in Ingesters : BeginIngest(i, p))

Spec == Init /\ [][Next]_vars
FairSpec == Spec /\ Fairness

(***************************************************************************)
(* Properties                                                              *)
(***************************************************************************)

Ref == [status : {"NONE", "DISCOVERED", "HASHED", "MISSING", "EXCLUDED"},
        mtime : Nat, hash : Contents \cup {None}, file : Contents \cup {None}]

TypeOK ==
  /\ disk \in [Paths -> [content : Contents \cup {None}, mtime : Nat, there : BOOLEAN]]
  /\ clock \in Nat
  /\ refs \in [Paths -> Ref]
  /\ home \in [Contents -> {"absent", "document", "trash", "both"}]
  /\ purging \subseteq Contents
  /\ tombs \subseteq Paths /\ unread \subseteq Paths /\ beside \subseteq Paths
  /\ pending \subseteq Paths

(* "Every file a scan ingests is read by a live document or is in the       *)
(* trash" (docs/05 5.3): a ref that names a file names the row of the       *)
(* content it was hashed to, and the row has a home, through every deletion,*)
(* restore and purge while scans and ingests write the ref by its id.  A    *)
(* ref that passes for hashed and names no file is left only by a purge of  *)
(* the same file that went on while the ingest marked it: the purge did not *)
(* see the mark, and the foreign key cleared it.                            *)
RefsNameRows ==
  \A p \in Paths :
    /\ refs[p].file # None => refs[p].hash = refs[p].file /\ home[refs[p].file] # "absent"
    /\ refs[p].status = "HASHED" => refs[p].file # None \/ p \in beside

(* A ref that would pass for unchanged has the hash of what is there: a     *)
(* file that changed between the walk, the hashing and the marking is never *)
(* recorded under its new time with its old bytes.                          *)
FreshHash ==
  \A p \in Paths \ unread :
    refs[p].status = "HASHED" /\ refs[p].mtime = disk[p].mtime => refs[p].hash = disk[p].content

\* What a settled path may be instead: gone, a tombstone, or hidden by a restore.
Excused(p) ==
  \/ ~disk[p].there
  \/ refs[p].status = "EXCLUDED"
  \/ refs[p].status = "HASHED" /\ p \in unread

Scanned ==
  /\ library = "on"
  /\ MaxScan = 0 \/ Cardinality({p \in Paths : disk[p].there}) <= MaxScan

Housed(p)  == Excused(p) \/ home[disk[p].content] # "absent"
Settled(p) == Excused(p) \/ (refs[p].status = "HASHED" /\ refs[p].hash = disk[p].content)

(* Once nothing changes any more every file on the volume has a home for    *)
(* good, and its ref is again and again hashed as it is, whatever failed,   *)
(* died or was delivered twice before: the next scan sees to it, unless the *)
(* library is switched off or too large.  (Not hashed for good: a scan      *)
(* whose snapshot is older than an ingest asks for it once more.)           *)
EveryFileSettles ==
  \A p \in Paths :
    /\ <>[](Scanned => Housed(p))
    /\ []<>(Scanned => Settled(p))

(* "A tombstone a moved folder can clear would let the document back in"    *)
(* (handle-library-scan.ts:158): a scan leaves EXCLUDED refs alone.         *)
TombstoneKept ==
  [][\A p \in Paths : refs[p].status = "EXCLUDED" => refs'[p].status # "MISSING"]_vars

(* "Path exists, size/mtime changed: move to DISCOVERED, enqueue            *)
(* file-ingest (rehash)" (docs/05 5.2): no ref is HASHED at a time whose    *)
(* bytes nobody has read.                                                   *)
HashedIsRead == \A p \in unread : refs[p].status # "HASHED"
=============================================================================
