-------------------------- MODULE ArchiveFilesProofs --------------------------
(***************************************************************************)
(* What the archive keeps of its files for any contents, any archive it    *)
(* starts from and any number of requests.                                 *)
(*                                                                         *)
(* First, requests that meet between the bucket and the database: bytes    *)
(* are stored before their row is committed, rows go before their objects  *)
(* do, and the sweep lists, asks and deletes in steps of its own.  There   *)
(* is one row a content, and the original of each managed file (IInv).     *)
(*                                                                         *)
(* Then, where the files are: a file nothing crossed is pages, a receipt   *)
(* or in the trash, and one of these, because what requests have in hand   *)
(* still fits the rows when they act on it (AInv).                         *)
(*                                                                         *)
(* Last, two facts about steps: no page is lost to a list computed from an *)
(* older one, and every step is one of the abstract life of a content.     *)
(***************************************************************************)
EXTENDS ArchiveFiles, FiniteSetTheorems, TLAPS

\* A transaction is open that brings bytes.
Brings(r) == At(r, "checked") /\ req[r].bytes # "none"

\* The request may still make a file of its own.
CanCreate(r) ==
  /\ r \in Requests
  /\ \/ At(r, "idle") \/ At(r, "stored")
     \/ Brings(r) /\ req[r].created

(* There are no two rows of one content, and every row is one.              *)
OneRow ==
  /\ \A f \in DOMAIN files : files[f] \in FileRow
  /\ \A f, g \in DOMAIN files : files[f].content = files[g].content => f = g

\* The file that a request made is there only when the request is over.
MadeAtTheEnd == \A r \in Requests : r \in DOMAIN files => At(r, "done")

Kinds == {"document", "receipt", "ingest", "add", "replace"}

(* Of the transactions that bring the same bytes one is open, and while it  *)
(* is about to create their row there is none.                              *)
HashIsHeld ==
  /\ \A r \in Requests : At(r, "stored") => req[r].bytes \in Contents /\ req[r].kind \in Kinds
  /\ \A r \in Requests : Brings(r) => req[r].kind \in Kinds
  /\ \A q, r \in Requests : Brings(q) /\ Brings(r) /\ req[q].bytes = req[r].bytes => q = r
  /\ \A r \in Requests : Brings(r) /\ req[r].created =>
       /\ req[r].file = r /\ req[r].row \in FileRow
       /\ req[r].row.content = req[r].bytes
       /\ RowsOf(req[r].bytes) = {}

\* What a request has stored for a file it may create is in the bucket.
StoredIsThere ==
  /\ \A r \in Requests : r \in objects => ~At(r, "idle")
  /\ \A r \in Requests : At(r, "stored") /\ req[r].kind # "ingest" => r \in objects \cup crossed
  /\ \A r \in Requests : Brings(r) /\ req[r].created /\ req[r].row.origin = "MANAGED" =>
       r \in objects \cup crossed

\* Nobody will need what a request is about to delete from the bucket.
Useless(f) == f \in crossed \/ (f \notin DOMAIN files /\ ~CanCreate(f))

DeletesUseless ==
  \A r \in Requests :
    /\ At(r, "listed") => \A f \in req[r].listed \cap Requests : ~At(f, "idle")
    /\ At(r, "asked") => \A f \in req[r].orphans : Useless(f)
    /\ At(r, "read") /\ req[r].kind = "purge" =>
         \A f \in req[r].held \cap Requests : At(f, "done")
    /\ At(r, "purged") =>
         \A f \in req[r].held : f \notin DOMAIN files /\ (f \in Requests => At(f, "done"))

IInv == DOMAIN req = Requests /\ OneRow /\ MadeAtTheEnd /\ HashIsHeld /\ StoredIsThere
        /\ DeletesUseless /\ OriginalKept

-----------------------------------------------------------------------------
\* The rows may change, and no row comes, leaves its content or its origin.
SameFiles(old, new) ==
  /\ DOMAIN new \subseteq DOMAIN old
  /\ \A f \in DOMAIN new : /\ new[f] \in FileRow
                           /\ new[f].content = old[f].content
                           /\ new[f].origin = old[f].origin

LEMMA TrashedSame ==
  ASSUME NEW table, \A f \in DOMAIN table : table[f] \in FileRow, NEW fs,
         NEW kind \in {"no", "DOCUMENT", "RECEIPT"}
  PROVE  SameFiles(table, Trashed(table, fs, kind))
<1>1. DOMAIN Trashed(table, fs, kind) = DOMAIN table
  BY DEF Trashed
<1>2. ASSUME NEW f \in DOMAIN table
      PROVE  /\ [table[f] EXCEPT !.trashed = kind] \in FileRow
             /\ [table[f] EXCEPT !.trashed = kind].content = table[f].content
             /\ [table[f] EXCEPT !.trashed = kind].origin = table[f].origin
  BY DEF FileRow
<1>3. \A f \in DOMAIN table :
         \/ Trashed(table, fs, kind)[f] = table[f]
         \/ Trashed(table, fs, kind)[f] = [table[f] EXCEPT !.trashed = kind]
  BY DEF Trashed
<1> QED BY <1>1, <1>2, <1>3 DEF SameFiles

LEMMA UntrashedSame ==
  ASSUME NEW table, \A f \in DOMAIN table : table[f] \in FileRow, NEW f \in DOMAIN table,
         NEW kind \in {"no", "DOCUMENT", "RECEIPT"},
         NEW new, new = [table EXCEPT ![f].trashed = kind]
  PROVE  SameFiles(table, new)
<1>1. /\ [table[f] EXCEPT !.trashed = kind] \in FileRow
      /\ [table[f] EXCEPT !.trashed = kind].content = table[f].content
      /\ [table[f] EXCEPT !.trashed = kind].origin = table[f].origin
  BY DEF FileRow
<1>2. /\ DOMAIN new = DOMAIN table /\ new[f] = [table[f] EXCEPT !.trashed = kind]
      /\ \A x \in DOMAIN table \ {f} : new[x] = table[x]
  OBVIOUS
<1> QED BY <1>1, <1>2 DEF SameFiles

LEMMA SameTwice ==
  ASSUME NEW a, NEW b, NEW c, SameFiles(a, b), SameFiles(b, c)
  PROVE  SameFiles(a, c)
BY DEF SameFiles

-----------------------------------------------------------------------------
(* A request goes on.  `state' is where it gets; it makes no file here.     *)
LEMMA GoOnKeeps ==
  ASSUME IInv, NEW r \in Requests, NEW state, Goto(r, state),
         ~At(r, "done"), state.at # "idle", SameFiles(files, files'),
         crossed \subseteq crossed', objects' \subseteq objects \cup {r},
         \A f \in objects \ objects' : Useless(f),
         CanCreate(r)' => CanCreate(r),
         state.at = "stored" =>
            /\ state.bytes \in Contents /\ state.kind \in Kinds
            /\ state.kind # "ingest" => r \in objects' \cup crossed',
         state.at = "checked" /\ state.bytes # "none" =>
            /\ state.kind \in Kinds
            /\ \A q \in Requests \ {r} : Brings(q) => req[q].bytes # state.bytes
            /\ state.created => /\ state.file = r /\ state.row \in FileRow
                                /\ state.row.content = state.bytes
                                /\ RowsOf(state.bytes) = {}
                                /\ state.row.origin = "MANAGED" => r \in objects' \cup crossed',
         state.at = "listed" => \A f \in (state.listed \cap Requests) \ {r} : ~At(f, "idle"),
         state.at = "asked" => \A f \in state.orphans : Useless(f)',
         state.at = "read" /\ state.kind = "purge" =>
            \A f \in state.held \cap Requests : At(f, "done"),
         state.at = "purged" =>
            \A f \in state.held : f \notin DOMAIN files' /\ (f \in Requests => At(f, "done"))
  PROVE  IInv'
<1>1. /\ DOMAIN req = Requests /\ DOMAIN req' = Requests /\ req'[r] = state
      /\ \A q \in Requests \ {r} : req'[q] = req[q]
  BY DEF IInv, Goto
<1>2. r \notin DOMAIN files
  BY DEF IInv, MadeAtTheEnd
<1>3. OneRow'
  BY DEF IInv, OneRow, SameFiles
<1>4. MadeAtTheEnd'
  BY <1>1, <1>2 DEF IInv, MadeAtTheEnd, At, SameFiles
<1>5. \A c : RowsOf(c) = {} => RowsOf(c)' = {}
  BY DEF RowsOf, SameFiles
<1>6. \A q \in Requests \ {r} : \A at : At(q, at)' <=> At(q, at)
  BY <1>1 DEF At
<1>7. \A q \in Requests \ {r} : (Brings(q)' <=> Brings(q)) /\ (CanCreate(q)' <=> CanCreate(q))
  BY <1>1 DEF At, Brings, CanCreate
<1>8. HashIsHeld'
  <2>1. ASSUME NEW q \in Requests, At(q, "stored")'
        PROVE  req'[q].bytes \in Contents /\ req'[q].kind \in Kinds
    BY <2>1, <1>1 DEF IInv, HashIsHeld, At
  <2>4. ASSUME NEW q \in Requests, Brings(q)'
        PROVE  req'[q].kind \in Kinds
    BY <2>4, <1>1 DEF IInv, HashIsHeld, At, Brings
  <2>2. ASSUME NEW q \in Requests, NEW p \in Requests, Brings(q)', Brings(p)',
               req'[q].bytes = req'[p].bytes
        PROVE  q = p
    BY <2>2, <1>1, <1>7 DEF IInv, HashIsHeld, At, Brings
  <2>3. ASSUME NEW q \in Requests, Brings(q)', req'[q].created
        PROVE  /\ req'[q].file = q /\ req'[q].row \in FileRow
               /\ req'[q].row.content = req'[q].bytes
               /\ RowsOf(req[q].bytes)' = {}
    <3>1. CASE q = r
      BY <2>3, <3>1, <1>1, <1>5 DEF At, Brings
    <3>2. CASE q # r
      BY <2>3, <3>2, <1>1, <1>5, <1>7 DEF IInv, HashIsHeld
    <3> QED BY <3>1, <3>2
  <2> QED BY <2>1, <2>2, <2>3, <2>4 DEF HashIsHeld
<1>9. \A q \in Requests : q \in objects \ objects' => q \in crossed \/ ~CanCreate(q)
  BY DEF Useless
<1>10. StoredIsThere'
  <2>1. ASSUME NEW q \in Requests, q \in objects'
        PROVE  ~At(q, "idle")'
    BY <2>1, <1>1 DEF IInv, StoredIsThere, At
  <2>2. ASSUME NEW q \in Requests, At(q, "stored")', req'[q].kind # "ingest"
        PROVE  q \in objects' \cup crossed'
    <3>1. CASE q = r
      BY <2>2, <3>1, <1>1 DEF At
    <3>2. CASE q # r
      BY <2>2, <3>2, <1>1, <1>6, <1>9 DEF IInv, StoredIsThere, CanCreate
    <3> QED BY <3>1, <3>2
  <2>3. ASSUME NEW q \in Requests, Brings(q)', req'[q].created, req'[q].row.origin = "MANAGED"
        PROVE  q \in objects' \cup crossed'
    <3>1. CASE q = r
      BY <2>3, <3>1, <1>1 DEF At, Brings
    <3>2. CASE q # r
      BY <2>3, <3>2, <1>1, <1>7, <1>9 DEF IInv, StoredIsThere, CanCreate
    <3> QED BY <3>1, <3>2
  <2> QED BY <2>1, <2>2, <2>3 DEF StoredIsThere
<1>11. \A f : Useless(f) => Useless(f)'
  <2> SUFFICES ASSUME NEW f, Useless(f) PROVE Useless(f)'
    OBVIOUS
  <2>1. CanCreate(f)' => CanCreate(f)
    BY <1>7 DEF CanCreate
  <2> QED BY <2>1 DEF Useless, SameFiles
<1>12. DeletesUseless'
  <2> SUFFICES ASSUME NEW q \in Requests
               PROVE  /\ At(q, "listed")' => \A f \in req'[q].listed \cap Requests : ~At(f, "idle")'
                      /\ At(q, "asked")' => \A f \in req'[q].orphans : Useless(f)'
                      /\ At(q, "read")' /\ req'[q].kind = "purge" =>
                           \A f \in req'[q].held \cap Requests : At(f, "done")'
                      /\ At(q, "purged")' =>
                           \A f \in req'[q].held : f \notin DOMAIN files' /\ (f \in Requests => At(f, "done")')
    BY DEF DeletesUseless
  <2>1. \A f \in Requests : At(f, "done") => At(f, "done")'
    BY <1>6
  <2>2. \A f \in Requests : ~At(f, "idle") => ~At(f, "idle")'
    BY <1>1, <1>6 DEF At
  <2>3. ~At(r, "idle")'
    BY <1>1 DEF At
  <2>4. CASE q = r
    BY <2>1, <2>2, <2>3, <2>4, <1>1 DEF At
  <2>5. CASE q # r
    <3>1. At(q, "listed")' => \A f \in req'[q].listed \cap Requests : ~At(f, "idle")'
      BY <2>2, <2>5, <1>1, <1>6 DEF IInv, DeletesUseless
    <3>2. At(q, "asked")' => \A f \in req'[q].orphans : Useless(f)'
      BY <2>5, <1>1, <1>6, <1>11 DEF IInv, DeletesUseless
    <3>3. At(q, "read")' /\ req'[q].kind = "purge" =>
             \A f \in req'[q].held \cap Requests : At(f, "done")'
      BY <2>1, <2>5, <1>1, <1>6 DEF IInv, DeletesUseless
    <3>4. At(q, "purged")' =>
             \A f \in req'[q].held : f \notin DOMAIN files' /\ (f \in Requests => At(f, "done")')
      BY <2>1, <2>5, <1>1, <1>6 DEF IInv, DeletesUseless, SameFiles
    <3> QED BY <3>1, <3>2, <3>3, <3>4
  <2> QED BY <2>4, <2>5
<1>13. OriginalKept'
  BY DEF IInv, OriginalKept, SameFiles, Useless
<1> QED BY <1>1, <1>3, <1>4, <1>8, <1>10, <1>12, <1>13 DEF IInv

-----------------------------------------------------------------------------
\* The kinds of steps that most actions are.

LEMMA SameRows ==
  ASSUME OneRow, UNCHANGED files
  PROVE  SameFiles(files, files')
BY DEF OneRow, SameFiles

\* A request goes on, or is over, and the bucket stays as it is.
LEMMA QuietKeeps ==
  ASSUME IInv, NEW r \in Requests, NEW state, Goto(r, state), ~At(r, "done"),
         state.at \in {"read", "done", "dropping"},
         state.at = "read" => state.kind # "purge",
         SameFiles(files, files'), crossed \subseteq crossed', UNCHANGED objects
  PROVE  IInv'
<1>1. req'[r] = state
  BY DEF IInv, Goto
<1>2. ~CanCreate(r)'
  BY <1>1 DEF CanCreate, Brings, At
<1> QED BY <1>2, GoOnKeeps

LEMMA FinishKeeps ==
  ASSUME IInv, NEW r \in Requests, Finish(r), ~At(r, "done"),
         SameFiles(files, files'), crossed \subseteq crossed', UNCHANGED objects
  PROVE  IInv'
<1> DEFINE state == [at |-> "done"]
<1>1. Goto(r, state) /\ state.at = "done"
  BY DEF Finish
<1> HIDE DEF state
<1> QED BY <1>1, QuietKeeps

\* A transaction is opened that brings no bytes.
LEMMA OpenKeeps ==
  ASSUME IInv, NEW r \in Requests, NEW state, Goto(r, state), ~At(r, "done"),
         state.at = "checked", state.bytes = "none",
         crossed \subseteq crossed', UNCHANGED <<files, objects>>
  PROVE  IInv'
<1>1. req'[r] = state
  BY DEF IInv, Goto
<1>2. ~CanCreate(r)'
  BY <1>1 DEF CanCreate, Brings, At
<1>3. SameFiles(files, files')
  BY SameRows DEF IInv
<1> QED BY <1>2, <1>3, GoOnKeeps

\* The commit that creates a row.
LEMMA CreateKeeps ==
  ASSUME IInv, NEW r \in Requests, Brings(r), req[r].created, Goto(r, [at |-> "done"]),
         SameFiles(WithRow(files, r, req[r].row), files'),
         crossed \subseteq crossed', UNCHANGED objects
  PROVE  IInv'
<1>1. /\ DOMAIN req = Requests /\ DOMAIN req' = Requests /\ req'[r].at = "done"
      /\ \A q \in Requests \ {r} : req'[q] = req[q]
  BY DEF IInv, Goto
<1>2. /\ req[r].file = r /\ req[r].row \in FileRow /\ req[r].row.content = req[r].bytes
      /\ RowsOf(req[r].bytes) = {} /\ OneRow /\ r \notin DOMAIN files
      /\ req[r].row.origin = "MANAGED" => r \in objects \cup crossed
  <2>1. ~At(r, "done")
    BY DEF Brings, At
  <2> QED BY <2>1 DEF IInv, HashIsHeld, MadeAtTheEnd, StoredIsThere
<1>3. /\ DOMAIN files' \subseteq DOMAIN files \cup {r}
      /\ \A f \in DOMAIN files' \ {r} : /\ files'[f] \in FileRow
                                       /\ files'[f].content = files[f].content
                                       /\ files'[f].origin = files[f].origin
      /\ r \in DOMAIN files' => /\ files'[r] \in FileRow
                                /\ files'[r].content = req[r].bytes
                                /\ files'[r].origin = req[r].row.origin
  BY <1>2 DEF SameFiles, WithRow
<1>4. \A f \in DOMAIN files : files[f].content # req[r].bytes
  BY <1>2 DEF RowsOf
<1>5. OneRow'
  <2>1. ASSUME NEW f \in DOMAIN files', NEW g \in DOMAIN files', files'[f].content = files'[g].content
        PROVE  f = g
    <3>1. CASE f = r \/ g = r
      BY <2>1, <3>1, <1>3, <1>4
    <3>2. CASE f # r /\ g # r
      BY <2>1, <3>2, <1>2, <1>3 DEF OneRow
    <3> QED BY <3>1, <3>2
  <2> QED BY <2>1, <1>3 DEF OneRow
<1>6. MadeAtTheEnd'
  BY <1>1, <1>3 DEF IInv, MadeAtTheEnd, At
<1>7. \A q \in Requests \ {r} : \A at : At(q, at)' <=> At(q, at)
  BY <1>1 DEF At
<1>8. /\ \A q \in Requests \ {r} : (Brings(q)' <=> Brings(q)) /\ (CanCreate(q)' <=> CanCreate(q))
      /\ ~Brings(r)' /\ ~CanCreate(r)' /\ CanCreate(r)
  BY <1>1 DEF At, Brings, CanCreate
<1>9. HashIsHeld'
  <2>1. ASSUME NEW q \in Requests, At(q, "stored")'
        PROVE  req'[q].bytes \in Contents /\ req'[q].kind \in Kinds
    BY <2>1, <1>1 DEF IInv, HashIsHeld, At
  <2>2. ASSUME NEW q \in Requests, Brings(q)'
        PROVE  req'[q].kind \in Kinds
    BY <2>2, <1>1, <1>8 DEF IInv, HashIsHeld
  <2>3. ASSUME NEW q \in Requests, NEW p \in Requests, Brings(q)', Brings(p)',
               req'[q].bytes = req'[p].bytes
        PROVE  q = p
    BY <2>3, <1>1, <1>8 DEF IInv, HashIsHeld
  <2>4. ASSUME NEW q \in Requests, Brings(q)', req'[q].created
        PROVE  /\ req'[q].file = q /\ req'[q].row \in FileRow
               /\ req'[q].row.content = req'[q].bytes
               /\ RowsOf(req[q].bytes)' = {}
    <3>1. q # r /\ Brings(q) /\ req'[q] = req[q] /\ req[q].bytes # req[r].bytes
      BY <2>4, <1>1, <1>8 DEF IInv, HashIsHeld
    <3>2. RowsOf(req[q].bytes) = {}
      BY <2>4, <3>1 DEF IInv, HashIsHeld
    <3>3. RowsOf(req[q].bytes)' = {}
      BY <3>1, <3>2, <1>3 DEF RowsOf
    <3> QED BY <2>4, <3>1, <3>3 DEF IInv, HashIsHeld
  <2> QED BY <2>1, <2>2, <2>3, <2>4 DEF HashIsHeld
<1>10. StoredIsThere'
  BY <1>1, <1>7, <1>8 DEF IInv, StoredIsThere, At
<1>11. \A f : Useless(f) => Useless(f)'
  BY <1>3, <1>8 DEF Useless, CanCreate
<1>12. DeletesUseless'
  <2> SUFFICES ASSUME NEW q \in Requests
               PROVE  /\ At(q, "listed")' => \A f \in req'[q].listed \cap Requests : ~At(f, "idle")'
                      /\ At(q, "asked")' => \A f \in req'[q].orphans : Useless(f)'
                      /\ At(q, "read")' /\ req'[q].kind = "purge" =>
                           \A f \in req'[q].held \cap Requests : At(f, "done")'
                      /\ At(q, "purged")' =>
                           \A f \in req'[q].held : f \notin DOMAIN files' /\ (f \in Requests => At(f, "done")')
    BY DEF DeletesUseless
  <2>1. ~At(r, "done") /\ At(r, "done")' /\ \A f \in Requests : At(f, "done") => At(f, "done")'
    BY <1>1, <1>7 DEF At, Brings
  <2>2. \A f \in Requests : ~At(f, "idle") => ~At(f, "idle")'
    BY <1>1, <1>7 DEF At
  <2>3. CASE q = r
    BY <2>1, <2>3 DEF At
  <2>4. CASE q # r
    <3>1. At(q, "listed")' => \A f \in req'[q].listed \cap Requests : ~At(f, "idle")'
      BY <2>2, <2>4, <1>1, <1>7 DEF IInv, DeletesUseless
    <3>2. At(q, "asked")' => \A f \in req'[q].orphans : Useless(f)'
      BY <2>4, <1>1, <1>7, <1>11 DEF IInv, DeletesUseless
    <3>3. At(q, "read")' /\ req'[q].kind = "purge" =>
             \A f \in req'[q].held \cap Requests : At(f, "done")'
      BY <2>1, <2>4, <1>1, <1>7 DEF IInv, DeletesUseless
    <3>4. At(q, "purged")' =>
             \A f \in req'[q].held : f \notin DOMAIN files' /\ (f \in Requests => At(f, "done")')
      BY <2>1, <2>4, <1>1, <1>3, <1>7 DEF IInv, DeletesUseless
    <3> QED BY <3>1, <3>2, <3>3, <3>4
  <2> QED BY <2>3, <2>4
<1>13. OriginalKept'
  BY <1>2, <1>3 DEF IInv, OriginalKept
<1> QED BY <1>1, <1>5, <1>6, <1>9, <1>10, <1>12, <1>13 DEF IInv

-----------------------------------------------------------------------------
(* Bringing bytes in.                                                       *)

LEMMA StoreKeeps ==
  ASSUME IInv, NEW r \in Requests, At(r, "idle"), NEW kind \in Kinds, NEW c \in Contents,
         NEW target, NEW held, NEW gone, Store(r, Bring(r, kind, c, target, held, gone))
  PROVE  IInv'
<1> DEFINE state == Bring(r, kind, c, target, held, gone)
<1>1. state.at = "stored" /\ state.kind = kind /\ state.bytes = c
  BY DEF Bring
<1>2. /\ Goto(r, state) /\ UNCHANGED <<files, crossed>>
      /\ objects' = IF state.kind = "ingest" THEN objects ELSE objects \cup {r}
  BY DEF Store, rows
<1> HIDE DEF state
<1>3. SameFiles(files, files')
  BY <1>2, SameRows DEF IInv
<1>4. CanCreate(r) /\ ~At(r, "done")
  BY DEF CanCreate, At
<1>5. /\ crossed \subseteq crossed' /\ objects' \subseteq objects \cup {r}
      /\ objects \ objects' = {} /\ state.kind # "ingest" => r \in objects'
  BY <1>2
<1> QED BY <1>1, <1>2, <1>3, <1>4, <1>5, GoOnKeeps

LEMMA BringKeeps ==
  ASSUME IInv, NEW r \in Requests, NEW c \in Contents,
         \/ Upload(r, c) \/ Ingest(r, c)
         \/ \E d \in DOMAIN documents : AddFile(r, d, c)
         \/ \E d \in DOMAIN documents, f \in DOMAIN files : ReplaceFile(r, d, f, c)
  PROVE  IInv'
<1>1. CASE Upload(r, c)
  <2>1. PICK kind \in {"document", "receipt"} : Store(r, Bring(r, kind, c, "none", <<>>, "none"))
    BY <1>1 DEF Upload
  <2>2. At(r, "idle") /\ kind \in Kinds
    BY <1>1 DEF Upload, Kinds
  <2> QED BY <2>1, <2>2, StoreKeeps
<1>2. CASE Ingest(r, c)
  <2>1. At(r, "idle") /\ "ingest" \in Kinds /\ Store(r, Bring(r, "ingest", c, "none", <<>>, "none"))
    BY <1>2 DEF Ingest, Kinds
  <2> QED BY <2>1, StoreKeeps
<1>3. ASSUME NEW d \in DOMAIN documents, AddFile(r, d, c)
      PROVE  IInv'
  <2>1. PICK held \in {<<>>, Only(d, documents[d].pages)} : Store(r, Bring(r, "add", c, d, held, "none"))
    BY <1>3 DEF AddFile
  <2>2. At(r, "idle") /\ "add" \in Kinds
    BY <1>3 DEF AddFile, Kinds
  <2> QED BY <2>1, <2>2, StoreKeeps
<1>4. ASSUME NEW d \in DOMAIN documents, NEW f \in DOMAIN files, ReplaceFile(r, d, f, c)
      PROVE  IInv'
  <2> DEFINE held == [o \in Readers(f) \cup {d} |-> documents[o].pages]
  <2>1. Store(r, Bring(r, "replace", c, d, held, f))
    BY <1>4 DEF ReplaceFile
  <2>2. At(r, "idle") /\ "replace" \in Kinds
    BY <1>4 DEF ReplaceFile, Kinds
  <2> HIDE DEF held
  <2> QED BY <2>1, <2>2, StoreKeeps
<1> QED BY <1>1, <1>2, <1>3, <1>4

LEMMA CheckBytesKeeps ==
  ASSUME IInv, NEW r \in Requests, CheckBytes(r)
  PROVE  IInv'
<1> DEFINE c == req[r].bytes
           kind == req[r].kind
           created == RowsOf(c) = {}
           f == IF created THEN r ELSE CHOOSE x \in RowsOf(c) : TRUE
           row == IF created
                  THEN [content |-> c, trashed |-> "no", counted |-> FALSE,
                        origin |-> IF kind = "ingest" THEN "LIBRARY" ELSE "MANAGED"]
                  ELSE files[f]
           state == [at |-> "checked", kind |-> kind, bytes |-> c, locks |-> {},
                     holds |-> IF row.trashed = "no" THEN {} ELSE {f},
                     subject |-> {f, req[r].gone} \ {"none"}, file |-> f,
                     doc |-> req[r].doc, held |-> req[r].held, gone |-> req[r].gone,
                     row |-> row, created |-> created]
<1>1. At(r, "stored") /\ ~HashLocked(c) /\ ~At(r, "done") /\ CanCreate(r)
  BY DEF CheckBytes, At, CanCreate
<1>2. c \in Contents /\ kind \in Kinds /\ (kind # "ingest" => r \in objects \cup crossed)
  BY <1>1 DEF IInv, HashIsHeld, StoredIsThere
<1>3. UNCHANGED <<files, objects>>
  BY DEF CheckBytes, Refuse, rows
<1>4. SameFiles(files, files')
  BY <1>3, SameRows DEF IInv
<1>5. CASE Refuse(r)
  <2> DEFINE over == [at |-> IF DropsItsObject(r) THEN "dropping" ELSE "done"]
  <2>1. Goto(r, over) /\ UNCHANGED crossed
    BY <1>5 DEF Refuse
  <2>2. over.at \in {"read", "done", "dropping"} /\ over.at # "read"
    OBVIOUS
  <2> HIDE DEF over
  <2> QED BY <1>1, <1>3, <1>4, <2>1, <2>2, QuietKeeps
<1>6. CASE OpenWith(r, state)
  <2>1. /\ state.at = "checked" /\ state.bytes = c /\ state.kind = kind
        /\ state.created = created /\ state.file = f /\ state.row = row
    OBVIOUS
  <2>3. created => /\ f = r /\ row \in FileRow /\ row.content = c
                   /\ row.origin = "MANAGED" => kind # "ingest"
    BY <1>2 DEF FileRow
  <2>4. \A q \in Requests \ {r} : Brings(q) => req[q].bytes # c
    BY <1>1 DEF HashLocked, Open, Brings
  <2>5. created => RowsOf(c) = {}
    OBVIOUS
  <2> HIDE DEF state, created, row, f
  <2>6. Goto(r, state) /\ crossed \subseteq crossed'
    BY <1>6 DEF OpenWith, Crosses
  <2>7. /\ state.at # "idle" /\ state.at # "stored" /\ state.at # "listed" /\ state.at # "asked"
        /\ state.at # "read" /\ state.at # "purged"
    BY <2>1
  <2>8. /\ state.kind \in Kinds
        /\ \A q \in Requests \ {r} : Brings(q) => req[q].bytes # state.bytes
        /\ state.created => /\ state.file = r /\ state.row \in FileRow
                            /\ state.row.content = state.bytes
                            /\ RowsOf(state.bytes) = {}
                            /\ state.row.origin = "MANAGED" => r \in objects' \cup crossed'
    BY <1>2, <1>3, <2>1, <2>3, <2>4, <2>5, <2>6
  <2>9. objects' \subseteq objects \cup {r} /\ objects \ objects' = {}
    BY <1>3
  <2> QED BY <1>1, <1>4, <2>6, <2>7, <2>8, <2>9, GoOnKeeps
<1> QED BY <1>5, <1>6 DEF CheckBytes

LEMMA CommitBytesKeeps ==
  ASSUME IInv, NEW r \in Requests, CommitBytes(r)
  PROVE  IInv'
<1> DEFINE t == req[r]
           f == t.file
           arrived == IF t.created THEN WithRow(files, f, t.row)
                      ELSE [files EXCEPT ![f].trashed = IF f \in t.holds THEN "no" ELSE @]
<1>1. Brings(r) /\ ~At(r, "done") /\ t.kind \in Kinds
  BY DEF CommitBytes, IInv, HashIsHeld, Brings, At
<1>2. /\ t.created \/ f \in DOMAIN files
      /\ AfterCommit(r) /\ UNCHANGED objects
  BY DEF CommitBytes
<1>7. crossed \subseteq crossed'
  <2>1. CASE t.kind \in {"document", "ingest"}
    BY <2>1 DEF CommitBytes
  <2>2. CASE t.kind = "receipt"
    BY <2>2 DEF CommitBytes
  <2>3. CASE t.kind = "add"
    BY <2>3 DEF CommitBytes, Strands
  <2>4. CASE t.kind = "replace"
    BY <2>4 DEF CommitBytes
  <2> QED BY <1>1, <2>1, <2>2, <2>3, <2>4 DEF Kinds
<1>3. files' \in {arrived, Trashed(arrived, {t.gone}, "DOCUMENT")}
  <2>1. CASE t.kind \in {"document", "ingest"}
    BY <2>1 DEF CommitBytes
  <2>2. CASE t.kind = "receipt"
    BY <2>2 DEF CommitBytes
  <2>3. CASE t.kind = "add"
    BY <2>3 DEF CommitBytes
  <2>4. CASE t.kind = "replace"
    BY <2>4 DEF CommitBytes
  <2> QED BY <1>1, <2>1, <2>2, <2>3, <2>4 DEF Kinds
<1>4. \A x \in DOMAIN files : files[x] \in FileRow
  BY DEF IInv, OneRow
<1>5. CASE t.created
  <2>1. f = r /\ t.row \in FileRow
    BY <1>1, <1>5 DEF IInv, HashIsHeld
  <2>2. arrived = WithRow(files, r, t.row)
    BY <1>5, <2>1
  <2> DEFINE table == WithRow(files, r, t.row)
  <2>3. \A x \in DOMAIN table : table[x] \in FileRow
    BY <1>4, <2>1 DEF WithRow
  <2> HIDE DEF table
  <2>4. SameFiles(table, table) /\ SameFiles(table, Trashed(table, {t.gone}, "DOCUMENT"))
    <3>1. SameFiles(table, table)
      BY <2>3 DEF SameFiles
    <3>2. SameFiles(table, Trashed(table, {t.gone}, "DOCUMENT"))
      BY <2>3, TrashedSame
    <3> QED BY <3>1, <3>2
  <2>5. SameFiles(table, files')
    BY <1>3, <2>2, <2>4 DEF table
  <2>6. Goto(r, [at |-> "done"])
    BY <1>2, <1>5 DEF AfterCommit
  <2> QED BY <1>1, <1>2, <1>5, <1>7, <2>5, <2>6, CreateKeeps DEF table
<1>6. CASE ~t.created
  <2> DEFINE kind == IF f \in t.holds THEN "no" ELSE files[f].trashed
  <2>1. f \in DOMAIN files /\ kind \in {"no", "DOCUMENT", "RECEIPT"}
    BY <1>2, <1>4, <1>6 DEF FileRow
  <2>2. arrived = [files EXCEPT ![f].trashed = kind]
    BY <1>6
  <2> HIDE DEF kind, arrived, f
  <2>3. SameFiles(files, arrived)
    BY <1>4, <2>1, <2>2, UntrashedSame
  <2>4. SameFiles(arrived, Trashed(arrived, {t.gone}, "DOCUMENT"))
    <3>1. \A x \in DOMAIN arrived : arrived[x] \in FileRow
      BY <2>3 DEF SameFiles
    <3> QED BY <3>1, TrashedSame
  <2>5. SameFiles(files, files')
    BY <1>3, <2>3, <2>4, SameTwice
  <2> DEFINE over == [at |-> IF t.created \/ t.kind = "ingest" THEN "done" ELSE "dropping"]
  <2>6. Goto(r, over)
    BY <1>2 DEF AfterCommit
  <2>7. over.at \in {"read", "done", "dropping"} /\ over.at # "read"
    OBVIOUS
  <2> HIDE DEF over
  <2> QED BY <1>1, <1>2, <1>7, <2>5, <2>6, <2>7, QuietKeeps
<1> QED BY <1>5, <1>6

LEMMA DropObjectKeeps ==
  ASSUME IInv, NEW r \in Requests, DropObject(r)
  PROVE  IInv'
<1> DEFINE state == [at |-> "done"]
<1>1. /\ At(r, "dropping") /\ Goto(r, state) /\ state.at = "done" /\ UNCHANGED <<files, crossed>>
      /\ objects' \in {objects, objects \ {r}}
  BY DEF DropObject, Finish, rows
<1> HIDE DEF state
<1>2. ~At(r, "done") /\ ~CanCreate(r) /\ r \notin DOMAIN files
  BY <1>1 DEF At, CanCreate, Brings, IInv, MadeAtTheEnd
<1>3. SameFiles(files, files')
  BY <1>1, SameRows DEF IInv
<1>4. ~CanCreate(r)'
  BY <1>1 DEF IInv, Goto, CanCreate, Brings, At
<1>5. objects' \subseteq objects \cup {r} /\ \A f \in objects \ objects' : Useless(f)
  BY <1>1, <1>2 DEF Useless
<1> QED BY <1>1, <1>2, <1>3, <1>4, <1>5, GoOnKeeps

-----------------------------------------------------------------------------
(* Arranging pages: no row and no object is touched.                        *)

LEMMA BeginKeeps ==
  ASSUME IInv, NEW r \in Requests, NEW state, Goto(r, state), At(r, "idle"),
         state.at = "read", state.kind # "purge", UNCHANGED <<files, objects, crossed>>
  PROVE  IInv'
<1>1. SameFiles(files, files') /\ ~At(r, "done") /\ crossed \subseteq crossed'
  BY SameRows DEF IInv, At
<1> QED BY <1>1, QuietKeeps

LEMMA BeginEditKeeps ==
  ASSUME IInv, NEW r \in Requests,
         \/ \E d \in DOMAIN documents : BeginEdit(r, d) \/ BeginConvert(r, d)
         \/ \E d \in DOMAIN documents, to \in DOMAIN documents \cup {r} : BeginMove(r, d, to)
         \/ \E d, source \in DOMAIN documents : BeginCombine(r, d, source)
         \/ \E f \in DOMAIN files : BeginRestore(r, f)
  PROVE  IInv'
<1>1. \A kind, d, to, held : Edit(kind, d, to, held).at = "read" /\ Edit(kind, d, to, held).kind = kind
  BY DEF Edit
<1>2. ASSUME NEW d \in DOMAIN documents, BeginEdit(r, d)
      PROVE  IInv'
  <2>1. PICK kind \in {"reorder", "crop", "turn", "split", "splitFile", "remove"} :
           Goto(r, Edit(kind, d, "none", Only(d, documents[d].pages)))
    BY <1>2 DEF BeginEdit
  <2> DEFINE state == Edit(kind, d, "none", Only(d, documents[d].pages))
  <2>2. Goto(r, state) /\ state.at = "read" /\ state.kind # "purge"
    BY <2>1, <1>1
  <2>3. At(r, "idle") /\ UNCHANGED <<files, objects, crossed>>
    BY <1>2 DEF BeginEdit, rows
  <2> HIDE DEF state
  <2> QED BY <2>2, <2>3, BeginKeeps
<1>3. ASSUME NEW d \in DOMAIN documents, BeginConvert(r, d)
      PROVE  IInv'
  <2>1. PICK f : Goto(r, [at |-> "read", kind |-> "convert", doc |-> d, file |-> f])
    BY <1>3 DEF BeginConvert
  <2> DEFINE state == [at |-> "read", kind |-> "convert", doc |-> d, file |-> f]
  <2>2. Goto(r, state) /\ state.at = "read" /\ state.kind # "purge"
    BY <2>1
  <2>3. At(r, "idle") /\ UNCHANGED <<files, objects, crossed>>
    BY <1>3 DEF BeginConvert, rows
  <2> HIDE DEF state
  <2> QED BY <2>2, <2>3, BeginKeeps
<1>4. ASSUME NEW d \in DOMAIN documents, NEW to \in DOMAIN documents \cup {r}, BeginMove(r, d, to)
      PROVE  IInv'
  <2> DEFINE held == [o \in {d, to} \cap Live |-> documents[o].pages]
             state == Edit("move", d, to, held)
  <2>1. Goto(r, state)
    BY <1>4 DEF BeginMove
  <2>2. state.at = "read" /\ state.kind # "purge"
    BY <1>1
  <2>3. At(r, "idle") /\ UNCHANGED <<files, objects, crossed>>
    BY <1>4 DEF BeginMove, rows
  <2> HIDE DEF state
  <2> QED BY <2>1, <2>2, <2>3, BeginKeeps
<1>5. ASSUME NEW d, NEW source, BeginCombine(r, d, source)
      PROVE  IInv'
  <2> DEFINE state == Edit("combine", d, source, <<>>)
  <2>1. Goto(r, state)
    BY <1>5 DEF BeginCombine
  <2>2. state.at = "read" /\ state.kind # "purge"
    BY <1>1
  <2>3. At(r, "idle") /\ UNCHANGED <<files, objects, crossed>>
    BY <1>5 DEF BeginCombine, rows
  <2> HIDE DEF state
  <2> QED BY <2>1, <2>2, <2>3, BeginKeeps
<1>6. ASSUME NEW f, BeginRestore(r, f)
      PROVE  IInv'
  <2> DEFINE state == [at |-> "read", kind |-> "restore", file |-> f, as |-> files[f].trashed]
  <2>1. Goto(r, state) /\ state.at = "read" /\ state.kind # "purge"
    BY <1>6 DEF BeginRestore
  <2>2. At(r, "idle") /\ UNCHANGED <<files, objects, crossed>>
    BY <1>6 DEF BeginRestore, rows
  <2> HIDE DEF state
  <2> QED BY <2>1, <2>2, BeginKeeps
<1> QED BY <1>2, <1>3, <1>4, <1>5, <1>6

LEMMA EditKeeps ==
  ASSUME IInv, NEW r \in Requests,
         \/ ReorderPages(r) \/ CropPage(r) \/ TurnFile(r) \/ SplitAtPage(r) \/ SplitFile(r)
         \/ MovePages(r) \/ Combine(r) \/ ExpandPages(r)
  PROVE  IInv'
<1>1. At(r, "read") /\ Finish(r) /\ UNCHANGED <<files, objects>> /\ crossed \subseteq crossed'
  <2>1. CASE ReorderPages(r)
    BY <2>1 DEF ReorderPages, MayRewrite
  <2>2. CASE CropPage(r)
    BY <2>2 DEF CropPage, MayRewrite
  <2>3. CASE TurnFile(r)
    BY <2>3 DEF TurnFile, MayRewrite
  <2>4. CASE SplitAtPage(r)
    BY <2>4 DEF SplitAtPage, MayRewrite, DivideInto
  <2>5. CASE SplitFile(r)
    BY <2>5 DEF SplitFile, MayRewrite, DivideInto
  <2>6. CASE MovePages(r)
    BY <2>6 DEF MovePages, MayRewrite
  <2>7. CASE Combine(r)
    BY <2>7 DEF Combine, Strands
  <2>8. CASE ExpandPages(r)
    BY <2>8 DEF ExpandPages
  <2> QED BY <2>1, <2>2, <2>3, <2>4, <2>5, <2>6, <2>7, <2>8
<1>2. ~At(r, "done") /\ SameFiles(files, files') /\ crossed \subseteq crossed'
  BY <1>1, SameRows DEF IInv, At
<1> QED BY <1>1, <1>2, FinishKeeps

LEMMA BeginBuildKeeps ==
  ASSUME IInv, NEW r \in Requests, NEW d \in DOMAIN documents, BeginBuild(r, d)
  PROVE  IInv'
<1> DEFINE opened == FilesOf(documents[d].pages)
           state == [at |-> "read", kind |-> "build", doc |-> d, opened |-> opened]
<1>1. /\ At(r, "idle") /\ Goto(r, state) /\ UNCHANGED <<objects, crossed>>
      /\ files' = [f \in DOMAIN files |->
                     IF f \in opened THEN [files[f] EXCEPT !.counted = TRUE] ELSE files[f]]
  BY DEF BeginBuild
<1>2. state.at = "read" /\ state.kind # "purge"
  OBVIOUS
<1> HIDE DEF state, opened
<1>3. \A f \in DOMAIN files : files[f] \in FileRow
  BY DEF IInv, OneRow
<1>4. ASSUME NEW f \in DOMAIN files
      PROVE  /\ [files[f] EXCEPT !.counted = TRUE] \in FileRow
             /\ [files[f] EXCEPT !.counted = TRUE].content = files[f].content
             /\ [files[f] EXCEPT !.counted = TRUE].origin = files[f].origin
  BY <1>3 DEF FileRow
<1>5. /\ DOMAIN files' = DOMAIN files
      /\ \A f \in DOMAIN files : files'[f] \in {files[f], [files[f] EXCEPT !.counted = TRUE]}
  BY <1>1
<1>6. SameFiles(files, files')
  BY <1>3, <1>4, <1>5 DEF SameFiles
<1>7. ~At(r, "done") /\ crossed \subseteq crossed'
  BY <1>1 DEF At
<1> QED BY <1>1, <1>2, <1>6, <1>7, QuietKeeps

-----------------------------------------------------------------------------
(* Taking out, converting, restoring: rows stay, and no object is touched.  *)

LEMMA OpenWithKeeps ==
  ASSUME IInv, NEW r \in Requests, NEW state, OpenWith(r, state),
         ~At(r, "done"), state.bytes = "none", state.at = "checked", UNCHANGED <<files, objects>>
  PROVE  IInv'
<1>1. Goto(r, state) /\ crossed \subseteq crossed'
  BY DEF OpenWith, Crosses
<1> QED BY <1>1, OpenKeeps

LEMMA TakeOutKeeps ==
  ASSUME IInv, NEW r \in Requests,
         RemovePage(r) \/ \E d \in DOMAIN documents : DeleteDocument(r, d)
  PROVE  IInv'
<1>1. \E d, list, leaving, dropped : TakeOut(r, d, list, leaving, dropped)
  <2>1. CASE RemovePage(r)
    BY <2>1 DEF RemovePage
  <2>2. ASSUME NEW d \in DOMAIN documents, DeleteDocument(r, d)
        PROVE  TakeOut(r, d, <<>>, FilesOf(documents[d].pages), TRUE)
    BY <2>2 DEF DeleteDocument
  <2> QED BY <2>1, <2>2
<1>2. PICK d, list, leaving, dropped : TakeOut(r, d, list, leaving, dropped)
  BY <1>1
<1>3. ~At(r, "done") /\ UNCHANGED <<files, objects>>
  <2>1. CASE RemovePage(r)
    BY <2>1 DEF RemovePage, MayRewrite, At, rows
  <2>2. CASE \E x \in DOMAIN documents : DeleteDocument(r, x)
    BY <2>2 DEF DeleteDocument, At, rows
  <2> QED BY <2>1, <2>2
<1> DEFINE state == [at |-> "checked", kind |-> "out", bytes |-> "none", locks |-> {d},
                     holds |-> {}, subject |-> leaving, list |-> list, dropped |-> dropped,
                     orphaned |-> ReadNowhereElse(leaving, Only(d, list))]
<1>4. OpenWith(r, state)
  BY <1>2 DEF TakeOut
<1>5. state.bytes = "none" /\ state.at = "checked"
  OBVIOUS
<1> HIDE DEF state
<1> QED BY <1>3, <1>4, <1>5, OpenWithKeeps

LEMMA CommitTakingOutKeeps ==
  ASSUME IInv, NEW r \in Requests, CommitTakingOut(r)
  PROVE  IInv'
<1>1. /\ ~At(r, "done") /\ Finish(r) /\ UNCHANGED <<objects, crossed>>
      /\ files' = Trashed(files, req[r].orphaned, "DOCUMENT")
  BY DEF CommitTakingOut, At
<1>2. SameFiles(files, files') /\ crossed \subseteq crossed'
  BY <1>1, TrashedSame DEF IInv, OneRow
<1> QED BY <1>1, <1>2, FinishKeeps

LEMMA ReceiptKeeps ==
  ASSUME IInv, NEW r \in Requests,
         \/ \E x \in DOMAIN receipts : DeleteReceipt(r, x) \/ ReceiptToDocument(r, x)
         \/ DocumentToReceipt(r)
  PROVE  IInv'
<1>1. ASSUME NEW x \in DOMAIN receipts, DeleteReceipt(r, x)
      PROVE  IInv'
  <2>1. /\ ~At(r, "done") /\ Finish(r) /\ UNCHANGED objects /\ crossed \subseteq crossed'
        /\ files' = Trashed(files, {receipts[x]}, "RECEIPT")
    BY <1>1 DEF DeleteReceipt, At, Crosses
  <2>2. SameFiles(files, files')
    BY <2>1, TrashedSame DEF IInv, OneRow
  <2> QED BY <2>1, <2>2, FinishKeeps
<1>2. ASSUME NEW x \in DOMAIN receipts, ReceiptToDocument(r, x)
      PROVE  IInv'
  <2>1. /\ ~At(r, "done") /\ Finish(r) /\ UNCHANGED <<files, objects>> /\ crossed \subseteq crossed'
    BY <1>2 DEF ReceiptToDocument, At, Crosses
  <2>2. SameFiles(files, files')
    BY <2>1, SameRows DEF IInv
  <2> QED BY <2>1, <2>2, FinishKeeps
<1>3. CASE DocumentToReceipt(r)
  <2>1. /\ ~At(r, "done") /\ Finish(r) /\ UNCHANGED <<files, objects>> /\ crossed \subseteq crossed'
    BY <1>3 DEF DocumentToReceipt, At
  <2>2. SameFiles(files, files')
    BY <2>1, SameRows DEF IInv
  <2> QED BY <2>1, <2>2, FinishKeeps
<1> QED BY <1>1, <1>2, <1>3

LEMMA RestoreKeeps ==
  ASSUME IInv, NEW r \in Requests, CheckRestore(r) \/ CommitRestore(r)
  PROVE  IInv'
<1>1. CASE CheckRestore(r)
  <2> DEFINE state == [at |-> "checked", kind |-> "restoring", bytes |-> "none", locks |-> {},
                       holds |-> {}, subject |-> {req[r].file}, as |-> req[r].as]
  <2>1. OpenWith(r, state) /\ ~At(r, "done") /\ UNCHANGED <<files, objects>>
    BY <1>1 DEF CheckRestore, At, rows
  <2>2. state.bytes = "none" /\ state.at = "checked"
    OBVIOUS
  <2> HIDE DEF state
  <2> QED BY <2>1, <2>2, OpenWithKeeps
<1>2. CASE CommitRestore(r)
  <2> DEFINE f == CHOOSE x \in req[r].subject : TRUE
  <2>1. /\ ~At(r, "done") /\ Finish(r) /\ UNCHANGED <<objects, crossed>>
        /\ f \in DOMAIN files /\ files' = [files EXCEPT ![f].trashed = "no"]
    BY <1>2 DEF CommitRestore, At
  <2> HIDE DEF f
  <2>2. \A x \in DOMAIN files : files[x] \in FileRow
    BY DEF IInv, OneRow
  <2>3. SameFiles(files, files') /\ crossed \subseteq crossed'
    BY <2>1, <2>2, UntrashedSame
  <2> QED BY <2>1, <2>3, FinishKeeps
<1> QED BY <1>1, <1>2

-----------------------------------------------------------------------------
(* The trash and the sweep.                                                 *)

\* A request that makes no file goes on: what GoOnKeeps asks of the trash and the sweep.
LEMMA SweepsKeep ==
  ASSUME IInv, NEW r \in Requests, NEW state, Goto(r, state), ~At(r, "done"),
         state.at \in {"read", "purged", "listed", "asked", "done"},
         SameFiles(files, files'), crossed \subseteq crossed', objects' \subseteq objects,
         \A f \in objects \ objects' : Useless(f),
         state.at = "listed" => \A f \in (state.listed \cap Requests) \ {r} : ~At(f, "idle"),
         state.at = "asked" => \A f \in state.orphans : Useless(f)',
         state.at = "read" /\ state.kind = "purge" =>
            \A f \in state.held \cap Requests : At(f, "done"),
         state.at = "purged" =>
            \A f \in state.held : f \notin DOMAIN files' /\ (f \in Requests => At(f, "done"))
  PROVE  IInv'
<1>1. req'[r] = state
  BY DEF IInv, Goto
<1>2. ~CanCreate(r)'
  BY <1>1 DEF CanCreate, Brings, At
<1> QED BY <1>2, GoOnKeeps

LEMMA PurgeKeeps ==
  ASSUME IInv, NEW r \in Requests, BeginPurge(r) \/ Purge(r) \/ PurgeObjects(r)
  PROVE  IInv'
<1>1. CASE BeginPurge(r)
  <2>1. PICK held \in SUBSET DOMAIN files : Goto(r, [at |-> "read", kind |-> "purge", held |-> held])
    BY <1>1 DEF BeginPurge
  <2> DEFINE state == [at |-> "read", kind |-> "purge", held |-> held]
  <2>2. Goto(r, state) /\ state.at = "read" /\ state.held = held
    BY <2>1
  <2>3. \A f \in held \cap Requests : At(f, "done")
    BY DEF IInv, MadeAtTheEnd
  <2>4. ~At(r, "done") /\ UNCHANGED <<files, objects, crossed>>
    BY <1>1 DEF BeginPurge, At, rows
  <2> HIDE DEF state
  <2>5. SameFiles(files, files')
    BY <2>4, SameRows DEF IInv
  <2> QED BY <2>2, <2>3, <2>4, <2>5, SweepsKeep
<1>2. CASE Purge(r)
  <2> DEFINE state == [at |-> "purged", held |-> req[r].held]
  <2>1. /\ Goto(r, state) /\ state.at = "purged" /\ state.held = req[r].held
        /\ At(r, "read") /\ req[r].kind = "purge"
        /\ UNCHANGED <<objects, crossed>> /\ files' = Without(files, req[r].held)
    BY <1>2 DEF Purge
  <2>2. ~At(r, "done")
    BY <2>1 DEF At
  <2>3. \A f \in req[r].held : f \notin DOMAIN files' /\ (f \in Requests => At(f, "done"))
    BY <2>1 DEF IInv, DeletesUseless, Without
  <2>4. SameFiles(files, files')
    BY <2>1 DEF IInv, OneRow, SameFiles, Without
  <2> HIDE DEF state
  <2> QED BY <2>1, <2>2, <2>3, <2>4, SweepsKeep
<1>3. CASE PurgeObjects(r)
  <2> DEFINE state == [at |-> "done"]
  <2>1. /\ Goto(r, state) /\ state.at = "done" /\ At(r, "purged")
        /\ UNCHANGED <<files, crossed>> /\ objects' \in {objects, objects \ req[r].held}
    BY <1>3 DEF PurgeObjects, Finish, rows
  <2>2. ~At(r, "done")
    BY <2>1 DEF At
  <2>3. \A f \in req[r].held : Useless(f)
    BY <2>1 DEF IInv, DeletesUseless, Useless, CanCreate, Brings, At
  <2>4. SameFiles(files, files')
    BY <2>1, SameRows DEF IInv
  <2> HIDE DEF state
  <2> QED BY <2>1, <2>2, <2>3, <2>4, SweepsKeep
<1> QED BY <1>1, <1>2, <1>3

LEMMA SweepKeeps ==
  ASSUME IInv, NEW r \in Requests, SweepList(r) \/ SweepAsk(r) \/ SweepDelete(r)
  PROVE  IInv'
<1>1. CASE SweepList(r)
  <2> DEFINE state == [at |-> "listed", listed |-> objects]
  <2>1. /\ Goto(r, state) /\ state.at = "listed" /\ state.listed = objects /\ ~At(r, "done")
        /\ UNCHANGED <<files, objects, crossed>>
    BY <1>1 DEF SweepList, rows, At
  <2>2. \A f \in objects \cap Requests : ~At(f, "idle")
    BY DEF IInv, StoredIsThere
  <2>3. SameFiles(files, files')
    BY <2>1, SameRows DEF IInv
  <2> HIDE DEF state
  <2> QED BY <2>1, <2>2, <2>3, SweepsKeep
<1>2. CASE SweepAsk(r)
  <2> DEFINE orphans == req[r].listed \ DOMAIN files
             state == [at |-> "asked", orphans |-> orphans]
  <2>1. /\ Goto(r, state) /\ state.at = "asked" /\ state.orphans = orphans /\ At(r, "listed")
        /\ UNCHANGED <<files, objects>>
        /\ crossed' = crossed \cup {f \in orphans \cap Requests : req[f].at \in {"stored", "checked"}}
    BY <1>2 DEF SweepAsk, rows
  <2>2. ~At(r, "done") /\ req'[r] = state
    BY <2>1 DEF At, IInv, Goto
  <2>3. ASSUME NEW f \in orphans
        PROVE  Useless(f)'
    <3>1. f \notin DOMAIN files'
      BY <2>1
    <3>2. CASE f \in Requests /\ f # r
      <4>1. ~At(f, "idle")
        BY <2>1, <3>2 DEF IInv, DeletesUseless
      <4>2. req'[f] = req[f]
        BY <2>1, <3>2 DEF IInv, Goto
      <4>3. CASE req[f].at \in {"stored", "checked"}
        BY <2>1, <3>2, <4>3 DEF Useless
      <4>4. CASE req[f].at \notin {"stored", "checked"}
        BY <3>1, <4>1, <4>2, <4>4 DEF Useless, CanCreate, Brings, At
      <4> QED BY <4>3, <4>4
    <3>3. CASE f = r
      BY <2>1, <2>2, <3>1, <3>3 DEF Useless, CanCreate, Brings, At
    <3>4. CASE f \notin Requests
      BY <3>1, <3>4 DEF Useless, CanCreate
    <3> QED BY <3>2, <3>3, <3>4
  <2>4. SameFiles(files, files')
    BY <2>1, SameRows DEF IInv
  <2> HIDE DEF state, orphans
  <2> QED BY <2>1, <2>2, <2>3, <2>4, SweepsKeep
<1>3. CASE SweepDelete(r)
  <2> DEFINE state == [at |-> "done"]
  <2>1. /\ Goto(r, state) /\ state.at = "done" /\ At(r, "asked")
        /\ UNCHANGED <<files, crossed>> /\ objects' = objects \ req[r].orphans
    BY <1>3 DEF SweepDelete, Finish, rows
  <2>2. ~At(r, "done")
    BY <2>1 DEF At
  <2>3. \A f \in req[r].orphans : Useless(f)
    BY <2>1 DEF IInv, DeletesUseless
  <2>4. SameFiles(files, files')
    BY <2>1, SameRows DEF IInv
  <2> HIDE DEF state
  <2> QED BY <2>1, <2>2, <2>3, <2>4, SweepsKeep
<1> QED BY <1>1, <1>2, <1>3

LEMMA FailKeeps ==
  ASSUME IInv, NEW r \in Requests, Fail(r)
  PROVE  IInv'
<1> DEFINE state == [at |-> IF req[r].at \in {"stored", "checked"} /\ req[r].kind = "receipt"
                            THEN "dropping" ELSE "done"]
<1>1. Goto(r, state) /\ ~At(r, "done") /\ UNCHANGED <<files, objects, crossed>>
  BY DEF Fail, At, rows
<1>2. state.at \in {"read", "done", "dropping"} /\ state.at # "read"
  OBVIOUS
<1> HIDE DEF state
<1>3. SameFiles(files, files') /\ crossed \subseteq crossed'
  BY <1>1, SameRows DEF IInv
<1> QED BY <1>1, <1>2, <1>3, QuietKeeps

-----------------------------------------------------------------------------

LEMMA InitHolds ==
  ASSUME Init
  PROVE  IInv
<1>1. PICK a \in Archives :
        /\ files = a.files /\ objects = {f \in DOMAIN a.files : a.files[f].origin = "MANAGED"}
  BY DEF Init
<1>2. /\ DOMAIN files \cap Requests = {} /\ OneRow
  BY <1>1, ArchivesAssumption DEF OneRow
<1>3. DOMAIN req = Requests /\ \A r \in Requests : req[r] = [at |-> "idle"]
  BY DEF Init
<1>4. \A r \in Requests : req[r].at = "idle"
  BY <1>3
<1>5. MadeAtTheEnd
  BY <1>2 DEF MadeAtTheEnd
<1>6. HashIsHeld
  BY <1>4 DEF HashIsHeld, Brings, At
<1>7. StoredIsThere
  BY <1>1, <1>2, <1>4 DEF StoredIsThere, Brings, At
<1>8. DeletesUseless
  BY <1>4 DEF DeletesUseless, At
<1>9. OriginalKept
  BY <1>1 DEF OriginalKept
<1> QED BY <1>2, <1>3, <1>5, <1>6, <1>7, <1>8, <1>9 DEF IInv

LEMMA StutterKeeps ==
  ASSUME IInv, UNCHANGED vars
  PROVE  IInv'
<1>1. UNCHANGED <<files, objects, req, crossed>>
  BY DEF vars
<1> QED
  BY <1>1 DEF IInv, OneRow, MadeAtTheEnd, HashIsHeld, StoredIsThere, DeletesUseless, OriginalKept,
       Brings, At, RowsOf, Useless, CanCreate

LEMMA StepKeeps ==
  ASSUME IInv, [Next]_vars
  PROVE  IInv'
<1>1. CASE UNCHANGED vars
  BY <1>1, StutterKeeps
<1>2. CASE Next
  <2>1. PICK r \in Requests :
    \/ \E c \in Contents : Upload(r, c) \/ Ingest(r, c)
    \/ \E d \in DOMAIN documents, c \in Contents : AddFile(r, d, c)
    \/ \E d \in DOMAIN documents, f \in DOMAIN files, c \in Contents : ReplaceFile(r, d, f, c)
    \/ CheckBytes(r) \/ CommitBytes(r) \/ DropObject(r)
    \/ \E d \in DOMAIN documents : BeginEdit(r, d) \/ BeginBuild(r, d) \/ DeleteDocument(r, d) \/ BeginConvert(r, d)
    \/ \E d \in DOMAIN documents, to \in DOMAIN documents \cup {r} : BeginMove(r, d, to)
    \/ \E d, source \in DOMAIN documents : BeginCombine(r, d, source)
    \/ ReorderPages(r) \/ CropPage(r) \/ TurnFile(r) \/ SplitAtPage(r) \/ SplitFile(r) \/ MovePages(r)
    \/ Combine(r) \/ DocumentToReceipt(r) \/ ExpandPages(r) \/ RemovePage(r) \/ CommitTakingOut(r)
    \/ \E x \in DOMAIN receipts : DeleteReceipt(r, x) \/ ReceiptToDocument(r, x)
    \/ \E f \in DOMAIN files : BeginRestore(r, f)
    \/ CheckRestore(r) \/ CommitRestore(r)
    \/ BeginPurge(r) \/ Purge(r) \/ PurgeObjects(r)
    \/ SweepList(r) \/ SweepAsk(r) \/ SweepDelete(r)
    \/ Fail(r)
    BY <1>2 DEF Next
  <2>2. CASE \/ \E c \in Contents : Upload(r, c) \/ Ingest(r, c)
             \/ \E d \in DOMAIN documents, c \in Contents : AddFile(r, d, c)
             \/ \E d \in DOMAIN documents, f \in DOMAIN files, c \in Contents : ReplaceFile(r, d, f, c)
    BY <2>2, BringKeeps
  <2>3. CASE CheckBytes(r) \/ CommitBytes(r) \/ DropObject(r)
    BY <2>3, CheckBytesKeeps, CommitBytesKeeps, DropObjectKeeps
  <2>4. CASE \E d \in DOMAIN documents : BeginBuild(r, d) \/ DeleteDocument(r, d)
    BY <2>4, BeginBuildKeeps, TakeOutKeeps
  <2>5. CASE \/ \E d \in DOMAIN documents : BeginEdit(r, d) \/ BeginConvert(r, d)
             \/ \E d \in DOMAIN documents, to \in DOMAIN documents \cup {r} : BeginMove(r, d, to)
             \/ \E d, source \in DOMAIN documents : BeginCombine(r, d, source)
             \/ \E f \in DOMAIN files : BeginRestore(r, f)
    BY <2>5, BeginEditKeeps
  <2>6. CASE \/ ReorderPages(r) \/ CropPage(r) \/ TurnFile(r) \/ SplitAtPage(r) \/ SplitFile(r)
             \/ MovePages(r) \/ Combine(r) \/ ExpandPages(r)
    BY <2>6, EditKeeps
  <2>7. CASE RemovePage(r) \/ CommitTakingOut(r)
    BY <2>7, TakeOutKeeps, CommitTakingOutKeeps
  <2>8. CASE \/ \E x \in DOMAIN receipts : DeleteReceipt(r, x) \/ ReceiptToDocument(r, x)
             \/ DocumentToReceipt(r)
    BY <2>8, ReceiptKeeps
  <2>9. CASE CheckRestore(r) \/ CommitRestore(r)
    BY <2>9, RestoreKeeps
  <2>10. CASE BeginPurge(r) \/ Purge(r) \/ PurgeObjects(r)
    BY <2>10, PurgeKeeps
  <2>11. CASE SweepList(r) \/ SweepAsk(r) \/ SweepDelete(r)
    BY <2>11, SweepKeeps
  <2>12. CASE Fail(r)
    BY <2>12, FailKeeps
  <2> QED BY <2>1, <2>2, <2>3, <2>4, <2>5, <2>6, <2>7, <2>8, <2>9, <2>10, <2>11, <2>12
<1> QED BY <1>1, <1>2

(* The inductive invariant: fresh ids, held hashes, objects stored before   *)
(* their rows, and deletes that only reach what nobody will need.           *)
THEOREM Invariant == Spec => []IInv
<1>1. Init => IInv
  BY InitHolds
<1>2. IInv /\ [Next]_vars => IInv'
  BY StepKeeps
<1> QED BY <1>1, <1>2, PTL DEF Spec

(* Whatever requests, sweeps and purges meet, the original of a managed     *)
(* file is in the bucket, unless a sweep asked about it before the          *)
(* transaction of its upload had committed.                                 *)
THEOREM OriginalsAreKept == Spec => []OriginalKept
<1>1. IInv => OriginalKept
  BY DEF IInv
<1> QED BY <1>1, Invariant, PTL

(* Uploads, edits and ingests of the same bytes never make two rows: under  *)
(* the lock of the hash nobody runs into the unique index of the table.     *)
THEOREM OneRowAContent == Spec => []OneRow
<1>1. IInv => OneRow
  BY DEF IInv
<1> QED BY <1>1, Invariant, PTL

(* The order is a strict and total one on the set.                          *)
Strict(S, smaller) ==
  /\ \A x \in S : <<x, x>> \notin smaller
  /\ \A x, y \in S : x # y => <<x, y>> \in smaller \/ <<y, x>> \in smaller
  /\ \A x, y, z \in S : <<x, y>> \in smaller /\ <<y, z>> \in smaller => <<x, z>> \in smaller

(* A finite set in order is a sequence of its elements, all of them.        *)
LEMMA InOrderIsAll ==
  ASSUME NEW S, IsFiniteSet(S), NEW smaller, Strict(S, smaller)
  PROVE  /\ Cardinality(S) \in Nat
         /\ DOMAIN InOrder(S, smaller) = 1 .. Cardinality(S)
         /\ \A k \in 1 .. Cardinality(S) : InOrder(S, smaller)[k] \in S
         /\ \A x \in S : \E k \in 1 .. Cardinality(S) : InOrder(S, smaller)[k] = x
<1> DEFINE n == Cardinality(S)
           Below(x) == {y \in S : <<y, x>> \in smaller}
           rank == [x \in S |-> Cardinality(Below(x)) + 1]
<1>1. n \in Nat
  BY FS_CardinalityType
<1>2. ASSUME NEW x \in S
      PROVE  IsFiniteSet(Below(x)) /\ Cardinality(Below(x)) \in 0 .. n - 1
  <2>1. Below(x) \subseteq S \ {x}
    BY DEF Strict
  <2>2. IsFiniteSet(S \ {x}) /\ Cardinality(S \ {x}) = n - 1
    BY FS_RemoveElement
  <2> HIDE DEF Below, n
  <2>3. IsFiniteSet(Below(x)) /\ Cardinality(Below(x)) <= n - 1
    BY <2>1, <2>2, FS_Subset
  <2>4. Cardinality(Below(x)) \in Nat
    BY <2>3, FS_CardinalityType
  <2> QED BY <1>1, <2>3, <2>4
<1>3. ASSUME NEW x \in S, NEW y \in S, <<x, y>> \in smaller
      PROVE  Cardinality(Below(x)) # Cardinality(Below(y))
  <2>1. Below(x) \subseteq Below(y)
    BY <1>3 DEF Strict
  <2>2. x \in Below(y) /\ x \notin Below(x)
    BY <1>3 DEF Strict
  <2>3. IsFiniteSet(Below(y))
    BY <1>2
  <2> HIDE DEF Below
  <2> QED BY <2>1, <2>2, <2>3, FS_Subset
<1>4. \A x, y \in S : x # y => Cardinality(Below(x)) # Cardinality(Below(y))
  <2> HIDE DEF Below
  <2> QED BY <1>3 DEF Strict
<1>5. rank \in Injection(S, 1 .. n)
  <2>1. rank \in [S -> 1 .. n]
    <3> HIDE DEF Below, n
    <3> QED BY <1>1, <1>2
  <2>2. \A x, y \in S : rank[x] = rank[y] => x = y
    <3>1. \A x \in S : rank[x] = Cardinality(Below(x)) + 1 /\ Cardinality(Below(x)) \in Nat
      <4> HIDE DEF Below, n
      <4> QED BY <1>1, <1>2
    <3> HIDE DEF rank, Below, n
    <3> QED BY <3>1, <1>4
  <2> HIDE DEF rank, n
  <2> QED BY <2>1, <2>2 DEF Injection, IsInjective
<1>6. IsFiniteSet(1 .. n) /\ Cardinality(1 .. n) = n
  <2> HIDE DEF n
  <2> QED BY <1>1, FS_Interval
<1>7. rank \in Surjection(S, 1 .. n)
  <2> HIDE DEF rank
  <2>1. Cardinality(S) = Cardinality(1 .. n)
    BY <1>6
  <2> HIDE DEF n
  <2> QED BY <1>5, <1>6, <2>1, FS_Injection
<1>8. \A k \in 1 .. n : \E x \in S : rank[x] = k
  <2> HIDE DEF rank, n
  <2> QED BY <1>7 DEF Surjection
<1>9. ASSUME NEW k \in 1 .. n, NEW x \in S
      PROVE  rank[x] = k <=> Cardinality(Below(x)) = k - 1
  <2>1. rank[x] = Cardinality(Below(x)) + 1 /\ Cardinality(Below(x)) \in Nat
    <3> HIDE DEF Below, n
    <3> QED BY <1>1, <1>2
  <2> HIDE DEF rank, Below, n
  <2> QED BY <2>1, <1>1
<1>10. ASSUME NEW k \in 1 .. n
       PROVE  InOrder(S, smaller)[k] \in S /\ rank[InOrder(S, smaller)[k]] = k
  <2>1. InOrder(S, smaller)[k] = CHOOSE x \in S : Cardinality(Below(x)) = k - 1
    BY DEF InOrder
  <2> HIDE DEF rank, Below, n
  <2>2. \E x \in S : Cardinality(Below(x)) = k - 1
    BY <1>8, <1>9
  <2> QED BY <2>1, <2>2, <1>9
<1>11. DOMAIN InOrder(S, smaller) = 1 .. n
  BY DEF InOrder
<1>12. \A x \in S : rank[x] \in 1 .. n
  <2> HIDE DEF rank, n
  <2> QED BY <1>5 DEF Injection
<1>13. \A x, y \in S : rank[x] = rank[y] => x = y
  <2> HIDE DEF rank, n
  <2> QED BY <1>5 DEF Injection, IsInjective
<1> HIDE DEF rank
<1> QED BY <1>1, <1>10, <1>11, <1>12, <1>13

(* Picking keeps the entries at these places and no others.                 *)
LEMMA PickIsThose ==
  ASSUME NEW E, NEW pages \in Seq(E), NEW places, places \subseteq DOMAIN pages
  PROVE  /\ Pick(pages, places) \in Seq(E)
         /\ \A k \in DOMAIN Pick(pages, places) : \E i \in places : Pick(pages, places)[k] = pages[i]
         /\ \A i \in places : \E k \in DOMAIN Pick(pages, places) : Pick(pages, places)[k] = pages[i]
         /\ Pick(pages, places) = <<>> <=> places = {}
<1> DEFINE smaller == {p \in places \X places : p[1] < p[2]}
           order == InOrder(places, smaller)
           n == Cardinality(places)
<1>1. DOMAIN pages = 1 .. Len(pages) /\ Len(pages) \in Nat
  OBVIOUS
<1>2. places \subseteq Nat /\ IsFiniteSet(places)
  <2>1. IsFiniteSet(1 .. Len(pages))
    BY <1>1, FS_Interval
  <2> QED BY <1>1, <2>1, FS_Subset
<1>3. Strict(places, smaller)
  <2>1. \A x, y \in places : <<x, y>> \in smaller <=> x < y
    OBVIOUS
  <2> HIDE DEF smaller
  <2> QED BY <1>2, <2>1 DEF Strict
<1> HIDE DEF smaller
<1>4. /\ n \in Nat /\ DOMAIN order = 1 .. n
      /\ \A k \in 1 .. n : order[k] \in places
      /\ \A x \in places : \E k \in 1 .. n : order[k] = x
  BY <1>2, <1>3, InOrderIsAll
<1>5. Pick(pages, places) = [k \in DOMAIN order |-> pages[order[k]]]
  BY DEF Pick, smaller
<1> HIDE DEF order, n
<1>6. \A i \in places : pages[i] \in E
  BY <1>1
<1>7. Pick(pages, places) = [k \in 1 .. n |-> pages[order[k]]]
  BY <1>4, <1>5
<1>8. Pick(pages, places) \in Seq(E)
  BY <1>4, <1>6, <1>7
<1>9. DOMAIN Pick(pages, places) = 1 .. n /\ \A k \in 1 .. n : Pick(pages, places)[k] = pages[order[k]]
  BY <1>7
<1>10. Pick(pages, places) = <<>> <=> n = 0
  <2>1. Len(Pick(pages, places)) = n
    BY <1>4, <1>7
  <2> QED BY <1>8, <2>1
<1>11. n = 0 <=> places = {}
  BY <1>2, FS_EmptySet DEF n
<1>12. \A k \in DOMAIN Pick(pages, places) : \E i \in places : Pick(pages, places)[k] = pages[i]
  BY <1>4, <1>9
<1>13. ASSUME NEW i \in places
       PROVE  \E k \in DOMAIN Pick(pages, places) : Pick(pages, places)[k] = pages[i]
  <2>1. PICK k \in 1 .. n : order[k] = i
    BY <1>4
  <2>2. k \in DOMAIN Pick(pages, places) /\ Pick(pages, places)[k] = pages[i]
    BY <2>1, <1>9
  <2> QED BY <2>2
<1> QED BY <1>8, <1>10, <1>11, <1>12, <1>13

-----------------------------------------------------------------------------
(* Lists of pages: what each way of writing one does to the files, to the   *)
(* makers and to the entries of the list.                                   *)

Bys(pages) == {pages[i].by : i \in DOMAIN pages}
EntriesOf(pages) == {pages[i] : i \in DOMAIN pages}

\* The entry is still there, perhaps as the first page of its file.
Keeps(p, q) == q.file = p.file /\ p.index \in {q.index, Whole} /\ q.crop = p.crop
KeepsAll(pages, list) == \A p \in EntriesOf(pages) : \E q \in EntriesOf(list) : Keeps(p, q)

LEMMA OfEntries ==
  ASSUME NEW pages
  PROVE  /\ FilesOf(pages) = {e.file : e \in EntriesOf(pages)}
         /\ Bys(pages) = {e.by : e \in EntriesOf(pages)}
BY DEF FilesOf, Bys, EntriesOf

\* A list is empty when it has no entries.
LEMMA EmptyList ==
  ASSUME NEW pages \in Seq(Entries)
  PROVE  /\ EntriesOf(pages) \subseteq Entries
         /\ pages = <<>> <=> FilesOf(pages) = {}
         /\ pages = <<>> <=> EntriesOf(pages) = {}
<1>1. DOMAIN pages = 1 .. Len(pages) /\ Len(pages) \in Nat /\ \A i \in DOMAIN pages : pages[i] \in Entries
  OBVIOUS
<1>2. pages # <<>> => 1 \in DOMAIN pages
  BY <1>1
<1>3. pages = <<>> => DOMAIN pages = {}
  OBVIOUS
<1> QED BY <1>1, <1>2, <1>3 DEF FilesOf, EntriesOf

LEMMA KeepsItself ==
  ASSUME NEW pages, NEW list, EntriesOf(pages) \subseteq EntriesOf(list)
  PROVE  KeepsAll(pages, list)
BY DEF KeepsAll, Keeps

\* What the helpers on lists of pages return: the entries picked,
LEMMA PickEffect ==
  ASSUME NEW pages \in Seq(Entries), NEW places, places \subseteq DOMAIN pages
  PROVE  /\ Pick(pages, places) \in Seq(Entries)
         /\ EntriesOf(Pick(pages, places)) = {pages[i] : i \in places}
         /\ FilesOf(Pick(pages, places)) = {pages[i].file : i \in places}
         /\ Bys(Pick(pages, places)) \subseteq Bys(pages)
         /\ Pick(pages, places) = <<>> <=> places = {}
<1> DEFINE list == Pick(pages, places)
<1>1. /\ list \in Seq(Entries)
      /\ \A k \in DOMAIN list : \E i \in places : list[k] = pages[i]
      /\ \A i \in places : \E k \in DOMAIN list : list[k] = pages[i]
      /\ list = <<>> <=> places = {}
  BY PickIsThose
<1> HIDE DEF list
<1>2. EntriesOf(list) = {pages[i] : i \in places}
  <2>1. ASSUME NEW e \in EntriesOf(list)
        PROVE  e \in {pages[i] : i \in places}
    <3>1. PICK k \in DOMAIN list : e = list[k]
      BY <2>1 DEF EntriesOf
    <3> QED BY <1>1, <3>1
  <2>2. ASSUME NEW i \in places
        PROVE  pages[i] \in EntriesOf(list)
    <3>1. PICK k \in DOMAIN list : list[k] = pages[i]
      BY <1>1
    <3> QED BY <3>1 DEF EntriesOf
  <2> QED BY <2>1, <2>2
<1>3. FilesOf(list) = {e.file : e \in EntriesOf(list)} /\ Bys(list) = {e.by : e \in EntriesOf(list)}
  BY OfEntries
<1>4. FilesOf(list) = {pages[i].file : i \in places}
  BY <1>2, <1>3
<1>5. Bys(list) \subseteq Bys(pages)
  BY <1>2, <1>3 DEF Bys
<1> QED BY <1>1, <1>2, <1>4, <1>5 DEF list

\* all but those of a file,
LEMMA WithoutFileEffect ==
  ASSUME NEW pages \in Seq(Entries), NEW f
  PROVE  /\ WithoutFile(pages, f) \in Seq(Entries)
         /\ FilesOf(WithoutFile(pages, f)) = FilesOf(pages) \ {f}
         /\ Bys(WithoutFile(pages, f)) \subseteq Bys(pages)
         /\ \A e \in EntriesOf(pages) : e.file # f => e \in EntriesOf(WithoutFile(pages, f))
<1> DEFINE places == DOMAIN pages \ PlacesOf(pages, f)
<1>1. places = {i \in DOMAIN pages : pages[i].file # f}
  BY DEF PlacesOf
<1>2. WithoutFile(pages, f) = Pick(pages, places)
  BY DEF WithoutFile
<1> HIDE DEF places
<1>3. places \subseteq DOMAIN pages
  BY <1>1
<1>4. /\ Pick(pages, places) \in Seq(Entries)
      /\ EntriesOf(Pick(pages, places)) = {pages[i] : i \in places}
      /\ FilesOf(Pick(pages, places)) = {pages[i].file : i \in places}
      /\ Bys(Pick(pages, places)) \subseteq Bys(pages)
  BY <1>3, PickEffect
<1>5. {pages[i].file : i \in places} = FilesOf(pages) \ {f}
  BY <1>1 DEF FilesOf
<1>6. \A e \in EntriesOf(pages) : e.file # f => e \in {pages[i] : i \in places}
  BY <1>1 DEF EntriesOf
<1> QED BY <1>2, <1>4, <1>5, <1>6

\* those of two lists,
LEMMA ConcatEffect ==
  ASSUME NEW a \in Seq(Entries), NEW b \in Seq(Entries)
  PROVE  /\ a \o b \in Seq(Entries)
         /\ EntriesOf(a \o b) = EntriesOf(a) \cup EntriesOf(b)
         /\ FilesOf(a \o b) = FilesOf(a) \cup FilesOf(b)
         /\ Bys(a \o b) = Bys(a) \cup Bys(b)
<1> DEFINE c == a \o b
<1>1. /\ c \in Seq(Entries) /\ Len(c) = Len(a) + Len(b)
      /\ Len(a) \in Nat /\ Len(b) \in Nat
      /\ DOMAIN a = 1 .. Len(a) /\ DOMAIN b = 1 .. Len(b) /\ DOMAIN c = 1 .. Len(a) + Len(b)
      /\ \A i \in 1 .. Len(a) : c[i] = a[i]
      /\ \A i \in 1 .. Len(b) : c[Len(a) + i] = b[i]
  OBVIOUS
<1>2. \A i \in DOMAIN c : i \in 1 .. Len(a) \/ (i - Len(a) \in 1 .. Len(b) /\ i = Len(a) + (i - Len(a)))
  BY <1>1
<1>3. \A i \in 1 .. Len(b) : Len(a) + i \in DOMAIN c
  BY <1>1
<1>4. \A i \in 1 .. Len(a) : i \in DOMAIN c
  BY <1>1
<1> HIDE DEF c
<1>5. EntriesOf(c) \subseteq EntriesOf(a) \cup EntriesOf(b)
  <2>1. ASSUME NEW i \in DOMAIN c
        PROVE  c[i] \in EntriesOf(a) \cup EntriesOf(b)
    <3>1. CASE i \in 1 .. Len(a)
      BY <3>1, <1>1 DEF EntriesOf
    <3>2. CASE i \notin 1 .. Len(a)
      <4>1. PICK j \in 1 .. Len(b) : i = Len(a) + j
        BY <3>2, <1>2
      <4> QED BY <4>1, <1>1 DEF EntriesOf
    <3> QED BY <3>1, <3>2
  <2> QED BY <2>1 DEF EntriesOf
<1>6. EntriesOf(a) \subseteq EntriesOf(c)
  BY <1>1, <1>4 DEF EntriesOf
<1>7. EntriesOf(b) \subseteq EntriesOf(c)
  BY <1>1, <1>3 DEF EntriesOf
<1>8. EntriesOf(c) = EntriesOf(a) \cup EntriesOf(b)
  BY <1>5, <1>6, <1>7
<1>9. FilesOf(c) = FilesOf(a) \cup FilesOf(b) /\ Bys(c) = Bys(a) \cup Bys(b)
  BY <1>8, OfEntries
<1> QED BY <1>1, <1>8, <1>9 DEF c

\* those of a file replaced by what arrives,
LEMMA ReplacedEffect ==
  ASSUME NEW pages \in Seq(Entries), NEW f, NEW arriving \in Seq(Entries), arriving # <<>>
  PROVE  /\ WithFileReplaced(pages, f, arriving) \in Seq(Entries)
         /\ FilesOf(WithFileReplaced(pages, f, arriving)) =
              IF f \in FilesOf(pages) THEN (FilesOf(pages) \ {f}) \cup FilesOf(arriving) ELSE FilesOf(pages)
         /\ Bys(WithFileReplaced(pages, f, arriving)) \subseteq Bys(pages) \cup Bys(arriving)
         /\ \A e \in EntriesOf(pages) : e.file # f => e \in EntriesOf(WithFileReplaced(pages, f, arriving))
<1> DEFINE own    == PlacesOf(pages, f)
           before == {i \in DOMAIN pages : \A j \in own : i < j}
           after  == DOMAIN pages \ (before \cup own)
           list   == Pick(pages, before) \o arriving \o Pick(pages, after)
<1>1. WithFileReplaced(pages, f, arriving) = IF own = {} THEN pages ELSE list
  BY DEF WithFileReplaced
<1>2. own = {} <=> f \notin FilesOf(pages)
  BY DEF PlacesOf, FilesOf
<1>3. CASE own = {}
  <2>1. WithFileReplaced(pages, f, arriving) = pages /\ f \notin FilesOf(pages)
    BY <1>1, <1>2, <1>3
  <2> QED BY <2>1
<1>4. CASE own # {}
  <2>1. f \in FilesOf(pages) /\ WithFileReplaced(pages, f, arriving) = list
    BY <1>1, <1>2, <1>4
  <2>2. DOMAIN pages = 1 .. Len(pages) /\ Len(pages) \in Nat
    OBVIOUS
  <2>3. own = {i \in DOMAIN pages : pages[i].file = f}
    BY DEF PlacesOf
  <2>4. before \subseteq DOMAIN pages /\ after \subseteq DOMAIN pages
        /\ before \cup after = DOMAIN pages \ own
    <3> HIDE DEF own
    <3>1. \A i \in before : i \notin own
      BY <2>2, <2>3
    <3> HIDE DEF before
    <3>2. before \subseteq DOMAIN pages
      BY DEF before
    <3> QED BY <3>1, <3>2
  <2> HIDE DEF own, before, after
  <2>5. /\ Pick(pages, before) \in Seq(Entries)
        /\ EntriesOf(Pick(pages, before)) = {pages[i] : i \in before}
        /\ Bys(Pick(pages, before)) \subseteq Bys(pages)
    BY <2>4, PickEffect
  <2>6. /\ Pick(pages, after) \in Seq(Entries)
        /\ EntriesOf(Pick(pages, after)) = {pages[i] : i \in after}
        /\ Bys(Pick(pages, after)) \subseteq Bys(pages)
    BY <2>4, PickEffect
  <2> DEFINE some == Pick(pages, before) \o arriving
  <2>7. /\ some \in Seq(Entries)
        /\ EntriesOf(some) = EntriesOf(Pick(pages, before)) \cup EntriesOf(arriving)
        /\ Bys(some) = Bys(Pick(pages, before)) \cup Bys(arriving)
    BY <2>5, ConcatEffect
  <2>8. list = some \o Pick(pages, after)
    OBVIOUS
  <2> HIDE DEF some
  <2>9. /\ list \in Seq(Entries)
        /\ EntriesOf(list) = EntriesOf(some) \cup EntriesOf(Pick(pages, after))
        /\ Bys(list) = Bys(some) \cup Bys(Pick(pages, after))
    BY <2>6, <2>7, <2>8, ConcatEffect
  <2> HIDE DEF list
  <2>10. EntriesOf(list) = {pages[i] : i \in DOMAIN pages \ own} \cup EntriesOf(arriving)
    BY <2>4, <2>5, <2>6, <2>7, <2>9
  <2>11. {pages[i] : i \in DOMAIN pages \ own} = {e \in EntriesOf(pages) : e.file # f}
    BY <2>3 DEF EntriesOf
  <2>12. FilesOf(list) = (FilesOf(pages) \ {f}) \cup FilesOf(arriving)
    BY <2>10, <2>11, OfEntries
  <2>13. Bys(list) \subseteq Bys(pages) \cup Bys(arriving)
    BY <2>5, <2>6, <2>7, <2>9
  <2>14. \A e \in EntriesOf(pages) : e.file # f => e \in EntriesOf(list)
    BY <2>10, <2>11
  <2> QED BY <2>1, <2>9, <2>12, <2>13, <2>14
<1> QED BY <1>3, <1>4

\* the pages of a file that arrives,
LEMMA ArrivingEffect ==
  ASSUME NEW f \in FileIds, NEW row \in FileRow, NEW r \in Requests
  PROVE  /\ PagesForFile(f, row, r) \in Seq(Entries)
         /\ PagesForFile(f, row, r) # <<>>
         /\ FilesOf(PagesForFile(f, row, r)) = {f}
         /\ Bys(PagesForFile(f, row, r)) = {r}
<1> DEFINE n == IF row.counted THEN PageCount[row.content] ELSE 1
           list == PagesForFile(f, row, r)
           entry(i) == [file |-> f, index |-> IF row.counted THEN i ELSE Whole, by |-> r, crop |-> "none"]
<1>1. n \in Nat \ {0}
  BY PageCountAssumption DEF FileRow
<1>2. list = [i \in 1 .. n |-> entry(i)]
  BY DEF PagesForFile
<1>3. \A i \in 1 .. n : entry(i) \in Entries /\ entry(i).file = f /\ entry(i).by = r
  BY DEF Entries, Whole
<1> HIDE DEF n, entry, list
<1>4. list \in Seq(Entries) /\ Len(list) = n
  BY <1>1, <1>2, <1>3
<1>5. DOMAIN list = 1 .. n /\ 1 \in 1 .. n /\ \A i \in 1 .. n : list[i].file = f /\ list[i].by = r
  BY <1>1, <1>2, <1>3
<1>6. FilesOf(list) = {f} /\ Bys(list) = {r}
  BY <1>5 DEF FilesOf, Bys
<1>7. list # <<>>
  BY <1>1, <1>4
<1> QED BY <1>4, <1>6, <1>7 DEF list

\* the same pages under new ids,
LEMMA WithoutIdEffect ==
  ASSUME NEW pages \in Seq(Entries), NEW r \in Requests
  PROVE  /\ WithoutId(pages, r) \in Seq(Entries)
         /\ FilesOf(WithoutId(pages, r)) = FilesOf(pages)
         /\ Bys(WithoutId(pages, r)) \subseteq {r}
         /\ KeepsAll(pages, WithoutId(pages, r))
<1> DEFINE list == WithoutId(pages, r)
<1>1. list = [i \in DOMAIN pages |-> [pages[i] EXCEPT !.by = r]]
  BY DEF WithoutId
<1>2. DOMAIN pages = 1 .. Len(pages) /\ Len(pages) \in Nat
  OBVIOUS
<1>3. ASSUME NEW i \in DOMAIN pages
      PROVE  /\ list[i] \in Entries /\ list[i].file = pages[i].file /\ list[i].by = r
             /\ list[i].index = pages[i].index /\ list[i].crop = pages[i].crop
  <2>1. list[i] = [pages[i] EXCEPT !.by = r] /\ pages[i] \in Entries
    BY <1>1
  <2> HIDE DEF list
  <2> QED BY <2>1 DEF Entries
<1>4. DOMAIN list = DOMAIN pages
  BY <1>1
<1>5. list = [i \in 1 .. Len(pages) |-> list[i]]
  BY <1>1, <1>2
<1> HIDE DEF list
<1>6. list \in Seq(Entries)
  BY <1>2, <1>3, <1>5
<1>7. FilesOf(list) = FilesOf(pages) /\ Bys(list) \subseteq {r}
  BY <1>3, <1>4 DEF FilesOf, Bys
<1>8. KeepsAll(pages, list)
  <2> SUFFICES ASSUME NEW i \in DOMAIN pages
               PROVE  \E q \in EntriesOf(list) : Keeps(pages[i], q)
    BY DEF KeepsAll, EntriesOf
  <2>1. list[i] \in EntriesOf(list) /\ Keeps(pages[i], list[i])
    BY <1>3, <1>4 DEF EntriesOf, Keeps
  <2> QED BY <2>1
<1> QED BY <1>6, <1>7, <1>8 DEF list

\* The same files, makers and entries, whatever their order.
SameEntries(pages, list) ==
  /\ list \in Seq(Entries)
  /\ FilesOf(list) = FilesOf(pages)
  /\ Bys(list) = Bys(pages)

\* the same pages in another order,
LEMMA ReverseEffect ==
  ASSUME NEW pages \in Seq(Entries)
  PROVE  SameEntries(pages, Reverse(pages)) /\ KeepsAll(pages, Reverse(pages))
<1> DEFINE list == Reverse(pages)
           n == Len(pages)
<1>1. n \in Nat /\ DOMAIN pages = 1 .. n /\ \A i \in 1 .. n : pages[i] \in Entries
  OBVIOUS
<1>2. list = [i \in 1 .. n |-> pages[(n - i) + 1]]
  BY DEF Reverse
<1> HIDE DEF list, n
<1>3. \A i \in 1 .. n : (n - i) + 1 \in 1 .. n /\ (n - ((n - i) + 1)) + 1 = i
  BY <1>1
<1>4. list \in Seq(Entries)
  BY <1>1, <1>2, <1>3
<1>5. DOMAIN list = 1 .. n /\ \A i \in 1 .. n : list[i] = pages[(n - i) + 1]
  BY <1>2
<1>6. EntriesOf(list) \subseteq EntriesOf(pages)
  BY <1>1, <1>3, <1>5 DEF EntriesOf
<1>7. \A i \in 1 .. n : list[(n - i) + 1] = pages[i]
  BY <1>3, <1>5
<1>8. EntriesOf(pages) \subseteq EntriesOf(list)
  BY <1>1, <1>3, <1>5, <1>7 DEF EntriesOf
<1>9. FilesOf(list) = FilesOf(pages) /\ Bys(list) = Bys(pages)
  BY <1>6, <1>8, OfEntries
<1> QED BY <1>4, <1>8, <1>9, KeepsItself DEF SameEntries, list

\* the same with one crop changed,
LEMMA CropEffect ==
  ASSUME NEW pages \in Seq(Entries), NEW i \in DOMAIN pages, NEW r \in Requests
  PROVE  /\ SameEntries(pages, [pages EXCEPT ![i].crop = r])
         /\ \A j \in DOMAIN pages \ {i} : pages[j] \in EntriesOf([pages EXCEPT ![i].crop = r])
<1> DEFINE list == [pages EXCEPT ![i].crop = r]
<1>1. DOMAIN pages = 1 .. Len(pages) /\ Len(pages) \in Nat /\ \A j \in DOMAIN pages : pages[j] \in Entries
  OBVIOUS
<1>2. /\ [pages[i] EXCEPT !.crop = r] \in Entries
      /\ [pages[i] EXCEPT !.crop = r].file = pages[i].file
      /\ [pages[i] EXCEPT !.crop = r].by = pages[i].by
  BY <1>1 DEF Entries
<1>3. /\ DOMAIN list = DOMAIN pages /\ list[i] = [pages[i] EXCEPT !.crop = r]
      /\ \A j \in DOMAIN pages \ {i} : list[j] = pages[j]
      /\ list = [j \in 1 .. Len(pages) |-> list[j]]
  BY <1>1
<1> HIDE DEF list
<1>4. \A j \in DOMAIN pages : list[j] \in Entries /\ list[j].file = pages[j].file /\ list[j].by = pages[j].by
  BY <1>1, <1>2, <1>3
<1>5. list \in Seq(Entries)
  BY <1>1, <1>3, <1>4
<1>8. DOMAIN list = DOMAIN pages
  BY <1>3
<1>6. FilesOf(list) = FilesOf(pages) /\ Bys(list) = Bys(pages)
  BY <1>4, <1>8 DEF FilesOf, Bys
<1>7. \A j \in DOMAIN pages \ {i} : pages[j] \in EntriesOf(list)
  BY <1>3 DEF EntriesOf
<1> QED BY <1>5, <1>6, <1>7 DEF SameEntries, list

\* the same with the pages of one file turned,
LEMMA TurnEffect ==
  ASSUME NEW pages \in Seq(Entries), NEW f, NEW r \in Requests,
         NEW list, list = [i \in DOMAIN pages |->
                             IF pages[i].file = f THEN [pages[i] EXCEPT !.crop = r] ELSE pages[i]]
  PROVE  SameEntries(pages, list)
<1>1. DOMAIN pages = 1 .. Len(pages) /\ Len(pages) \in Nat /\ \A j \in DOMAIN pages : pages[j] \in Entries
  OBVIOUS
<1>2. ASSUME NEW i \in DOMAIN pages
      PROVE  /\ [pages[i] EXCEPT !.crop = r] \in Entries
             /\ [pages[i] EXCEPT !.crop = r].file = pages[i].file
             /\ [pages[i] EXCEPT !.crop = r].by = pages[i].by
  BY <1>1 DEF Entries
<1>3. /\ DOMAIN list = DOMAIN pages
      /\ \A i \in DOMAIN pages : list[i] \in {pages[i], [pages[i] EXCEPT !.crop = r]}
  OBVIOUS
<1>4. \A j \in DOMAIN pages : list[j] \in Entries /\ list[j].file = pages[j].file /\ list[j].by = pages[j].by
  BY <1>1, <1>2, <1>3
<1>5. list = [j \in 1 .. Len(pages) |-> list[j]]
  BY <1>1
<1>6. list \in Seq(Entries)
  BY <1>1, <1>4, <1>5
<1>7. FilesOf(list) = FilesOf(pages) /\ Bys(list) = Bys(pages)
  BY <1>3, <1>4 DEF FilesOf, Bys
<1> QED BY <1>6, <1>7 DEF SameEntries

\* two parts of a list,
LEMMA CutEffect ==
  ASSUME NEW pages \in Seq(Entries), NEW at \in 1 .. Len(pages) - 1
  PROVE  /\ SubSeq(pages, 1, at) \in Seq(Entries)
         /\ SubSeq(pages, at + 1, Len(pages)) \in Seq(Entries)
         /\ EntriesOf(SubSeq(pages, 1, at)) \cup EntriesOf(SubSeq(pages, at + 1, Len(pages)))
              = EntriesOf(pages)
<1> DEFINE n == Len(pages)
           kept == SubSeq(pages, 1, at)
           taken == SubSeq(pages, at + 1, Len(pages))
<1>1. n \in Nat /\ DOMAIN pages = 1 .. n /\ at \in Nat /\ at < n /\ 1 <= at
  OBVIOUS
<1>2. /\ kept \in Seq(Entries) /\ DOMAIN kept = 1 .. at
      /\ \A i \in 1 .. at : kept[i] = pages[i]
  OBVIOUS
<1>3. /\ taken \in Seq(Entries) /\ DOMAIN taken = 1 .. n - at
      /\ \A i \in 1 .. n - at : taken[i] = pages[at + i]
  <2>1. at + 1 \in 1 .. n /\ (n - (at + 1)) + 1 = n - at
    BY <1>1
  <2>2. taken = [i \in 1 .. (n - (at + 1)) + 1 |-> pages[(at + 1) + i - 1]]
    OBVIOUS
  <2>3. \A i \in 1 .. n - at : (at + 1) + i - 1 = at + i
    BY <1>1
  <2>4. taken \in Seq(Entries)
    OBVIOUS
  <2> HIDE DEF n
  <2> QED BY <2>1, <2>2, <2>3, <2>4
<1> HIDE DEF n, kept, taken
<1>4. \A i \in 1 .. n : i \in 1 .. at \/ (i - at \in 1 .. n - at /\ i = at + (i - at))
  BY <1>1
<1>5. \A i \in 1 .. n - at : at + i \in 1 .. n
  BY <1>1
<1>6. \A i \in 1 .. at : i \in 1 .. n
  BY <1>1
<1>7. EntriesOf(pages) \subseteq EntriesOf(kept) \cup EntriesOf(taken)
  <2>1. ASSUME NEW i \in 1 .. n
        PROVE  pages[i] \in EntriesOf(kept) \cup EntriesOf(taken)
    <3>1. CASE i \in 1 .. at
      BY <3>1, <1>2 DEF EntriesOf
    <3>2. CASE i \notin 1 .. at
      <4>1. PICK j \in 1 .. n - at : i = at + j
        BY <3>2, <1>4
      <4> QED BY <4>1, <1>3 DEF EntriesOf
    <3> QED BY <3>1, <3>2
  <2> QED BY <2>1, <1>1 DEF EntriesOf
<1>8. EntriesOf(kept) \subseteq EntriesOf(pages)
  BY <1>1, <1>2, <1>6 DEF EntriesOf
<1>9. EntriesOf(taken) \subseteq EntriesOf(pages)
  BY <1>1, <1>3, <1>5 DEF EntriesOf
<1> QED BY <1>2, <1>3, <1>7, <1>8, <1>9 DEF kept, taken, n

\* one entry for each page of a file that was one entry.
LEMMA ExpandEffect ==
  ASSUME NEW pages \in Seq(Entries), NEW opened, NEW r \in Requests,
         \A f \in DOMAIN files : files[f] \in FileRow, FilesOf(pages) \subseteq DOMAIN files
  PROVE  /\ WithExpandedPages(pages, opened, r) \in Seq(Entries)
         /\ FilesOf(WithExpandedPages(pages, opened, r)) = FilesOf(pages)
         /\ Bys(WithExpandedPages(pages, opened, r)) \subseteq Bys(pages) \cup {r}
         /\ KeepsAll(pages, WithExpandedPages(pages, opened, r))
<1> DEFINE Opens(p)   == p.index = Whole /\ p.file \in opened
           Parts(i)   == IF Opens(pages[i]) THEN 1 .. PageCount[files[pages[i].file].content] ELSE {1}
           places     == UNION {{i} \X Parts(i) : i \in DOMAIN pages}
           before     == {p \in places \X places :
                            p[1][1] < p[2][1] \/ (p[1][1] = p[2][1] /\ p[1][2] < p[2][2])}
           order      == InOrder(places, before)
           Part(i, n) == IF Opens(pages[i])
                         THEN [pages[i] EXCEPT !.index = n, !.by = IF n = 1 THEN @ ELSE r]
                         ELSE pages[i]
           list       == [k \in DOMAIN order |-> Part(order[k][1], order[k][2])]
           m          == Cardinality(places)
<1>1. WithExpandedPages(pages, opened, r) = list
  BY DEF WithExpandedPages
<1>2. DOMAIN pages = 1 .. Len(pages) /\ Len(pages) \in Nat /\ \A i \in DOMAIN pages : pages[i] \in Entries
  OBVIOUS
<1>3. ASSUME NEW i \in DOMAIN pages
      PROVE  Parts(i) \subseteq Nat /\ 1 \in Parts(i) /\ IsFiniteSet(Parts(i))
  <2> DEFINE n == PageCount[files[pages[i].file].content]
  <2>1. pages[i].file \in DOMAIN files
    BY DEF FilesOf
  <2>2. n \in Nat \ {0}
    BY <2>1, PageCountAssumption DEF FileRow
  <2>3. Parts(i) = 1 .. n \/ Parts(i) = {1}
    OBVIOUS
  <2> HIDE DEF n, Parts
  <2>6. 1 \in Int /\ n \in Int
    BY <2>2
  <2>4. IsFiniteSet(1 .. n) /\ IsFiniteSet({1})
    BY <2>6, FS_Interval, FS_Singleton
  <2>5. 1 .. n \subseteq Nat /\ 1 \in 1 .. n
    BY <2>2
  <2> QED BY <2>3, <2>4, <2>5
<1>4. ASSUME NEW i \in DOMAIN pages, NEW n \in Nat
      PROVE  /\ Part(i, n) \in Entries /\ Part(i, n).file = pages[i].file
             /\ Part(i, n).by \in {pages[i].by, r}
             /\ Keeps(pages[i], Part(i, 1))
  <2> DEFINE p == pages[i]
             by == IF n = 1 THEN p.by ELSE r
  <2>1. p \in Entries /\ by \in Requests \cup {"init"} /\ by \in {p.by, r}
    BY <1>2 DEF Entries
  <2>2. Part(i, n) \in {p, [p EXCEPT !.index = n, !.by = by]}
    OBVIOUS
  <2>3. /\ Opens(p) => Part(i, 1) = [p EXCEPT !.index = 1, !.by = p.by]
        /\ ~Opens(p) => Part(i, 1) = p
    OBVIOUS
  <2>4. Opens(p) => p.index = Whole
    OBVIOUS
  <2> HIDE DEF p, by, Part, Opens
  <2>5. /\ [p EXCEPT !.index = n, !.by = by] \in Entries
        /\ [p EXCEPT !.index = n, !.by = by].file = p.file
        /\ [p EXCEPT !.index = n, !.by = by].by = by
    BY <2>1 DEF Entries
  <2>6. /\ [p EXCEPT !.index = 1, !.by = p.by].file = p.file
        /\ [p EXCEPT !.index = 1, !.by = p.by].crop = p.crop
    BY <2>1 DEF Entries
  <2>7. Keeps(p, Part(i, 1))
    <3>1. CASE Opens(p)
      BY <2>3, <2>4, <2>6, <3>1 DEF Keeps
    <3>2. CASE ~Opens(p)
      BY <2>3, <3>2 DEF Keeps
    <3> QED BY <3>1, <3>2
  <2> QED BY <2>1, <2>2, <2>5, <2>7 DEF p
<1> HIDE DEF Part
<1>5. /\ \A q \in places : q[1] \in DOMAIN pages /\ q[2] \in Nat /\ q = <<q[1], q[2]>>
      /\ \A i \in DOMAIN pages : <<i, 1>> \in places
  <2> HIDE DEF Parts
  <2> QED BY <1>3
<1>6. IsFiniteSet(places)
  <2> HIDE DEF Parts
  <2> DEFINE rows_ == {{i} \X Parts(i) : i \in DOMAIN pages}
             row_ == [i \in DOMAIN pages |-> {i} \X Parts(i)]
  <2>1. \A T \in rows_ : IsFiniteSet(T)
    <3> SUFFICES ASSUME NEW i \in DOMAIN pages PROVE IsFiniteSet({i} \X Parts(i))
      OBVIOUS
    <3> QED BY <1>3, FS_Singleton, FS_Product
  <2>2. row_ \in Surjection(DOMAIN pages, rows_)
    BY DEF Surjection
  <2>3. IsFiniteSet(DOMAIN pages)
    BY <1>2, FS_Interval
  <2> HIDE DEF row_, rows_
  <2>4. IsFiniteSet(rows_)
    BY <2>2, <2>3, FS_Surjection
  <2>5. places = UNION rows_
    BY DEF rows_
  <2> HIDE DEF places
  <2> QED BY <2>1, <2>4, <2>5, FS_UNION
<1> HIDE DEF Parts
<1>7. Strict(places, before)
  <2>1. \A x, y \in places : <<x, y>> \in before <=> x[1] < y[1] \/ (x[1] = y[1] /\ x[2] < y[2])
    <3> HIDE DEF places
    <3> QED OBVIOUS
  <2>2. \A x \in places : x[1] \in Nat /\ x[2] \in Nat /\ x = <<x[1], x[2]>>
    BY <1>2, <1>5
  <2> HIDE DEF places, before
  <2>3. \A x \in places : <<x, x>> \notin before
    BY <2>1, <2>2
  <2>4. \A x, y \in places : x # y => x[1] # y[1] \/ x[2] # y[2]
    BY <2>2
  <2>5. \A x, y \in places : x # y => <<x, y>> \in before \/ <<y, x>> \in before
    BY <2>1, <2>2, <2>4
  <2>6. \A x, y, z \in places : <<x, y>> \in before /\ <<y, z>> \in before => <<x, z>> \in before
    BY <2>1, <2>2
  <2> QED BY <2>3, <2>5, <2>6 DEF Strict
<1> HIDE DEF before
<1>8. /\ m \in Nat /\ DOMAIN order = 1 .. m
      /\ \A k \in 1 .. m : order[k] \in places
      /\ \A x \in places : \E k \in 1 .. m : order[k] = x
  <2> HIDE DEF places
  <2> QED BY <1>6, <1>7, InOrderIsAll
<1> HIDE DEF places, order, m
<1>9. /\ DOMAIN list = 1 .. m
      /\ \A k \in 1 .. m : list[k] = Part(order[k][1], order[k][2])
      /\ list = [k \in 1 .. m |-> Part(order[k][1], order[k][2])]
  BY <1>8
<1>10. \A k \in 1 .. m : order[k][1] \in DOMAIN pages /\ order[k][2] \in Nat
  BY <1>5, <1>8
<1>11. list \in Seq(Entries)
  BY <1>4, <1>8, <1>9, <1>10
<1> HIDE DEF list
<1>12. ASSUME NEW i \in DOMAIN pages
       PROVE  \E q \in EntriesOf(list) : Keeps(pages[i], q) /\ q.file = pages[i].file
  <2>1. PICK k \in 1 .. m : order[k] = <<i, 1>>
    BY <1>5, <1>8
  <2>2. list[k] = Part(i, 1)
    BY <1>9, <2>1
  <2>3. list[k] \in EntriesOf(list)
    BY <1>9 DEF EntriesOf
  <2> QED BY <1>4, <2>2, <2>3
<1>13. ASSUME NEW e \in EntriesOf(list)
       PROVE  \E i \in DOMAIN pages : e.file = pages[i].file /\ e.by \in {pages[i].by, r}
  <2>1. PICK k \in 1 .. m : e = list[k]
    BY <1>9 DEF EntriesOf
  <2> QED BY <1>4, <1>9, <1>10, <2>1
<1>14. FilesOf(list) = FilesOf(pages)
  <2>1. FilesOf(list) = {e.file : e \in EntriesOf(list)}
    BY OfEntries
  <2>4. \A i \in DOMAIN pages : pages[i].file \in FilesOf(pages)
    BY DEF FilesOf
  <2>2. FilesOf(list) \subseteq FilesOf(pages)
    BY <1>13, <2>1, <2>4
  <2>3. FilesOf(pages) \subseteq FilesOf(list)
    BY <1>12, <2>1 DEF FilesOf
  <2> QED BY <2>2, <2>3
<1>15. Bys(list) \subseteq Bys(pages) \cup {r}
  <2>1. Bys(list) = {e.by : e \in EntriesOf(list)}
    BY OfEntries
  <2> QED BY <1>13, <2>1 DEF Bys
<1>16. KeepsAll(pages, list)
  BY <1>12 DEF KeepsAll, EntriesOf
<1> QED BY <1>1, <1>11, <1>14, <1>15, <1>16

-----------------------------------------------------------------------------
(* Where the files are: the invariant.                                      *)

\* A request that is over; an id that is not one to be made.
Over(r) == At(r, "done") \/ At(r, "dropping")
Made(x) == x \in Requests => Over(x)
Fresh(r) == {x \in {r} \cap Requests : ~Over(x)}

(* The rows fit each other: the constraints of the database, and ids that   *)
(* are given once.                                                          *)
RowsFit ==
  /\ DOMAIN files \subseteq FileIds
  /\ \A d \in DOMAIN documents :
       /\ Made(d) /\ documents[d] \in DocumentRow
       /\ \A b \in Bys(documents[d].pages) : Made(b)
       /\ FilesOf(documents[d].pages) \subseteq DOMAIN files
  /\ \A x \in DOMAIN receipts : Made(x) /\ x \notin DOMAIN documents /\ receipts[x] \in DOMAIN files
  /\ \A x, y \in DOMAIN receipts : receipts[x] = receipts[y] => x = y

(* A file that no two decisions crossed over is read, or is a receipt, or   *)
(* is in the trash, and one of these; a document that has been combined     *)
(* into another one holds no other files than those.                        *)
OnePlace ==
  /\ \A f \in DOMAIN files \ crossed :
       /\ Readers(f) # {} \/ IsReceipt(f) \/ InTrash(f)
       /\ IsReceipt(f) => Readers(f) = {}
       /\ InTrash(f) => ~HasHome(f)
  /\ \A d \in DOMAIN documents :
       documents[d].state = "merged" => FilesOf(documents[d].pages) \subseteq crossed

\* The edits that have lists in hand.
Arranges == {"reorder", "crop", "turn", "split", "splitFile", "remove", "move"}

\* The request has lists of pages in hand that its edit is computed from.
HasLists(q) == (At(q, "read") /\ req[q].kind \in Arranges) \/ At(q, "stored") \/ Brings(q)

\* A list in hand was read of a live document: it is not what a document
\* that was combined since, and got pages again, has now.
ListFits(o, list) ==
  /\ Made(o) /\ list # <<>>
  /\ \A b \in Bys(list) : Made(b)
  /\ o \in DOMAIN documents /\ documents[o].state = "merged" =>
       Bys(documents[o].pages) \cap Bys(list) = {}

ListsFit(q) == HasLists(q) => \A o \in DOMAIN req[q].held : ListFits(o, req[q].held[o])

\* What an edit is to do was asked of documents it has read.
PlanFits(q) ==
  At(q, "read") =>
    /\ req[q].kind \in Arranges => req[q].doc \in DOMAIN req[q].held
    /\ req[q].kind = "move" /\ req[q].to # q => req[q].to \in DOMAIN req[q].held
    /\ req[q].kind \in {"move", "combine"} => req[q].to # req[q].doc

\* A document of this list has somebody who may read it.
HasReaders(o, list) ==
  \/ o \in DOMAIN documents => documents[o].owned
  \/ \E f \in FilesOf(list) : Made(f) /\ (f \in DOMAIN files => files[f].origin = "LIBRARY")

\* A replacement leaves the documents it has read their readers.
BytesFit(q) ==
  At(q, "stored") \/ Brings(q) =>
    /\ req[q].kind # "replace" => req[q].gone = "none"
    /\ req[q].kind = "replace" =>
         /\ req[q].gone # "none" /\ Made(req[q].gone)
         /\ req[q].doc \in DOMAIN req[q].held
         /\ req[q].gone \in FilesOf(req[q].held[req[q].doc])
         /\ req[q].gone \in DOMAIN files => files[req[q].gone].content # req[q].bytes
         /\ \A o \in DOMAIN req[q].held : HasReaders(o, WithoutFile(req[q].held[o], req[q].gone))

\* What a transaction that brings bytes has decided still holds.
BringFits(q) ==
  Brings(q) =>
    LET f == req[q].file IN
    /\ f # "none" /\ f \in FileIds /\ f # req[q].gone /\ req[q].row \in FileRow
    /\ req[q].locks = {} /\ req[q].subject = {f, req[q].gone} \ {"none"}
    /\ req[q].created => /\ req[q].holds = {} /\ req[q].row.trashed = "no"
                         /\ req[q].kind = "ingest" => req[q].row.origin = "LIBRARY"
    /\ ~req[q].created =>
         /\ Made(f) /\ req[q].holds \subseteq {f}
         /\ req[q].kind = "ingest" => req[q].holds = {}
         /\ f \notin crossed => Readers(f) = {} /\ (f \in req[q].holds <=> InTrash(f))

\* What a transaction that takes pages of a document out has decided still holds.
TakingFits(t, d) ==
  /\ t.bytes = "none" /\ t.locks = {d} /\ documents[d].state = "live"
  /\ t.subject \subseteq FilesOf(documents[d].pages) /\ t.orphaned \subseteq t.subject
  /\ t.dropped => t.list = <<>> /\ FilesOf(documents[d].pages) \subseteq t.subject
  /\ ~t.dropped =>
       /\ t.list \in Seq(Entries) /\ t.list # <<>> /\ KeepsItsReaders(d, t.list)
       /\ EntriesOf(t.list) \subseteq EntriesOf(documents[d].pages)
       /\ \A e \in EntriesOf(documents[d].pages) : e.file \in t.subject \/ e \in EntriesOf(t.list)
  /\ \A f \in t.subject \ crossed : f \in t.orphaned <=> f \notin FilesOf(t.list) /\ Readers(f) \subseteq {d}

\* A transaction that takes out has one document locked.
OutFits(q) ==
  At(q, "checked") /\ req[q].kind = "out" => \E d \in DOMAIN documents : TakingFits(req[q], d)

\* A restore is about one file, which has no home unless it was crossed.
RestoreFits(q) ==
  At(q, "checked") /\ req[q].kind = "restoring" =>
    /\ req[q].bytes = "none" /\ req[q].locks = {}
    /\ \E f \in req[q].subject : req[q].subject = {f}
    /\ \A f \in req[q].subject : f \notin crossed => ~HasHome(f)

KindFits(q) == At(q, "checked") => Brings(q) \/ req[q].kind \in {"out", "restoring"}

RequestFits(q) ==
  KindFits(q) /\ ListsFit(q) /\ PlanFits(q) /\ BytesFit(q) /\ BringFits(q) /\ OutFits(q) /\ RestoreFits(q)

(* No two open transactions hold a document, or decide about a file that    *)
(* nothing crossed.                                                         *)
ApartFrom(r, locks, subject) ==
  \A q \in Open \ {r} : req[q].locks \cap locks = {} /\ req[q].subject \cap subject \subseteq crossed

Apart == \A r \in Open : ApartFrom(r, req[r].locks, req[r].subject)

\* The inductive invariant of the places of files.
AInv == RowsFit /\ OnePlace /\ (\A q \in Requests : RequestFits(q)) /\ Apart /\ ReadersRemain

-----------------------------------------------------------------------------
(* A step of one request, and what the others have in hand.                 *)

\* Rows keep their content and origin, and only fresh ones are new.
FilesGoOn(r) ==
  /\ DOMAIN files' \subseteq DOMAIN files \cup Fresh(r)
  /\ \A f \in DOMAIN files \cap DOMAIN files' : /\ files'[f].content = files[f].content
                                                /\ files'[f].origin = files[f].origin

\* Documents go on, or are made; one that is combined has new pages only.
DocumentsGoOn(r) ==
  \A d \in DOMAIN documents' :
    /\ d \in DOMAIN documents => documents'[d].owned = documents[d].owned
    /\ d \notin DOMAIN documents => /\ documents'[d].state = "live"
                                    /\ documents'[d].owned \/ d \in Fresh(r)
    /\ documents'[d].state = "merged" =>
         Bys(documents'[d].pages) \subseteq
           Fresh(r) \cup (IF documents[d].state = "merged" THEN Bys(documents[d].pages) ELSE {})

\* A document that another transaction has locked is not written.
LockedStay(r) ==
  \A q \in Open \ {r} : \A d \in req[q].locks :
    d \in DOMAIN documents => d \in DOMAIN documents' /\ documents'[d] = documents[d]

\* The files that an open transaction has made up its mind about.
Decided(q) ==
  IF Brings(q) THEN IF req[q].created THEN {} ELSE {req[q].file} ELSE req[q].subject

\* The answers that a decision about the file rests on are the same.
SamePlace(r, f) ==
  /\ Readers(f)' = {} <=> Readers(f) = {}
  /\ HasHome(f)' => HasHome(f)
  /\ \A q \in Open \ {r} : \A d \in req[q].locks : Readers(f)' \subseteq {d} <=> Readers(f) \subseteq {d}

\* What the others have decided about, and nothing crossed, is as they saw it.
DecidedStay(r) ==
  \A q \in Open \ {r} : \A f \in Decided(q) \ crossed' :
    /\ SamePlace(r, f)
    /\ Brings(q) => (InTrash(f)' <=> InTrash(f))

\* A request that is over stays over.
LEMMA MadeStays ==
  ASSUME DOMAIN req = Requests, NEW r \in Requests, NEW s, Goto(r, s),
         Over(r) => s.at \in {"done", "dropping"}, NEW x, Made(x)
  PROVE  Made(x)'
BY DEF Goto, Made, Over, At

LEMMA FreshIsNotMade ==
  ASSUME NEW r, NEW x \in Fresh(r)
  PROVE  ~Made(x)
BY DEF Fresh, Made

\* What another request has in hand still fits after such a step.
LEMMA OthersFit ==
  ASSUME AInv, NEW r, \A x : Made(x) => Made(x)', crossed \subseteq crossed', RowsFit',
         FilesGoOn(r), DocumentsGoOn(r), LockedStay(r), DecidedStay(r),
         NEW q \in Requests \ {r}, req'[q] = req[q]
  PROVE  RequestFits(q)'
<1>1. req'[q] = req[q] /\ RequestFits(q)
  BY DEF AInv
<1>2. \A at : At(q, at)' <=> At(q, at)
  BY <1>1 DEF At
<1>3. (Brings(q)' <=> Brings(q)) /\ (HasLists(q)' <=> HasLists(q))
  BY <1>1, <1>2 DEF Brings, HasLists
<1>4. \A x : Made(x) => Made(x)'
  OBVIOUS
<1>5. \A x \in Fresh(r) : ~Made(x)
  BY FreshIsNotMade
<1>6. KindFits(q)'
  BY <1>1, <1>2, <1>3 DEF RequestFits, KindFits
<1>7. ListsFit(q)'
  <2> SUFFICES ASSUME HasLists(q), NEW o \in DOMAIN req[q].held
               PROVE  ListFits(o, req[q].held[o])'
    BY <1>1, <1>3 DEF ListsFit
  <2> DEFINE list == req[q].held[o]
  <2>1. ListFits(o, list)
    BY <1>1 DEF RequestFits, ListsFit
  <2> HIDE DEF list
  <2>2. ASSUME o \in DOMAIN documents', documents'[o].state = "merged"
        PROVE  Bys(documents'[o].pages) \cap Bys(list) = {}
    <3>1. o \in DOMAIN documents
      BY <2>2 DEF DocumentsGoOn
    <3>2. Bys(documents'[o].pages) \subseteq
            Fresh(r) \cup (IF documents[o].state = "merged" THEN Bys(documents[o].pages) ELSE {})
      BY <2>2, <3>1 DEF DocumentsGoOn
    <3>3. \A b \in Bys(list) : b \notin Fresh(r)
      BY <2>1, <1>5 DEF ListFits
    <3> QED BY <2>1, <3>1, <3>2, <3>3 DEF ListFits
  <2>3. Made(o)' /\ list # <<>> /\ \A b \in Bys(list) : Made(b)'
    BY <2>1, <1>4 DEF ListFits
  <2>4. list' = list
    BY <1>1 DEF list
  <2> QED BY <2>2, <2>3, <2>4, <1>1 DEF ListFits, list
<1>8. PlanFits(q)'
  BY <1>1, <1>2 DEF RequestFits, PlanFits
<1>9. BytesFit(q)'
  <2> SUFFICES ASSUME At(q, "stored") \/ Brings(q)
               PROVE  BytesFit(q)'
    BY <1>2, <1>3 DEF BytesFit
  <2> DEFINE gone == req[q].gone
  <2>1. BytesFit(q)
    BY <1>1 DEF RequestFits
  <2>2. CASE req[q].kind # "replace"
    BY <2>1, <2>2, <1>1 DEF BytesFit
  <2>3. CASE req[q].kind = "replace"
    <3>1. /\ gone # "none" /\ Made(gone)
          /\ req[q].doc \in DOMAIN req[q].held
          /\ gone \in FilesOf(req[q].held[req[q].doc])
          /\ gone \in DOMAIN files => files[gone].content # req[q].bytes
          /\ \A o \in DOMAIN req[q].held : HasReaders(o, WithoutFile(req[q].held[o], gone))
      BY <2>1, <2>3 DEF BytesFit
    <3>2. \A f : Made(f) /\ f \in DOMAIN files' => f \in DOMAIN files
      BY <1>5 DEF FilesGoOn
    <3>3. gone \in DOMAIN files' => files'[gone].content # req[q].bytes
      BY <3>1, <3>2 DEF FilesGoOn
    <3>4. ASSUME NEW o \in DOMAIN req[q].held
          PROVE  HasReaders(o, WithoutFile(req[q].held[o], gone))'
      <4> DEFINE list == WithoutFile(req[q].held[o], gone)
      <4>1. HasReaders(o, list)
        BY <3>1
      <4>2. list' = list
        BY <1>1 DEF WithoutFile, Pick, InOrder, PlacesOf
      <4> HIDE DEF list
      <4>3. Made(o)
        BY <1>1, <1>3 DEF RequestFits, ListsFit, HasLists, ListFits
      <4>4. ASSUME o \in DOMAIN documents => documents[o].owned
            PROVE  HasReaders(o, list)'
        <5>1. o \in DOMAIN documents' => documents'[o].owned
          BY <4>3, <4>4, <1>5 DEF DocumentsGoOn
        <5> QED BY <5>1 DEF HasReaders
      <4>5. ASSUME NEW f \in FilesOf(list), Made(f), f \in DOMAIN files => files[f].origin = "LIBRARY"
            PROVE  HasReaders(o, list)'
        <5>1. Made(f)' /\ (f \in DOMAIN files' => files'[f].origin = "LIBRARY")
          BY <4>5, <3>2, <1>4 DEF FilesGoOn
        <5>2. FilesOf(list)' = FilesOf(list)
          BY <4>2 DEF FilesOf
        <5> QED BY <5>1, <5>2 DEF HasReaders
      <4>7. \/ o \in DOMAIN documents => documents[o].owned
            \/ \E f \in FilesOf(list) : Made(f) /\ (f \in DOMAIN files => files[f].origin = "LIBRARY")
        BY <4>1 DEF HasReaders
      <4>6. HasReaders(o, list)'
        BY <4>4, <4>5, <4>7
      <4> QED BY <4>6 DEF list
    <3>5. gone' = gone /\ Made(gone)'
      BY <1>1, <1>4, <3>1
    <3> QED BY <1>1, <2>3, <3>1, <3>3, <3>4, <3>5 DEF BytesFit
  <2> QED BY <2>2, <2>3
<1>13. ~At(q, "checked") => q \notin Open
  BY DEF Open
<1>10. BringFits(q)'
  <2> SUFFICES ASSUME Brings(q)
               PROVE  BringFits(q)'
    BY <1>3 DEF BringFits
  <2> DEFINE f == req[q].file
  <2>1. BringFits(q)
    BY <1>1 DEF RequestFits
  <2>2. q \in Open \ {r}
    BY DEF Open, Brings
  <2>7. PICK g : g = f
    OBVIOUS
  <2>3. ASSUME ~req[q].created, g \notin crossed'
        PROVE  Readers(g)' = {} /\ (g \in req[q].holds <=> InTrash(g)')
    <3>1. g \in Decided(q) \ crossed'
      BY <2>3, <2>7 DEF Decided
    <3>2. SamePlace(r, g)
      BY <2>2, <3>1 DEF DecidedStay
    <3>3. Readers(g) = {} /\ (g \in req[q].holds <=> InTrash(g))
      BY <2>1, <2>3, <2>7 DEF BringFits
    <3>4. InTrash(g)' <=> InTrash(g)
      BY <2>2, <3>1 DEF DecidedStay
    <3> QED BY <3>2, <3>3, <3>4 DEF SamePlace
  <2>4. ~req[q].created => Made(f)'
    BY <1>1, <2>1, <1>4 DEF BringFits
  <2>5. f' = f
    BY <1>1
  <2>6. f \notin crossed' => f \notin crossed
    OBVIOUS
  <2>8. req'[q].file = g
    BY <2>7, <1>1
  <2>9. Readers(req[q].file)' = Readers(g)' /\ (InTrash(req[q].file)' <=> InTrash(g)')
    BY <2>8 DEF Readers, FilesOf, InTrash
  <2> QED BY <1>1, <2>1, <2>3, <2>4, <2>5, <2>6, <2>7, <2>9 DEF BringFits
<1>11. OutFits(q)'
  <2> SUFFICES ASSUME At(q, "checked"), req[q].kind = "out"
               PROVE  \E d \in DOMAIN documents' : TakingFits(req[q], d)'
    BY <1>1, <1>2 DEF OutFits
  <2> DEFINE t == req[q]
  <2>1. PICK d \in DOMAIN documents : TakingFits(t, d)
    BY <1>1 DEF RequestFits, OutFits
  <2>2. q \in Open \ {r} /\ ~Brings(q)
    BY <2>1 DEF Open, Brings, TakingFits
  <2>3. d \in DOMAIN documents' /\ documents'[d] = documents[d] /\ d \in req[q].locks
    BY <2>1, <2>2 DEF LockedStay, TakingFits
  <2>4. t' = t
    BY <1>1
  <2>5. ~t.dropped => KeepsItsReaders(d, t.list)'
    <3> SUFFICES ASSUME ~t.dropped, ~documents[d].owned
                 PROVE  KeepsItsReaders(d, t.list)'
      BY <2>3 DEF KeepsItsReaders
    <3>1. PICK f \in FilesOf(t.list) : files[f].origin = "LIBRARY"
      BY <2>1 DEF TakingFits, KeepsItsReaders
    <3>2. f \in FilesOf(documents[d].pages)
      BY <2>1, <3>1, OfEntries DEF TakingFits
    <3>3. f \in DOMAIN files
      BY <3>2 DEF AInv, RowsFit
    <3>4. f \in DOMAIN files'
      BY <2>3, <3>2 DEF RowsFit, FilesOf
    <3>5. files'[f].origin = "LIBRARY"
      BY <3>1, <3>3, <3>4 DEF FilesGoOn
    <3> QED BY <3>1, <3>5, <2>4 DEF KeepsItsReaders, FilesOf
  <2>6. ASSUME NEW f \in t.subject \ crossed'
        PROVE  f \in t.orphaned <=> f \notin FilesOf(t.list) /\ Readers(f)' \subseteq {d}
    <3>1. f \in Decided(q) \ crossed'
      BY <2>2, <2>6 DEF Decided
    <3>2. SamePlace(r, f)
      BY <2>2, <3>1 DEF DecidedStay
    <3>3. Readers(f)' \subseteq {d} <=> Readers(f) \subseteq {d}
      BY <2>2, <2>3, <3>2 DEF SamePlace
    <3>4. f \in t.orphaned <=> f \notin FilesOf(t.list) /\ Readers(f) \subseteq {d}
      BY <2>1, <2>6 DEF TakingFits
    <3> QED BY <3>3, <3>4
  <2>7. TakingFits(t, d)'
    <3>1. /\ t.bytes = "none" /\ t.locks = {d} /\ documents'[d].state = "live"
          /\ t.subject \subseteq FilesOf(documents'[d].pages) /\ t.orphaned \subseteq t.subject
          /\ t.dropped => t.list = <<>> /\ FilesOf(documents'[d].pages) \subseteq t.subject
      BY <2>1, <2>3 DEF TakingFits
    <3>2. ~t.dropped =>
             /\ t.list \in Seq(Entries) /\ t.list # <<>>
             /\ EntriesOf(t.list) \subseteq EntriesOf(documents'[d].pages)
             /\ \A e \in EntriesOf(documents'[d].pages) : e.file \in t.subject \/ e \in EntriesOf(t.list)
      BY <2>1, <2>3 DEF TakingFits
    <3>3. FilesOf(t.list)' = FilesOf(t.list) /\ EntriesOf(t.list)' = EntriesOf(t.list)
      BY <2>4 DEF FilesOf, EntriesOf
    <3>4. /\ FilesOf(documents[d].pages)' = FilesOf(documents'[d].pages)
          /\ EntriesOf(documents[d].pages)' = EntriesOf(documents'[d].pages)
      BY DEF FilesOf, EntriesOf
    <3> QED BY <3>1, <3>2, <3>3, <3>4, <2>4, <2>5, <2>6 DEF TakingFits
  <2> QED BY <2>3, <2>7
<1>12. RestoreFits(q)'
  <2> SUFFICES ASSUME At(q, "checked"), req[q].kind = "restoring"
               PROVE  RestoreFits(q)'
    BY <1>1, <1>2 DEF RestoreFits
  <2>1. /\ req[q].bytes = "none" /\ req[q].locks = {}
        /\ \E f \in req[q].subject : req[q].subject = {f}
        /\ \A f \in req[q].subject : f \notin crossed => ~HasHome(f)
    BY <1>1 DEF RequestFits, RestoreFits
  <2>2. q \in Open \ {r} /\ ~Brings(q)
    BY <2>1 DEF Open, Brings
  <2>3. ASSUME NEW f \in req[q].subject, f \notin crossed'
        PROVE  ~HasHome(f)'
    <3>1. f \in Decided(q) \ crossed' /\ f \notin crossed
      BY <2>2, <2>3 DEF Decided
    <3>2. SamePlace(r, f)
      BY <2>2, <3>1 DEF DecidedStay
    <3> QED BY <2>1, <3>1, <3>2 DEF SamePlace
  <2> QED BY <1>1, <2>1, <2>3 DEF RestoreFits
<1> QED BY <1>6, <1>7, <1>8, <1>9, <1>10, <1>11, <1>12 DEF RequestFits

(* What a step of r has to show about r itself, and about the rows.         *)
LEMMA StepFits ==
  ASSUME AInv, DOMAIN req = Requests, NEW r \in Requests, NEW s, Goto(r, s),
         Over(r) => s.at \in {"done", "dropping"}, crossed \subseteq crossed',
         FilesGoOn(r), DocumentsGoOn(r), LockedStay(r), DecidedStay(r),
         RowsFit', OnePlace', ReadersRemain', RequestFits(r)',
         s.at = "checked" => \A q \in Open \ {r} :
            req[q].locks \cap s.locks = {} /\ req[q].subject \cap s.subject \subseteq crossed'
  PROVE  AInv'
<1>7. \A x : Made(x) => Made(x)'
  BY MadeStays
<1>1. ASSUME NEW q \in Requests
      PROVE  RequestFits(q)'
  <2>1. CASE q = r
    BY <2>1
  <2>2. CASE q # r
    <3>1. req'[q] = req[q]
      BY <2>2 DEF Goto
    <3> QED BY <1>7, <2>2, <3>1, OthersFit
  <2> QED BY <2>1, <2>2
<1>2. /\ req'[r] = s /\ \A q \in Requests \ {r} : req'[q] = req[q]
  BY DEF Goto
<1>3. Open' \ {r} = Open \ {r}
  BY <1>2 DEF Open, At
<1>4. \A q \in Open : q \in Requests
  BY DEF Open
<1>5. ASSUME NEW p \in Open', NEW q \in Open' \ {p}
      PROVE  req'[q].locks \cap req'[p].locks = {} /\ req'[q].subject \cap req'[p].subject \subseteq crossed'
  <2>1. CASE p # r /\ q # r
    <3>1. p \in Open /\ q \in Open \ {p}
      BY <1>3, <1>5, <2>1
    <3>2. req'[p] = req[p] /\ req'[q] = req[q]
      BY <1>2, <1>4, <2>1, <3>1
    <3> QED BY <3>1, <3>2 DEF AInv, Apart, ApartFrom
  <2>2. CASE p = r
    <3>1. q \in Open \ {r} /\ s.at = "checked"
      BY <1>2, <1>3, <1>5, <2>2 DEF Open, At
    <3>2. req'[q] = req[q]
      BY <1>2, <1>4, <3>1
    <3> QED BY <1>2, <2>2, <3>1, <3>2
  <2>3. CASE q = r
    <3>1. p \in Open \ {r} /\ s.at = "checked"
      BY <1>2, <1>3, <1>5, <2>3 DEF Open, At
    <3>2. req'[p] = req[p]
      BY <1>2, <1>4, <3>1
    <3> QED BY <1>2, <2>3, <3>1, <3>2
  <2> QED BY <2>1, <2>2, <2>3
<1>6. Apart'
  BY <1>5 DEF Apart, ApartFrom
<1> QED BY <1>1, <1>6 DEF AInv

\* A request that is over, or has read what it will decide anew.
Plain(s) == /\ s.at \notin {"stored", "checked"}
            /\ s.at = "read" => s.kind \notin Arranges \cup {"combine"}

\* A request without lists and without a transaction has nothing to fit.
LEMMA PlainFits ==
  ASSUME DOMAIN req = Requests, NEW r \in Requests, NEW s, Goto(r, s), Plain(s)
  PROVE  RequestFits(r)'
<1>1. req'[r] = s
  BY DEF Goto
<1>2. /\ ~At(r, "stored")' /\ ~At(r, "checked")' /\ ~Brings(r)'
      /\ At(r, "read")' => req'[r].kind \notin Arranges \cup {"combine"}
  BY <1>1 DEF Plain, At, Brings
<1>3. KindFits(r)'
  BY <1>2 DEF KindFits
<1>4. ListsFit(r)'
  BY <1>2 DEF ListsFit, HasLists
<1>5. PlanFits(r)'
  BY <1>2 DEF PlanFits, Arranges
<1>6. BytesFit(r)'
  BY <1>2 DEF BytesFit
<1>7. BringFits(r)'
  BY <1>2 DEF BringFits
<1>8. OutFits(r)'
  BY <1>2 DEF OutFits
<1>9. RestoreFits(r)'
  BY <1>2 DEF RestoreFits
<1> QED BY <1>3, <1>4, <1>5, <1>6, <1>7, <1>8, <1>9 DEF RequestFits

\* The files are where they were.
FilesStay ==
  /\ DOMAIN files' = DOMAIN files
  /\ \A f \in DOMAIN files : /\ files'[f].content = files[f].content
                             /\ files'[f].origin = files[f].origin
                             /\ files'[f].trashed = files[f].trashed

\* Rows that are not written still fit.
LEMMA SameRowsFit ==
  ASSUME AInv, DOMAIN req = Requests, NEW r \in Requests, NEW s, Goto(r, s),
         Over(r) => s.at \in {"done", "dropping"}, crossed \subseteq crossed',
         FilesStay, UNCHANGED <<documents, receipts>>
  PROVE  /\ FilesGoOn(r) /\ DocumentsGoOn(r) /\ LockedStay(r) /\ DecidedStay(r)
         /\ RowsFit' /\ OnePlace' /\ ReadersRemain'
<1>1. \A x : Made(x) => Made(x)'
  BY MadeStays
<1>2. UNCHANGED Live /\ \A f : UNCHANGED <<Readers(f), IsReceipt(f), HasHome(f), InTrash(f)>>
  BY DEF Live, Readers, FilesOf, IsReceipt, HasHome, InTrash, FilesStay
<1>3. \A d \in DOMAIN documents : UNCHANGED <<FilesOf(documents[d].pages), Bys(documents[d].pages)>>
  BY DEF FilesOf, Bys
<1>4. FilesGoOn(r) /\ DocumentsGoOn(r) /\ LockedStay(r) /\ DecidedStay(r)
  <2>1. FilesGoOn(r)
    BY DEF FilesGoOn, FilesStay
  <2>2. DocumentsGoOn(r)
    BY DEF DocumentsGoOn
  <2>3. LockedStay(r)
    BY DEF LockedStay
  <2>4. DecidedStay(r)
    BY <1>2 DEF DecidedStay, SamePlace
  <2> QED BY <2>1, <2>2, <2>3, <2>4
<1>5. RowsFit'
  BY <1>1, <1>3 DEF AInv, RowsFit, FilesStay
<1>6. OnePlace'
  BY <1>2, <1>3 DEF AInv, OnePlace, FilesStay
<1>7. ReadersRemain'
  <2> SUFFICES ASSUME NEW d \in Live
               PROVE  \/ documents[d].owned
                      \/ \E f \in FilesOf(documents[d].pages) : files'[f].origin = "LIBRARY" \/ f \in crossed'
    BY <1>2, <1>3 DEF ReadersRemain, AInv
  <2>1. FilesOf(documents[d].pages) \subseteq DOMAIN files
    BY DEF AInv, RowsFit, Live
  <2> QED BY <2>1 DEF AInv, ReadersRemain, FilesStay
<1> QED BY <1>4, <1>5, <1>6, <1>7

(* A step that moves no file: the request reads, or is over.                *)
LEMMA PlainStepFits ==
  ASSUME AInv, DOMAIN req = Requests, NEW r \in Requests, NEW s, Goto(r, s), Plain(s),
         Over(r) => s.at \in {"done", "dropping"}, crossed \subseteq crossed',
         FilesStay, UNCHANGED <<documents, receipts>>
  PROVE  AInv'
<1>1. RequestFits(r)' /\ s.at # "checked"
  BY PlainFits DEF Plain
<1>2. /\ FilesGoOn(r) /\ DocumentsGoOn(r) /\ LockedStay(r) /\ DecidedStay(r)
      /\ RowsFit' /\ OnePlace' /\ ReadersRemain'
  BY SameRowsFit
<1> QED BY <1>1, <1>2, StepFits

(* A step that moves no file and goes on with what it has read.             *)
LEMMA ReadStepFits ==
  ASSUME AInv, DOMAIN req = Requests, NEW r \in Requests, NEW s, Goto(r, s), s.at # "checked",
         Over(r) => s.at \in {"done", "dropping"}, crossed \subseteq crossed',
         FilesStay, UNCHANGED <<documents, receipts>>, RequestFits(r)'
  PROVE  AInv'
<1>1. /\ FilesGoOn(r) /\ DocumentsGoOn(r) /\ LockedStay(r) /\ DecidedStay(r)
      /\ RowsFit' /\ OnePlace' /\ ReadersRemain'
  BY SameRowsFit
<1> QED BY <1>1, StepFits

-----------------------------------------------------------------------------
(* Arranging pages: some documents, which nobody holds, share out the files *)
(* they have, and r may make one more document.                             *)

ReadIn(table, ds) == UNION {FilesOf(table[d].pages) : d \in ds}

\* What becomes of a document whose list the step writes.
WritesWell(r, d) ==
  LET row == documents'[d] IN
  /\ row \in DocumentRow
  /\ \A b \in Bys(row.pages) : Made(b) \/ b = r
  /\ d \in DOMAIN documents => row.owned = documents[d].owned
  /\ row.state = "live" =>
       /\ row.pages # <<>>
       /\ row.owned \/ \E f \in FilesOf(row.pages) : files[f].origin = "LIBRARY" \/ f \in crossed'
  /\ row.state = "merged" =>
       /\ d \in DOMAIN documents
       /\ FilesOf(row.pages) \subseteq crossed'
       /\ Bys(row.pages) \subseteq
            Fresh(r) \cup (IF documents[d].state = "merged" THEN Bys(documents[d].pages) ELSE {})

\* Documents share out their files, and none is taken from them all.
LEMMA SharedOutFits ==
  ASSUME AInv, DOMAIN req = Requests, NEW r \in Requests, ~Over(r), ~At(r, "checked"), Finish(r),
         crossed \subseteq crossed', UNCHANGED <<files, receipts>>,
         NEW written, Unlocked(written), written \subseteq DOMAIN documents \cup {r},
         DOMAIN documents' = DOMAIN documents \cup written,
         \A d \in DOMAIN documents \ written : documents'[d] = documents[d],
         \A d \in written : WritesWell(r, d),
         ReadIn(documents', written) = ReadIn(documents, written \cap DOMAIN documents)
  PROVE  AInv'
<1> DEFINE s == [at |-> "done"]
<1>1. Goto(r, s) /\ s.at = "done" /\ Plain(s)
  BY DEF Finish, Plain
<1> HIDE DEF s
<1>2. r \in Fresh(r) /\ Over(r)'
  BY <1>1 DEF Fresh, Goto, Over, At
<1>3. \A x : Made(x) => Made(x)'
  BY <1>1, MadeStays
<1>4. Made(r)'
  BY <1>2 DEF Made
<1>5. \A f : Readers(f)' \ written = Readers(f) \ written
  BY DEF Readers, FilesOf
<1>6. \A f : (\E d \in written : d \in Readers(f)') <=> f \in ReadIn(documents', written)
  BY DEF Readers, ReadIn, FilesOf
<1>7. \A f : (\E d \in written : d \in Readers(f)) <=> f \in ReadIn(documents, written \cap DOMAIN documents)
  BY DEF Readers, ReadIn
<1>8. ASSUME NEW f
      PROVE  /\ Readers(f)' = {} <=> Readers(f) = {}
             /\ \A d \in LockedDocuments : Readers(f)' \subseteq {d} <=> Readers(f) \subseteq {d}
  <2>1. (\E d \in written : d \in Readers(f)') <=> (\E d \in written : d \in Readers(f))
    BY <1>6, <1>7
  <2>2. Readers(f)' \ written = Readers(f) \ written
    BY <1>5
  <2>3. written \cap LockedDocuments = {}
    BY DEF Unlocked
  <2> QED BY <2>1, <2>2, <2>3
<1>9. \A f : (IsReceipt(f)' <=> IsReceipt(f)) /\ (InTrash(f)' <=> InTrash(f))
  BY DEF IsReceipt, InTrash
<1>10. \A f : HasHome(f)' <=> HasHome(f)
  BY <1>8, <1>9 DEF HasHome
<1>11. DecidedStay(r)
  <2>1. \A q \in Open : req[q].locks \subseteq LockedDocuments
    BY DEF LockedDocuments
  <2> QED BY <2>1, <1>8, <1>9, <1>10 DEF DecidedStay, SamePlace
<1>12. LockedStay(r)
  <2>1. \A q \in Open : req[q].locks \cap written = {}
    BY DEF LockedDocuments, Unlocked
  <2> QED BY <2>1 DEF LockedStay
<1>13. FilesGoOn(r)
  BY DEF FilesGoOn
<1>14. DocumentsGoOn(r)
  <2> SUFFICES ASSUME NEW d \in DOMAIN documents'
               PROVE  /\ d \in DOMAIN documents => documents'[d].owned = documents[d].owned
                      /\ d \notin DOMAIN documents => /\ documents'[d].state = "live"
                                                      /\ documents'[d].owned \/ d \in Fresh(r)
                      /\ documents'[d].state = "merged" =>
                           Bys(documents'[d].pages) \subseteq
                             Fresh(r) \cup (IF documents[d].state = "merged" THEN Bys(documents[d].pages) ELSE {})
    BY DEF DocumentsGoOn
  <2>1. CASE d \in written
    <3>1. WritesWell(r, d)
      BY <2>1
    <3>2. documents'[d].state \in {"live", "merged"}
      BY <3>1 DEF WritesWell, DocumentRow
    <3>3. d \notin DOMAIN documents => d = r
      BY <2>1
    <3> QED BY <3>1, <3>2, <3>3, <1>2 DEF WritesWell
  <2>2. CASE d \notin written
    BY <2>2
  <2> QED BY <2>1, <2>2
<1>15. \A d \in written : FilesOf(documents'[d].pages) \subseteq DOMAIN files
  <2>1. \A d \in written : FilesOf(documents'[d].pages) \subseteq ReadIn(documents', written)
    BY DEF ReadIn
  <2>2. ReadIn(documents, written \cap DOMAIN documents) \subseteq DOMAIN files
    BY DEF ReadIn, AInv, RowsFit
  <2> QED BY <2>1, <2>2
<1>16. RowsFit'
  <2>1. ASSUME NEW d \in DOMAIN documents'
        PROVE  /\ Made(d)' /\ documents'[d] \in DocumentRow
               /\ \A b \in Bys(documents'[d].pages) : Made(b)'
               /\ FilesOf(documents'[d].pages) \subseteq DOMAIN files
    <3>1. CASE d \in written
      <4>1. WritesWell(r, d)
        BY <3>1
      <4>2. Made(d)'
        BY <3>1, <1>3, <1>4 DEF AInv, RowsFit
      <4> QED BY <3>1, <4>1, <4>2, <1>3, <1>4, <1>15 DEF WritesWell
    <3>2. CASE d \notin written
      <4>1. d \in DOMAIN documents /\ documents'[d] = documents[d]
        BY <3>2
      <4> QED BY <4>1, <1>3 DEF AInv, RowsFit
    <3> QED BY <3>1, <3>2
  <2>2. \A d \in DOMAIN documents' :
          /\ Bys(documents[d].pages)' = Bys(documents'[d].pages)
          /\ FilesOf(documents[d].pages)' = FilesOf(documents'[d].pages)
    BY DEF Bys, FilesOf
  <2>3. ASSUME NEW x \in DOMAIN receipts
        PROVE  Made(x)' /\ x \notin DOMAIN documents' /\ receipts[x] \in DOMAIN files
    <3>1. Made(x) /\ x \notin DOMAIN documents /\ receipts[x] \in DOMAIN files /\ x # r
      BY DEF AInv, RowsFit, Made
    <3> QED BY <3>1, <1>3
  <2>4. /\ DOMAIN files \subseteq FileIds
        /\ \A x, y \in DOMAIN receipts : receipts[x] = receipts[y] => x = y
    BY DEF AInv, RowsFit
  <2>5. FileIds' = FileIds /\ DocumentRow' = DocumentRow
    BY DEF FileIds, DocumentRow, Entries
  <2> QED BY <2>1, <2>2, <2>3, <2>4, <2>5 DEF RowsFit
<1>17. OnePlace'
  <2>1. ASSUME NEW f \in DOMAIN files \ crossed'
        PROVE  /\ Readers(f)' # {} \/ IsReceipt(f)' \/ InTrash(f)'
               /\ IsReceipt(f)' => Readers(f)' = {}
               /\ InTrash(f)' => ~HasHome(f)'
    <3>1. f \in DOMAIN files \ crossed
      OBVIOUS
    <3> QED BY <3>1, <1>8, <1>9, <1>10 DEF AInv, OnePlace
  <2>2. ASSUME NEW d \in DOMAIN documents', documents'[d].state = "merged"
        PROVE  FilesOf(documents'[d].pages) \subseteq crossed'
    <3>1. CASE d \in written
      BY <2>2, <3>1 DEF WritesWell
    <3>2. CASE d \notin written
      BY <2>2, <3>2 DEF AInv, OnePlace
    <3> QED BY <3>1, <3>2
  <2>3. \A d \in DOMAIN documents' : FilesOf(documents[d].pages)' = FilesOf(documents'[d].pages)
    BY DEF FilesOf
  <2> QED BY <2>1, <2>2, <2>3 DEF OnePlace
<1>18. ReadersRemain'
  <2> SUFFICES ASSUME NEW d \in Live'
               PROVE  /\ documents'[d].pages # <<>>
                      /\ documents'[d].owned \/ \E f \in FilesOf(documents'[d].pages) :
                                                   files[f].origin = "LIBRARY" \/ f \in crossed'
    BY DEF ReadersRemain, FilesOf
  <2>1. d \in DOMAIN documents' /\ documents'[d].state = "live"
    BY DEF Live
  <2>2. CASE d \in written
    BY <2>1, <2>2 DEF WritesWell
  <2>3. CASE d \notin written
    <3>1. documents'[d] = documents[d] /\ d \in Live
      BY <2>1, <2>3 DEF Live
    <3> QED BY <3>1 DEF AInv, ReadersRemain
  <2> QED BY <2>2, <2>3
<1>19. RequestFits(r)' /\ s.at # "checked"
  BY <1>1, PlainFits
<1>20. Over(r) => s.at \in {"done", "dropping"}
  OBVIOUS
<1> QED BY <1>1, <1>11, <1>12, <1>13, <1>14, <1>16, <1>17, <1>18, <1>19, <1>20, StepFits

-----------------------------------------------------------------------------
(* Edits of lists in hand.                                                  *)

\* What an edit of lists that may still be written knows about the documents.
LEMMA RewriteFacts ==
  ASSUME AInv, NEW r \in Requests, NEW kind \in Arranges, MayRewrite(r, kind)
  PROVE  /\ ~Over(r) /\ ~At(r, "checked") /\ Unlocked(DOMAIN req[r].held)
         /\ req[r].doc \in DOMAIN req[r].held
         /\ kind = "move" /\ req[r].to # r => req[r].to \in DOMAIN req[r].held /\ req[r].to # req[r].doc
         /\ \A d \in DOMAIN req[r].held :
              /\ d \in DOMAIN documents /\ documents[d] \in DocumentRow
              /\ documents[d].state = "live" /\ documents[d].pages = req[r].held[d]
              /\ req[r].held[d] \in Seq(Entries) /\ req[r].held[d] # <<>>
              /\ \A b \in Bys(req[r].held[d]) : Made(b)
<1>1. /\ At(r, "read") /\ req[r].kind = kind /\ Unlocked(DOMAIN req[r].held)
      /\ \A d \in DOMAIN req[r].held : d \in DOMAIN documents /\ documents[d].pages = req[r].held[d]
  BY DEF MayRewrite, Unchanged
<1>2. ~Over(r) /\ ~At(r, "checked")
  BY <1>1 DEF Over, At
<1>3. RequestFits(r) /\ HasLists(r)
  BY <1>1 DEF AInv, HasLists
<1>4. /\ req[r].doc \in DOMAIN req[r].held
      /\ kind = "move" /\ req[r].to # r => req[r].to \in DOMAIN req[r].held /\ req[r].to # req[r].doc
  BY <1>1, <1>3 DEF RequestFits, PlanFits
<1>5. ASSUME NEW d \in DOMAIN req[r].held
      PROVE  /\ documents[d] \in DocumentRow
             /\ documents[d].state = "live"
             /\ req[r].held[d] \in Seq(Entries) /\ req[r].held[d] # <<>>
             /\ \A b \in Bys(req[r].held[d]) : Made(b)
  <2>1. documents[d] \in DocumentRow /\ documents[d].pages = req[r].held[d] /\ d \in DOMAIN documents
    BY <1>1 DEF AInv, RowsFit
  <2>2. ListFits(d, req[r].held[d])
    BY <1>3 DEF RequestFits, ListsFit
  <2>3. documents[d].pages \in Seq(Entries) /\ documents[d].state \in {"live", "merged"}
    BY <2>1 DEF DocumentRow
  <2>4. Bys(documents[d].pages) # {}
    <3>1. 1 \in DOMAIN documents[d].pages
      BY <2>1, <2>2, <2>3 DEF ListFits
    <3> QED BY <3>1 DEF Bys
  <2> QED BY <2>1, <2>2, <2>3, <2>4 DEF ListFits
<1> QED BY <1>1, <1>2, <1>4, <1>5

\* The rows of a table after lists have been written.
LEMMA WriteEffect ==
  ASSUME NEW table, \A d \in DOMAIN table : table[d] \in DocumentRow, NEW lists,
         NEW new, new = Write(table, lists)
  PROVE  /\ DOMAIN new = DOMAIN table
         /\ \A d \in DOMAIN table \ DOMAIN lists : new[d] = table[d]
         /\ \A d \in DOMAIN table \cap DOMAIN lists :
              /\ new[d].state = table[d].state /\ new[d].owned = table[d].owned
              /\ new[d].pages = lists[d]
              /\ lists[d] \in Seq(Entries) => new[d] \in DocumentRow
<1>1. /\ DOMAIN new = DOMAIN table
      /\ \A d \in DOMAIN table \ DOMAIN lists : new[d] = table[d]
      /\ \A d \in DOMAIN table \cap DOMAIN lists : new[d] = [table[d] EXCEPT !.pages = lists[d]]
  BY DEF Write
<1>2. ASSUME NEW row \in DocumentRow, NEW list
      PROVE  /\ [row EXCEPT !.pages = list].state = row.state
             /\ [row EXCEPT !.pages = list].owned = row.owned
             /\ [row EXCEPT !.pages = list].pages = list
             /\ list \in Seq(Entries) => [row EXCEPT !.pages = list] \in DocumentRow
  BY DEF DocumentRow
<1>3. ASSUME NEW d \in DOMAIN table \cap DOMAIN lists
      PROVE  /\ new[d].state = table[d].state /\ new[d].owned = table[d].owned
             /\ new[d].pages = lists[d]
             /\ lists[d] \in Seq(Entries) => new[d] \in DocumentRow
  <2> DEFINE row == table[d]
             list == lists[d]
  <2>1. row \in DocumentRow /\ new[d] = [row EXCEPT !.pages = list]
    BY <1>1
  <2> HIDE DEF row, list
  <2>2. /\ new[d].state = row.state /\ new[d].owned = row.owned /\ new[d].pages = list
        /\ list \in Seq(Entries) => new[d] \in DocumentRow
    BY <1>2, <2>1
  <2> QED BY <2>2 DEF row, list
<1> QED BY <1>1, <1>3

\* A document nobody holds gets its files in another list, of its own pages or of r's.
LEMMA OneListFits ==
  ASSUME AInv, DOMAIN req = Requests, NEW r \in Requests, ~Over(r), ~At(r, "checked"), Finish(r),
         UNCHANGED <<files, receipts, crossed>>,
         NEW d \in DOMAIN documents, Unlocked({d}),
         NEW list \in Seq(Entries), FilesOf(list) = FilesOf(documents[d].pages),
         Bys(list) \subseteq Bys(documents[d].pages) \cup {r},
         documents' = Write(documents, Only(d, list))
  PROVE  AInv'
<1> DEFINE lists == Only(d, list)
           pages == documents[d].pages
<1>1. DOMAIN lists = {d} /\ lists[d] = list
  BY DEF Only
<1>2. \A o \in DOMAIN documents : documents[o] \in DocumentRow
  BY DEF AInv, RowsFit
<1>3. /\ DOMAIN documents' = DOMAIN documents
      /\ \A o \in DOMAIN documents \ {d} : documents'[o] = documents[o]
      /\ documents'[d].state = documents[d].state /\ documents'[d].owned = documents[d].owned
      /\ documents'[d].pages = list /\ documents'[d] \in DocumentRow
  <2> DEFINE new == documents'
  <2>1. new = Write(documents, lists)
    OBVIOUS
  <2> HIDE DEF lists, new
  <2>2. /\ DOMAIN new = DOMAIN documents
        /\ \A o \in DOMAIN documents \ DOMAIN lists : new[o] = documents[o]
        /\ \A o \in DOMAIN documents \cap DOMAIN lists :
             /\ new[o].state = documents[o].state /\ new[o].owned = documents[o].owned
             /\ new[o].pages = lists[o]
             /\ lists[o] \in Seq(Entries) => new[o] \in DocumentRow
    BY <1>2, <2>1, WriteEffect
  <2> QED BY <1>1, <2>2 DEF new
<1>4. /\ pages \in Seq(Entries) /\ FilesOf(pages) \subseteq DOMAIN files
      /\ \A b \in Bys(pages) : Made(b)
      /\ documents[d].state \in {"live", "merged"}
  BY <1>2 DEF AInv, RowsFit, DocumentRow
<1>5. r \in Fresh(r)
  BY DEF Fresh
<1>6. WritesWell(r, d)
  <2>1. documents[d].state = "live" => list # <<>>
    <3> HIDE DEF pages
    <3>1. documents[d].state = "live" => pages # <<>>
      BY DEF AInv, ReadersRemain, Live, pages
    <3>2. /\ pages = <<>> <=> FilesOf(pages) = {}
          /\ list = <<>> <=> FilesOf(list) = {}
      BY <1>4, EmptyList
    <3> QED BY <3>1, <3>2 DEF pages
  <2>2. documents[d].state = "live" =>
          documents[d].owned \/ \E f \in FilesOf(list) : files[f].origin = "LIBRARY" \/ f \in crossed'
    BY DEF AInv, ReadersRemain, Live
  <2>3. documents[d].state = "merged" => FilesOf(list) \subseteq crossed'
    BY DEF AInv, OnePlace
  <2> QED BY <1>3, <1>4, <1>5, <2>1, <2>2, <2>3 DEF WritesWell
<1>7. ReadIn(documents', {d}) = ReadIn(documents, {d} \cap DOMAIN documents)
  <2>1. \A table : ReadIn(table, {d}) = FilesOf(table[d].pages)
    BY DEF ReadIn
  <2>2. {d} \cap DOMAIN documents = {d}
    OBVIOUS
  <2> QED BY <1>3, <2>1, <2>2
<1> DEFINE written == {d}
<1>8. /\ written \subseteq DOMAIN documents \cup {r} /\ Unlocked(written)
      /\ DOMAIN documents' = DOMAIN documents \cup written
      /\ \A o \in DOMAIN documents \ written : documents'[o] = documents[o]
      /\ \A o \in written : WritesWell(r, o)
      /\ ReadIn(documents', written) = ReadIn(documents, written \cap DOMAIN documents)
  BY <1>3, <1>6, <1>7
<1> HIDE DEF written
<1> QED BY <1>8, SharedOutFits

\* The edits that keep the files and the makers of a list.
LEMMA RearrangesAll ==
  ASSUME NEW r \in Requests, ReorderPages(r) \/ CropPage(r) \/ TurnFile(r),
         NEW d, d = req[r].doc, NEW held, held = req[r].held[d], held \in Seq(Entries)
  PROVE  \E list : SameEntries(held, list) /\ documents' = Write(documents, Only(d, list))
<1>1. CASE ReorderPages(r)
  <2>1. documents' = Write(documents, Only(d, Reverse(held)))
    BY <1>1 DEF ReorderPages
  <2>2. SameEntries(held, Reverse(held))
    BY ReverseEffect
  <2> QED BY <2>1, <2>2
<1>2. CASE CropPage(r)
  <2>1. PICK i \in DOMAIN held : documents' = Write(documents, Only(d, [held EXCEPT ![i].crop = r]))
    BY <1>2 DEF CropPage
  <2>2. SameEntries(held, [held EXCEPT ![i].crop = r])
    BY CropEffect
  <2> QED BY <2>1, <2>2
<1>3. CASE TurnFile(r)
  <2>1. PICK f \in FilesOf(held) :
          documents' = Write(documents, Only(d, [i \in DOMAIN held |->
                         IF held[i].file = f THEN [held[i] EXCEPT !.crop = r] ELSE held[i]]))
    BY <1>3 DEF TurnFile
  <2> DEFINE list == [i \in DOMAIN held |->
                        IF held[i].file = f THEN [held[i] EXCEPT !.crop = r] ELSE held[i]]
  <2>2. documents' = Write(documents, Only(d, list))
    BY <2>1
  <2>3. SameEntries(held, list)
    <3>1. list = [i \in DOMAIN held |->
                    IF held[i].file = f THEN [held[i] EXCEPT !.crop = r] ELSE held[i]]
      OBVIOUS
    <3>2. held \in Seq(Entries)
      OBVIOUS
    <3> HIDE DEF list
    <3> QED BY ONLY <3>1, <3>2, r \in Requests, TurnEffect
  <2> HIDE DEF list
  <2> QED BY <2>2, <2>3
<1> QED BY <1>1, <1>2, <1>3

\* The pages of one document are rearranged.
LEMMA RearrangeFits ==
  ASSUME AInv, DOMAIN req = Requests, NEW r \in Requests,
         ReorderPages(r) \/ CropPage(r) \/ TurnFile(r)
  PROVE  AInv'
<1> DEFINE d == req[r].doc
           held == req[r].held[d]
<1>1. PICK kind \in Arranges : MayRewrite(r, kind)
  BY DEF ReorderPages, CropPage, TurnFile, Arranges
<1>2. /\ ~Over(r) /\ ~At(r, "checked") /\ Unlocked({d})
      /\ d \in DOMAIN documents /\ documents[d].pages = held /\ held \in Seq(Entries)
  BY <1>1, RewriteFacts DEF Unlocked
<1>3. Finish(r) /\ UNCHANGED <<files, receipts, crossed>>
  BY DEF ReorderPages, CropPage, TurnFile
<1>4. \E list : SameEntries(held, list) /\ documents' = Write(documents, Only(d, list))
  <2> HIDE DEF held, d
  <2>1. d = req[r].doc /\ held = req[r].held[d]
    BY DEF held, d
  <2> QED BY <1>2, <2>1, RearrangesAll
<1>5. PICK list : SameEntries(held, list) /\ documents' = Write(documents, Only(d, list))
  BY <1>4
<1> HIDE DEF d
<1>6. /\ list \in Seq(Entries) /\ FilesOf(list) = FilesOf(documents[d].pages)
      /\ Bys(list) \subseteq Bys(documents[d].pages) \cup {r}
  BY <1>2, <1>5 DEF SameEntries
<1> HIDE DEF held
<1> QED BY <1>2, <1>3, <1>5, <1>6, OneListFits

\* The entries of a document become one entry a page.
LEMMA ExpandPagesFits ==
  ASSUME AInv, DOMAIN req = Requests, NEW r \in Requests, OneRow, ExpandPages(r)
  PROVE  AInv'
<1> DEFINE d == req[r].doc
           pages == documents[d].pages
           opened == req[r].opened
           list == WithExpandedPages(pages, opened, r)
<1>1. /\ At(r, "read") /\ d \in DOMAIN documents /\ Unlocked({d}) /\ Finish(r)
      /\ documents' = Write(documents, Only(d, list))
      /\ UNCHANGED <<files, receipts, crossed>>
  BY DEF ExpandPages
<1>2. ~Over(r) /\ ~At(r, "checked")
  BY <1>1 DEF Over, At
<1>3. pages \in Seq(Entries) /\ FilesOf(pages) \subseteq DOMAIN files
  BY <1>1 DEF AInv, RowsFit, DocumentRow
<1> HIDE DEF d, opened, pages
<1>4. /\ list \in Seq(Entries) /\ FilesOf(list) = FilesOf(pages)
      /\ Bys(list) \subseteq Bys(pages) \cup {r}
  BY <1>3, ExpandEffect DEF OneRow
<1> HIDE DEF list
<1> USE DEF pages
<1> QED BY <1>1, <1>2, <1>4, OneListFits

LEMMA ReadInBoth ==
  ASSUME NEW table, NEW a, NEW b
  PROVE  /\ ReadIn(table, {a, b}) = FilesOf(table[a].pages) \cup FilesOf(table[b].pages)
         /\ ReadIn(table, {a}) = FilesOf(table[a].pages)
BY DEF ReadIn

\* A document is divided: it keeps some pages, and r makes one of the others.
LEMMA DivideFits ==
  ASSUME AInv, DOMAIN req = Requests, NEW r \in Requests, ~Over(r), ~At(r, "checked"), Finish(r),
         UNCHANGED <<files, receipts, crossed>>,
         NEW d \in DOMAIN documents, Unlocked({d}), documents[d].state = "live",
         NEW kept \in Seq(Entries), NEW list \in Seq(Entries), kept # <<>>, list # <<>>,
         KeepsItsReaders(d, kept), KeepsItsReaders(d, list),
         FilesOf(kept) \cup FilesOf(list) = FilesOf(documents[d].pages),
         Bys(kept) \subseteq Bys(documents[d].pages), Bys(list) \subseteq {r},
         documents' = WithRow(Write(documents, Only(d, kept)), r, Product(documents[d].owned, list))
  PROVE  AInv'
<1> DEFINE lists == Only(d, kept)
           table == Write(documents, lists)
           row == Product(documents[d].owned, list)
           written == {d, r}
<1>1. DOMAIN lists = {d} /\ lists[d] = kept
  BY DEF Only
<1>2. \A o \in DOMAIN documents : documents[o] \in DocumentRow /\ Made(o)
  BY DEF AInv, RowsFit
<1>3. r \notin DOMAIN documents /\ r # d /\ r \in Fresh(r)
  BY <1>2 DEF Made, Fresh
<1>4. /\ DOMAIN table = DOMAIN documents
      /\ \A o \in DOMAIN documents \ {d} : table[o] = documents[o]
      /\ table[d].state = documents[d].state /\ table[d].owned = documents[d].owned
      /\ table[d].pages = kept /\ table[d] \in DocumentRow
  <2> HIDE DEF lists, table
  <2>1. table = Write(documents, lists)
    BY DEF table
  <2>2. /\ DOMAIN table = DOMAIN documents
        /\ \A o \in DOMAIN documents \ DOMAIN lists : table[o] = documents[o]
        /\ \A o \in DOMAIN documents \cap DOMAIN lists :
             /\ table[o].state = documents[o].state /\ table[o].owned = documents[o].owned
             /\ table[o].pages = lists[o]
             /\ lists[o] \in Seq(Entries) => table[o] \in DocumentRow
    BY <1>2, <2>1, WriteEffect
  <2> QED BY <1>1, <2>2
<1>5. /\ row.state = "live" /\ row.owned = documents[d].owned /\ row.pages = list
      /\ row \in DocumentRow
  <2>1. documents[d].owned \in BOOLEAN
    BY <1>2 DEF DocumentRow
  <2> QED BY <2>1 DEF Product, DocumentRow
<1> HIDE DEF table, row, lists
<1>6. documents' = WithRow(table, r, row)
  BY DEF table, row, lists
<1>7. /\ DOMAIN documents' = DOMAIN documents \cup {r} /\ documents'[r] = row
      /\ \A o \in DOMAIN documents : documents'[o] = table[o]
  BY <1>3, <1>4, <1>6 DEF WithRow
<1>8. WritesWell(r, d)
  <2>1. documents[d].owned \/ \E f \in FilesOf(kept) : files[f].origin = "LIBRARY"
    BY DEF KeepsItsReaders
  <2>2. \A b \in Bys(kept) : Made(b)
    BY DEF AInv, RowsFit
  <2>3. documents'[d] = table[d]
    BY <1>7
  <2> QED BY <1>4, <2>1, <2>2, <2>3 DEF WritesWell
<1>9. WritesWell(r, r)
  <2>1. documents[d].owned \/ \E f \in FilesOf(list) : files[f].origin = "LIBRARY"
    BY DEF KeepsItsReaders
  <2> QED BY <1>3, <1>5, <1>7, <2>1 DEF WritesWell
<1>10. ReadIn(documents', written) = ReadIn(documents, written \cap DOMAIN documents)
  <2>1. written \cap DOMAIN documents = {d}
    BY <1>3
  <2>2. ReadIn(documents', written) = FilesOf(documents'[d].pages) \cup FilesOf(documents'[r].pages)
    BY ReadInBoth
  <2>3. ReadIn(documents, {d}) = FilesOf(documents[d].pages)
    BY ReadInBoth
  <2>4. documents'[d].pages = kept /\ documents'[r].pages = list
    BY <1>4, <1>5, <1>7
  <2> HIDE DEF written
  <2> QED BY <2>1, <2>2, <2>3, <2>4
<1>11. Unlocked(written)
  <2>1. \A q \in Open : r \notin req[q].locks
    <3> SUFFICES ASSUME NEW q \in Open PROVE r \notin req[q].locks
      OBVIOUS
    <3>1. RequestFits(q) /\ At(q, "checked")
      BY DEF AInv, Open
    <3>2. KindFits(q) /\ BringFits(q) /\ OutFits(q) /\ RestoreFits(q)
      BY <3>1 DEF RequestFits
    <3>3. CASE Brings(q)
      BY <3>2, <3>3 DEF BringFits
    <3>4. CASE req[q].kind = "out"
      <4>1. PICK o \in DOMAIN documents : TakingFits(req[q], o)
        BY <3>1, <3>2, <3>4 DEF OutFits
      <4> QED BY <4>1, <1>3 DEF TakingFits
    <3>5. CASE req[q].kind = "restoring"
      BY <3>1, <3>2, <3>5 DEF RestoreFits
    <3> QED BY <3>1, <3>2, <3>3, <3>4, <3>5 DEF KindFits
  <2> QED BY <2>1 DEF Unlocked, LockedDocuments
<1>12. /\ written \subseteq DOMAIN documents \cup {r}
       /\ DOMAIN documents' = DOMAIN documents \cup written
       /\ \A o \in DOMAIN documents \ written : documents'[o] = documents[o]
       /\ \A o \in written : WritesWell(r, o)
  BY <1>4, <1>7, <1>8, <1>9
<1> HIDE DEF written
<1> QED BY <1>10, <1>11, <1>12, SharedOutFits

\* The two lists have the entries of the one that is divided, all of them.
LEMMA DividesAll ==
  ASSUME NEW r \in Requests, SplitAtPage(r) \/ SplitFile(r), NEW held,
         held = req[r].held[req[r].doc], held \in Seq(Entries)
  PROVE  \E kept, taken : /\ DivideInto(r, kept, taken)
                          /\ kept \in Seq(Entries) /\ taken \in Seq(Entries)
                          /\ EntriesOf(kept) \cup EntriesOf(taken) = EntriesOf(held)
<1>1. CASE SplitAtPage(r)
  <2>1. PICK at \in 1 .. Len(held) - 1 :
          DivideInto(r, SubSeq(held, 1, at), SubSeq(held, at + 1, Len(held)))
    BY <1>1 DEF SplitAtPage
  <2>2. held \in Seq(Entries) /\ at \in 1 .. Len(held) - 1
    OBVIOUS
  <2>3. /\ SubSeq(held, 1, at) \in Seq(Entries)
        /\ SubSeq(held, at + 1, Len(held)) \in Seq(Entries)
        /\ EntriesOf(SubSeq(held, 1, at)) \cup EntriesOf(SubSeq(held, at + 1, Len(held)))
             = EntriesOf(held)
    BY ONLY <2>2, CutEffect
  <2> QED BY <2>1, <2>3
<1>2. CASE SplitFile(r)
  <2>1. PICK f \in FilesOf(held) : DivideInto(r, WithoutFile(held, f), Pick(held, PlacesOf(held, f)))
    BY <1>2 DEF SplitFile
  <2> DEFINE others == DOMAIN held \ PlacesOf(held, f)
             own == PlacesOf(held, f)
  <2>2. own \subseteq DOMAIN held /\ others \subseteq DOMAIN held /\ own \cup others = DOMAIN held
    BY DEF PlacesOf
  <2>3. DivideInto(r, Pick(held, others), Pick(held, own))
    BY <2>1 DEF WithoutFile
  <2> HIDE DEF own, others
  <2>4. /\ Pick(held, own) \in Seq(Entries) /\ Pick(held, others) \in Seq(Entries)
        /\ EntriesOf(Pick(held, own)) = {held[i] : i \in own}
        /\ EntriesOf(Pick(held, others)) = {held[i] : i \in others}
    BY <2>2, PickEffect
  <2>5. EntriesOf(Pick(held, others)) \cup EntriesOf(Pick(held, own)) = EntriesOf(held)
    BY <2>2, <2>4 DEF EntriesOf
  <2> QED BY <2>3, <2>4, <2>5
<1> QED BY <1>1, <1>2

\* A document is split.
LEMMA SplitFits ==
  ASSUME AInv, DOMAIN req = Requests, NEW r \in Requests, SplitAtPage(r) \/ SplitFile(r)
  PROVE  AInv'
<1> DEFINE d == req[r].doc
           held == req[r].held[d]
<1>1. PICK kind \in Arranges : MayRewrite(r, kind)
  BY DEF SplitAtPage, SplitFile, Arranges
<1>2. /\ ~Over(r) /\ ~At(r, "checked") /\ Unlocked({d})
      /\ d \in DOMAIN documents /\ documents[d].pages = held /\ held \in Seq(Entries)
      /\ documents[d].state = "live"
  BY <1>1, RewriteFacts DEF Unlocked
<1>3. \E kept, taken : /\ DivideInto(r, kept, taken)
                       /\ kept \in Seq(Entries) /\ taken \in Seq(Entries)
                       /\ EntriesOf(kept) \cup EntriesOf(taken) = EntriesOf(held)
  <2> HIDE DEF held
  <2>1. held = req[r].held[req[r].doc]
    BY DEF held
  <2> QED BY <1>2, <2>1, DividesAll
<1>4. PICK kept, taken : /\ DivideInto(r, kept, taken)
                         /\ kept \in Seq(Entries) /\ taken \in Seq(Entries)
                         /\ EntriesOf(kept) \cup EntriesOf(taken) = EntriesOf(held)
  BY <1>3
<1> DEFINE list == WithoutId(taken, r)
<1>5. /\ kept # <<>> /\ taken # <<>> /\ KeepsItsReaders(d, kept) /\ KeepsItsReaders(d, taken)
      /\ documents' = WithRow(Write(documents, Only(d, kept)), r, Product(documents[d].owned, list))
      /\ Finish(r) /\ UNCHANGED <<files, receipts, crossed>>
  BY <1>4 DEF DivideInto
<1> HIDE DEF d, held, list
<1>6. list \in Seq(Entries) /\ FilesOf(list) = FilesOf(taken) /\ Bys(list) \subseteq {r}
  BY <1>4, WithoutIdEffect DEF list
<1>7. list # <<>>
  <2>1. FilesOf(taken) # {}
    BY <1>4, <1>5, EmptyList
  <2> QED BY <1>6, <2>1, EmptyList
<1>8. KeepsItsReaders(d, list)
  BY <1>5, <1>6 DEF KeepsItsReaders
<1>9. FilesOf(kept) \cup FilesOf(list) = FilesOf(held) /\ Bys(kept) \subseteq Bys(held)
  <2>1. \A pages : /\ FilesOf(pages) = {e.file : e \in EntriesOf(pages)}
                   /\ Bys(pages) = {e.by : e \in EntriesOf(pages)}
    BY OfEntries
  <2>2. FilesOf(kept) \cup FilesOf(taken) = FilesOf(held)
    BY <1>4, <2>1
  <2>3. Bys(kept) \subseteq Bys(held)
    BY <1>4, <2>1
  <2> QED BY <1>6, <2>2, <2>3
<1> QED BY <1>2, <1>4, <1>5, <1>6, <1>7, <1>8, <1>9, DivideFits

\* Pages of a document go into another one.
LEMMA PourFits ==
  ASSUME AInv, DOMAIN req = Requests, NEW r \in Requests, ~Over(r), ~At(r, "checked"), Finish(r),
         UNCHANGED <<files, receipts>>, crossed \subseteq crossed',
         NEW d \in DOMAIN documents, NEW o \in DOMAIN documents, d # o, Unlocked({d, o}),
         NEW kept \in Seq(Entries), NEW list \in Seq(Entries), WritesWell(r, d), WritesWell(r, o),
         FilesOf(kept) \cup FilesOf(list) = FilesOf(documents[d].pages) \cup FilesOf(documents[o].pages),
         DOMAIN documents' = DOMAIN documents,
         documents'[d].pages = kept, documents'[o].pages = list,
         \A x \in DOMAIN documents \ {d, o} : documents'[x] = documents[x]
  PROVE  AInv'
<1> DEFINE written == {d, o}
<1>1. written \cap DOMAIN documents = written /\ \A x \in written : WritesWell(r, x)
  OBVIOUS
<1>2. ReadIn(documents', written) = FilesOf(kept) \cup FilesOf(list)
  BY ReadInBoth
<1>3. ReadIn(documents, written) = FilesOf(documents[d].pages) \cup FilesOf(documents[o].pages)
  BY ReadInBoth
<1>4. /\ written \subseteq DOMAIN documents \cup {r} /\ Unlocked(written)
      /\ DOMAIN documents' = DOMAIN documents \cup written
      /\ \A x \in DOMAIN documents \ written : documents'[x] = documents[x]
  OBVIOUS
<1> HIDE DEF written
<1>5. ReadIn(documents', written) = ReadIn(documents, written \cap DOMAIN documents)
  BY <1>1, <1>2, <1>3
<1> QED BY <1>1, <1>4, <1>5, SharedOutFits

\* Pages are moved to another document.
LEMMA MovePagesFits ==
  ASSUME AInv, DOMAIN req = Requests, NEW r \in Requests, MovePages(r)
  PROVE  AInv'
<1> DEFINE d == req[r].doc
           to == req[r].to
           held == req[r].held[d]
           into == IF to = r THEN <<>> ELSE req[r].held[to]
<1>1. MayRewrite(r, "move") /\ Finish(r) /\ UNCHANGED <<files, receipts, crossed>>
  BY DEF MovePages
<1>2. /\ ~Over(r) /\ ~At(r, "checked") /\ Unlocked(DOMAIN req[r].held)
      /\ d \in DOMAIN req[r].held
      /\ to # r => to \in DOMAIN req[r].held /\ to # d
      /\ \A o \in DOMAIN req[r].held :
           /\ o \in DOMAIN documents /\ documents[o] \in DocumentRow
           /\ documents[o].state = "live" /\ documents[o].pages = req[r].held[o]
           /\ req[r].held[o] \in Seq(Entries) /\ req[r].held[o] # <<>>
           /\ \A b \in Bys(req[r].held[o]) : Made(b)
  BY <1>1, RewriteFacts DEF Arranges
<1>3. PICK moved \in SUBSET DOMAIN held :
        LET remaining == Pick(held, DOMAIN held \ moved)
            moving    == Pick(held, moved)
            list      == WithoutId(moving, r) \o into
            written   == Write(documents, [o \in {d, to} |-> IF o = d THEN remaining ELSE list])
        IN /\ remaining # <<>> /\ moving # <<>>
           /\ KeepsItsReaders(d, remaining)
           /\ to = r => KeepsItsReaders(d, moving)
           /\ documents' = IF to = r
                           THEN WithRow(written, r, Product(documents[d].owned, list))
                           ELSE written
  BY DEF MovePages
<1> DEFINE remaining == Pick(held, DOMAIN held \ moved)
           moving    == Pick(held, moved)
           taken     == WithoutId(moving, r)
           list      == taken \o into
           lists     == [o \in {d, to} |-> IF o = d THEN remaining ELSE list]
           written   == Write(documents, lists)
<1>4. /\ remaining # <<>> /\ moving # <<>> /\ KeepsItsReaders(d, remaining)
      /\ to = r => KeepsItsReaders(d, moving)
      /\ documents' = IF to = r THEN WithRow(written, r, Product(documents[d].owned, list)) ELSE written
  BY <1>3
<1>5. /\ DOMAIN lists = {d, to} /\ lists[d] = remaining
      /\ to # d => lists[to] = list
  OBVIOUS
<1>6. d \in DOMAIN documents /\ documents[d].pages = held /\ held \in Seq(Entries) /\ documents[d].state = "live"
  BY <1>2
<1>7. \A o \in DOMAIN documents : documents[o] \in DocumentRow /\ Made(o)
  BY DEF AInv, RowsFit
<1>8. r \notin DOMAIN documents
  BY <1>2, <1>7 DEF Made
<1> HIDE DEF held, into, lists
<1>9. /\ remaining \in Seq(Entries) /\ moving \in Seq(Entries)
      /\ FilesOf(remaining) \cup FilesOf(moving) = FilesOf(held)
      /\ Bys(remaining) \subseteq Bys(held)
  <2> DEFINE stay == DOMAIN held \ moved
  <2>1. stay \subseteq DOMAIN held /\ moved \subseteq DOMAIN held /\ stay \cup moved = DOMAIN held
    OBVIOUS
  <2> HIDE DEF stay
  <2>2. /\ Pick(held, stay) \in Seq(Entries) /\ Pick(held, moved) \in Seq(Entries)
        /\ FilesOf(Pick(held, stay)) = {held[i].file : i \in stay}
        /\ FilesOf(Pick(held, moved)) = {held[i].file : i \in moved}
        /\ Bys(Pick(held, stay)) \subseteq Bys(held)
    BY <1>6, <2>1, PickEffect
  <2>3. {held[i].file : i \in stay} \cup {held[i].file : i \in moved} = FilesOf(held)
    BY <2>1 DEF FilesOf
  <2> QED BY <2>2, <2>3 DEF stay
<1> HIDE DEF remaining, moving
<1>10. taken \in Seq(Entries) /\ FilesOf(taken) = FilesOf(moving) /\ Bys(taken) \subseteq {r}
  BY <1>9, WithoutIdEffect
<1>11. taken # <<>>
  <2>1. FilesOf(moving) # {}
    BY <1>4, <1>9, EmptyList
  <2> QED BY <1>10, <2>1, EmptyList
<1> HIDE DEF taken
<1>12. CASE to = r
  <2>1. list = taken
    <3>1. into = <<>>
      BY <1>12 DEF into
    <3> QED BY <1>10, <3>1
  <2> HIDE DEF list, d, to
  <2>2. written = Write(documents, Only(d, remaining))
    <3>1. ASSUME NEW o \in DOMAIN documents
          PROVE  o \in DOMAIN lists <=> o = d
      BY <1>5, <1>8, <1>12
    <3>2. DOMAIN Only(d, remaining) = {d} /\ Only(d, remaining)[d] = remaining
      BY DEF Only
    <3> QED BY <1>5, <3>1, <3>2 DEF Write
  <2>3. documents' = WithRow(Write(documents, Only(d, remaining)), r, Product(documents[d].owned, taken))
    BY <1>4, <1>12, <2>1, <2>2
  <2>4. KeepsItsReaders(d, taken)
    BY <1>4, <1>10, <1>12 DEF KeepsItsReaders
  <2>5. Unlocked({d})
    BY <1>2 DEF Unlocked, d
  <2>6. FilesOf(remaining) \cup FilesOf(taken) = FilesOf(documents[d].pages)
    BY <1>6, <1>9, <1>10
  <2>7. Bys(remaining) \subseteq Bys(documents[d].pages)
    BY <1>6, <1>9
  <2> QED BY <1>1, <1>2, <1>4, <1>6, <1>9, <1>10, <1>11, <2>3, <2>4, <2>5, <2>6, <2>7, DivideFits
<1>13. CASE to # r
  <2>1. /\ into \in Seq(Entries) /\ documents[to].pages = into /\ into # <<>> /\ to # d
        /\ to \in DOMAIN documents /\ documents[to].state = "live"
        /\ \A b \in Bys(into) : Made(b)
    BY <1>2, <1>13 DEF into
  <2>2. /\ list \in Seq(Entries) /\ FilesOf(list) = FilesOf(taken) \cup FilesOf(into)
        /\ Bys(list) = Bys(taken) \cup Bys(into)
    BY <1>10, <2>1, ConcatEffect
  <2>3. \A b \in Bys(held) : Made(b)
    BY <1>2 DEF held
  <2>13. documents' = Write(documents, lists)
    BY <1>4, <1>13
  <2>14. Unlocked({d, to})
    BY <1>2, <1>13 DEF Unlocked
  <2> HIDE DEF list, d, to, written
  <2>4. list # <<>>
    <3>1. FilesOf(taken) # {}
      BY <1>10, <1>11, EmptyList
    <3> QED BY <2>2, <3>1, EmptyList
  <2> DEFINE new == documents'
  <2>5. new = Write(documents, lists)
    BY <2>13
  <2> HIDE DEF new
  <2>6. /\ DOMAIN new = DOMAIN documents
        /\ \A o \in DOMAIN documents \ DOMAIN lists : new[o] = documents[o]
        /\ \A o \in DOMAIN documents \cap DOMAIN lists :
             /\ new[o].state = documents[o].state /\ new[o].owned = documents[o].owned
             /\ new[o].pages = lists[o]
             /\ lists[o] \in Seq(Entries) => new[o] \in DocumentRow
    BY <1>7, <2>5, WriteEffect
  <2>7. /\ new[d].state = "live" /\ new[d].owned = documents[d].owned /\ new[d].pages = remaining
        /\ new[d] \in DocumentRow
    BY <1>5, <1>6, <1>9, <2>6
  <2>8. /\ new[to].state = "live" /\ new[to].owned = documents[to].owned /\ new[to].pages = list
        /\ new[to] \in DocumentRow
    BY <1>5, <2>1, <2>2, <2>6
  <2> USE DEF new
  <2>9. WritesWell(r, d)
    <3>1. documents[d].owned \/ \E f \in FilesOf(remaining) : files[f].origin = "LIBRARY"
      BY <1>4 DEF KeepsItsReaders
    <3>2. \A b \in Bys(remaining) : Made(b)
      BY <1>9, <2>3
    <3> QED BY <1>4, <2>7, <3>1, <3>2 DEF WritesWell
  <2>10. WritesWell(r, to)
    <3>1. documents[to].owned \/ \E f \in FilesOf(into) : files[f].origin = "LIBRARY" \/ f \in crossed
      BY <2>1 DEF AInv, ReadersRemain, Live
    <3>2. \A b \in Bys(list) : Made(b) \/ b = r
      BY <1>10, <2>1, <2>2
    <3> QED BY <1>1, <2>2, <2>4, <2>8, <3>1, <3>2 DEF WritesWell
  <2>11. FilesOf(remaining) \cup FilesOf(list) = FilesOf(documents[d].pages) \cup FilesOf(documents[to].pages)
    BY <1>6, <1>9, <1>10, <2>1, <2>2
  <2>12. \A x \in DOMAIN documents \ {d, to} : documents'[x] = documents[x]
    BY <1>5, <2>6
  <2>15. documents'[d].pages = remaining /\ documents'[to].pages = list /\ DOMAIN documents' = DOMAIN documents
    BY <2>6, <2>7, <2>8
  <2>16. crossed \subseteq crossed'
    BY <1>1
  <2> HIDE DEF new
  <2> QED BY <1>1, <1>2, <1>6, <1>9, <2>1, <2>2, <2>9, <2>10, <2>11, <2>12, <2>14, <2>15, <2>16, PourFits
<1> QED BY <1>12, <1>13

\* A document is combined into another one.
LEMMA CombineFits ==
  ASSUME AInv, DOMAIN req = Requests, NEW r \in Requests, Combine(r)
  PROVE  AInv'
<1> DEFINE d == req[r].doc
           source == req[r].to
           old == documents[d].pages
           given == documents[source].pages
           list == old \o WithoutId(given, r)
           lists == [o \in {d, source} |-> IF o = d THEN list ELSE <<>>]
           table == Write(documents, lists)
<1>1. /\ At(r, "read") /\ req[r].kind = "combine" /\ d \in DOMAIN documents /\ source \in DOMAIN documents
      /\ Unlocked({d, source})
      /\ documents' = [table EXCEPT ![source].state = "merged"]
      /\ crossed' = crossed \cup (IF documents[d].state = "merged" THEN FilesOf(given) ELSE {})
      /\ Finish(r) /\ UNCHANGED <<files, receipts>>
  BY DEF Combine, Strands
<1>2. ~Over(r) /\ ~At(r, "checked")
  BY <1>1 DEF Over, At
<1>3. source # d
  BY <1>1 DEF AInv, RequestFits, PlanFits
<1>4. \A o \in DOMAIN documents : /\ documents[o] \in DocumentRow
                                  /\ \A b \in Bys(documents[o].pages) : Made(b)
  BY DEF AInv, RowsFit
<1>5. old \in Seq(Entries) /\ given \in Seq(Entries) /\ documents[d].state \in {"live", "merged"}
  BY <1>1, <1>4 DEF DocumentRow
<1>6. DOMAIN lists = {d, source} /\ lists[d] = list /\ lists[source] = <<>>
  BY <1>3
<1> HIDE DEF d, source, old, given, lists
<1>7. /\ list \in Seq(Entries) /\ FilesOf(list) = FilesOf(old) \cup FilesOf(given)
      /\ Bys(list) \subseteq Bys(old) \cup {r}
  <2> DEFINE taken == WithoutId(given, r)
  <2>1. taken \in Seq(Entries) /\ FilesOf(taken) = FilesOf(given) /\ Bys(taken) \subseteq {r}
    BY <1>5, WithoutIdEffect
  <2> HIDE DEF taken
  <2>2. /\ old \o taken \in Seq(Entries) /\ FilesOf(old \o taken) = FilesOf(old) \cup FilesOf(taken)
        /\ Bys(old \o taken) = Bys(old) \cup Bys(taken)
    BY <1>5, <2>1, ConcatEffect
  <2> QED BY <2>1, <2>2 DEF taken
<1> HIDE DEF list
<1>8. /\ DOMAIN table = DOMAIN documents
      /\ \A o \in DOMAIN documents \ DOMAIN lists : table[o] = documents[o]
      /\ \A o \in DOMAIN documents \cap DOMAIN lists :
           /\ table[o].state = documents[o].state /\ table[o].owned = documents[o].owned
           /\ table[o].pages = lists[o]
           /\ lists[o] \in Seq(Entries) => table[o] \in DocumentRow
  <2> HIDE DEF table
  <2>1. table = Write(documents, lists)
    BY DEF table
  <2> QED BY <1>4, <2>1, WriteEffect
<1> HIDE DEF table
<1>9. <<>> \in Seq(Entries) /\ FilesOf(<<>>) = {} /\ Bys(<<>>) = {}
  BY DEF FilesOf, Bys
<1>10. /\ DOMAIN documents' = DOMAIN documents
       /\ \A o \in DOMAIN documents \ {source} : documents'[o] = table[o]
       /\ documents'[source] = [table[source] EXCEPT !.state = "merged"]
  BY <1>1, <1>8
<1>11. /\ documents'[d].state = documents[d].state /\ documents'[d].owned = documents[d].owned
       /\ documents'[d].pages = list /\ documents'[d] \in DocumentRow
  BY <1>1, <1>3, <1>6, <1>7, <1>8, <1>10
<1>12. /\ documents'[source].state = "merged" /\ documents'[source].owned = documents[source].owned
       /\ documents'[source].pages = <<>> /\ documents'[source] \in DocumentRow
  <2> DEFINE row == table[source]
  <2>1. row \in DocumentRow /\ row.owned = documents[source].owned /\ row.pages = <<>>
    BY <1>1, <1>6, <1>8, <1>9
  <2> HIDE DEF row
  <2>2. /\ [row EXCEPT !.state = "merged"] \in DocumentRow
        /\ [row EXCEPT !.state = "merged"].state = "merged"
        /\ [row EXCEPT !.state = "merged"].owned = row.owned
        /\ [row EXCEPT !.state = "merged"].pages = row.pages
    BY <2>1 DEF DocumentRow
  <2> QED BY <1>10, <2>1, <2>2 DEF row
<1>13. r \in Fresh(r)
  BY <1>2 DEF Fresh
<1>14. WritesWell(r, d)
  <2>1. \A b \in Bys(list) : Made(b) \/ b = r
    BY <1>1, <1>4, <1>7 DEF old
  <2>2. documents[d].state = "live" =>
          /\ list # <<>>
          /\ documents[d].owned \/ \E f \in FilesOf(list) : files[f].origin = "LIBRARY" \/ f \in crossed'
    <3> SUFFICES ASSUME documents[d].state = "live"
                 PROVE  /\ list # <<>>
                        /\ documents[d].owned \/ \E f \in FilesOf(list) : files[f].origin = "LIBRARY" \/ f \in crossed'
      OBVIOUS
    <3>1. /\ old # <<>>
          /\ documents[d].owned \/ \E f \in FilesOf(old) : files[f].origin = "LIBRARY" \/ f \in crossed
      BY <1>1 DEF AInv, ReadersRemain, Live, old
    <3>2. FilesOf(old) # {}
      BY <1>5, <3>1, EmptyList
    <3>3. list # <<>>
      BY <1>7, <3>2, EmptyList
    <3> QED BY <1>1, <1>7, <3>1, <3>3
  <2>3. documents[d].state = "merged" => FilesOf(list) \subseteq crossed'
    <3>1. documents[d].state = "merged" => FilesOf(old) \subseteq crossed
      BY <1>1 DEF AInv, OnePlace, old
    <3> QED BY <1>1, <1>7, <3>1
  <2> QED BY <1>1, <1>7, <1>11, <1>13, <2>1, <2>2, <2>3 DEF WritesWell, old
<1>15. WritesWell(r, source)
  BY <1>1, <1>9, <1>12 DEF WritesWell
<1> DEFINE none == <<>>
<1>16. /\ none \in Seq(Entries) /\ documents'[source].pages = none
       /\ FilesOf(list) \cup FilesOf(none) = FilesOf(documents[d].pages) \cup FilesOf(documents[source].pages)
  BY <1>7, <1>9, <1>12 DEF old, given
<1> HIDE DEF none
<1>17. \A x \in DOMAIN documents \ {d, source} : documents'[x] = documents[x]
  BY <1>6, <1>8, <1>10
<1>18. crossed \subseteq crossed' /\ d # source
  BY <1>1, <1>3
<1> QED BY <1>1, <1>2, <1>7, <1>10, <1>11, <1>14, <1>15, <1>16, <1>17, <1>18, PourFits

-----------------------------------------------------------------------------
(* Steps that only read, or bring bytes to the bucket.                      *)

\* The files of rows are no files to be made.
LEMMA FilesAreMade ==
  ASSUME IInv, AInv, NEW f \in DOMAIN files
  PROVE  Made(f) /\ f # "none" /\ f \in FileIds
<1>1. f \in FileIds
  BY DEF AInv, RowsFit
<1>2. f # "none"
  BY <1>1, NoneAssumption
<1>3. Made(f)
  BY DEF IInv, MadeAtTheEnd, Made, Over
<1> QED BY <1>1, <1>2, <1>3

\* The pages of a live document are a list that may be kept in hand.
LEMMA LiveListFits ==
  ASSUME AInv, NEW d \in Live
  PROVE  ListFits(d, documents[d].pages)
<1>1. d \in DOMAIN documents /\ documents[d].state = "live"
  BY DEF Live
<1> QED BY <1>1 DEF AInv, RowsFit, ReadersRemain, ListFits

\* Lists that were read of live documents fit after the step that reads them.
LEMMA ReadListsFit ==
  ASSUME AInv, DOMAIN req = Requests, NEW r \in Requests, NEW s, Goto(r, s), ~Over(r),
         UNCHANGED documents, NEW held,
         \A o \in DOMAIN held : o \in Live /\ held[o] = documents[o].pages
  PROVE  \A o \in DOMAIN held : ListFits(o, held[o])'
<1>1. \A x : Made(x) => Made(x)'
  BY MadeStays
<1> SUFFICES ASSUME NEW o \in DOMAIN held PROVE ListFits(o, held[o])'
  OBVIOUS
<1> DEFINE list == held[o]
<1>2. o \in Live /\ list = documents[o].pages
  OBVIOUS
<1>3. ListFits(o, list)
  BY <1>2, LiveListFits
<1>4. o \in DOMAIN documents /\ documents[o].state = "live"
  BY <1>2 DEF Live
<1> QED BY <1>1, <1>3, <1>4 DEF ListFits, list

\* An edit reads the documents it is about.
LEMMA ReadFits ==
  ASSUME AInv, DOMAIN req = Requests, NEW r \in Requests, At(r, "idle"),
         NEW kind \in Arranges \cup {"combine"}, NEW d, NEW to, NEW held,
         Goto(r, Edit(kind, d, to, held)), UNCHANGED <<rows, objects, crossed>>,
         \A o \in DOMAIN held : o \in Live /\ held[o] = documents[o].pages,
         kind \in Arranges => d \in DOMAIN held,
         kind = "move" /\ to # r => to \in DOMAIN held,
         kind \in {"move", "combine"} => to # d
  PROVE  AInv'
<1> DEFINE s == Edit(kind, d, to, held)
<1>1. s.at = "read" /\ s.kind = kind /\ s.doc = d /\ s.to = to /\ s.held = held
  BY DEF Edit
<1>2. Goto(r, s)
  OBVIOUS
<1> HIDE DEF s
<1>3. ~Over(r) /\ UNCHANGED <<files, documents, receipts, crossed>>
  BY DEF Over, At, rows
<1>4. req'[r] = s
  BY <1>2 DEF Goto
<1>5. /\ At(r, "read")' /\ ~At(r, "stored")' /\ ~At(r, "checked")' /\ ~Brings(r)'
  BY <1>1, <1>4 DEF At, Brings
<1>6. \A o \in DOMAIN held : ListFits(o, held[o])'
  BY <1>2, <1>3, ReadListsFit
<1>7. ListsFit(r)'
  BY <1>1, <1>4, <1>6 DEF ListsFit
<1>8. PlanFits(r)'
  BY <1>1, <1>4, <1>5 DEF PlanFits
<1>9. KindFits(r)' /\ BytesFit(r)' /\ BringFits(r)' /\ OutFits(r)' /\ RestoreFits(r)'
  BY <1>5 DEF KindFits, BytesFit, BringFits, OutFits, RestoreFits
<1>10. RequestFits(r)'
  BY <1>7, <1>8, <1>9 DEF RequestFits
<1>11. FilesStay
  BY <1>3 DEF FilesStay
<1>12. s.at # "checked" /\ crossed \subseteq crossed'
  BY <1>1, <1>3
<1> QED BY <1>2, <1>3, <1>10, <1>11, <1>12, ReadStepFits

\* The list of one live document.
LEMMA OneLive ==
  ASSUME NEW d \in Live
  PROVE  /\ DOMAIN Only(d, documents[d].pages) = {d}
         /\ \A o \in DOMAIN Only(d, documents[d].pages) :
              o \in Live /\ Only(d, documents[d].pages)[o] = documents[o].pages
BY DEF Only

\* An edit, a move or a combination is asked for.
LEMMA BeginEditFits ==
  ASSUME AInv, DOMAIN req = Requests, NEW r \in Requests,
         \/ \E d \in DOMAIN documents : BeginEdit(r, d)
         \/ \E d \in DOMAIN documents, to \in DOMAIN documents \cup {r} : BeginMove(r, d, to)
         \/ \E d, source \in DOMAIN documents : BeginCombine(r, d, source)
  PROVE  AInv'
<1>1. ASSUME NEW d \in DOMAIN documents, BeginEdit(r, d)
      PROVE  AInv'
  <2>1. PICK kind \in {"reorder", "crop", "turn", "split", "splitFile", "remove"} :
           Goto(r, Edit(kind, d, "none", Only(d, documents[d].pages)))
    BY <1>1 DEF BeginEdit
  <2>2. At(r, "idle") /\ d \in Live /\ UNCHANGED <<rows, objects, crossed>>
    BY <1>1 DEF BeginEdit
  <2> DEFINE held == Only(d, documents[d].pages)
  <2>3. /\ Goto(r, Edit(kind, d, "none", held)) /\ d \in DOMAIN held
        /\ \A o \in DOMAIN held : o \in Live /\ held[o] = documents[o].pages
    BY <2>1, <2>2, OneLive
  <2>4. kind \in Arranges \cup {"combine"} /\ kind \notin {"move", "combine"}
    BY DEF Arranges
  <2> HIDE DEF held
  <2> QED BY <2>2, <2>3, <2>4, ReadFits
<1>2. ASSUME NEW d \in DOMAIN documents, NEW to \in DOMAIN documents \cup {r}, BeginMove(r, d, to)
      PROVE  AInv'
  <2> DEFINE held == [o \in {d, to} \cap Live |-> documents[o].pages]
  <2>1. Goto(r, Edit("move", d, to, held))
    BY <1>2 DEF BeginMove
  <2>2. /\ At(r, "idle") /\ d \in Live /\ to \in (Live \ {d}) \cup {r} /\ UNCHANGED <<rows, objects, crossed>>
    BY <1>2 DEF BeginMove
  <2>3. d # r
    <3>1. Made(d) /\ ~Over(r)
      BY <2>2 DEF AInv, RowsFit, Over, At
    <3> QED BY <3>1 DEF Made
  <2>4. /\ d \in DOMAIN held
        /\ to # r => to \in DOMAIN held
        /\ \A o \in DOMAIN held : o \in Live /\ held[o] = documents[o].pages
        /\ to # d
    BY <2>2, <2>3
  <2>5. "move" \in Arranges \cup {"combine"}
    BY DEF Arranges
  <2> HIDE DEF held
  <2> QED BY <2>1, <2>2, <2>4, <2>5, ReadFits
<1>3. ASSUME NEW d, NEW source, BeginCombine(r, d, source)
      PROVE  AInv'
  <2> DEFINE held == <<>>
  <2>1. /\ Goto(r, Edit("combine", d, source, held)) /\ At(r, "idle") /\ source # d
        /\ UNCHANGED <<rows, objects, crossed>>
    BY <1>3 DEF BeginCombine
  <2>2. DOMAIN held = {}
    OBVIOUS
  <2>3. "combine" \in Arranges \cup {"combine"} /\ "combine" \notin Arranges
    BY DEF Arranges
  <2> HIDE DEF held
  <2> QED BY <2>1, <2>2, <2>3, ReadFits
<1> QED BY <1>1, <1>2, <1>3

\* Bytes are in the bucket, and the request has read what it will write them into.
LEMMA StoreFits ==
  ASSUME AInv, DOMAIN req = Requests, NEW r \in Requests, At(r, "idle"),
         NEW kind, NEW c, NEW target, NEW held, NEW gone,
         Store(r, Bring(r, kind, c, target, held, gone)),
         \A o \in DOMAIN held : o \in Live /\ held[o] = documents[o].pages,
         kind # "replace" => gone = "none",
         kind = "replace" =>
           /\ gone # "none" /\ Made(gone) /\ gone \in DOMAIN files
           /\ files[gone].content # c
           /\ target \in DOMAIN held /\ gone \in FilesOf(held[target])
           /\ \A o \in DOMAIN held : HasReaders(o, WithoutFile(held[o], gone))
  PROVE  AInv'
<1> DEFINE s == Bring(r, kind, c, target, held, gone)
<1>1. /\ s.at = "stored" /\ s.kind = kind /\ s.bytes = c /\ s.doc = target /\ s.held = held
      /\ s.gone = gone
  BY DEF Bring
<1>2. Goto(r, s) /\ UNCHANGED <<files, documents, receipts, crossed>>
  BY DEF Store, rows
<1> HIDE DEF s
<1>3. ~Over(r)
  BY DEF Over, At
<1>4. req'[r] = s /\ \A x : Made(x) => Made(x)'
  BY <1>2, <1>3, MadeStays DEF Goto
<1>5. /\ ~At(r, "read")' /\ At(r, "stored")' /\ ~At(r, "checked")' /\ ~Brings(r)'
  BY <1>1, <1>4 DEF At, Brings
<1>6. \A o \in DOMAIN held : ListFits(o, held[o])'
  BY <1>2, <1>3, ReadListsFit
<1>7. ListsFit(r)'
  BY <1>1, <1>4, <1>6 DEF ListsFit
<1>8. BytesFit(r)'
  <2>1. CASE kind # "replace"
    BY <2>1, <1>1, <1>4 DEF BytesFit
  <2>2. CASE kind = "replace"
    <3>1. /\ gone # "none" /\ Made(gone)' /\ target \in DOMAIN held /\ gone \in FilesOf(held[target])
          /\ files'[gone].content # c
      BY <2>2, <1>2, <1>4
    <3>2. ASSUME NEW o \in DOMAIN held
          PROVE  HasReaders(o, WithoutFile(held[o], gone))'
      <4> DEFINE list == WithoutFile(held[o], gone)
      <4>1. HasReaders(o, list)
        BY <2>2
      <4> HIDE DEF list
      <4>2. list' = list /\ FilesOf(list)' = FilesOf(list)
        BY DEF list, WithoutFile, Pick, PlacesOf, InOrder, FilesOf
      <4>3. HasReaders(o, list)'
        BY <4>1, <4>2, <1>2, <1>4 DEF HasReaders
      <4> QED BY <4>3 DEF list
    <3>3. FilesOf(held[target])' = FilesOf(held[target])
      BY DEF FilesOf
    <3> QED BY <3>1, <3>2, <3>3, <1>1, <1>4 DEF BytesFit
  <2> QED BY <2>1, <2>2
<1>9. KindFits(r)' /\ PlanFits(r)' /\ BringFits(r)' /\ OutFits(r)' /\ RestoreFits(r)'
  BY <1>5 DEF KindFits, PlanFits, BringFits, OutFits, RestoreFits
<1>10. RequestFits(r)'
  BY <1>7, <1>8, <1>9 DEF RequestFits
<1>11. FilesStay
  BY <1>2 DEF FilesStay
<1>12. s.at # "checked" /\ crossed \subseteq crossed'
  BY <1>1, <1>2
<1> QED BY <1>2, <1>3, <1>10, <1>11, <1>12, ReadStepFits

\* Bytes are stored in the bucket.
LEMMA BytesArriveFits ==
  ASSUME IInv, AInv, NEW r \in Requests, NEW c \in Contents,
         \/ Upload(r, c) \/ Ingest(r, c)
         \/ \E d \in DOMAIN documents : AddFile(r, d, c)
         \/ \E d \in DOMAIN documents, f \in DOMAIN files : ReplaceFile(r, d, f, c)
  PROVE  AInv'
<1> DEFINE nothing == <<>>
<1>0. DOMAIN req = Requests /\ DOMAIN nothing = {}
  BY DEF IInv
<1> HIDE DEF nothing
<1>1. CASE Upload(r, c)
  <2>1. PICK kind \in {"document", "receipt"} : Store(r, Bring(r, kind, c, "none", nothing, "none"))
    BY <1>1 DEF Upload, nothing
  <2>2. At(r, "idle") /\ kind # "replace"
    BY <1>1 DEF Upload
  <2> QED BY <1>0, <2>1, <2>2, StoreFits
<1>2. CASE Ingest(r, c)
  <2>1. At(r, "idle") /\ "ingest" # "replace" /\ Store(r, Bring(r, "ingest", c, "none", nothing, "none"))
    BY <1>2 DEF Ingest, nothing
  <2> QED BY <1>0, <2>1, StoreFits
<1>3. ASSUME NEW d \in DOMAIN documents, AddFile(r, d, c)
      PROVE  AInv'
  <2>1. PICK held \in {nothing, Only(d, documents[d].pages)} : Store(r, Bring(r, "add", c, d, held, "none"))
    BY <1>3 DEF AddFile, nothing
  <2>2. At(r, "idle") /\ d \in Live /\ "add" # "replace"
    BY <1>3 DEF AddFile
  <2>3. \A o \in DOMAIN held : o \in Live /\ held[o] = documents[o].pages
    BY <1>0, <2>1, <2>2, OneLive
  <2> QED BY <1>0, <2>1, <2>2, <2>3, StoreFits
<1>4. ASSUME NEW d \in DOMAIN documents, NEW f \in DOMAIN files, ReplaceFile(r, d, f, c)
      PROVE  AInv'
  <2> DEFINE reached == Readers(f) \cup {d}
             held == [o \in reached |-> documents[o].pages]
  <2>1. /\ Store(r, Bring(r, "replace", c, d, held, f)) /\ At(r, "idle")
        /\ f \in FilesOf(documents[d].pages) /\ files[f].content # c
        /\ reached \subseteq Live
        /\ \A o \in reached : KeepsItsReaders(o, WithoutFile(documents[o].pages, f))
    BY <1>4 DEF ReplaceFile
  <2>2. f # "none" /\ Made(f)
    BY FilesAreMade
  <2>3. /\ DOMAIN held = reached
        /\ \A o \in DOMAIN held : o \in Live /\ held[o] = documents[o].pages
        /\ d \in DOMAIN held /\ f \in FilesOf(held[d])
    BY <2>1
  <2> HIDE DEF held, reached
  <2>4. ASSUME NEW o \in DOMAIN held
        PROVE  HasReaders(o, WithoutFile(held[o], f))
    <3> DEFINE pages == documents[o].pages
               list == WithoutFile(pages, f)
    <3>1. KeepsItsReaders(o, list) /\ held[o] = pages /\ o \in DOMAIN documents
      BY <2>1, <2>3 DEF Live
    <3>2. pages \in Seq(Entries) /\ FilesOf(pages) \subseteq DOMAIN files
      BY <3>1 DEF AInv, RowsFit, DocumentRow
    <3> HIDE DEF pages
    <3>3. FilesOf(list) \subseteq DOMAIN files
      BY <3>2, WithoutFileEffect
    <3> HIDE DEF list
    <3>4. \A x \in FilesOf(list) : Made(x)
      BY <3>3, FilesAreMade
    <3>5. HasReaders(o, list)
      BY <3>1, <3>4 DEF KeepsItsReaders, HasReaders
    <3> QED BY <3>1, <3>5 DEF list
  <2> QED BY <1>0, <2>1, <2>2, <2>3, <2>4, StoreFits
<1> QED BY <1>1, <1>2, <1>3, <1>4

\* Steps after which a request has nothing in hand that must fit.
LEMMA PlainActionFits ==
  ASSUME IInv, AInv, NEW r \in Requests,
         \/ DropObject(r) \/ Fail(r) \/ BeginPurge(r) \/ PurgeObjects(r)
         \/ SweepList(r) \/ SweepAsk(r) \/ SweepDelete(r)
         \/ (At(r, "stored") /\ Refuse(r))
         \/ \E d \in DOMAIN documents : BeginBuild(r, d) \/ BeginConvert(r, d)
         \/ \E f \in DOMAIN files : BeginRestore(r, f)
  PROVE  AInv'
<1>1. DOMAIN req = Requests
  BY DEF IInv
<1>2. \E s : Goto(r, s) /\ Plain(s) /\ (Over(r) => s.at \in {"done", "dropping"})
  <2>1. CASE DropObject(r) \/ PurgeObjects(r) \/ SweepDelete(r)
    <3> DEFINE s == [at |-> "done"]
    <3>1. Goto(r, s) /\ s.at = "done"
      BY <2>1 DEF DropObject, PurgeObjects, SweepDelete, Finish
    <3> HIDE DEF s
    <3> QED BY <3>1 DEF Plain
  <2>2. CASE Fail(r)
    <3> DEFINE s == [at |-> IF req[r].at \in {"stored", "checked"} /\ req[r].kind = "receipt"
                            THEN "dropping" ELSE "done"]
    <3>1. Goto(r, s) /\ s.at \in {"dropping", "done"}
      BY <2>2 DEF Fail
    <3> HIDE DEF s
    <3> QED BY <3>1 DEF Plain
  <2>3. CASE At(r, "stored") /\ Refuse(r)
    <3> DEFINE s == [at |-> IF DropsItsObject(r) THEN "dropping" ELSE "done"]
    <3>1. Goto(r, s) /\ s.at \in {"dropping", "done"}
      BY <2>3 DEF Refuse
    <3> HIDE DEF s
    <3> QED BY <3>1 DEF Plain
  <2>4. CASE BeginPurge(r)
    <3>1. PICK held : Goto(r, [at |-> "read", kind |-> "purge", held |-> held]) /\ At(r, "idle")
      BY <2>4 DEF BeginPurge
    <3> DEFINE s == [at |-> "read", kind |-> "purge", held |-> held]
    <3>2. Goto(r, s) /\ s.at = "read" /\ s.kind = "purge" /\ ~Over(r)
      BY <3>1 DEF Over, At
    <3> HIDE DEF s
    <3> QED BY <3>2 DEF Plain, Arranges
  <2>5. CASE SweepList(r)
    <3> DEFINE s == [at |-> "listed", listed |-> objects]
    <3>1. Goto(r, s) /\ s.at = "listed" /\ ~Over(r)
      BY <2>5 DEF SweepList, Over, At
    <3> HIDE DEF s
    <3> QED BY <3>1 DEF Plain
  <2>6. CASE SweepAsk(r)
    <3> DEFINE s == [at |-> "asked", orphans |-> req[r].listed \ DOMAIN files]
    <3>1. Goto(r, s) /\ s.at = "asked" /\ ~Over(r)
      BY <2>6 DEF SweepAsk, Over, At
    <3> HIDE DEF s
    <3> QED BY <3>1 DEF Plain
  <2>7. ASSUME NEW d \in DOMAIN documents, BeginBuild(r, d)
        PROVE  \E s : Goto(r, s) /\ Plain(s) /\ (Over(r) => s.at \in {"done", "dropping"})
    <3> DEFINE s == [at |-> "read", kind |-> "build", doc |-> d, opened |-> FilesOf(documents[d].pages)]
    <3>1. Goto(r, s) /\ s.at = "read" /\ s.kind = "build" /\ ~Over(r)
      BY <2>7 DEF BeginBuild, Over, At
    <3> HIDE DEF s
    <3> QED BY <3>1 DEF Plain, Arranges
  <2>8. ASSUME NEW d \in DOMAIN documents, BeginConvert(r, d)
        PROVE  \E s : Goto(r, s) /\ Plain(s) /\ (Over(r) => s.at \in {"done", "dropping"})
    <3>1. PICK f : Goto(r, [at |-> "read", kind |-> "convert", doc |-> d, file |-> f]) /\ At(r, "idle")
      BY <2>8 DEF BeginConvert
    <3> DEFINE s == [at |-> "read", kind |-> "convert", doc |-> d, file |-> f]
    <3>2. Goto(r, s) /\ s.at = "read" /\ s.kind = "convert" /\ ~Over(r)
      BY <3>1 DEF Over, At
    <3> HIDE DEF s
    <3> QED BY <3>2 DEF Plain, Arranges
  <2>9. ASSUME NEW f \in DOMAIN files, BeginRestore(r, f)
        PROVE  \E s : Goto(r, s) /\ Plain(s) /\ (Over(r) => s.at \in {"done", "dropping"})
    <3> DEFINE s == [at |-> "read", kind |-> "restore", file |-> f, as |-> files[f].trashed]
    <3>1. Goto(r, s) /\ s.at = "read" /\ s.kind = "restore" /\ ~Over(r)
      BY <2>9 DEF BeginRestore, Over, At
    <3> HIDE DEF s
    <3> QED BY <3>1 DEF Plain, Arranges
  <2> QED BY <2>1, <2>2, <2>3, <2>4, <2>5, <2>6, <2>7, <2>8, <2>9
<1>3. FilesStay /\ UNCHANGED <<documents, receipts>> /\ crossed \subseteq crossed'
  <2>1. ASSUME NEW d \in DOMAIN documents, BeginBuild(r, d)
        PROVE  FilesStay /\ UNCHANGED <<documents, receipts>> /\ crossed \subseteq crossed'
    <3>1. \A f \in DOMAIN files : files[f] \in FileRow
      BY DEF IInv, OneRow
    <3>2. \A row \in FileRow : /\ [row EXCEPT !.counted = TRUE].content = row.content
                               /\ [row EXCEPT !.counted = TRUE].origin = row.origin
                               /\ [row EXCEPT !.counted = TRUE].trashed = row.trashed
      BY DEF FileRow
    <3>3. /\ DOMAIN files' = DOMAIN files
          /\ \A f \in DOMAIN files : files'[f] = files[f] \/ files'[f] = [files[f] EXCEPT !.counted = TRUE]
          /\ UNCHANGED <<documents, receipts, crossed>>
      BY <2>1 DEF BeginBuild
    <3>4. FilesStay
      <4> SUFFICES ASSUME NEW f \in DOMAIN files
                   PROVE  /\ files'[f].content = files[f].content
                          /\ files'[f].origin = files[f].origin
                          /\ files'[f].trashed = files[f].trashed
        BY <3>3 DEF FilesStay
      <4> DEFINE row == files[f]
      <4>1. row \in FileRow /\ (files'[f] = row \/ files'[f] = [row EXCEPT !.counted = TRUE])
        BY <3>1, <3>3
      <4> HIDE DEF row
      <4>2. /\ files'[f].content = row.content /\ files'[f].origin = row.origin
            /\ files'[f].trashed = row.trashed
        BY <3>2, <4>1
      <4> QED BY <4>2 DEF row
    <3> QED BY <3>3, <3>4
  <2>2. CASE ~\E d \in DOMAIN documents : BeginBuild(r, d)
    <3>1. UNCHANGED <<files, documents, receipts>> /\ crossed \subseteq crossed'
      BY <2>2 DEF DropObject, Fail, BeginPurge, PurgeObjects, SweepList, SweepAsk, SweepDelete, Refuse,
                  BeginConvert, BeginRestore, rows
    <3> QED BY <3>1 DEF FilesStay
  <2> QED BY <2>1, <2>2
<1>4. PICK s : Goto(r, s) /\ Plain(s) /\ (Over(r) => s.at \in {"done", "dropping"})
  BY <1>2
<1> QED BY <1>1, <1>3, <1>4, PlainStepFits

-----------------------------------------------------------------------------
(* A transaction has read, and decides.                                     *)

\* A transaction opens: what it decides about is its own, or crossed.
LEMMA OpenFits ==
  ASSUME AInv, DOMAIN req = Requests, NEW r \in Requests, ~Over(r), NEW s, s.at = "checked",
         Goto(r, s), Crosses(r, s.subject), UNCHANGED rows,
         \A q \in Open \ {r} : req[q].locks \cap s.locks = {},
         RequestFits(r)'
  PROVE  AInv'
<1>1. FilesStay /\ UNCHANGED <<documents, receipts>> /\ crossed \subseteq crossed'
  BY DEF rows, FilesStay, Crosses
<1>2. /\ FilesGoOn(r) /\ DocumentsGoOn(r) /\ LockedStay(r) /\ DecidedStay(r)
      /\ RowsFit' /\ OnePlace' /\ ReadersRemain'
  BY <1>1, SameRowsFit
<1>3. \A q \in Open \ {r} : req[q].subject \cap s.subject \subseteq crossed'
  BY DEF Crosses
<1> QED BY <1>1, <1>2, <1>3, StepFits

\* What a request has read still fits when it decides.
LEMMA ReadStillFits ==
  ASSUME AInv, DOMAIN req = Requests, NEW r \in Requests, At(r, "stored"), NEW s, Goto(r, s),
         s.at = "checked", s.bytes = req[r].bytes, s.bytes # "none", s.kind = req[r].kind,
         s.gone = req[r].gone, s.doc = req[r].doc, s.held = req[r].held, UNCHANGED rows
  PROVE  ListsFit(r)' /\ BytesFit(r)'
<1>1. req'[r] = s /\ UNCHANGED <<files, documents, receipts>> /\ RequestFits(r) /\ ~Over(r)
  BY DEF Goto, rows, AInv, Over, At
<1>2. \A x : Made(x) => Made(x)'
  BY <1>1, MadeStays
<1>3. HasLists(r) /\ ListsFit(r) /\ BytesFit(r)
  BY <1>1 DEF HasLists, RequestFits
<1>4. ASSUME NEW o \in DOMAIN req[r].held
      PROVE  ListFits(o, req[r].held[o])'
  <2> DEFINE list == req[r].held[o]
  <2>1. ListFits(o, list)
    BY <1>3, <1>4 DEF ListsFit
  <2>2. list' = s.held[o]
    BY <1>1
  <2>3. list' = list
    BY <2>2
  <2> HIDE DEF list
  <2>4. ListFits(o, list)'
    BY <2>1, <2>3, <1>1, <1>2 DEF ListFits, Bys
  <2> QED BY <2>4 DEF list
<1>5. ListsFit(r)'
  BY <1>1, <1>4 DEF ListsFit
<1>6. BytesFit(r)'
  <2>1. CASE req[r].kind # "replace"
    BY <2>1, <1>1, <1>3 DEF BytesFit
  <2>2. CASE req[r].kind = "replace"
    <3>1. /\ req[r].gone # "none" /\ Made(req[r].gone)
          /\ req[r].doc \in DOMAIN req[r].held /\ req[r].gone \in FilesOf(req[r].held[req[r].doc])
          /\ req[r].gone \in DOMAIN files => files[req[r].gone].content # req[r].bytes
          /\ \A o \in DOMAIN req[r].held : HasReaders(o, WithoutFile(req[r].held[o], req[r].gone))
      BY <2>2, <1>3 DEF BytesFit
    <3>2. req'[r].gone = req[r].gone /\ req'[r].held = req[r].held /\ req'[r].doc = req[r].doc
      BY <1>1
    <3>3. ASSUME NEW o \in DOMAIN req'[r].held
          PROVE  HasReaders(o, WithoutFile(req[r].held[o], req[r].gone))'
      <4> DEFINE list == WithoutFile(req[r].held[o], req[r].gone)
      <4>1. HasReaders(o, list)
        BY <3>1, <3>2
      <4>2. list' = list
        BY <3>2 DEF WithoutFile, Pick, PlacesOf, InOrder
      <4> HIDE DEF list
      <4>3. FilesOf(list)' = FilesOf(list)
        BY <4>2 DEF FilesOf
      <4>4. HasReaders(o, list)'
        BY <4>1, <4>3, <1>1, <1>2 DEF HasReaders
      <4> QED BY <4>4 DEF list
    <3>4. FilesOf(req[r].held[req[r].doc])' = FilesOf(req[r].held[req[r].doc])
      BY <3>2 DEF FilesOf
    <3>5. /\ req'[r].gone # "none" /\ Made(req[r].gone)' /\ req'[r].doc \in DOMAIN req'[r].held
          /\ req'[r].gone \in FilesOf(req[r].held[req[r].doc])'
          /\ req'[r].gone \in DOMAIN files' => files'[req'[r].gone].content # req'[r].bytes
      BY <3>1, <3>2, <3>4, <1>1, <1>2
    <3>6. req'[r].kind = "replace"
      BY <2>2, <1>1
    <3> QED BY <3>3, <3>5, <3>6 DEF BytesFit
  <2> QED BY <2>1, <2>2
<1> QED BY <1>5, <1>6

\* The row of the bytes is found, or is to be created.
LEMMA CheckBytesFits ==
  ASSUME IInv, AInv, NEW r \in Requests, CheckBytes(r)
  PROVE  AInv'
<1> DEFINE c == req[r].bytes
           kind == req[r].kind
           created == RowsOf(c) = {}
           f == IF created THEN r ELSE CHOOSE x \in RowsOf(c) : TRUE
           row == IF created
                  THEN [content |-> c, trashed |-> "no", counted |-> FALSE,
                        origin |-> IF kind = "ingest" THEN "LIBRARY" ELSE "MANAGED"]
                  ELSE files[f]
           s == [at |-> "checked", kind |-> kind, bytes |-> c, locks |-> {},
                 holds |-> IF row.trashed = "no" THEN {} ELSE {f},
                 subject |-> {f, req[r].gone} \ {"none"}, file |-> f,
                 doc |-> req[r].doc, held |-> req[r].held, gone |-> req[r].gone,
                 row |-> row, created |-> created]
<1>1. At(r, "stored") /\ ~Over(r) /\ DOMAIN req = Requests
  BY DEF CheckBytes, At, Over, IInv
<1>2. c \in Contents /\ kind \in Kinds /\ c # "none"
  BY <1>1, NoneAssumption DEF IInv, HashIsHeld
<1>3. CASE Refuse(r)
  BY <1>1, <1>3, PlainActionFits
<1>4. CASE ~Refuse(r)
  <2>1. /\ Readers(f) = {} /\ (kind = "ingest" => row.trashed = "no")
        /\ OpenWith(r, s) /\ UNCHANGED rows
    BY <1>4 DEF CheckBytes
  <2>2. /\ s.at = "checked" /\ s.kind = kind /\ s.bytes = c /\ s.locks = {}
        /\ s.holds = (IF row.trashed = "no" THEN {} ELSE {f})
        /\ s.subject = {f, req[r].gone} \ {"none"} /\ s.file = f
        /\ s.doc = req[r].doc /\ s.held = req[r].held /\ s.gone = req[r].gone
        /\ s.row = row /\ s.created = created
    OBVIOUS
  <2>4. created => f = r /\ row \in FileRow /\ row.trashed = "no" /\ (kind = "ingest" => row.origin = "LIBRARY")
    BY <1>2 DEF FileRow
  <2>5. ~created => f \in DOMAIN files /\ files[f].content = c /\ row = files[f]
    BY DEF RowsOf
  <2> HIDE DEF row, f, created
  <2> HIDE DEF s
  <2>6. Goto(r, s) /\ Crosses(r, s.subject)
    BY <2>1 DEF OpenWith
  <2>7. req'[r] = s /\ UNCHANGED <<files, documents, receipts>>
    BY <1>1, <2>1, <2>6 DEF Goto, rows
  <2>8. Brings(r)' /\ At(r, "checked")'
    BY <1>2, <2>2, <2>7 DEF Brings, At
  <2>9. ListsFit(r)' /\ BytesFit(r)'
    BY <1>1, <1>2, <2>1, <2>2, <2>6, ReadStillFits
  <2>10. BytesFit(r) /\ KindFits(r)' /\ PlanFits(r)' /\ OutFits(r)' /\ RestoreFits(r)'
    <3>1. BytesFit(r)
      BY DEF AInv, RequestFits
    <3>2. KindFits(r)'
      BY <2>8 DEF KindFits
    <3>3. PlanFits(r)'
      BY <2>8 DEF PlanFits, At
    <3>4. req'[r].kind \notin {"out", "restoring"}
      BY <1>2, <2>2, <2>7 DEF Kinds
    <3>5. OutFits(r)' /\ RestoreFits(r)'
      BY <3>4 DEF OutFits, RestoreFits
    <3> QED BY <3>1, <3>2, <3>3, <3>5
  <2>11. BringFits(r)'
    <3>1. f # "none" /\ f \in FileIds
      <4>1. CASE created
        BY <2>4, <4>1, NoneAssumption DEF FileIds
      <4>2. CASE ~created
        BY <2>5, <4>2, FilesAreMade
      <4> QED BY <4>1, <4>2
    <3>2. f # req[r].gone
      <4>1. CASE kind # "replace"
        BY <1>1, <2>10, <3>1, <4>1 DEF BytesFit
      <4>2. CASE kind = "replace"
        <5>1. /\ Made(req[r].gone)
              /\ req[r].gone \in DOMAIN files => files[req[r].gone].content # c
          BY <1>1, <2>10, <4>2 DEF BytesFit
        <5>2. created => f # req[r].gone
          BY <1>1, <2>4, <5>1 DEF Made
        <5> QED BY <2>5, <5>1, <5>2
      <4> QED BY <4>1, <4>2
    <3>3. row \in FileRow
      BY <2>4, <2>5 DEF IInv, OneRow
    <3>4. PICK g : g = f
      OBVIOUS
    <3>5. g # "none" /\ g \in FileIds /\ g # req[r].gone
      BY <3>1, <3>2, <3>4
    <3>6. ~created => /\ Made(g)' /\ s.holds \subseteq {g}
                      /\ kind = "ingest" => s.holds = {}
                      /\ Readers(g)' = {}
                      /\ g \in s.holds <=> InTrash(g)'
      <4> SUFFICES ASSUME ~created
                   PROVE  /\ Made(g)' /\ s.holds \subseteq {g}
                          /\ kind = "ingest" => s.holds = {}
                          /\ Readers(g)' = {}
                          /\ g \in s.holds <=> InTrash(g)'
        OBVIOUS
      <4>1. g \in DOMAIN files /\ row = files[g]
        BY <2>5, <3>4
      <4>2. Made(g)'
        BY <1>1, <2>6, <4>1, FilesAreMade, MadeStays
      <4>3. Readers(g)' = {}
        BY <2>1, <2>7, <3>4 DEF Readers, FilesOf
      <4>4. InTrash(g)' <=> files[g].trashed # "no"
        BY <2>7, <4>1 DEF InTrash
      <4> QED BY <2>1, <2>2, <3>4, <4>1, <4>2, <4>3, <4>4
    <3>7. created => s.holds = {} /\ row.trashed = "no" /\ (kind = "ingest" => row.origin = "LIBRARY")
      BY <2>2, <2>4
    <3>8. /\ req'[r].file = g /\ req'[r].gone = req[r].gone /\ req'[r].row \in FileRow
          /\ req'[r].locks = {} /\ req'[r].subject = {g, req'[r].gone} \ {"none"}
          /\ (req'[r].created <=> created) /\ req'[r].holds = s.holds /\ req'[r].kind = kind
          /\ req'[r].row = row
      BY <2>2, <2>7, <3>3, <3>4
    <3>9. FileIds' = FileIds /\ FileRow' = FileRow
      BY DEF FileIds, FileRow
    <3> HIDE DEF kind
    <3>10. Made(req[r].file)' <=> Made(g)'
      BY <3>8 DEF Made
    <3>11. /\ Readers(req[r].file)' = Readers(g)'
           /\ InTrash(req[r].file)' <=> InTrash(g)'
      BY <3>8 DEF Readers, FilesOf, InTrash
    <3> QED BY <3>5, <3>6, <3>7, <3>8, <3>9, <3>10, <3>11 DEF BringFits
  <2>12. RequestFits(r)'
    BY <2>9, <2>10, <2>11 DEF RequestFits
  <2>13. \A q \in Open \ {r} : req[q].locks \cap s.locks = {}
    BY <2>2
  <2> QED BY <1>1, <2>1, <2>2, <2>6, <2>12, <2>13, OpenFits
<1> QED BY <1>3, <1>4

\* The pages of one document are about to be taken out.
LEMMA TakeOutFits ==
  ASSUME AInv, DOMAIN req = Requests, NEW r \in Requests, ~Over(r),
         NEW d \in Live, Unlocked({d}), NEW list, NEW leaving, NEW dropped,
         TakeOut(r, d, list, leaving, dropped), UNCHANGED rows,
         leaving \subseteq FilesOf(documents[d].pages),
         dropped => list = <<>> /\ FilesOf(documents[d].pages) \subseteq leaving,
         ~dropped =>
           /\ list \in Seq(Entries) /\ list # <<>> /\ KeepsItsReaders(d, list)
           /\ EntriesOf(list) \subseteq EntriesOf(documents[d].pages)
           /\ \A e \in EntriesOf(documents[d].pages) : e.file \in leaving \/ e \in EntriesOf(list)
  PROVE  AInv'
<1> DEFINE orphaned == ReadNowhereElse(leaving, Only(d, list))
           s == [at |-> "checked", kind |-> "out", bytes |-> "none", locks |-> {d},
                 holds |-> {}, subject |-> leaving, list |-> list, dropped |-> dropped,
                 orphaned |-> orphaned]
<1>1. d \in DOMAIN documents /\ documents[d].state = "live"
  BY DEF Live
<1>2. orphaned = {f \in leaving : f \notin FilesOf(list) /\ Readers(f) \subseteq {d}}
  <2>1. DOMAIN Only(d, list) = {d} /\ Only(d, list)[d] = list
    BY DEF Only
  <2>2. ASSUME NEW f
        PROVE  (\A o \in DOMAIN documents :
                  f \notin FilesOf(IF o \in DOMAIN Only(d, list) THEN Only(d, list)[o] ELSE documents[o].pages))
               <=> f \notin FilesOf(list) /\ Readers(f) \subseteq {d}
    BY <1>1, <2>1 DEF Readers
  <2> QED BY <2>2 DEF ReadNowhereElse
<1>3. OpenWith(r, s)
  BY DEF TakeOut
<1> HIDE DEF orphaned
<1>4. /\ s.at = "checked" /\ s.kind = "out" /\ s.bytes = "none" /\ s.locks = {d} /\ s.subject = leaving
      /\ s.list = list /\ s.dropped = dropped /\ s.orphaned = orphaned
  OBVIOUS
<1> HIDE DEF s
<1>5. Goto(r, s) /\ Crosses(r, s.subject)
  BY <1>3, <1>4 DEF OpenWith
<1>6. req'[r] = s /\ UNCHANGED <<files, documents, receipts>> /\ crossed \subseteq crossed'
  BY <1>5 DEF Goto, rows, Crosses
<1>7. At(r, "checked")' /\ ~At(r, "stored")' /\ ~At(r, "read")' /\ ~Brings(r)'
  BY <1>4, <1>6 DEF At, Brings
<1>8. PICK t : t = s
  OBVIOUS
<1>9. TakingFits(t, d) /\ req'[r] = t
  BY <1>1, <1>2, <1>4, <1>6, <1>8 DEF TakingFits
<1>10. OutFits(r)'
  <2>1. TakingFits(req[r], d)'
    <3>1. \A f : Readers(f)' = Readers(f)
      BY <1>6 DEF Readers, FilesOf
    <3>2. /\ FilesOf(req[r].list)' = FilesOf(t.list) /\ EntriesOf(req[r].list)' = EntriesOf(t.list)
          /\ FilesOf(documents[d].pages)' = FilesOf(documents[d].pages)
          /\ EntriesOf(documents[d].pages)' = EntriesOf(documents[d].pages)
      BY <1>6, <1>9 DEF FilesOf, EntriesOf
    <3>3. KeepsItsReaders(d, t.list) => KeepsItsReaders(d, req[r].list)'
      BY <3>2, <1>6 DEF KeepsItsReaders
    <3> QED BY <1>6, <1>9, <3>1, <3>2, <3>3 DEF TakingFits
  <2> QED BY <1>1, <1>6, <2>1 DEF OutFits
<1>11. KindFits(r)' /\ ListsFit(r)' /\ PlanFits(r)' /\ BytesFit(r)' /\ BringFits(r)' /\ RestoreFits(r)'
  BY <1>4, <1>6, <1>7 DEF KindFits, ListsFit, HasLists, PlanFits, BytesFit, BringFits, RestoreFits
<1>12. RequestFits(r)'
  BY <1>10, <1>11 DEF RequestFits
<1>13. \A q \in Open \ {r} : req[q].locks \cap s.locks = {}
  BY <1>4 DEF Unlocked, LockedDocuments
<1> QED BY <1>4, <1>5, <1>12, <1>13, OpenFits

\* A page or a document is about to be taken out.
LEMMA BeginTakingOutFits ==
  ASSUME AInv, DOMAIN req = Requests, NEW r \in Requests,
         RemovePage(r) \/ \E d \in DOMAIN documents : DeleteDocument(r, d)
  PROVE  AInv'
<1>1. CASE RemovePage(r)
  <2> DEFINE d == req[r].doc
             held == req[r].held[d]
  <2>1. MayRewrite(r, "remove") /\ "remove" \in Arranges
    BY <1>1 DEF RemovePage, Arranges
  <2>2. /\ ~Over(r) /\ d \in Live /\ Unlocked({d})
        /\ documents[d].pages = held /\ held \in Seq(Entries)
    BY <2>1, RewriteFacts DEF Unlocked, Live
  <2>3. PICK i \in DOMAIN held : /\ KeepsItsReaders(d, Pick(held, DOMAIN held \ {i}))
                                 /\ TakeOut(r, d, Pick(held, DOMAIN held \ {i}), {held[i].file}, FALSE)
    BY <1>1 DEF RemovePage
  <2>4. Len(held) > 1 /\ UNCHANGED rows
    BY <1>1 DEF RemovePage
  <2> HIDE DEF d, held
  <2> DEFINE others == DOMAIN held \ {i}
             list == Pick(held, others)
  <2>5. others \subseteq DOMAIN held /\ others # {}
    <3>1. DOMAIN held = 1 .. Len(held) /\ Len(held) \in Nat
      BY <2>2
    <3>2. 1 \in DOMAIN held /\ 2 \in DOMAIN held
      BY <2>4, <3>1
    <3> QED BY <3>2
  <2>6. KeepsItsReaders(d, list) /\ TakeOut(r, d, list, {held[i].file}, FALSE)
    BY <2>3
  <2> HIDE DEF others
  <2>7. /\ list \in Seq(Entries) /\ EntriesOf(list) = {held[j] : j \in others} /\ list # <<>>
    BY <2>2, <2>5, PickEffect
  <2> HIDE DEF list
  <2>8. /\ EntriesOf(list) \subseteq EntriesOf(held)
        /\ \A e \in EntriesOf(held) : e.file \in {held[i].file} \/ e \in EntriesOf(list)
    BY <2>5, <2>7 DEF EntriesOf, others
  <2> DEFINE leaving == {held[i].file}
             dropped == FALSE
  <2>9. leaving \subseteq FilesOf(held) /\ dropped \in BOOLEAN /\ ~dropped
    BY DEF FilesOf
  <2>10. TakeOut(r, d, list, leaving, dropped)
    BY <2>6
  <2>11. \A e \in EntriesOf(held) : e.file \in leaving \/ e \in EntriesOf(list)
    BY <2>8
  <2> HIDE DEF leaving, dropped
  <2> QED BY <2>2, <2>4, <2>6, <2>7, <2>8, <2>9, <2>10, <2>11, TakeOutFits
<1>2. ASSUME NEW d \in DOMAIN documents, DeleteDocument(r, d)
      PROVE  AInv'
  <2> DEFINE list == <<>>
             leaving == FilesOf(documents[d].pages)
             dropped == TRUE
  <2>1. /\ ~Over(r) /\ d \in Live /\ Unlocked({d}) /\ UNCHANGED rows
        /\ TakeOut(r, d, list, leaving, dropped)
    BY <1>2 DEF DeleteDocument, Over, At
  <2>2. dropped \in BOOLEAN /\ dropped /\ list = <<>>
    OBVIOUS
  <2>3. leaving \subseteq FilesOf(documents[d].pages) /\ FilesOf(documents[d].pages) \subseteq leaving
    OBVIOUS
  <2> HIDE DEF list, leaving, dropped
  <2> QED BY <2>1, <2>2, <2>3, TakeOutFits
<1> QED BY <1>1, <1>2

\* A file of the trash is about to be restored.
LEMMA CheckRestoreFits ==
  ASSUME AInv, DOMAIN req = Requests, NEW r \in Requests, CheckRestore(r)
  PROVE  AInv'
<1> DEFINE s == [at |-> "checked", kind |-> "restoring", bytes |-> "none", locks |-> {},
                 holds |-> {}, subject |-> {req[r].file}, as |-> req[r].as]
<1>1. /\ At(r, "read") /\ ~HasHome(req[r].file) /\ OpenWith(r, s) /\ UNCHANGED rows
  BY DEF CheckRestore
<1>2. PICK f : f = req[r].file
  OBVIOUS
<1>3. /\ s.at = "checked" /\ s.kind = "restoring" /\ s.bytes = "none" /\ s.locks = {} /\ s.subject = {f}
  BY <1>2
<1> HIDE DEF s
<1>4. Goto(r, s) /\ Crosses(r, s.subject) /\ ~Over(r)
  BY <1>1, <1>3 DEF OpenWith, Over, At
<1>5. req'[r] = s /\ UNCHANGED <<files, documents, receipts>>
  BY <1>1, <1>4 DEF Goto, rows
<1>6. At(r, "checked")' /\ ~At(r, "stored")' /\ ~At(r, "read")' /\ ~Brings(r)'
  BY <1>3, <1>5 DEF At, Brings
<1>7. ~HasHome(f)'
  BY <1>1, <1>2, <1>5 DEF HasHome, Readers, FilesOf, IsReceipt
<1>8. RestoreFits(r)'
  <2>1. req'[r].bytes = "none" /\ req'[r].locks = {} /\ req'[r].subject = {f}
    BY <1>3, <1>5
  <2> QED BY <2>1, <1>7 DEF RestoreFits
<1>9. KindFits(r)' /\ ListsFit(r)' /\ PlanFits(r)' /\ BytesFit(r)' /\ BringFits(r)' /\ OutFits(r)'
  BY <1>3, <1>5, <1>6 DEF KindFits, ListsFit, HasLists, PlanFits, BytesFit, BringFits, OutFits
<1>10. RequestFits(r)'
  BY <1>8, <1>9 DEF RequestFits
<1>11. \A q \in Open \ {r} : req[q].locks \cap s.locks = {}
  BY <1>3
<1> QED BY <1>1, <1>3, <1>4, <1>10, <1>11, OpenFits

-----------------------------------------------------------------------------
(* Commits: files move from one place to another.                           *)

\* What becomes of a document that a commit writes.
DocumentWell(r, d) ==
  LET row == documents'[d] IN
  /\ row \in DocumentRow
  /\ \A b \in Bys(row.pages) : Made(b) \/ b = r
  /\ FilesOf(row.pages) \subseteq DOMAIN files'
  /\ d \in DOMAIN documents => row.owned = documents[d].owned
  /\ d \notin DOMAIN documents => row.state = "live" /\ (d = r \/ (Made(d) /\ row.owned))
  /\ row.state = "live" =>
       /\ row.pages # <<>>
       /\ row.owned \/ \E f \in FilesOf(row.pages) : files'[f].origin = "LIBRARY" \/ f \in crossed'
  /\ row.state = "merged" =>
       /\ d \in DOMAIN documents
       /\ FilesOf(row.pages) \subseteq crossed'
       /\ Bys(row.pages) \subseteq
            {r} \cup (IF documents[d].state = "merged" THEN Bys(documents[d].pages) ELSE {})

\* The receipts after a commit: one a file, and none with the id of a document.
ReceiptsFit(r) ==
  /\ \A x \in DOMAIN receipts' :
       (Made(x) \/ x = r) /\ x \notin DOMAIN documents' /\ receipts'[x] \in DOMAIN files'
  /\ \A x, y \in DOMAIN receipts' : receipts'[x] = receipts'[y] => x = y

\* The file is where it was.
Untouched(f) ==
  /\ Readers(f)' = Readers(f)
  /\ IsReceipt(f)' <=> IsReceipt(f)
  /\ InTrash(f)' <=> InTrash(f)

\* The file is somewhere, and in one place.
Placed(f) ==
  /\ Readers(f) # {} \/ IsReceipt(f) \/ InTrash(f)
  /\ IsReceipt(f) => Readers(f) = {}
  /\ InTrash(f) => ~HasHome(f)

\* What a commit must show: only files it moved are elsewhere, and these are placed.
LEMMA CommitFits ==
  ASSUME AInv, DOMAIN req = Requests, NEW r \in Requests, ~Over(r), NEW s, Goto(r, s),
         s.at \in {"done", "dropping"}, crossed \subseteq crossed',
         FilesGoOn(r), DOMAIN files \subseteq DOMAIN files',
         NEW written, NEW removed,
         DOMAIN documents' = (DOMAIN documents \ removed) \cup written, removed \cap written = {},
         \A d \in DOMAIN documents' \ written : documents'[d] = documents[d],
         \A d \in written : DocumentWell(r, d),
         \A q \in Open \ {r} : req[q].locks \cap DOMAIN documents \cap (written \cup removed) = {},
         ReceiptsFit(r),
         NEW moved, DOMAIN files' \ DOMAIN files \subseteq moved,
         \A f : f \notin moved => Untouched(f),
         \A q \in Open \ {r} : Decided(q) \cap moved \subseteq crossed',
         \A f \in moved : f \in DOMAIN files' \ crossed' => Placed(f)'
  PROVE  AInv'
<1>1. Plain(s) /\ Over(r)' /\ r \in Fresh(r)
  BY DEF Plain, Over, At, Goto, Fresh
<1>2. \A x : Made(x) => Made(x)'
  BY MadeStays
<1>3. Made(r)'
  BY <1>1 DEF Made
<1>4. \A d \in DOMAIN documents' : /\ Bys(documents[d].pages)' = Bys(documents'[d].pages)
                                   /\ FilesOf(documents[d].pages)' = FilesOf(documents'[d].pages)
  BY DEF Bys, FilesOf
<1>5. DecidedStay(r)
  <2> SUFFICES ASSUME NEW q \in Open \ {r}, NEW f \in Decided(q) \ crossed'
               PROVE  SamePlace(r, f) /\ (InTrash(f)' <=> InTrash(f))
    BY DEF DecidedStay
  <2>1. Untouched(f)
    OBVIOUS
  <2>2. HasHome(f)' <=> HasHome(f)
    BY <2>1 DEF HasHome, Untouched
  <2> QED BY <2>1, <2>2 DEF SamePlace, Untouched
<1>6. LockedStay(r)
  BY DEF LockedStay
<1>7. DocumentsGoOn(r)
  <2> SUFFICES ASSUME NEW d \in DOMAIN documents'
               PROVE  /\ d \in DOMAIN documents => documents'[d].owned = documents[d].owned
                      /\ d \notin DOMAIN documents => /\ documents'[d].state = "live"
                                                      /\ documents'[d].owned \/ d \in Fresh(r)
                      /\ documents'[d].state = "merged" =>
                           Bys(documents'[d].pages) \subseteq
                             Fresh(r) \cup (IF documents[d].state = "merged" THEN Bys(documents[d].pages) ELSE {})
    BY DEF DocumentsGoOn
  <2>1. CASE d \in written
    <3>1. DocumentWell(r, d)
      BY <2>1
    <3>2. documents'[d].state \in {"live", "merged"}
      BY <3>1 DEF DocumentWell, DocumentRow
    <3> QED BY <3>1, <3>2, <1>1 DEF DocumentWell
  <2>2. CASE d \notin written
    BY <2>2
  <2> QED BY <2>1, <2>2
<1>8. RowsFit'
  <2>1. ASSUME NEW d \in DOMAIN documents'
        PROVE  /\ Made(d)' /\ documents'[d] \in DocumentRow
               /\ \A b \in Bys(documents'[d].pages) : Made(b)'
               /\ FilesOf(documents'[d].pages) \subseteq DOMAIN files'
    <3>1. CASE d \in written
      <4>1. DocumentWell(r, d)
        BY <3>1
      <4>2. Made(d)'
        BY <4>1, <1>2, <1>3 DEF AInv, RowsFit, DocumentWell
      <4> QED BY <4>1, <4>2, <1>2, <1>3 DEF DocumentWell
    <3>2. CASE d \notin written
      <4>1. d \in DOMAIN documents /\ documents'[d] = documents[d]
        BY <3>2
      <4> QED BY <4>1, <1>2 DEF AInv, RowsFit
    <3> QED BY <3>1, <3>2
  <2>2. DOMAIN files' \subseteq FileIds
    BY DEF FilesGoOn, Fresh, FileIds, AInv, RowsFit
  <2>3. \A x \in DOMAIN receipts' : Made(x)' /\ x \notin DOMAIN documents' /\ receipts'[x] \in DOMAIN files'
    BY <1>2, <1>3 DEF ReceiptsFit
  <2>4. \A x, y \in DOMAIN receipts' : receipts'[x] = receipts'[y] => x = y
    BY DEF ReceiptsFit
  <2>5. FileIds' = FileIds /\ DocumentRow' = DocumentRow
    BY DEF FileIds, DocumentRow, Entries
  <2> QED BY <2>1, <2>2, <2>3, <2>4, <2>5, <1>4 DEF RowsFit
<1>9. OnePlace'
  <2>1. ASSUME NEW f \in DOMAIN files' \ crossed'
        PROVE  Placed(f)'
    <3>1. CASE f \in moved
      BY <3>1
    <3>2. CASE f \notin moved
      <4>1. f \in DOMAIN files \ crossed /\ Untouched(f)
        BY <3>2
      <4>2. HasHome(f)' <=> HasHome(f)
        BY <4>1 DEF HasHome, Untouched
      <4>3. Placed(f)
        BY <4>1 DEF AInv, OnePlace, Placed
      <4> QED BY <4>1, <4>2, <4>3 DEF Placed, Untouched
    <3> QED BY <3>1, <3>2
  <2>2. ASSUME NEW d \in DOMAIN documents', documents'[d].state = "merged"
        PROVE  FilesOf(documents'[d].pages) \subseteq crossed'
    <3>1. CASE d \in written
      <4>1. DocumentWell(r, d)
        BY <3>1
      <4> QED BY <2>2, <4>1 DEF DocumentWell
    <3>2. CASE d \notin written
      BY <2>2, <3>2 DEF AInv, OnePlace
    <3> QED BY <3>1, <3>2
  <2> QED BY <2>1, <2>2, <1>4 DEF OnePlace, Placed
<1>10. ReadersRemain'
  <2> SUFFICES ASSUME NEW d \in Live'
               PROVE  /\ documents'[d].pages # <<>>
                      /\ documents'[d].owned \/ \E f \in FilesOf(documents'[d].pages) :
                                                   files'[f].origin = "LIBRARY" \/ f \in crossed'
    BY DEF ReadersRemain, FilesOf
  <2>1. d \in DOMAIN documents' /\ documents'[d].state = "live"
    BY DEF Live
  <2>2. CASE d \in written
    <3>1. DocumentWell(r, d)
      BY <2>2
    <3> QED BY <3>1, <2>1 DEF DocumentWell
  <2>3. CASE d \notin written
    <3>1. documents'[d] = documents[d] /\ d \in Live
      BY <2>1, <2>3 DEF Live
    <3>2. FilesOf(documents[d].pages) \subseteq DOMAIN files
      BY <3>1 DEF AInv, RowsFit, Live
    <3>3. \A f \in FilesOf(documents[d].pages) : files'[f].origin = files[f].origin
      BY <3>2 DEF FilesGoOn
    <3> QED BY <3>1, <3>3 DEF AInv, ReadersRemain
  <2> QED BY <2>2, <2>3
<1>11. RequestFits(r)' /\ s.at # "checked"
  BY <1>1, PlainFits
<1>12. Over(r) => s.at \in {"done", "dropping"}
  OBVIOUS
<1> QED BY <1>5, <1>6, <1>7, <1>8, <1>9, <1>10, <1>11, <1>12, StepFits

\* What open transactions hold is there, and what they decide about is their own.
LEMMA OpenFacts ==
  ASSUME AInv, NEW q \in Open
  PROVE  req[q].locks \subseteq DOMAIN documents /\ Decided(q) \subseteq req[q].subject
<1>1. q \in Requests /\ At(q, "checked") /\ RequestFits(q)
  BY DEF Open, AInv
<1>2. CASE Brings(q)
  <2>1. req[q].locks = {} /\ req[q].file # "none" /\ req[q].subject = {req[q].file, req[q].gone} \ {"none"}
    BY <1>1, <1>2 DEF RequestFits, BringFits
  <2> QED BY <1>2, <2>1 DEF Decided
<1>3. CASE ~Brings(q) /\ req[q].kind = "out"
  <2>1. PICK d \in DOMAIN documents : TakingFits(req[q], d)
    BY <1>1, <1>3 DEF RequestFits, OutFits
  <2> QED BY <1>3, <2>1 DEF Decided, TakingFits
<1>4. CASE ~Brings(q) /\ req[q].kind = "restoring"
  <2>1. req[q].locks = {}
    BY <1>1, <1>4 DEF RequestFits, RestoreFits
  <2> QED BY <1>4, <2>1 DEF Decided
<1> QED BY <1>1, <1>2, <1>3, <1>4 DEF RequestFits, KindFits

\* What the others have decided about is not decided about here, unless it is crossed.
LEMMA DecidedApart ==
  ASSUME AInv, NEW r \in Open
  PROVE  \A q \in Open \ {r} : /\ Decided(q) \cap req[r].subject \subseteq crossed
                               /\ req[q].locks \cap req[r].locks = {}
BY OpenFacts DEF AInv, Apart, ApartFrom

\* Documents that are not locked are locked by no open transaction.
LEMMA NobodyHolds ==
  ASSUME NEW r \in Requests, NEW ds, Unlocked(ds)
  PROVE  \A q \in Open \ {r} : req[q].locks \cap ds = {}
BY DEF Unlocked, LockedDocuments

\* A document is made of one file.
LEMMA NewDocument ==
  ASSUME NEW id, id \notin DOMAIN documents, NEW owned, NEW list, NEW f, FilesOf(list) = {f},
         documents' = WithRow(documents, id, Product(owned, list))
  PROVE  /\ DOMAIN documents' = DOMAIN documents \cup {id}
         /\ documents'[id] = Product(owned, list)
         /\ \A x \in DOMAIN documents : documents'[x] = documents[x]
         /\ \A g : g # f => Readers(g)' = Readers(g)
         /\ Readers(f)' = Readers(f) \cup {id}
<1> DEFINE row == Product(owned, list)
<1>1. /\ DOMAIN documents' = DOMAIN documents \cup {id} /\ documents'[id] = row
      /\ \A x \in DOMAIN documents : documents'[x] = documents[x]
  BY DEF WithRow
<1>2. row.pages = list
  BY DEF Product
<1> HIDE DEF row
<1>3. \A d \in DOMAIN documents' : FilesOf(documents[d].pages)' = FilesOf(documents'[d].pages)
  BY DEF FilesOf
<1>4. \A d \in DOMAIN documents : FilesOf(documents[d].pages)' = FilesOf(documents[d].pages)
  BY <1>1, <1>3
<1>5. FilesOf(documents[id].pages)' = {f}
  BY <1>1, <1>2, <1>3
<1>6. \A g : \A d : d \in Readers(g)' <=> d \in DOMAIN documents' /\ g \in FilesOf(documents[d].pages)'
  BY DEF Readers
<1>7. \A g : \A d : d \in Readers(g)' <=> d \in Readers(g) \/ (d = id /\ g = f)
  BY <1>1, <1>4, <1>5, <1>6 DEF Readers
<1>8. ASSUME NEW g, g # f
      PROVE  Readers(g)' = Readers(g)
  <2>1. \A d \in Readers(g)' : d \in Readers(g)
    BY <1>7, <1>8
  <2>2. \A d \in Readers(g) : d \in Readers(g)'
    BY <1>7
  <2> QED BY <2>1, <2>2
<1>9. Readers(f)' = Readers(f) \cup {id}
  <2> DEFINE new == Readers(f)'
  <2>1. \A d : d \in new <=> d \in Readers(f) \/ d = id
    BY <1>7
  <2> HIDE DEF new
  <2>2. new = Readers(f) \cup {id}
    BY <2>1
  <2> QED BY <2>2 DEF new
<1> QED BY <1>1, <1>8, <1>9 DEF row

\* The row of the bytes, as their transaction leaves it.
Arrived(t) ==
  IF t.created THEN WithRow(files, t.file, t.row)
  ELSE [files EXCEPT ![t.file].trashed = IF t.file \in t.holds THEN "no" ELSE @]

\* The row of the bytes, compared with what was there.
LEMMA ArrivedFacts ==
  ASSUME IInv, AInv, NEW r \in Requests, Brings(r), req[r].created \/ req[r].file \in DOMAIN files,
         NEW f, f = req[r].file, NEW arrived, arrived = Arrived(req[r])
  PROVE  /\ DOMAIN arrived = DOMAIN files \cup {f} /\ f # req[r].gone
         /\ f \notin DOMAIN files => f = r
         /\ f \in FileIds
         /\ arrived[f] \in FileRow
         /\ \A g \in DOMAIN files \ {f} : arrived[g] = files[g]
         /\ f \in DOMAIN files => /\ arrived[f].content = files[f].content
                                  /\ arrived[f].origin = files[f].origin
         /\ f \notin crossed => Readers(f) = {} /\ (IsReceipt(f) \/ arrived[f].trashed = "no")
         /\ req[r].kind = "ingest" => IsReceipt(f) \/ arrived[f].origin = "LIBRARY" \/ f \in crossed
<1> DEFINE t == req[r]
           row == [files[f] EXCEPT !.trashed = IF f \in t.holds THEN "no" ELSE files[f].trashed]
<1>1. /\ f # "none" /\ f \in FileIds /\ f # t.gone /\ t.row \in FileRow
      /\ t.created => t.holds = {} /\ t.row.trashed = "no" /\ (t.kind = "ingest" => t.row.origin = "LIBRARY")
      /\ ~t.created =>
           /\ t.holds \subseteq {f} /\ (t.kind = "ingest" => t.holds = {})
           /\ f \notin crossed => Readers(f) = {} /\ (f \in t.holds <=> InTrash(f))
  <2>1. BringFits(r)
    BY DEF AInv, RequestFits
  <2> QED BY <2>1 DEF BringFits
<1>2. CASE t.created
  <2>1. f = r /\ r \notin DOMAIN files
    BY <1>2 DEF IInv, HashIsHeld, MadeAtTheEnd, Brings, At
  <2>2. arrived = WithRow(files, f, t.row)
    BY <1>2 DEF Arrived
  <2>3. DOMAIN arrived = DOMAIN files \cup {f} /\ arrived[f] = t.row
        /\ \A g \in DOMAIN files \ {f} : arrived[g] = files[g]
    BY <2>2 DEF WithRow
  <2>4. Readers(f) = {}
    BY <2>1 DEF Readers, AInv, RowsFit
  <2> QED BY <1>1, <1>2, <2>1, <2>3, <2>4
<1>3. CASE ~t.created
  <2>1. f \in DOMAIN files /\ files[f] \in FileRow
    BY <1>3 DEF IInv, OneRow
  <2>2. /\ DOMAIN arrived = DOMAIN files /\ arrived[f] = row
        /\ \A g \in DOMAIN files \ {f} : arrived[g] = files[g]
    BY <1>3, <2>1 DEF Arrived
  <2> DEFINE trashed == IF f \in t.holds THEN "no" ELSE files[f].trashed
  <2>3. row = [files[f] EXCEPT !.trashed = trashed] /\ trashed \in {"no", "DOCUMENT", "RECEIPT"}
    BY <2>1 DEF FileRow
  <2> HIDE DEF row, trashed
  <2>4. row \in FileRow /\ row.content = files[f].content /\ row.origin = files[f].origin /\ row.trashed = trashed
    BY <2>1, <2>3 DEF FileRow
  <2>5. ASSUME f \notin crossed
        PROVE  Readers(f) = {} /\ (IsReceipt(f) \/ trashed = "no")
    <3>1. Readers(f) = {} /\ (f \in t.holds <=> InTrash(f))
      BY <1>1, <1>3, <2>5
    <3>2. IsReceipt(f) \/ InTrash(f)
      BY <2>1, <2>5, <3>1 DEF AInv, OnePlace
    <3> QED BY <3>1, <3>2 DEF trashed
  <2>6. ASSUME t.kind = "ingest", f \notin crossed
        PROVE  IsReceipt(f)
    <3>1. Readers(f) = {} /\ ~InTrash(f)
      BY <1>1, <1>3, <2>6
    <3> QED BY <2>1, <2>6, <3>1 DEF AInv, OnePlace
  <2> QED BY <1>1, <2>1, <2>2, <2>4, <2>5, <2>6
<1> QED BY <1>2, <1>3

\* The receipts are unchanged, and none is a document that is made.
LEMMA SameReceiptsFit ==
  ASSUME AInv, NEW r \in Requests, ~Over(r), UNCHANGED receipts, DOMAIN files \subseteq DOMAIN files',
         DOMAIN documents' \subseteq DOMAIN documents \cup {r}
  PROVE  ReceiptsFit(r)
<1>1. r \notin DOMAIN receipts
  BY DEF AInv, RowsFit, Made
<1> QED BY <1>1 DEF AInv, RowsFit, ReceiptsFit

(* A step makes a document of one file.                                     *)
LEMMA MakesDocumentFits ==
  ASSUME AInv, DOMAIN req = Requests, NEW r \in Requests, ~Over(r), NEW s, Goto(r, s),
         s.at \in {"done", "dropping"}, crossed \subseteq crossed',
         FilesGoOn(r), DOMAIN files \subseteq DOMAIN files',
         NEW id, id \notin DOMAIN documents, id = r \/ Made(id),
         NEW owned \in BOOLEAN, id # r => owned,
         NEW f, f \in DOMAIN files', DOMAIN files' \ DOMAIN files \subseteq {f},
         NEW list \in Seq(Entries), list # <<>>, FilesOf(list) = {f}, Bys(list) = {r},
         documents' = WithRow(documents, id, Product(owned, list)),
         owned \/ files'[f].origin = "LIBRARY" \/ f \in crossed',
         ReceiptsFit(r),
         \A g : g # f => (IsReceipt(g)' <=> IsReceipt(g)),
         \A g : g # f => (InTrash(g)' <=> InTrash(g)),
         f \notin crossed' => ~IsReceipt(f)' /\ ~InTrash(f)',
         \A q \in Open \ {r} : f \in Decided(q) => f \in crossed'
  PROVE  AInv'
<1> DEFINE row == Product(owned, list)
           written == {id}
           removed == {}
           moved == {f}
<1>1. /\ row \in DocumentRow /\ row.state = "live" /\ row.owned = owned /\ row.pages = list
  BY DEF Product, DocumentRow
<1>2. /\ DOMAIN documents' = DOMAIN documents \cup {id}
      /\ documents'[id] = row
      /\ \A x \in DOMAIN documents : documents'[x] = documents[x]
      /\ \A g : g # f => Readers(g)' = Readers(g)
      /\ Readers(f)' = Readers(f) \cup {id}
  BY NewDocument
<1> HIDE DEF row
<1>3. DocumentWell(r, id)
  BY <1>1, <1>2 DEF DocumentWell
<1>4. \A g : g \notin moved => Untouched(g)
  BY <1>2 DEF Untouched
<1>5. \A g \in moved : g \in DOMAIN files' \ crossed' => Placed(g)'
  <2>1. Readers(f)' # {}
    BY <1>2
  <2>2. f \notin crossed' => Placed(f)'
    BY <2>1 DEF Placed
  <2> QED BY <2>2
<1>6. /\ DOMAIN documents' = (DOMAIN documents \ removed) \cup written /\ removed \cap written = {}
      /\ \A d \in DOMAIN documents' \ written : documents'[d] = documents[d]
      /\ \A d \in written : DocumentWell(r, d)
      /\ \A q \in Open \ {r} : req[q].locks \cap DOMAIN documents \cap (written \cup removed) = {}
      /\ \A q \in Open \ {r} : Decided(q) \cap moved \subseteq crossed'
      /\ DOMAIN files' \ DOMAIN files \subseteq moved
  BY <1>2, <1>3
<1> HIDE DEF written, removed, moved
<1> QED BY <1>4, <1>5, <1>6, CommitFits

(* A step makes a receipt of a file.                                        *)
LEMMA MakesReceiptFits ==
  ASSUME AInv, DOMAIN req = Requests, NEW r \in Requests, ~Over(r), NEW s, Goto(r, s),
         s.at \in {"done", "dropping"}, crossed \subseteq crossed',
         FilesGoOn(r), DOMAIN files \subseteq DOMAIN files', UNCHANGED documents,
         NEW f, f \in DOMAIN files', DOMAIN files' \ DOMAIN files \subseteq {f},
         ~IsReceipt(f), receipts' = WithRow(receipts, r, f),
         \A g : g # f => (InTrash(g)' <=> InTrash(g)),
         f \notin crossed' => Readers(f) = {} /\ ~InTrash(f)',
         \A q \in Open \ {r} : f \in Decided(q) => f \in crossed'
  PROVE  AInv'
<1> DEFINE written == {}
           removed == {}
           moved == {f}
<1>1. r \notin DOMAIN receipts /\ r \notin DOMAIN documents
  BY DEF AInv, RowsFit, Made
<1>2. /\ DOMAIN receipts' = DOMAIN receipts \cup {r} /\ receipts'[r] = f
      /\ \A x \in DOMAIN receipts : receipts'[x] = receipts[x]
  BY <1>1 DEF WithRow
<1>3. ReceiptsFit(r)
  <2>1. \A x \in DOMAIN receipts : receipts[x] # f
    BY DEF IsReceipt
  <2> QED BY <1>1, <1>2, <2>1 DEF ReceiptsFit, AInv, RowsFit
<1>4. \A g : Readers(g)' = Readers(g)
  BY DEF Readers, FilesOf
<1>5. \A g : IsReceipt(g)' <=> IsReceipt(g) \/ g = f
  BY <1>1, <1>2 DEF IsReceipt
<1>6. \A g : g \notin moved => Untouched(g)
  BY <1>4, <1>5 DEF Untouched
<1>7. \A g \in moved : g \in DOMAIN files' \ crossed' => Placed(g)'
  <2>1. f \notin crossed' => Placed(f)'
    BY <1>4, <1>5 DEF Placed
  <2> QED BY <2>1
<1>8. /\ DOMAIN documents' = (DOMAIN documents \ removed) \cup written /\ removed \cap written = {}
      /\ \A d \in DOMAIN documents' \ written : documents'[d] = documents[d]
      /\ \A d \in written : DocumentWell(r, d)
      /\ \A q \in Open \ {r} : req[q].locks \cap DOMAIN documents \cap (written \cup removed) = {}
      /\ \A q \in Open \ {r} : Decided(q) \cap moved \subseteq crossed'
      /\ DOMAIN files' \ DOMAIN files \subseteq moved
  OBVIOUS
<1> HIDE DEF written, removed, moved
<1> QED BY <1>3, <1>6, <1>7, <1>8, CommitFits

\* A transaction that brings bytes commits.
LEMMA BytesCommit ==
  ASSUME IInv, AInv, NEW r \in Requests, CommitBytes(r), NEW f, f = req[r].file
  PROVE  /\ Brings(r) /\ r \in Open /\ ~Over(r) /\ DOMAIN req = Requests
         /\ r \notin DOMAIN documents /\ r \notin DOMAIN receipts
         /\ req[r].created \/ f \in DOMAIN files
         /\ PagesForFile(f, req[r].row, r) \in Seq(Entries)
         /\ PagesForFile(f, req[r].row, r) # <<>>
         /\ FilesOf(PagesForFile(f, req[r].row, r)) = {f}
         /\ Bys(PagesForFile(f, req[r].row, r)) = {r}
         /\ \A q \in Open \ {r} : f \in Decided(q) => f \in crossed
         /\ \A q \in Open \ {r} : req[r].gone # "none" /\ req[r].gone \in Decided(q) => req[r].gone \in crossed
         /\ \E s : Goto(r, s) /\ s.at \in {"done", "dropping"}
<1>1. Brings(r) /\ r \in Open /\ ~Over(r) /\ DOMAIN req = Requests /\ (req[r].created \/ f \in DOMAIN files)
  BY DEF CommitBytes, Brings, Open, Over, At, IInv
<1>2. r \notin DOMAIN documents /\ r \notin DOMAIN receipts
  BY <1>1 DEF AInv, RowsFit, Made
<1>3. BringFits(r)
  BY DEF AInv, RequestFits
<1>4. f \in FileIds /\ req[r].row \in FileRow /\ f # "none" /\ req[r].subject = {f, req[r].gone} \ {"none"}
  BY <1>1, <1>3 DEF BringFits
<1>5. \A q \in Open \ {r} : Decided(q) \cap req[r].subject \subseteq crossed
  BY <1>1, DecidedApart
<1>6. \E s : Goto(r, s) /\ s.at \in {"done", "dropping"}
  <2> DEFINE s == [at |-> IF req[r].created \/ req[r].kind = "ingest" THEN "done" ELSE "dropping"]
  <2>1. Goto(r, s) /\ s.at \in {"done", "dropping"}
    BY DEF CommitBytes, AfterCommit
  <2> HIDE DEF s
  <2> QED BY <2>1
<1> QED BY <1>1, <1>2, <1>4, <1>5, <1>6, ArrivingEffect

\* Bytes become a document or a receipt.
LEMMA BytesMakeFits ==
  ASSUME IInv, AInv, NEW r \in Requests, CommitBytes(r),
         req[r].kind \in {"document", "ingest", "receipt"}
  PROVE  AInv'
<1> DEFINE t == req[r]
<1>1. PICK f : f = t.file
  OBVIOUS
<1>2. PICK arrived : arrived = Arrived(t)
  OBVIOUS
<1> DEFINE list == PagesForFile(f, t.row, r)
<1>3. /\ Brings(r) /\ r \in Open /\ ~Over(r) /\ DOMAIN req = Requests
      /\ r \notin DOMAIN documents /\ r \notin DOMAIN receipts
      /\ t.created \/ f \in DOMAIN files
      /\ list \in Seq(Entries) /\ list # <<>> /\ FilesOf(list) = {f} /\ Bys(list) = {r}
      /\ \A q \in Open \ {r} : f \in Decided(q) => f \in crossed
      /\ \E s : Goto(r, s) /\ s.at \in {"done", "dropping"}
  BY <1>1, BytesCommit
<1>4. PICK s : Goto(r, s) /\ s.at \in {"done", "dropping"}
  BY <1>3
<1>5. /\ DOMAIN arrived = DOMAIN files \cup {f}
      /\ f \notin DOMAIN files => f = r
      /\ \A g \in DOMAIN files \ {f} : arrived[g] = files[g]
      /\ f \in DOMAIN files => /\ arrived[f].content = files[f].content
                               /\ arrived[f].origin = files[f].origin
      /\ f \notin crossed => Readers(f) = {} /\ (IsReceipt(f) \/ arrived[f].trashed = "no")
      /\ t.kind = "ingest" => IsReceipt(f) \/ arrived[f].origin = "LIBRARY" \/ f \in crossed
  <2>1. Brings(r) /\ (t.created \/ t.file \in DOMAIN files)
    BY <1>1, <1>3
  <2> HIDE DEF list
  <2> QED BY <1>1, <1>2, <2>1, ArrivedFacts
<1>6. /\ files' = arrived /\ UNCHANGED crossed /\ ~IsReceipt(f)
      /\ t.kind \in {"document", "ingest"} =>
           /\ documents' = WithRow(documents, r, Product(t.kind = "document", list))
           /\ UNCHANGED receipts
      /\ t.kind = "receipt" => receipts' = WithRow(receipts, r, f) /\ UNCHANGED documents
  BY <1>1, <1>2 DEF CommitBytes, Arrived
<1> HIDE DEF list
<1>7. FilesGoOn(r) /\ DOMAIN files \subseteq DOMAIN files' /\ f \in DOMAIN files' /\ DOMAIN files' \ DOMAIN files \subseteq {f}
  BY <1>3, <1>5, <1>6 DEF FilesGoOn, Fresh
<1>8. \A g : g # f => (InTrash(g)' <=> InTrash(g))
  BY <1>5, <1>6 DEF InTrash
<1>9. f \notin crossed => ~InTrash(f)' /\ Readers(f) = {}
  BY <1>5, <1>6 DEF InTrash
<1>10. CASE t.kind \in {"document", "ingest"}
  <2> DEFINE owned == t.kind = "document"
  <2>1. ReceiptsFit(r)
    <3>1. DOMAIN documents' \subseteq DOMAIN documents \cup {r}
      BY <1>6, <1>10 DEF WithRow
    <3> QED BY <1>3, <1>6, <1>7, <1>10, <3>1, SameReceiptsFit
  <2>2. \A g : IsReceipt(g)' <=> IsReceipt(g)
    BY <1>6, <1>10 DEF IsReceipt
  <2>3. owned \/ files'[f].origin = "LIBRARY" \/ f \in crossed'
    BY <1>5, <1>6, <1>10
  <2>4. PICK mine : mine = owned
    OBVIOUS
  <2>5. mine \in BOOLEAN
    BY <2>4
  <2>6. documents' = WithRow(documents, r, Product(mine, list))
    BY <2>4, <1>6, <1>10
  <2>7. mine \/ files'[f].origin = "LIBRARY" \/ f \in crossed'
    BY <2>3, <2>4
  <2> HIDE DEF owned
  <2> QED BY <1>3, <1>4, <1>6, <1>7, <1>8, <1>9, <2>1, <2>2, <2>5, <2>6, <2>7, MakesDocumentFits
<1>11. CASE t.kind = "receipt"
  BY <1>3, <1>4, <1>6, <1>7, <1>8, <1>9, <1>11, MakesReceiptFits
<1> QED BY <1>10, <1>11

\* A file is added to the pages of a document.
LEMMA BytesAddFits ==
  ASSUME IInv, AInv, NEW r \in Requests, CommitBytes(r), req[r].kind = "add"
  PROVE  AInv'
<1> DEFINE t == req[r]
           arriving == PagesForFile(t.file, t.row, r)
<1>1. PICK f, d : f = t.file /\ d = t.doc
  OBVIOUS
<1>22. PICK arrived : arrived = Arrived(t)
  OBVIOUS
<1>2. PICK old : old = documents[d].pages
  OBVIOUS
<1>3. PICK list : list = IF t.held = <<>> THEN old \o arriving ELSE arriving \o old
  OBVIOUS
<1>4. /\ Brings(r) /\ r \in Open /\ ~Over(r) /\ DOMAIN req = Requests
      /\ r \notin DOMAIN documents /\ r \notin DOMAIN receipts
      /\ t.created \/ f \in DOMAIN files
      /\ arriving \in Seq(Entries) /\ arriving # <<>> /\ FilesOf(arriving) = {f} /\ Bys(arriving) = {r}
      /\ \A q \in Open \ {r} : f \in Decided(q) => f \in crossed
      /\ \E s : Goto(r, s) /\ s.at \in {"done", "dropping"}
  BY <1>1, BytesCommit
<1>5. PICK s : Goto(r, s) /\ s.at \in {"done", "dropping"}
  BY <1>4
<1>6. /\ DOMAIN arrived = DOMAIN files \cup {f}
      /\ f \notin DOMAIN files => f = r
      /\ \A g \in DOMAIN files \ {f} : arrived[g] = files[g]
      /\ f \in DOMAIN files => /\ arrived[f].content = files[f].content
                               /\ arrived[f].origin = files[f].origin
      /\ f \notin crossed => Readers(f) = {} /\ (IsReceipt(f) \/ arrived[f].trashed = "no")
  <2>1. Brings(r) /\ (t.created \/ t.file \in DOMAIN files)
    BY <1>1, <1>4
  <2>2. f = req[r].file
    BY <1>1
  <2> HIDE DEF arriving
  <2> QED BY <1>22, <2>1, <2>2, ArrivedFacts
<1>7. /\ files' = arrived /\ ~IsReceipt(f) /\ UNCHANGED receipts
      /\ d \in DOMAIN documents /\ Unlocked({d})
      /\ documents' = Write(documents, Only(d, list))
      /\ Strands(d, arriving)
  BY <1>1, <1>2, <1>3, <1>22 DEF CommitBytes, Arrived
<1> HIDE DEF arriving
<1>8. FilesGoOn(r) /\ DOMAIN files \subseteq DOMAIN files' /\ f \in DOMAIN files' /\ DOMAIN files' \ DOMAIN files \subseteq {f}
  BY <1>4, <1>6, <1>7 DEF FilesGoOn, Fresh
<1>9. /\ documents[d] \in DocumentRow /\ old \in Seq(Entries) /\ FilesOf(old) \subseteq DOMAIN files
      /\ \A b \in Bys(old) : Made(b)
  BY <1>2, <1>7 DEF AInv, RowsFit, DocumentRow
<1>10. list \in Seq(Entries) /\ FilesOf(list) = FilesOf(old) \cup {f} /\ Bys(list) = Bys(old) \cup {r}
  <2>1. CASE t.held = <<>>
    <3>1. list = old \o arriving
      BY <1>3, <2>1
    <3> QED BY <3>1, <1>4, <1>9, ConcatEffect
  <2>2. CASE t.held # <<>>
    <3>1. list = arriving \o old
      BY <1>3, <2>2
    <3> QED BY <3>1, <1>4, <1>9, ConcatEffect
  <2> QED BY <2>1, <2>2
<1>11. DOMAIN Only(d, list) = {d} /\ Only(d, list)[d] = list
  BY DEF Only
<1>12. /\ DOMAIN documents' = DOMAIN documents
       /\ \A o \in DOMAIN documents \ {d} : documents'[o] = documents[o]
       /\ documents'[d].state = documents[d].state /\ documents'[d].owned = documents[d].owned
       /\ documents'[d].pages = list /\ documents'[d] \in DocumentRow
  <2>1. \A o \in DOMAIN documents : documents[o] \in DocumentRow
    BY DEF AInv, RowsFit
  <2> QED BY <1>7, <1>10, <1>11, <2>1, WriteEffect
<1>13. /\ crossed \subseteq crossed'
       /\ documents[d].state = "merged" => f \in crossed'
  BY <1>4, <1>7 DEF Strands
<1>14. DocumentWell(r, d)
  <2>1. FilesOf(documents'[d].pages) \subseteq DOMAIN files'
    BY <1>8, <1>9, <1>10, <1>12
  <2>2. ASSUME documents'[d].state = "live"
        PROVE  /\ list # <<>>
               /\ documents[d].owned \/ \E g \in FilesOf(list) : files'[g].origin = "LIBRARY" \/ g \in crossed'
    <3>1. list # <<>>
      BY <1>10, EmptyList
    <3>2. documents[d].owned \/ \E g \in FilesOf(old) : files[g].origin = "LIBRARY" \/ g \in crossed
      BY <2>2, <1>2, <1>7, <1>12 DEF AInv, ReadersRemain, Live
    <3>3. \A g \in FilesOf(old) : files'[g].origin = files[g].origin
      BY <1>8, <1>9 DEF FilesGoOn
    <3> QED BY <3>1, <3>2, <3>3, <1>10, <1>13
  <2>3. ASSUME documents'[d].state = "merged"
        PROVE  FilesOf(list) \subseteq crossed' /\ Bys(list) \subseteq {r} \cup Bys(documents[d].pages)
    <3>1. FilesOf(old) \subseteq crossed
      BY <2>3, <1>2, <1>7, <1>12 DEF AInv, OnePlace
    <3> QED BY <2>3, <3>1, <1>2, <1>10, <1>12, <1>13
  <2>4. documents[d].state = documents'[d].state
    BY <1>12
  <2> QED BY <1>7, <1>9, <1>10, <1>12, <2>1, <2>2, <2>3, <2>4 DEF DocumentWell
<1>15. \A g : \A o : o \in Readers(g)' <=> o \in Readers(g) \/ (o = d /\ g = f)
  <2>1. \A o \in DOMAIN documents' : FilesOf(documents[o].pages)' = FilesOf(documents'[o].pages)
    BY DEF FilesOf
  <2> QED BY <2>1, <1>2, <1>7, <1>10, <1>12 DEF Readers
<1>16. ASSUME NEW g, g # f
       PROVE  Untouched(g)
  <2>1. Readers(g)' = Readers(g)
    <3> DEFINE now == Readers(g)'
    <3>1. \A o : o \in now <=> o \in Readers(g)
      BY <1>15, <1>16
    <3> HIDE DEF now
    <3>2. now = Readers(g)
      BY <3>1
    <3> QED BY <3>2 DEF now
  <2>2. IsReceipt(g)' <=> IsReceipt(g)
    BY <1>7 DEF IsReceipt
  <2>3. InTrash(g)' <=> InTrash(g)
    BY <1>6, <1>7, <1>16 DEF InTrash
  <2> QED BY <2>1, <2>2, <2>3 DEF Untouched
<1>17. f \in DOMAIN files' \ crossed' => Placed(f)'
  <2> SUFFICES ASSUME f \notin crossed'
               PROVE  Placed(f)'
    OBVIOUS
  <2>1. Readers(f)' # {}
    BY <1>15
  <2>2. ~IsReceipt(f)'
    BY <1>7 DEF IsReceipt
  <2>3. ~InTrash(f)'
    BY <1>6, <1>7, <1>13 DEF InTrash
  <2> QED BY <2>1, <2>2, <2>3 DEF Placed
<1>18. ReceiptsFit(r)
  BY <1>4, <1>7, <1>8, <1>12, SameReceiptsFit
<1> DEFINE written == {d}
           removed == {}
           moved == {f}
<1>19. /\ DOMAIN documents' = (DOMAIN documents \ removed) \cup written /\ removed \cap written = {}
       /\ \A o \in DOMAIN documents' \ written : documents'[o] = documents[o]
       /\ \A o \in written : DocumentWell(r, o)
       /\ \A g : g \notin moved => Untouched(g)
       /\ \A g \in moved : g \in DOMAIN files' \ crossed' => Placed(g)'
       /\ DOMAIN files' \ DOMAIN files \subseteq moved
  BY <1>7, <1>8, <1>12, <1>14, <1>16, <1>17
<1>20. \A q \in Open \ {r} : req[q].locks \cap DOMAIN documents \cap (written \cup removed) = {}
  BY <1>7, NobodyHolds
<1>21. \A q \in Open \ {r} : Decided(q) \cap moved \subseteq crossed'
  BY <1>4, <1>13
<1> HIDE DEF written, removed, moved
<1> QED BY <1>4, <1>5, <1>8, <1>13, <1>18, <1>19, <1>20, <1>21, CommitFits

\* The documents of a replacement are live, and have the pages it has in hand.
LEMMA HeldAreLive ==
  ASSUME AInv, NEW r \in Requests, Brings(r), Unchanged(req[r].held), NEW o \in DOMAIN req[r].held
  PROVE  /\ o \in DOMAIN documents /\ documents[o].pages = req[r].held[o]
         /\ documents[o] \in DocumentRow /\ documents[o].state = "live"
         /\ req[r].held[o] \in Seq(Entries)
         /\ FilesOf(req[r].held[o]) \subseteq DOMAIN files
         /\ \A b \in Bys(req[r].held[o]) : Made(b)
<1> DEFINE list == req[r].held[o]
<1>1. o \in DOMAIN documents /\ documents[o].pages = list
  BY DEF Unchanged
<1>2. ListFits(o, list)
  BY DEF AInv, RequestFits, ListsFit, HasLists
<1>3. /\ documents[o] \in DocumentRow /\ FilesOf(list) \subseteq DOMAIN files /\ list \in Seq(Entries)
  BY <1>1 DEF AInv, RowsFit, DocumentRow
<1> HIDE DEF list
<1>4. Bys(list) # {}
  <2>1. list # <<>> /\ EntriesOf(list) # {}
    BY <1>2, <1>3, EmptyList DEF ListFits
  <2> QED BY <2>1, OfEntries
<1>5. documents[o].state = "live"
  <2>1. documents[o].state # "merged"
    BY <1>1, <1>2, <1>4 DEF ListFits
  <2> QED BY <2>1, <1>3 DEF DocumentRow
<1> QED BY <1>1, <1>2, <1>3, <1>5 DEF ListFits, list

\* A file of some documents is replaced by another one.
LEMMA BytesReplaceFits ==
  ASSUME IInv, AInv, NEW r \in Requests, CommitBytes(r), req[r].kind = "replace"
  PROVE  AInv'
<1> DEFINE t == req[r]
           arriving == PagesForFile(t.file, t.row, r)
<1>1. PICK f : f = t.file
  OBVIOUS
<1>2. PICK gone : gone = t.gone
  OBVIOUS
<1>3. PICK arrived : arrived = Arrived(t)
  OBVIOUS
<1>4. PICK held : held = t.held
  OBVIOUS
<1>5. PICK new : new = arriving
  OBVIOUS
<1>6. PICK lists : lists = [d \in DOMAIN held |-> WithFileReplaced(held[d], gone, new)]
  OBVIOUS
<1>7. /\ Brings(r) /\ r \in Open /\ ~Over(r) /\ DOMAIN req = Requests
      /\ t.created \/ f \in DOMAIN files
      /\ new \in Seq(Entries) /\ new # <<>> /\ FilesOf(new) = {f} /\ Bys(new) = {r}
      /\ \A q \in Open \ {r} : f \in Decided(q) => f \in crossed
      /\ \A q \in Open \ {r} : gone # "none" /\ gone \in Decided(q) => gone \in crossed
      /\ \E s : Goto(r, s) /\ s.at \in {"done", "dropping"}
  BY <1>1, <1>2, <1>5, BytesCommit
<1>8. PICK s : Goto(r, s) /\ s.at \in {"done", "dropping"}
  BY <1>7
<1>9. /\ DOMAIN arrived = DOMAIN files \cup {f} /\ f # gone
      /\ f \notin DOMAIN files => f = r
      /\ arrived[f] \in FileRow
      /\ \A g \in DOMAIN files \ {f} : arrived[g] = files[g]
      /\ f \in DOMAIN files => /\ arrived[f].content = files[f].content
                               /\ arrived[f].origin = files[f].origin
      /\ f \notin crossed => Readers(f) = {} /\ (IsReceipt(f) \/ arrived[f].trashed = "no")
  <2>1. Brings(r) /\ (t.created \/ t.file \in DOMAIN files)
    BY <1>1, <1>7
  <2>2. f = req[r].file /\ gone = req[r].gone
    BY <1>1, <1>2
  <2> HIDE DEF arriving
  <2> QED BY <1>3, <2>1, <2>2, ArrivedFacts
<1>10. /\ ~IsReceipt(f) /\ UNCHANGED <<receipts, crossed>>
       /\ Unlocked(DOMAIN held) /\ Unchanged(held)
       /\ documents' = Write(documents, lists)
       /\ files' = IF Readers(gone) \subseteq DOMAIN held THEN Trashed(arrived, {gone}, "DOCUMENT") ELSE arrived
  BY <1>1, <1>2, <1>3, <1>4, <1>5, <1>6 DEF CommitBytes, Arrived
<1>11. /\ t.doc \in DOMAIN held /\ gone \in FilesOf(held[t.doc]) /\ gone # "none"
       /\ \A o \in DOMAIN held : HasReaders(o, WithoutFile(held[o], gone))
  <2>1. BytesFit(r)
    BY DEF AInv, RequestFits
  <2> QED BY <2>1, <1>2, <1>4, <1>7 DEF BytesFit
<1> HIDE DEF arriving
<1>12. ASSUME NEW o \in DOMAIN held
       PROVE  /\ o \in DOMAIN documents /\ documents[o].pages = held[o]
              /\ documents[o] \in DocumentRow /\ documents[o].state = "live"
              /\ held[o] \in Seq(Entries)
              /\ FilesOf(held[o]) \subseteq DOMAIN files
              /\ \A b \in Bys(held[o]) : Made(b)
  BY <1>4, <1>7, <1>10, HeldAreLive
<1>13. PICK d : d = t.doc
  OBVIOUS
<1>14. /\ d \in DOMAIN documents /\ d \in Readers(gone) /\ gone \in DOMAIN files
  BY <1>11, <1>12, <1>13 DEF Readers
<1>15. DOMAIN lists = DOMAIN held
  BY <1>6
<1>16. ASSUME NEW o \in DOMAIN held
       PROVE  /\ lists[o] \in Seq(Entries)
              /\ FilesOf(lists[o]) = IF gone \in FilesOf(held[o])
                                     THEN (FilesOf(held[o]) \ {gone}) \cup {f} ELSE FilesOf(held[o])
              /\ Bys(lists[o]) \subseteq Bys(held[o]) \cup {r}
  <2>1. lists[o] = WithFileReplaced(held[o], gone, new)
    BY <1>6
  <2> QED BY <1>7, <1>12, <2>1, ReplacedEffect
<1>17. /\ DOMAIN documents' = DOMAIN documents
       /\ \A o \in DOMAIN documents \ DOMAIN held : documents'[o] = documents[o]
       /\ \A o \in DOMAIN held :
            /\ documents'[o].state = documents[o].state /\ documents'[o].owned = documents[o].owned
            /\ documents'[o].pages = lists[o] /\ documents'[o] \in DocumentRow
  <2>1. \A o \in DOMAIN documents : documents[o] \in DocumentRow
    BY DEF AInv, RowsFit
  <2>2. DOMAIN held \subseteq DOMAIN documents
    BY <1>12
  <2>3. /\ DOMAIN documents' = DOMAIN documents
        /\ \A o \in DOMAIN documents \ DOMAIN lists : documents'[o] = documents[o]
        /\ \A o \in DOMAIN documents \cap DOMAIN lists :
             /\ documents'[o].state = documents[o].state /\ documents'[o].owned = documents[o].owned
             /\ documents'[o].pages = lists[o]
             /\ lists[o] \in Seq(Entries) => documents'[o] \in DocumentRow
    BY <1>10, <2>1, WriteEffect
  <2> QED BY <1>15, <1>16, <2>2, <2>3
<1>18. /\ DOMAIN files' = DOMAIN files \cup {f}
       /\ \A g \in DOMAIN files \ {f, gone} : files'[g] = files[g]
       /\ files'[f] = arrived[f]
       /\ files'[gone].content = files[gone].content /\ files'[gone].origin = files[gone].origin
       /\ files'[gone].trashed =
            IF Readers(gone) \subseteq DOMAIN held THEN "DOCUMENT" ELSE files[gone].trashed
  <2> DEFINE row == [files[gone] EXCEPT !.trashed = "DOCUMENT"]
             all == Readers(gone) \subseteq DOMAIN held
  <2>1. files[gone] \in FileRow /\ arrived[gone] = files[gone]
    BY <1>9, <1>14 DEF IInv, OneRow
  <2>2. row.content = files[gone].content /\ row.origin = files[gone].origin /\ row.trashed = "DOCUMENT"
    BY <2>1 DEF FileRow
  <2>3. /\ DOMAIN files' = DOMAIN arrived
        /\ \A g \in DOMAIN arrived \ {gone} : files'[g] = arrived[g]
        /\ files'[gone] = IF all THEN row ELSE files[gone]
    <3>1. CASE all
      <4>1. files' = Trashed(arrived, {gone}, "DOCUMENT")
        BY <3>1, <1>10
      <4> QED BY <3>1, <4>1, <2>1, <1>9, <1>14 DEF Trashed
    <3>2. CASE ~all
      <4>1. files' = arrived
        BY <3>2, <1>10
      <4> QED BY <3>2, <4>1, <2>1
    <3> QED BY <3>1, <3>2
  <2> HIDE DEF row, all
  <2>4. files'[gone].trashed = IF all THEN "DOCUMENT" ELSE files[gone].trashed
    BY <2>2, <2>3
  <2> QED BY <1>9, <2>2, <2>3, <2>4 DEF all
<1>19. FilesGoOn(r) /\ DOMAIN files \subseteq DOMAIN files' /\ f \in DOMAIN files' /\ DOMAIN files' \ DOMAIN files \subseteq {f}
  <2>1. \A g \in DOMAIN files : files'[g].content = files[g].content /\ files'[g].origin = files[g].origin
    BY <1>9, <1>18
  <2> QED BY <2>1, <1>7, <1>9, <1>18 DEF FilesGoOn, Fresh
<1>20. ASSUME NEW o \in DOMAIN held
       PROVE  DocumentWell(r, o)
  <2>1. /\ FilesOf(lists[o]) \subseteq DOMAIN files' /\ FilesOf(held[o]) \ {gone} \subseteq FilesOf(lists[o])
    <3>1. FilesOf(held[o]) \subseteq DOMAIN files' /\ f \in DOMAIN files'
      BY <1>12, <1>19
    <3>2. \/ FilesOf(lists[o]) = (FilesOf(held[o]) \ {gone}) \cup {f}
          \/ FilesOf(lists[o]) = FilesOf(held[o])
      BY <1>16
    <3> QED BY <3>1, <3>2
  <2>2. lists[o] # <<>>
    <3>1. FilesOf(held[o]) # {}
      <4>1. held[o] # <<>>
        BY <1>4, <1>7 DEF AInv, RequestFits, ListsFit, HasLists, ListFits
      <4> QED BY <4>1, <1>12, EmptyList
    <3>2. FilesOf(lists[o]) # {}
      BY <3>1, <1>16
    <3> QED BY <3>2, <1>16, EmptyList
  <2>3. documents[o].owned \/ \E g \in FilesOf(lists[o]) : files'[g].origin = "LIBRARY"
    <3>1. FilesOf(WithoutFile(held[o], gone)) = FilesOf(held[o]) \ {gone}
      BY <1>12, WithoutFileEffect
    <3>2. documents[o].owned \/ \E g \in FilesOf(held[o]) \ {gone} : files[g].origin = "LIBRARY"
      BY <1>11, <1>12, <3>1 DEF HasReaders
    <3>3. \A g \in FilesOf(held[o]) : files'[g].origin = files[g].origin
      BY <1>12, <1>19 DEF FilesGoOn
    <3> QED BY <2>1, <3>2, <3>3
  <2>4. \A b \in Bys(lists[o]) : Made(b) \/ b = r
    BY <1>12, <1>16
  <2>5. o \in DOMAIN documents /\ documents'[o].state = "live" /\ documents'[o].owned = documents[o].owned
        /\ documents'[o].pages = lists[o] /\ documents'[o] \in DocumentRow
    BY <1>12, <1>17
  <2> QED BY <2>1, <2>2, <2>3, <2>4, <2>5 DEF DocumentWell
<1>21. \A o \in DOMAIN documents' : FilesOf(documents[o].pages)' = FilesOf(documents'[o].pages)
  BY DEF FilesOf
<1>22. /\ \A o \in DOMAIN held : FilesOf(documents[o].pages)' =
               IF gone \in FilesOf(documents[o].pages) THEN (FilesOf(documents[o].pages) \ {gone}) \cup {f}
               ELSE FilesOf(documents[o].pages)
       /\ \A o \in DOMAIN documents \ DOMAIN held : FilesOf(documents[o].pages)' = FilesOf(documents[o].pages)
  BY <1>12, <1>16, <1>17, <1>21
<1>23. \A g : \A o : o \in Readers(g)' <=> o \in DOMAIN documents /\ g \in FilesOf(documents[o].pages)'
  BY <1>17 DEF Readers
<1>24. ASSUME NEW g, g \notin {f, gone}
       PROVE  Untouched(g)
  <2>1. Readers(g)' = Readers(g)
    <3> DEFINE now == Readers(g)'
    <3>1. \A o : o \in now <=> o \in Readers(g)
      BY <1>22, <1>23, <1>24 DEF Readers
    <3> HIDE DEF now
    <3>2. now = Readers(g)
      BY <3>1
    <3> QED BY <3>2 DEF now
  <2>2. IsReceipt(g)' <=> IsReceipt(g)
    BY <1>10 DEF IsReceipt
  <2>3. InTrash(g)' <=> InTrash(g)
    BY <1>18, <1>24 DEF InTrash
  <2> QED BY <2>1, <2>2, <2>3 DEF Untouched
<1>25. f \in DOMAIN files' \ crossed' => Placed(f)'
  <2> SUFFICES ASSUME f \notin crossed'
               PROVE  Placed(f)'
    OBVIOUS
  <2>1. d \in Readers(f)'
    BY <1>11, <1>12, <1>13, <1>14, <1>22, <1>23
  <2>2. ~IsReceipt(f)'
    BY <1>10 DEF IsReceipt
  <2>3. ~InTrash(f)'
    BY <1>9, <1>10, <1>18 DEF InTrash
  <2> QED BY <2>1, <2>2, <2>3 DEF Placed
<1>26. gone \in DOMAIN files' \ crossed' => Placed(gone)'
  <2> SUFFICES ASSUME gone \notin crossed'
               PROVE  Placed(gone)'
    OBVIOUS
  <2>1. ~IsReceipt(gone) /\ ~InTrash(gone)
    BY <1>10, <1>14 DEF AInv, OnePlace, HasHome
  <2>2. ~IsReceipt(gone)'
    BY <2>1, <1>10 DEF IsReceipt
  <2>3. \A o : o \in Readers(gone)' <=> o \in Readers(gone) \ DOMAIN held
    <3>1. \A o \in DOMAIN held : gone \notin FilesOf(documents[o].pages)'
      BY <1>9, <1>22
    <3>2. \A o \in DOMAIN documents \ DOMAIN held :
             gone \in FilesOf(documents[o].pages)' <=> gone \in FilesOf(documents[o].pages)
      BY <1>22
    <3> QED BY <3>1, <3>2, <1>23 DEF Readers
  <2>4. CASE Readers(gone) \subseteq DOMAIN held
    <3>1. Readers(gone)' = {}
      BY <2>3, <2>4
    <3>2. InTrash(gone)'
      BY <2>4, <1>14, <1>18 DEF InTrash
    <3> QED BY <2>2, <3>1, <3>2 DEF Placed, HasHome
  <2>5. CASE ~(Readers(gone) \subseteq DOMAIN held)
    <3>1. Readers(gone)' # {}
      BY <2>3, <2>5
    <3>2. ~InTrash(gone)'
      BY <2>1, <2>5, <1>14, <1>18 DEF InTrash
    <3> QED BY <2>2, <3>1, <3>2 DEF Placed
  <2> QED BY <2>4, <2>5
<1>27. ReceiptsFit(r)
  BY <1>7, <1>10, <1>19, <1>17, SameReceiptsFit
<1> DEFINE written == DOMAIN held
           removed == {}
           moved == {f, gone}
<1>28. /\ DOMAIN documents' = (DOMAIN documents \ removed) \cup written /\ removed \cap written = {}
       /\ \A o \in DOMAIN documents' \ written : documents'[o] = documents[o]
       /\ \A o \in written : DocumentWell(r, o)
       /\ \A g : g \notin moved => Untouched(g)
       /\ \A g \in moved : g \in DOMAIN files' \ crossed' => Placed(g)'
       /\ DOMAIN files' \ DOMAIN files \subseteq moved
  <2>1. DOMAIN held \subseteq DOMAIN documents
    BY <1>12
  <2> QED BY <2>1, <1>19, <1>17, <1>20, <1>24, <1>25, <1>26
<1>29. \A q \in Open \ {r} : req[q].locks \cap DOMAIN documents \cap (written \cup removed) = {}
  BY <1>10, NobodyHolds
<1>30. \A q \in Open \ {r} : Decided(q) \cap moved \subseteq crossed'
  BY <1>7, <1>10, <1>11
<1>31. crossed \subseteq crossed'
  BY <1>10
<1> HIDE DEF written, removed, moved
<1> QED BY <1>7, <1>8, <1>19, <1>27, <1>28, <1>29, <1>30, <1>31, CommitFits

\* Sets with the same elements are one set.
LEMMA SameSet ==
  ASSUME NEW a, NEW b, \A e : e \in a <=> e \in b
  PROVE  a = b
OBVIOUS

\* Trashing moves rows to the trash, and nothing else of them.
LEMMA TrashedEffect ==
  ASSUME NEW table, \A f \in DOMAIN table : table[f] \in FileRow, NEW fs, NEW kind
  PROVE  /\ DOMAIN Trashed(table, fs, kind) = DOMAIN table
         /\ \A f \in DOMAIN table \ fs : Trashed(table, fs, kind)[f] = table[f]
         /\ \A f \in DOMAIN table :
              /\ Trashed(table, fs, kind)[f].content = table[f].content
              /\ Trashed(table, fs, kind)[f].origin = table[f].origin
         /\ \A f \in DOMAIN table \cap fs : Trashed(table, fs, kind)[f].trashed = kind
<1> DEFINE new == Trashed(table, fs, kind)
<1>1. DOMAIN new = DOMAIN table
      /\ \A f \in DOMAIN table : new[f] = IF f \in fs THEN [table[f] EXCEPT !.trashed = kind] ELSE table[f]
  BY DEF Trashed
<1> HIDE DEF new
<1>2. ASSUME NEW f \in DOMAIN table
      PROVE  /\ [table[f] EXCEPT !.trashed = kind].content = table[f].content
             /\ [table[f] EXCEPT !.trashed = kind].origin = table[f].origin
             /\ [table[f] EXCEPT !.trashed = kind].trashed = kind
  BY DEF FileRow
<1>3. \A f \in DOMAIN table : new[f].content = table[f].content /\ new[f].origin = table[f].origin
  BY <1>1, <1>2
<1>4. \A f \in DOMAIN table \cap fs : new[f].trashed = kind
  BY <1>1, <1>2
<1> QED BY <1>1, <1>3, <1>4 DEF new

\* Pages are taken out, and what nothing reads goes to the trash.
LEMMA CommitTakingOutFits ==
  ASSUME IInv, AInv, NEW r \in Requests, CommitTakingOut(r)
  PROVE  AInv'
<1>1. PICK t : t = req[r]
  OBVIOUS
<1>2. At(r, "checked") /\ t.kind = "out" /\ r \in Open /\ ~Over(r) /\ DOMAIN req = Requests
  BY <1>1 DEF CommitTakingOut, At, Open, Over, IInv
<1>3. PICK d \in DOMAIN documents : TakingFits(t, d)
  BY <1>1, <1>2 DEF AInv, RequestFits, OutFits
<1>4. /\ t.locks = {d} /\ documents[d].state = "live"
      /\ t.subject \subseteq FilesOf(documents[d].pages) /\ t.orphaned \subseteq t.subject
      /\ t.dropped => t.list = <<>> /\ FilesOf(documents[d].pages) \subseteq t.subject
      /\ ~t.dropped =>
           /\ t.list \in Seq(Entries) /\ t.list # <<>> /\ KeepsItsReaders(d, t.list)
           /\ EntriesOf(t.list) \subseteq EntriesOf(documents[d].pages)
           /\ \A e \in EntriesOf(documents[d].pages) : e.file \in t.subject \/ e \in EntriesOf(t.list)
      /\ \A f \in t.subject \ crossed : f \in t.orphaned <=> f \notin FilesOf(t.list) /\ Readers(f) \subseteq {d}
  BY <1>3 DEF TakingFits
<1>5. (CHOOSE x \in t.locks : TRUE) = d
  BY <1>4
<1>6. /\ t.dropped => documents' = Without(documents, {d})
      /\ ~t.dropped => documents' = Write(documents, Only(d, t.list))
      /\ files' = Trashed(files, t.orphaned, "DOCUMENT") /\ Finish(r)
      /\ UNCHANGED receipts /\ UNCHANGED crossed
  BY <1>1, <1>5 DEF CommitTakingOut
<1>7. documents[d] \in DocumentRow /\ FilesOf(documents[d].pages) \subseteq DOMAIN files
      /\ \A b \in Bys(documents[d].pages) : Made(b)
  BY DEF AInv, RowsFit
<1>8. PICK s : s = [at |-> "done"]
  OBVIOUS
<1>9. Goto(r, s) /\ s.at = "done"
  BY <1>6, <1>8 DEF Finish
<1>10. /\ DOMAIN files' = DOMAIN files
       /\ \A f \in DOMAIN files \ t.orphaned : files'[f] = files[f]
       /\ \A f \in DOMAIN files : files'[f].content = files[f].content /\ files'[f].origin = files[f].origin
       /\ \A f \in DOMAIN files \cap t.orphaned : files'[f].trashed = "DOCUMENT"
  <2>1. \A f \in DOMAIN files : files[f] \in FileRow
    BY DEF IInv, OneRow
  <2> QED BY <1>6, <2>1, TrashedEffect
<1>11. FilesGoOn(r) /\ DOMAIN files \subseteq DOMAIN files' /\ DOMAIN files' \ DOMAIN files = {}
  BY <1>10 DEF FilesGoOn
<1>12. \A f : f \in FilesOf(t.list) \/ f \in t.subject <=> f \in FilesOf(documents[d].pages)
  <2>1. CASE t.dropped
    BY <2>1, <1>4 DEF FilesOf
  <2>2. CASE ~t.dropped
    BY <2>2, <1>4, OfEntries
  <2> QED BY <2>1, <2>2
<1> DEFINE written == IF t.dropped THEN {} ELSE {d}
           removed == IF t.dropped THEN {d} ELSE {}
           moved == t.subject
<1>13. /\ DOMAIN documents' = (DOMAIN documents \ removed) \cup written /\ removed \cap written = {}
       /\ \A o \in DOMAIN documents \ {d} : o \in DOMAIN documents' /\ documents'[o] = documents[o]
       /\ ~t.dropped => /\ documents'[d].state = documents[d].state /\ documents'[d].owned = documents[d].owned
                        /\ documents'[d].pages = t.list /\ documents'[d] \in DocumentRow
       /\ d \in DOMAIN documents' <=> ~t.dropped
  <2>1. CASE t.dropped
    BY <2>1, <1>6 DEF Without
  <2>2. CASE ~t.dropped
    <3>1. DOMAIN Only(d, t.list) = {d} /\ Only(d, t.list)[d] = t.list
      BY DEF Only
    <3>2. \A o \in DOMAIN documents : documents[o] \in DocumentRow
      BY DEF AInv, RowsFit
    <3>3. /\ DOMAIN documents' = DOMAIN documents
          /\ \A o \in DOMAIN documents \ {d} : documents'[o] = documents[o]
          /\ documents'[d].state = documents[d].state /\ documents'[d].owned = documents[d].owned
          /\ documents'[d].pages = t.list /\ documents'[d] \in DocumentRow
      BY <2>2, <1>4, <1>6, <3>1, <3>2, WriteEffect
    <3> QED BY <2>2, <3>3
  <2> QED BY <2>1, <2>2
<1>14. ASSUME ~t.dropped
       PROVE  DocumentWell(r, d)
  <2>1. FilesOf(t.list) \subseteq FilesOf(documents[d].pages) /\ Bys(t.list) \subseteq Bys(documents[d].pages)
    BY <1>4, <1>14, OfEntries
  <2>2. documents[d].owned \/ \E f \in FilesOf(t.list) : files'[f].origin = "LIBRARY"
    BY <1>4, <1>7, <1>10, <1>14, <2>1 DEF KeepsItsReaders
  <2>3. FilesOf(t.list) \subseteq DOMAIN files'
    BY <1>7, <1>10, <2>1
  <2> QED BY <1>4, <1>7, <1>13, <1>14, <2>1, <2>2, <2>3 DEF DocumentWell
<1>15. \A o \in DOMAIN documents' : FilesOf(documents[o].pages)' = FilesOf(documents'[o].pages)
  BY DEF FilesOf
<1>16. \A g : \A o : o \in Readers(g)' <=> \/ o \in Readers(g) \ {d}
                                           \/ o = d /\ ~t.dropped /\ g \in FilesOf(t.list)
  <2>1. \A g : \A o : o \in Readers(g)' <=> o \in DOMAIN documents' /\ g \in FilesOf(documents'[o].pages)
    BY <1>15 DEF Readers
  <2> QED BY <2>1, <1>13 DEF Readers
<1>17. t.dropped => FilesOf(t.list) = {}
  BY <1>4 DEF FilesOf
<1>18. ASSUME NEW g, g \notin moved
       PROVE  Untouched(g)
  <2>1. Readers(g)' = Readers(g)
    <3> DEFINE now == Readers(g)'
    <3>1. g \in FilesOf(t.list) <=> d \in Readers(g)
      BY <1>12, <1>18 DEF Readers
    <3>2. \A o : o \in now <=> o \in Readers(g)
      BY <1>16, <1>17, <3>1
    <3> HIDE DEF now
    <3>3. now = Readers(g)
      BY <3>2, SameSet
    <3> QED BY <3>3 DEF now
  <2>2. IsReceipt(g)' <=> IsReceipt(g)
    BY <1>6 DEF IsReceipt
  <2>3. InTrash(g)' <=> InTrash(g)
    BY <1>4, <1>10, <1>18 DEF InTrash
  <2> QED BY <2>1, <2>2, <2>3 DEF Untouched
<1>19. ASSUME NEW g \in moved, g \in DOMAIN files' \ crossed'
       PROVE  Placed(g)'
  <2>1. d \in Readers(g) /\ g \in DOMAIN files \ crossed
    BY <1>4, <1>6, <1>10, <1>19 DEF Readers
  <2>2. ~IsReceipt(g) /\ ~InTrash(g)
    BY <2>1 DEF AInv, OnePlace, HasHome
  <2>3. ~IsReceipt(g)'
    BY <2>2, <1>6 DEF IsReceipt
  <2>4. g \in t.orphaned <=> g \notin FilesOf(t.list) /\ Readers(g) \subseteq {d}
    BY <2>1, <1>4
  <2>5. CASE g \in t.orphaned
    <3>1. Readers(g)' = {}
      BY <2>4, <2>5, <1>16
    <3>2. InTrash(g)'
      BY <2>1, <2>5, <1>10 DEF InTrash
    <3> QED BY <2>3, <3>1, <3>2 DEF Placed, HasHome
  <2>6. CASE g \notin t.orphaned
    <3>1. Readers(g)' # {}
      BY <2>4, <2>6, <1>16, <1>17
    <3>2. ~InTrash(g)'
      BY <2>1, <2>2, <2>6, <1>10 DEF InTrash
    <3> QED BY <2>3, <3>1, <3>2 DEF Placed
  <2> QED BY <2>5, <2>6
<1>20. ReceiptsFit(r)
  <2>1. DOMAIN documents' \subseteq DOMAIN documents
    BY <1>13
  <2> QED BY <2>1, <1>2, <1>6, <1>10, SameReceiptsFit
<1>21. /\ \A q \in Open \ {r} : req[q].locks \cap DOMAIN documents \cap (written \cup removed) = {}
       /\ \A q \in Open \ {r} : Decided(q) \cap moved \subseteq crossed'
  BY <1>1, <1>2, <1>4, <1>6, DecidedApart
<1>22. /\ \A o \in DOMAIN documents' \ written : documents'[o] = documents[o]
       /\ \A o \in written : DocumentWell(r, o)
       /\ DOMAIN files' \ DOMAIN files \subseteq moved
  BY <1>11, <1>13, <1>14
<1>23. crossed \subseteq crossed' /\ s.at \in {"done", "dropping"}
  BY <1>6, <1>9
<1>24. \A g : g \notin moved => Untouched(g)
  BY <1>18
<1>25. \A g \in moved : g \in DOMAIN files' \ crossed' => Placed(g)'
  BY <1>19
<1> HIDE DEF written, removed, moved
<1> QED BY <1>2, <1>9, <1>11, <1>13, <1>20, <1>21, <1>22, <1>23, <1>24, <1>25, CommitFits

\* A receipt goes to the trash.
LEMMA DeleteReceiptFits ==
  ASSUME IInv, AInv, NEW r \in Requests, NEW x \in DOMAIN receipts, DeleteReceipt(r, x)
  PROVE  AInv'
<1>1. PICK f : f = receipts[x]
  OBVIOUS
<1>2. /\ ~Over(r) /\ DOMAIN req = Requests /\ Finish(r) /\ UNCHANGED documents
      /\ files' = Trashed(files, {f}, "RECEIPT") /\ receipts' = Without(receipts, {x})
      /\ Crosses(r, {f})
  BY <1>1 DEF DeleteReceipt, At, Over, IInv
<1>3. PICK s : s = [at |-> "done"]
  OBVIOUS
<1>4. Goto(r, s) /\ s.at \in {"done", "dropping"}
  BY <1>2, <1>3 DEF Finish
<1>5. f \in DOMAIN files /\ \A y \in DOMAIN receipts : receipts[y] = f => y = x
  BY <1>1 DEF AInv, RowsFit
<1>6. /\ DOMAIN files' = DOMAIN files
      /\ \A g \in DOMAIN files \ {f} : files'[g] = files[g]
      /\ \A g \in DOMAIN files : files'[g].content = files[g].content /\ files'[g].origin = files[g].origin
      /\ files'[f].trashed = "RECEIPT"
  <2>1. \A g \in DOMAIN files : files[g] \in FileRow
    BY DEF IInv, OneRow
  <2> DEFINE fs == {f}
             kind == "RECEIPT"
  <2>2. files' = Trashed(files, fs, kind)
    BY <1>2
  <2>3. f \in DOMAIN files \cap fs /\ \A g \in DOMAIN files \ {f} : g \in DOMAIN files \ fs
    BY <1>5
  <2>4. kind = "RECEIPT"
    OBVIOUS
  <2> HIDE DEF fs, kind
  <2>5. /\ DOMAIN files' = DOMAIN files
        /\ \A g \in DOMAIN files \ fs : files'[g] = files[g]
        /\ \A g \in DOMAIN files : files'[g].content = files[g].content /\ files'[g].origin = files[g].origin
        /\ \A g \in DOMAIN files \cap fs : files'[g].trashed = kind
    BY <2>1, <2>2, TrashedEffect
  <2> QED BY <2>3, <2>4, <2>5
<1>7. /\ DOMAIN receipts' = DOMAIN receipts \ {x}
      /\ \A y \in DOMAIN receipts' : receipts'[y] = receipts[y]
  BY <1>2 DEF Without
<1>8. FilesGoOn(r) /\ DOMAIN files \subseteq DOMAIN files'
  BY <1>6 DEF FilesGoOn
<1>9. crossed \subseteq crossed' /\ \A q \in Open \ {r} : f \in Decided(q) => f \in crossed'
  BY <1>2, OpenFacts DEF Crosses
<1>10. ReceiptsFit(r)
  BY <1>2, <1>6, <1>7 DEF ReceiptsFit, AInv, RowsFit
<1>11. \A g : Readers(g)' = Readers(g)
  BY <1>2 DEF Readers, FilesOf
<1>12. ASSUME NEW g, g # f
       PROVE  Untouched(g)
  <2>1. IsReceipt(g)' <=> IsReceipt(g)
    BY <1>1, <1>7, <1>12 DEF IsReceipt
  <2>2. InTrash(g)' <=> InTrash(g)
    BY <1>6, <1>12 DEF InTrash
  <2> QED BY <1>11, <2>1, <2>2 DEF Untouched
<1>13. f \in DOMAIN files' \ crossed' => Placed(f)'
  <2> SUFFICES ASSUME f \notin crossed'
               PROVE  Placed(f)'
    OBVIOUS
  <2>1. Readers(f) = {}
    BY <1>1, <1>5, <1>9 DEF AInv, OnePlace, IsReceipt
  <2>2. ~IsReceipt(f)'
    BY <1>5, <1>7 DEF IsReceipt
  <2>3. InTrash(f)'
    BY <1>5, <1>6 DEF InTrash
  <2> QED BY <1>11, <2>1, <2>2, <2>3 DEF Placed, HasHome
<1> DEFINE written == {}
           removed == {}
           moved == {f}
<1>14. /\ DOMAIN documents' = (DOMAIN documents \ removed) \cup written /\ removed \cap written = {}
       /\ \A o \in DOMAIN documents' \ written : documents'[o] = documents[o]
       /\ \A o \in written : DocumentWell(r, o)
       /\ \A q \in Open \ {r} : req[q].locks \cap DOMAIN documents \cap (written \cup removed) = {}
       /\ \A q \in Open \ {r} : Decided(q) \cap moved \subseteq crossed'
       /\ \A g : g \notin moved => Untouched(g)
       /\ \A g \in moved : g \in DOMAIN files' \ crossed' => Placed(g)'
       /\ DOMAIN files' \ DOMAIN files \subseteq moved
  BY <1>2, <1>6, <1>9, <1>12, <1>13
<1> HIDE DEF written, removed, moved
<1> QED BY <1>2, <1>4, <1>8, <1>9, <1>10, <1>14, CommitFits

\* A receipt becomes a document.
LEMMA ReceiptToDocumentFits ==
  ASSUME IInv, AInv, NEW r \in Requests, NEW x \in DOMAIN receipts, ReceiptToDocument(r, x)
  PROVE  AInv'
<1>1. PICK f : f = receipts[x]
  OBVIOUS
<1>2. PICK row : row = files[f]
  OBVIOUS
<1> DEFINE list == PagesForFile(f, row, r)
           owned == TRUE
<1>3. /\ ~Over(r) /\ DOMAIN req = Requests /\ Finish(r) /\ UNCHANGED files
      /\ documents' = WithRow(documents, x, Product(owned, list)) /\ receipts' = Without(receipts, {x})
      /\ Crosses(r, {f})
  BY <1>1, <1>2 DEF ReceiptToDocument, At, Over, IInv
<1>4. PICK s : s = [at |-> "done"]
  OBVIOUS
<1>5. Goto(r, s) /\ s.at \in {"done", "dropping"}
  BY <1>3, <1>4 DEF Finish
<1>6. /\ f \in DOMAIN files /\ \A y \in DOMAIN receipts : receipts[y] = f => y = x
      /\ x \notin DOMAIN documents /\ Made(x)
  BY <1>1 DEF AInv, RowsFit
<1>7. f \in FileIds /\ row \in FileRow
  BY <1>2, <1>6 DEF AInv, RowsFit, IInv, OneRow
<1>8. list \in Seq(Entries) /\ list # <<>> /\ FilesOf(list) = {f} /\ Bys(list) = {r}
  BY <1>7, ArrivingEffect
<1> HIDE DEF list
<1>9. /\ DOMAIN receipts' = DOMAIN receipts \ {x}
      /\ \A y \in DOMAIN receipts' : receipts'[y] = receipts[y]
  BY <1>3 DEF Without
<1>10. FilesGoOn(r) /\ DOMAIN files \subseteq DOMAIN files' /\ DOMAIN files' \ DOMAIN files \subseteq {f}
  BY <1>3 DEF FilesGoOn
<1>11. crossed \subseteq crossed' /\ \A q \in Open \ {r} : f \in Decided(q) => f \in crossed'
  BY <1>3, OpenFacts DEF Crosses
<1>12. ReceiptsFit(r)
  <2>1. DOMAIN documents' = DOMAIN documents \cup {x}
    BY <1>3 DEF WithRow
  <2> QED BY <1>3, <1>9, <2>1 DEF ReceiptsFit, AInv, RowsFit
<1>13. \A g : g # f => (IsReceipt(g)' <=> IsReceipt(g))
  BY <1>1, <1>9 DEF IsReceipt
<1>14. \A g : InTrash(g)' <=> InTrash(g)
  BY <1>3 DEF InTrash
<1>15. f \notin crossed' => ~IsReceipt(f)' /\ ~InTrash(f)'
  <2>1. ~IsReceipt(f)'
    BY <1>6, <1>9 DEF IsReceipt
  <2>2. IsReceipt(f)
    BY <1>1 DEF IsReceipt
  <2>3. f \notin crossed' => ~InTrash(f)
    BY <1>6, <1>11, <2>2 DEF AInv, OnePlace, HasHome
  <2> QED BY <1>14, <2>1, <2>3
<1>16. f \in DOMAIN files' /\ owned \in BOOLEAN /\ owned
  BY <1>3, <1>6
<1> HIDE DEF owned
<1> QED BY <1>3, <1>5, <1>6, <1>8, <1>10, <1>11, <1>12, <1>13, <1>14, <1>15, <1>16, MakesDocumentFits

\* A document becomes a receipt; what it held besides is crossed.
LEMMA DocumentToReceiptFits ==
  ASSUME IInv, AInv, NEW r \in Requests, DocumentToReceipt(r)
  PROVE  AInv'
<1>1. PICK f : f = req[r].file
  OBVIOUS
<1>2. PICK d : d = req[r].doc
  OBVIOUS
<1>3. PICK there : there = FilesOf(documents[d].pages)
  OBVIOUS
<1>4. /\ ~Over(r) /\ ~At(r, "checked") /\ DOMAIN req = Requests /\ Finish(r) /\ UNCHANGED files
      /\ d \in DOMAIN documents /\ f \in DOMAIN files /\ Unlocked({d})
      /\ Readers(f) \cap Live \subseteq {d} /\ ~IsReceipt(f)
      /\ documents' = Without(documents, {d}) /\ receipts' = WithRow(receipts, d, f)
      /\ crossed' = IF there = {f} THEN crossed ELSE crossed \cup there \cup {f}
  BY <1>1, <1>2, <1>3 DEF DocumentToReceipt, At, Over, IInv
<1>5. PICK s : s = [at |-> "done"]
  OBVIOUS
<1>6. Goto(r, s) /\ s.at \in {"done", "dropping"}
  BY <1>4, <1>5 DEF Finish
<1>7. Made(d) /\ d \notin DOMAIN receipts /\ there \subseteq DOMAIN files
  BY <1>3, <1>4 DEF AInv, RowsFit
<1>8. /\ DOMAIN documents' = DOMAIN documents \ {d}
      /\ \A o \in DOMAIN documents' : documents'[o] = documents[o]
  BY <1>4 DEF Without
<1>9. /\ DOMAIN receipts' = DOMAIN receipts \cup {d} /\ receipts'[d] = f
      /\ \A x \in DOMAIN receipts : receipts'[x] = receipts[x]
  BY <1>4, <1>7 DEF WithRow
<1>10. FilesGoOn(r) /\ DOMAIN files \subseteq DOMAIN files' /\ DOMAIN files' \ DOMAIN files = {}
  BY <1>4 DEF FilesGoOn
<1>11. crossed \subseteq crossed'
  BY <1>4
<1>12. ReceiptsFit(r)
  <2>1. \A x \in DOMAIN receipts : receipts[x] # f
    BY <1>4 DEF IsReceipt
  <2> QED BY <1>4, <1>7, <1>8, <1>9, <2>1 DEF ReceiptsFit, AInv, RowsFit
<1>13. \A g : \A o : o \in Readers(g)' <=> o \in Readers(g) \ {d}
  <2>1. \A o \in DOMAIN documents' : FilesOf(documents[o].pages)' = FilesOf(documents[o].pages)
    BY <1>8 DEF FilesOf
  <2> QED BY <1>8, <2>1 DEF Readers
<1>14. \A g : (IsReceipt(g)' <=> IsReceipt(g) \/ g = f)
  BY <1>7, <1>9 DEF IsReceipt
<1>15. \A g : InTrash(g)' <=> InTrash(g)
  BY <1>4 DEF InTrash
<1>16. ASSUME NEW g, g \notin there \cup {f}
       PROVE  Untouched(g)
  <2>1. Readers(g)' = Readers(g)
    <3> DEFINE now == Readers(g)'
    <3>1. d \notin Readers(g)
      BY <1>3, <1>16 DEF Readers
    <3>2. \A o : o \in now <=> o \in Readers(g)
      BY <1>13, <3>1
    <3> HIDE DEF now
    <3>3. now = Readers(g)
      BY <3>2, SameSet
    <3> QED BY <3>3 DEF now
  <2> QED BY <1>14, <1>15, <1>16, <2>1 DEF Untouched
\* Only the file that the document still is has not been crossed.
<1>17. \A g \in there \cup {f} : g \notin crossed' => g = f /\ there = {f} /\ f \notin crossed
  BY <1>4
<1>18. ASSUME there = {f}, f \notin crossed
       PROVE  Readers(f) = {d} /\ ~InTrash(f)
  <2>1. d \in Readers(f)
    BY <1>3, <1>4, <1>18 DEF Readers
  <2>2. ASSUME NEW o \in Readers(f)
        PROVE  o \in Live
    <3>1. o \in DOMAIN documents /\ f \in FilesOf(documents[o].pages)
      BY DEF Readers
    <3>2. documents[o].state # "merged" /\ documents[o].state \in {"live", "merged"}
      BY <1>18, <3>1 DEF AInv, OnePlace, RowsFit, DocumentRow
    <3> QED BY <3>1, <3>2 DEF Live
  <2>3. Readers(f) = {d}
    BY <1>4, <2>1, <2>2
  <2>4. ~InTrash(f)
    BY <1>4, <1>18, <2>1 DEF AInv, OnePlace, HasHome
  <2> QED BY <2>3, <2>4
<1>19. ASSUME NEW q \in Open \ {r}, f \in Decided(q), there = {f}
       PROVE  f \in crossed
  <2> SUFFICES ASSUME f \notin crossed
               PROVE  FALSE
    OBVIOUS
  <2>1. Readers(f) = {d}
    BY <1>18, <1>19
  <2>2. q \in Requests /\ At(q, "checked") /\ RequestFits(q)
    BY DEF Open, AInv
  <2>3. CASE Brings(q)
    <3>1. ~req[q].created /\ f = req[q].file
      BY <1>19, <2>3 DEF Decided
    <3> QED BY <2>1, <2>2, <2>3, <3>1 DEF RequestFits, BringFits
  <2>4. CASE ~Brings(q) /\ req[q].kind = "out"
    <3>1. PICK o \in DOMAIN documents : TakingFits(req[q], o)
      BY <2>2, <2>4 DEF RequestFits, OutFits
    <3>2. o \in Readers(f) /\ req[q].locks = {o}
      BY <1>19, <2>4, <3>1 DEF Decided, TakingFits, Readers
    <3>3. req[q].locks \cap {d} = {}
      BY <1>4, NobodyHolds
    <3> QED BY <2>1, <3>2, <3>3
  <2>5. CASE ~Brings(q) /\ req[q].kind = "restoring"
    <3>1. f \in req[q].subject
      BY <1>19, <2>5 DEF Decided
    <3>2. ~HasHome(f)
      BY <2>2, <2>5, <3>1 DEF RequestFits, RestoreFits
    <3> QED BY <2>1, <3>2 DEF HasHome
  <2> QED BY <2>2, <2>3, <2>4, <2>5 DEF RequestFits, KindFits
<1> DEFINE written == {}
           removed == {d}
           moved == there \cup {f}
<1>20. ASSUME NEW g \in moved, g \in DOMAIN files' \ crossed'
       PROVE  Placed(g)'
  <2>1. g = f /\ there = {f} /\ f \notin crossed
    BY <1>17, <1>20
  <2>2. Readers(f)' = {} /\ IsReceipt(f)' /\ ~InTrash(f)'
    BY <2>1, <1>13, <1>14, <1>15, <1>18
  <2> QED BY <2>1, <2>2 DEF Placed
<1>21. \A q \in Open \ {r} : Decided(q) \cap moved \subseteq crossed'
  <2> SUFFICES ASSUME NEW q \in Open \ {r}, NEW g \in moved, g \in Decided(q), g \notin crossed'
               PROVE  FALSE
    OBVIOUS
  <2>1. g = f /\ there = {f} /\ f \notin crossed
    BY <1>17
  <2> QED BY <2>1, <1>19
<1>22. /\ DOMAIN documents' = (DOMAIN documents \ removed) \cup written /\ removed \cap written = {}
       /\ \A o \in DOMAIN documents' \ written : documents'[o] = documents[o]
       /\ \A o \in written : DocumentWell(r, o)
       /\ DOMAIN files' \ DOMAIN files \subseteq moved
  BY <1>8, <1>10
<1>23. \A q \in Open \ {r} : req[q].locks \cap DOMAIN documents \cap (written \cup removed) = {}
  BY <1>4, NobodyHolds
<1>24. \A g : g \notin moved => Untouched(g)
  BY <1>16
<1>25. \A g \in moved : g \in DOMAIN files' \ crossed' => Placed(g)'
  BY <1>20
<1> HIDE DEF written, removed, moved
<1> QED BY <1>4, <1>6, <1>10, <1>11, <1>12, <1>21, <1>22, <1>23, <1>24, <1>25, CommitFits

\* A file leaves the trash.
LEMMA CommitRestoreFits ==
  ASSUME IInv, AInv, NEW r \in Requests, CommitRestore(r)
  PROVE  AInv'
<1>1. At(r, "checked") /\ req[r].kind = "restoring" /\ r \in Open /\ ~Over(r) /\ DOMAIN req = Requests
  BY DEF CommitRestore, At, Open, Over, IInv
<1>2. req[r].bytes = "none" /\ RestoreFits(r)
  BY <1>1 DEF AInv, RequestFits, RestoreFits
<1>3. PICK f \in req[r].subject : req[r].subject = {f}
  BY <1>1, <1>2 DEF RestoreFits
<1>4. f \notin crossed => ~HasHome(f)
  BY <1>1, <1>2, <1>3 DEF RestoreFits
<1>5. (CHOOSE x \in req[r].subject : TRUE) = f
  BY <1>3
<1>6. PICK row : row = files'[f]
  OBVIOUS
<1> DEFINE list == PagesForFile(f, row, r)
           owned == TRUE
<1>7. /\ f \in DOMAIN files /\ ~IsReceipt(f) /\ Finish(r) /\ UNCHANGED crossed
      /\ files' = [files EXCEPT ![f].trashed = "no"]
      /\ \/ receipts' = WithRow(receipts, r, f) /\ UNCHANGED documents
         \/ documents' = WithRow(documents, r, Product(owned, list)) /\ UNCHANGED receipts
  BY <1>5, <1>6 DEF CommitRestore
<1>8. PICK s : s = [at |-> "done"]
  OBVIOUS
<1>9. Goto(r, s) /\ s.at \in {"done", "dropping"}
  BY <1>7, <1>8 DEF Finish
<1>10. /\ DOMAIN files' = DOMAIN files
       /\ \A g \in DOMAIN files \ {f} : files'[g] = files[g]
       /\ row \in FileRow /\ row.trashed = "no"
       /\ row.content = files[f].content /\ row.origin = files[f].origin
  <2>1. files[f] \in FileRow
    BY <1>7 DEF IInv, OneRow
  <2>2. /\ [files[f] EXCEPT !.trashed = "no"] \in FileRow
        /\ [files[f] EXCEPT !.trashed = "no"].trashed = "no"
        /\ [files[f] EXCEPT !.trashed = "no"].content = files[f].content
        /\ [files[f] EXCEPT !.trashed = "no"].origin = files[f].origin
    BY <2>1 DEF FileRow
  <2>3. row = [files[f] EXCEPT !.trashed = "no"]
    BY <1>6, <1>7
  <2> QED BY <2>2, <2>3, <1>7
<1>11. FilesGoOn(r) /\ DOMAIN files \subseteq DOMAIN files' /\ DOMAIN files' \ DOMAIN files \subseteq {f} /\ f \in DOMAIN files'
  BY <1>6, <1>7, <1>10 DEF FilesGoOn
<1>12. f \in FileIds /\ r \notin DOMAIN documents
  BY <1>1, <1>7 DEF AInv, RowsFit, Made
<1>13. list \in Seq(Entries) /\ list # <<>> /\ FilesOf(list) = {f} /\ Bys(list) = {r}
  BY <1>10, <1>12, ArrivingEffect
<1> HIDE DEF list
<1>14. \A q \in Open \ {r} : f \in Decided(q) => f \in crossed
  BY <1>1, <1>3, DecidedApart
<1>15. \A g : g # f => (InTrash(g)' <=> InTrash(g))
  BY <1>10 DEF InTrash
<1>16. ~InTrash(f)'
  BY <1>6, <1>10 DEF InTrash
<1>17. CASE receipts' = WithRow(receipts, r, f) /\ UNCHANGED documents
  <2>1. f \notin crossed' => Readers(f) = {} /\ ~InTrash(f)'
    BY <1>4, <1>7, <1>16 DEF HasHome
  <2> QED BY <1>1, <1>7, <1>9, <1>11, <1>14, <1>15, <1>17, <2>1, MakesReceiptFits
<1>18. CASE documents' = WithRow(documents, r, Product(owned, list)) /\ UNCHANGED receipts
  <2>1. \A g : IsReceipt(g)' <=> IsReceipt(g)
    BY <1>18 DEF IsReceipt
  <2>2. f \notin crossed' => ~IsReceipt(f)' /\ ~InTrash(f)'
    BY <2>1, <1>7, <1>16
  <2>3. ReceiptsFit(r)
    <3>1. DOMAIN documents' \subseteq DOMAIN documents \cup {r}
      BY <1>18 DEF WithRow
    <3> QED BY <1>1, <1>11, <1>18, <3>1, SameReceiptsFit
  <2>4. owned \in BOOLEAN /\ owned
    OBVIOUS
  <2> HIDE DEF owned
  <2> QED BY <1>1, <1>7, <1>9, <1>11, <1>12, <1>13, <1>14, <1>15, <1>18, <2>1, <2>2, <2>3, <2>4, MakesDocumentFits
<1> QED BY <1>7, <1>17, <1>18

(* The rows of a purge are not read and are no receipts; what an open       *)
(* transaction has decided about stays as it is.                            *)
LEMMA PurgeFits ==
  ASSUME IInv, AInv, NEW r \in Requests, Purge(r)
  PROVE  AInv'
<1>1. PICK held : held = req[r].held
  OBVIOUS
<1>2. /\ ~Over(r) /\ ~At(r, "checked") /\ DOMAIN req = Requests
      /\ \A f \in held : ~HasHome(f) /\ RowFree(r, f)
      /\ files' = Without(files, held) /\ UNCHANGED <<documents, receipts, crossed>>
  BY <1>1 DEF Purge, At, Over, IInv
<1>3. PICK s : s = [at |-> "purged", held |-> held]
  OBVIOUS
<1>4. Goto(r, s) /\ s.at = "purged" /\ Plain(s)
  BY <1>1, <1>3 DEF Purge, Plain
<1>5. RequestFits(r)'
  BY <1>2, <1>4, PlainFits
<1>6. \A x : Made(x) => Made(x)'
  BY <1>2, <1>4, MadeStays
<1>7. /\ DOMAIN files' = DOMAIN files \ held
      /\ \A f \in DOMAIN files' : files'[f] = files[f]
  BY <1>2 DEF Without
<1>8. /\ \A f : Readers(f)' = Readers(f) /\ (IsReceipt(f)' <=> IsReceipt(f)) /\ (HasHome(f)' <=> HasHome(f))
      /\ Live' = Live
  BY <1>2 DEF Readers, FilesOf, IsReceipt, HasHome, Live
<1>9. \A f \in DOMAIN files' : InTrash(f)' <=> InTrash(f)
  BY <1>7 DEF InTrash
<1>10. /\ \A d \in DOMAIN documents : FilesOf(documents[d].pages) \subseteq DOMAIN files'
       /\ \A x \in DOMAIN receipts : receipts[x] \in DOMAIN files'
  <2>1. \A d \in DOMAIN documents : \A f \in FilesOf(documents[d].pages) : f \in DOMAIN files /\ HasHome(f)
    BY DEF AInv, RowsFit, HasHome, Readers
  <2>2. \A x \in DOMAIN receipts : receipts[x] \in DOMAIN files /\ HasHome(receipts[x])
    BY DEF AInv, RowsFit, HasHome, IsReceipt
  <2> QED BY <1>2, <1>7, <2>1, <2>2
<1>11. \A d \in DOMAIN documents : /\ FilesOf(documents[d].pages)' = FilesOf(documents[d].pages)
                                   /\ Bys(documents[d].pages)' = Bys(documents[d].pages)
  BY <1>2 DEF FilesOf, Bys
<1>12. RowsFit'
  <2>1. FileIds' = FileIds /\ DocumentRow' = DocumentRow
    BY DEF FileIds, DocumentRow, Entries
  <2>2. /\ DOMAIN files' \subseteq FileIds
        /\ \A d \in DOMAIN documents : /\ Made(d)' /\ documents[d] \in DocumentRow
                                       /\ \A b \in Bys(documents[d].pages) : Made(b)'
        /\ \A x \in DOMAIN receipts : Made(x)' /\ x \notin DOMAIN documents
        /\ \A x, y \in DOMAIN receipts : receipts[x] = receipts[y] => x = y
    BY <1>6, <1>7 DEF AInv, RowsFit
  <2> QED BY <1>2, <1>10, <1>11, <2>1, <2>2 DEF RowsFit
<1>13. OnePlace'
  <2>1. \A f \in DOMAIN files' \ crossed' : Placed(f)'
    <3> SUFFICES ASSUME NEW f \in DOMAIN files' \ crossed'
                 PROVE  Placed(f)'
      OBVIOUS
    <3>1. f \in DOMAIN files \ crossed
      BY <1>2, <1>7
    <3> QED BY <1>8, <1>9, <3>1 DEF AInv, OnePlace, Placed
  <2>2. \A d \in DOMAIN documents : documents[d].state = "merged" => FilesOf(documents[d].pages) \subseteq crossed
    BY DEF AInv, OnePlace
  <2> QED BY <1>2, <1>11, <2>1, <2>2 DEF OnePlace, Placed
<1>14. ReadersRemain'
  <2> SUFFICES ASSUME NEW d \in Live
               PROVE  /\ documents[d].pages # <<>>
                      /\ \/ documents[d].owned
                         \/ \E f \in FilesOf(documents[d].pages) : files'[f].origin = "LIBRARY" \/ f \in crossed
    BY <1>2, <1>8, <1>11 DEF ReadersRemain, Live
  <2>1. \A f \in FilesOf(documents[d].pages) : files'[f] = files[f]
    BY <1>7, <1>10 DEF Live
  <2> QED BY <2>1 DEF AInv, ReadersRemain
<1>15. FilesGoOn(r) /\ DocumentsGoOn(r) /\ LockedStay(r)
  <2>1. FilesGoOn(r)
    BY <1>7 DEF FilesGoOn
  <2>2. DocumentsGoOn(r)
    BY <1>2 DEF DocumentsGoOn
  <2>3. LockedStay(r)
    BY <1>2 DEF LockedStay
  <2> QED BY <2>1, <2>2, <2>3
<1>16. DecidedStay(r)
  <2> SUFFICES ASSUME NEW q \in Open \ {r}, NEW f \in Decided(q) \ crossed', Brings(q)
               PROVE  InTrash(f)' <=> InTrash(f)
    BY <1>8 DEF DecidedStay, SamePlace
  <2>1. BringFits(q) /\ ~req[q].created /\ f = req[q].file
    BY DEF AInv, RequestFits, Open, Decided
  <2>2. f \in req[q].holds <=> InTrash(f)
    BY <1>2, <2>1 DEF BringFits
  <2>3. CASE f \in held
    <3>1. f \notin req[q].holds
      BY <1>2, <2>3 DEF RowFree
    <3>2. f \notin DOMAIN files'
      BY <1>7, <2>3
    <3> QED BY <2>2, <3>1, <3>2 DEF InTrash
  <2>4. CASE f \notin held
    <3>1. f \in DOMAIN files => f \in DOMAIN files'
      BY <1>7, <2>4
    <3> QED BY <1>7, <3>1 DEF InTrash
  <2> QED BY <2>3, <2>4
<1>17. s.at # "checked" /\ crossed \subseteq crossed' /\ (Over(r) => s.at \in {"done", "dropping"})
  BY <1>2, <1>4
<1> QED BY <1>2, <1>4, <1>5, <1>12, <1>13, <1>14, <1>15, <1>16, <1>17, StepFits

-----------------------------------------------------------------------------
(* The invariant holds.                                                     *)

\* An archive at rest is in order.
LEMMA InitArranges ==
  ASSUME Init
  PROVE  AInv
<1>1. PICK a \in Archives : files = a.files /\ documents = a.documents /\ receipts = a.receipts
  BY DEF Init
<1>2. req = [r \in Requests |-> [at |-> "idle"]] /\ crossed = {}
  BY DEF Init
<1>3. /\ DOMAIN files \cap Requests = {} /\ DOMAIN documents \cap Requests = {} /\ DOMAIN receipts \cap Requests = {}
      /\ DOMAIN documents \cap DOMAIN receipts = {}
      /\ \A x \in DOMAIN receipts : receipts[x] \in DOMAIN files
      /\ \A x, y \in DOMAIN receipts : receipts[x] = receipts[y] => x = y
  BY <1>1, ArchivesAssumption
<1>4. ASSUME NEW d \in DOMAIN documents
      PROVE  /\ documents[d] \in DocumentRow /\ documents[d].state = "live"
             /\ documents[d].pages # <<>>
             /\ \A i \in DOMAIN documents[d].pages :
                  documents[d].pages[i].file \in DOMAIN files /\ documents[d].pages[i].by = "init"
             /\ \/ documents[d].owned
                \/ \E i \in DOMAIN documents[d].pages : files[documents[d].pages[i].file].origin = "LIBRARY"
  BY <1>1, ArchivesAssumption
<1>5. ASSUME NEW f \in DOMAIN files
      PROVE  /\ Readers(f) # {} \/ IsReceipt(f) \/ InTrash(f)
             /\ ~(Readers(f) # {} /\ IsReceipt(f)) /\ ~(Readers(f) # {} /\ InTrash(f))
             /\ ~(IsReceipt(f) /\ InTrash(f))
  <2> DEFINE read == \E d \in DOMAIN a.documents : \E i \in DOMAIN a.documents[d].pages :
                       a.documents[d].pages[i].file = f
             receipt == \E x \in DOMAIN a.receipts : a.receipts[x] = f
             trashed == a.files[f].trashed # "no"
  <2>1. /\ read \/ receipt \/ trashed
        /\ ~(read /\ receipt) /\ ~(read /\ trashed) /\ ~(receipt /\ trashed)
    BY <1>1, ArchivesAssumption
  <2>2. read <=> Readers(f) # {}
    BY <1>1 DEF Readers, FilesOf
  <2>3. receipt <=> IsReceipt(f)
    BY <1>1 DEF IsReceipt
  <2>4. trashed <=> InTrash(f)
    BY <1>1 DEF InTrash
  <2> HIDE DEF read, receipt, trashed
  <2> QED BY <2>1, <2>2, <2>3, <2>4
<1>6. RowsFit
  <2>1. DOMAIN files \subseteq FileIds
    BY <1>1 DEF FileIds
  <2>2. ASSUME NEW d \in DOMAIN documents
        PROVE  /\ Made(d) /\ documents[d] \in DocumentRow
               /\ \A b \in Bys(documents[d].pages) : Made(b)
               /\ FilesOf(documents[d].pages) \subseteq DOMAIN files
    BY <1>3, <1>4, NoneAssumption DEF Made, Bys, FilesOf
  <2>3. \A x \in DOMAIN receipts : Made(x) /\ x \notin DOMAIN documents /\ receipts[x] \in DOMAIN files
    BY <1>3 DEF Made
  <2> QED BY <1>3, <2>1, <2>2, <2>3 DEF RowsFit
<1>7. OnePlace
  BY <1>4, <1>5 DEF OnePlace, HasHome
<1>8. ASSUME NEW q \in Requests
      PROVE  RequestFits(q) /\ q \notin Open
  <2>1. req[q].at = "idle"
    BY <1>2
  <2> QED BY <2>1 DEF RequestFits, KindFits, ListsFit, HasLists, PlanFits, BytesFit, BringFits, OutFits,
                      RestoreFits, Brings, At, Open
<1>9. Apart
  BY <1>8 DEF Apart, Open
<1>10. ReadersRemain
  BY <1>4 DEF ReadersRemain, Live, FilesOf
<1> QED BY <1>6, <1>7, <1>8, <1>9, <1>10 DEF AInv

\* What does not change stays in order.
LEMMA StutterArranges ==
  ASSUME AInv, UNCHANGED vars
  PROVE  AInv'
<1>1. UNCHANGED <<files, documents, receipts, req, crossed>>
  BY DEF vars
<1>2. /\ UNCHANGED <<Live, Open>>
      /\ \A f : UNCHANGED <<Readers(f), IsReceipt(f), HasHome(f), InTrash(f)>>
      /\ \A x : UNCHANGED Made(x)
      /\ FileIds' = FileIds /\ DocumentRow' = DocumentRow /\ FileRow' = FileRow
  BY <1>1 DEF Live, Open, Readers, FilesOf, IsReceipt, HasHome, InTrash, Made, Over, At, FileIds,
              DocumentRow, FileRow, Entries
<1>3. \A d \in DOMAIN documents : UNCHANGED <<FilesOf(documents[d].pages), Bys(documents[d].pages)>>
  BY <1>1 DEF FilesOf, Bys
<1>4. RowsFit'
  BY <1>1, <1>2, <1>3 DEF AInv, RowsFit
<1>5. OnePlace' /\ ReadersRemain'
  BY <1>1, <1>2, <1>3 DEF AInv, OnePlace, ReadersRemain
<1>6. Apart'
  BY <1>1, <1>2 DEF AInv, Apart, ApartFrom
<1>7. Fresh("init") = {}
  BY NoneAssumption DEF Fresh
<1>8. FilesGoOn("init") /\ DocumentsGoOn("init") /\ LockedStay("init") /\ DecidedStay("init")
  <2>1. FilesGoOn("init")
    BY <1>1 DEF FilesGoOn
  <2>2. DocumentsGoOn("init")
    BY <1>1, <1>3 DEF DocumentsGoOn
  <2>3. LockedStay("init")
    BY <1>1, RowsFit DEF LockedStay, AInv, Apart
  <2>4. DecidedStay("init")
    BY <1>2 DEF DecidedStay, SamePlace
  <2> QED BY <2>1, <2>2, <2>3, <2>4
<1>9. ASSUME NEW q \in Requests
      PROVE  RequestFits(q)'
  <2>1. q \in Requests \ {"init"}
    BY NoneAssumption
  <2> QED BY <1>1, <1>2, <1>4, <1>8, <2>1, OthersFit
<1> QED BY <1>1, <1>4, <1>5, <1>6, <1>9 DEF AInv

\* Every step keeps the archive in order.
LEMMA StepArranges ==
  ASSUME IInv, AInv, [Next]_vars
  PROVE  AInv'
<1>1. CASE UNCHANGED vars
  BY <1>1, StutterArranges
<1>2. CASE Next
  <2>1. PICK r \in Requests :
    \/ \E c \in Contents : Upload(r, c) \/ Ingest(r, c)
    \/ \E d \in DOMAIN documents, c \in Contents : AddFile(r, d, c)
    \/ \E d \in DOMAIN documents, f \in DOMAIN files, c \in Contents : ReplaceFile(r, d, f, c)
    \/ CheckBytes(r) \/ CommitBytes(r) \/ DropObject(r)
    \/ \E d \in DOMAIN documents : BeginEdit(r, d) \/ BeginBuild(r, d) \/ DeleteDocument(r, d) \/ BeginConvert(r, d)
    \/ \E d \in DOMAIN documents, to \in DOMAIN documents \cup {r} : BeginMove(r, d, to)
    \/ \E d, source \in DOMAIN documents : BeginCombine(r, d, source)
    \/ ReorderPages(r) \/ CropPage(r) \/ TurnFile(r) \/ SplitAtPage(r) \/ SplitFile(r) \/ MovePages(r)
    \/ Combine(r) \/ DocumentToReceipt(r) \/ ExpandPages(r) \/ RemovePage(r) \/ CommitTakingOut(r)
    \/ \E x \in DOMAIN receipts : DeleteReceipt(r, x) \/ ReceiptToDocument(r, x)
    \/ \E f \in DOMAIN files : BeginRestore(r, f)
    \/ CheckRestore(r) \/ CommitRestore(r)
    \/ BeginPurge(r) \/ Purge(r) \/ PurgeObjects(r)
    \/ SweepList(r) \/ SweepAsk(r) \/ SweepDelete(r)
    \/ Fail(r)
    BY <1>2 DEF Next
  <2>2. OneRow /\ DOMAIN req = Requests
    BY DEF IInv
  <2>3. CASE \/ \E c \in Contents : Upload(r, c) \/ Ingest(r, c)
             \/ \E d \in DOMAIN documents, c \in Contents : AddFile(r, d, c)
             \/ \E d \in DOMAIN documents, f \in DOMAIN files, c \in Contents : ReplaceFile(r, d, f, c)
    BY <2>3, BytesArriveFits
  <2>4. CASE CheckBytes(r)
    BY <2>4, CheckBytesFits
  <2>5. CASE CommitBytes(r)
    <3>1. req[r].kind \in {"document", "ingest", "receipt", "add", "replace"}
      BY <2>5 DEF CommitBytes, IInv, HashIsHeld, Brings, At, Kinds
    <3> QED BY <2>5, <3>1, BytesMakeFits, BytesAddFits, BytesReplaceFits
  <2>6. CASE \/ DropObject(r) \/ BeginPurge(r) \/ PurgeObjects(r)
             \/ SweepList(r) \/ SweepAsk(r) \/ SweepDelete(r) \/ Fail(r)
             \/ \E d \in DOMAIN documents : BeginBuild(r, d) \/ BeginConvert(r, d)
             \/ \E f \in DOMAIN files : BeginRestore(r, f)
    BY <2>6, PlainActionFits
  <2>7. CASE \/ \E d \in DOMAIN documents : BeginEdit(r, d)
             \/ \E d \in DOMAIN documents, to \in DOMAIN documents \cup {r} : BeginMove(r, d, to)
             \/ \E d, source \in DOMAIN documents : BeginCombine(r, d, source)
    BY <2>2, <2>7, BeginEditFits
  <2>8. CASE RemovePage(r) \/ \E d \in DOMAIN documents : DeleteDocument(r, d)
    BY <2>2, <2>8, BeginTakingOutFits
  <2>9. CASE ReorderPages(r) \/ CropPage(r) \/ TurnFile(r)
    BY <2>2, <2>9, RearrangeFits
  <2>10. CASE SplitAtPage(r) \/ SplitFile(r)
    BY <2>2, <2>10, SplitFits
  <2>11. CASE MovePages(r) \/ Combine(r) \/ ExpandPages(r)
    BY <2>2, <2>11, MovePagesFits, CombineFits, ExpandPagesFits
  <2>12. CASE CommitTakingOut(r) \/ DocumentToReceipt(r)
    BY <2>12, CommitTakingOutFits, DocumentToReceiptFits
  <2>13. CASE \E x \in DOMAIN receipts : DeleteReceipt(r, x) \/ ReceiptToDocument(r, x)
    BY <2>13, DeleteReceiptFits, ReceiptToDocumentFits
  <2>14. CASE CheckRestore(r) \/ CommitRestore(r) \/ Purge(r)
    BY <2>2, <2>14, CheckRestoreFits, CommitRestoreFits, PurgeFits
  <2> QED BY <2>1, <2>3, <2>4, <2>5, <2>6, <2>7, <2>8, <2>9, <2>10, <2>11, <2>12, <2>13, <2>14
<1> QED BY <1>1, <1>2

(* Where the files are: a file that no two decisions crossed over is pages, *)
(* or a receipt, or in the trash, and one of these; what requests have in   *)
(* hand, and what open transactions have decided, still fits the rows.      *)
THEOREM Arranged == Spec => [](IInv /\ AInv)
<1>1. Init => IInv /\ AInv
  BY InitHolds, InitArranges
<1>2. IInv /\ AInv /\ [Next]_vars => (IInv /\ AInv)'
  BY StepKeeps, StepArranges
<1> QED BY <1>1, <1>2, PTL DEF Spec

(* No sequence of requests leaves bytes that nobody can reach, unless two   *)
(* transactions decided about the file side by side, its pages went to a    *)
(* document combined into another, or its document was made a receipt.      *)
THEOREM LostOnlyInOverlaps == Spec => []LostOnlyByOverlap
<1>1. AInv => LostOnlyByOverlap
  <2> SUFFICES ASSUME AInv, NEW f \in DOMAIN files \ crossed, Readers(f) # {}
               PROVE  Readers(f) \cap Live # {}
    BY DEF AInv, OnePlace, LostOnlyByOverlap, InReach
  <2>1. PICK d \in DOMAIN documents : f \in FilesOf(documents[d].pages)
    BY DEF Readers
  <2>2. documents[d].state # "merged" /\ documents[d].state \in {"live", "merged"}
    BY <2>1 DEF AInv, OnePlace, RowsFit, DocumentRow
  <2> QED BY <2>1, <2>2 DEF Readers, Live
<1> QED BY <1>1, Arranged, PTL

(* No upload, restore, replacement, conversion or purge gives a file two    *)
(* homes, unless two decisions crossed over it.                             *)
THEOREM OneHomeAFile == Spec => []OneHome
<1>1. AInv => OneHome
  BY DEF AInv, OnePlace, OneHome
<1> QED BY <1>1, Arranged, PTL

(* A live document has pages, and somebody who may read it, however the     *)
(* edits of it are interleaved.                                             *)
THEOREM DocumentsKeepReaders == Spec => []ReadersRemain
BY Arranged, PTL DEF AInv

-----------------------------------------------------------------------------
(* Pages are not lost to lists computed from older ones.                    *)

\* The page is still a page of some document, with its crop.
Stays(p) == \E o \in DOMAIN documents' : \E q \in EntriesOf(documents'[o].pages) : Keeps(p, q)

\* What may become of a page, by NothingOverwritten.
Accounted(p) == Stays(p) \/ TakesOut(p.file) \/ Converts(p) \/ Recrops(p)

\* Every page is accounted for.
AllAccounted == \A d \in DOMAIN documents : \A p \in EntriesOf(documents[d].pages) : Accounted(p)

\* These pages are the ones that NothingOverwritten is about.
LEMMA AccountedIsAll ==
  ASSUME AllAccounted
  PROVE  \A p \in AllPages :
           \/ \E q \in AllPages' : q.file = p.file /\ p.index \in {q.index, Whole} /\ q.crop = p.crop
           \/ TakesOut(p.file)
           \/ Converts(p)
           \/ Recrops(p)
<1> SUFFICES ASSUME NEW p \in AllPages, Stays(p)
             PROVE  \E q \in AllPages' : q.file = p.file /\ p.index \in {q.index, Whole} /\ q.crop = p.crop
  BY DEF AllAccounted, Accounted, AllPages, EntriesOf
<1>1. PICK o \in DOMAIN documents' : \E q \in EntriesOf(documents'[o].pages) : Keeps(p, q)
  BY DEF Stays
<1>2. PICK q \in EntriesOf(documents'[o].pages) : Keeps(p, q)
  BY <1>1
<1>3. q \in AllPages'
  BY <1>2 DEF AllPages, EntriesOf
<1> QED BY <1>2, <1>3 DEF Keeps

\* The pages of a document that is not written stay.
LEMMA OthersStay ==
  ASSUME NEW ds,
         \A x \in DOMAIN documents \ ds : x \in DOMAIN documents' /\ documents'[x].pages = documents[x].pages,
         \A d \in ds \cap DOMAIN documents : \A p \in EntriesOf(documents[d].pages) : Accounted(p)
  PROVE  AllAccounted
<1> SUFFICES ASSUME NEW d \in DOMAIN documents \ ds, NEW p \in EntriesOf(documents[d].pages)
             PROVE  Stays(p)
  BY DEF AllAccounted, Accounted
<1>1. p \in EntriesOf(documents'[d].pages) /\ d \in DOMAIN documents'
  OBVIOUS
<1>2. Keeps(p, p)
  BY DEF Keeps
<1> QED BY <1>1, <1>2 DEF Stays

\* The pages of a document stay in a list that keeps them all.
LEMMA ListStays ==
  ASSUME NEW p, NEW o \in DOMAIN documents', NEW list, documents'[o].pages = list,
         \E q \in EntriesOf(list) : Keeps(p, q)
  PROVE  Accounted(p)
BY DEF Stays, Accounted

\* One list is written, and keeps what is not accounted for otherwise.
LEMMA WrittenStays ==
  ASSUME AInv, NEW d, NEW list, documents' = Write(documents, Only(d, list)),
         d \in DOMAIN documents =>
           \A p \in EntriesOf(documents[d].pages) :
             (\E q \in EntriesOf(list) : Keeps(p, q)) \/ TakesOut(p.file) \/ Recrops(p)
  PROVE  AllAccounted
<1>1. \A o \in DOMAIN documents : documents[o] \in DocumentRow
  BY DEF AInv, RowsFit
<1>2. DOMAIN Only(d, list) = {d} /\ Only(d, list)[d] = list
  BY DEF Only
<1>3. /\ DOMAIN documents' = DOMAIN documents
      /\ \A o \in DOMAIN documents \ {d} : documents'[o] = documents[o]
      /\ d \in DOMAIN documents => documents'[d].pages = list
  <2> DEFINE lists == Only(d, list)
  <2>1. documents' = Write(documents, lists)
    OBVIOUS
  <2> HIDE DEF lists
  <2>2. /\ DOMAIN documents' = DOMAIN documents
        /\ \A o \in DOMAIN documents \ DOMAIN lists : documents'[o] = documents[o]
        /\ \A o \in DOMAIN documents \cap DOMAIN lists : documents'[o].pages = lists[o]
    BY <1>1, <2>1, WriteEffect
  <2> QED BY <1>2, <2>2 DEF lists
<1>4. ASSUME d \in DOMAIN documents, NEW p \in EntriesOf(documents[d].pages)
      PROVE  Accounted(p)
  <2>1. CASE \E q \in EntriesOf(list) : Keeps(p, q)
    BY <1>3, <1>4, <2>1, ListStays
  <2>2. CASE ~\E q \in EntriesOf(list) : Keeps(p, q)
    BY <1>4, <2>2 DEF Accounted
  <2> QED BY <2>1, <2>2
<1>5. PICK ds : ds = {d}
  OBVIOUS
<1>6. \A x \in DOMAIN documents \ ds : x \in DOMAIN documents' /\ documents'[x].pages = documents[x].pages
  BY <1>3, <1>5
<1>7. \A o \in ds \cap DOMAIN documents : \A p \in EntriesOf(documents[o].pages) : Accounted(p)
  BY <1>4, <1>5
<1> QED BY <1>6, <1>7, OthersStay

\* A document is added, and the others are not written.
LEMMA NewDocumentStays ==
  ASSUME NEW id, id \notin DOMAIN documents, NEW row, documents' = WithRow(documents, id, row)
  PROVE  AllAccounted
<1>1. \A x \in DOMAIN documents : x \in DOMAIN documents' /\ documents'[x].pages = documents[x].pages
  BY DEF WithRow
<1>2. PICK ds : ds = {}
  OBVIOUS
<1>3. \A o \in ds \cap DOMAIN documents : \A p \in EntriesOf(documents[o].pages) : Accounted(p)
  BY <1>2
<1> QED BY <1>1, <1>3, OthersStay

\* No document is written.
LEMMA SameDocumentsStay ==
  ASSUME UNCHANGED documents
  PROVE  AllAccounted
<1>1. \A x \in DOMAIN documents : x \in DOMAIN documents' /\ documents'[x].pages = documents[x].pages
  OBVIOUS
<1>2. PICK ds : ds = {}
  OBVIOUS
<1>3. \A o \in ds \cap DOMAIN documents : \A p \in EntriesOf(documents[o].pages) : Accounted(p)
  BY <1>2
<1> QED BY <1>1, <1>3, OthersStay

\* A reorder keeps all pages; a crop or a turn edits what it has read.
LEMMA RearrangeAccounts ==
  ASSUME IInv, AInv, NEW r \in Requests, ReorderPages(r) \/ CropPage(r) \/ TurnFile(r)
  PROVE  AllAccounted
<1>1. PICK kind \in Arranges : MayRewrite(r, kind) /\ (kind = "reorder" <=> ReorderPages(r))
                               /\ (kind \in {"crop", "turn"} <=> CropPage(r) \/ TurnFile(r))
  <2>1. PICK kind \in Arranges : MayRewrite(r, kind) /\ req[r].kind = kind
    BY DEF ReorderPages, CropPage, TurnFile, Arranges, MayRewrite
  <2>2. (kind = "reorder" <=> ReorderPages(r)) /\ (kind \in {"crop", "turn"} <=> CropPage(r) \/ TurnFile(r))
    BY <2>1 DEF ReorderPages, CropPage, TurnFile, MayRewrite
  <2> QED BY <2>1, <2>2
<1>2. PICK d : d = req[r].doc
  OBVIOUS
<1>3. PICK held : held = req[r].held[d]
  OBVIOUS
<1>4. d \in DOMAIN documents /\ documents[d].pages = held /\ held \in Seq(Entries)
  BY <1>1, <1>2, <1>3, RewriteFacts
<1>5. At(r, "read") /\ req[r].kind = kind /\ DOMAIN req = Requests
  BY <1>1 DEF MayRewrite, IInv
<1>6. req'[r].at = "done"
  BY <1>5 DEF ReorderPages, CropPage, TurnFile, Finish, Goto
<1>7. kind \in {"crop", "turn"} => \A i \in DOMAIN held : Recrops(held[i])
  BY <1>2, <1>3, <1>5, <1>6 DEF Recrops
<1>8. CASE ReorderPages(r)
  <2>1. documents' = Write(documents, Only(d, Reverse(held)))
    BY <1>2, <1>3, <1>8 DEF ReorderPages
  <2>2. KeepsAll(held, Reverse(held))
    BY <1>4, ReverseEffect
  <2>3. PICK list : list = Reverse(held)
    OBVIOUS
  <2>4. documents' = Write(documents, Only(d, list))
    BY <2>1, <2>3
  <2>5. \A p \in EntriesOf(documents[d].pages) : \E q \in EntriesOf(list) : Keeps(p, q)
    BY <1>4, <2>2, <2>3 DEF KeepsAll
  <2> QED BY <2>4, <2>5, WrittenStays
<1>9. CASE CropPage(r)
  <2>1. PICK i \in DOMAIN held : documents' = Write(documents, Only(d, [held EXCEPT ![i].crop = r]))
    BY <1>2, <1>3, <1>9 DEF CropPage
  <2>2. PICK list : list = [held EXCEPT ![i].crop = r]
    OBVIOUS
  <2>3. \A j \in DOMAIN held \ {i} : held[j] \in EntriesOf(list)
    BY <1>4, <2>2, CropEffect
  <2>4. Recrops(held[i])
    BY <1>1, <1>7, <1>9
  <2>5. \A p : Keeps(p, p)
    BY DEF Keeps
  <2>6. \A p \in EntriesOf(documents[d].pages) : (\E q \in EntriesOf(list) : Keeps(p, q)) \/ Recrops(p)
    BY <1>4, <2>3, <2>4, <2>5 DEF EntriesOf
  <2>7. documents' = Write(documents, Only(d, list))
    BY <2>1, <2>2
  <2> QED BY <2>6, <2>7, WrittenStays
<1>10. CASE TurnFile(r)
  <2>1. PICK list : documents' = Write(documents, Only(d, list))
    BY <1>2, <1>3, <1>10 DEF TurnFile
  <2>2. \A p \in EntriesOf(documents[d].pages) : Recrops(p)
    BY <1>1, <1>4, <1>7, <1>10 DEF EntriesOf
  <2> QED BY <2>1, <2>2, WrittenStays
<1> QED BY <1>8, <1>9, <1>10

\* The entries of a whole file become its pages, with their crop.
LEMMA ExpandAccounts ==
  ASSUME IInv, AInv, NEW r \in Requests, ExpandPages(r)
  PROVE  AllAccounted
<1>1. PICK d : d = req[r].doc
  OBVIOUS
<1>2. PICK pages : pages = documents[d].pages
  OBVIOUS
<1>3. PICK opened : opened = req[r].opened
  OBVIOUS
<1>4. PICK list : list = WithExpandedPages(pages, opened, r)
  OBVIOUS
<1>5. d \in DOMAIN documents /\ documents' = Write(documents, Only(d, list))
  BY <1>1, <1>2, <1>3, <1>4 DEF ExpandPages
<1>6. pages \in Seq(Entries) /\ FilesOf(pages) \subseteq DOMAIN files
  BY <1>2, <1>5 DEF AInv, RowsFit, DocumentRow
<1>7. KeepsAll(pages, list)
  BY <1>4, <1>6, ExpandEffect DEF IInv, OneRow
<1>8. \A p \in EntriesOf(documents[d].pages) : \E q \in EntriesOf(list) : Keeps(p, q)
  BY <1>2, <1>7 DEF KeepsAll
<1> QED BY <1>5, <1>8, WrittenStays

\* A page that is taken out is of a file that the transaction is about.
LEMMA TakingOutAccounts ==
  ASSUME IInv, AInv, NEW r \in Requests, CommitTakingOut(r)
  PROVE  AllAccounted
<1>1. PICK t : t = req[r]
  OBVIOUS
<1>2. At(r, "checked") /\ t.kind = "out" /\ DOMAIN req = Requests
  BY <1>1 DEF CommitTakingOut, IInv
<1>3. PICK d \in DOMAIN documents : TakingFits(t, d)
  BY <1>1, <1>2 DEF AInv, RequestFits, OutFits
<1>4. /\ t.locks = {d}
      /\ t.dropped => FilesOf(documents[d].pages) \subseteq t.subject
      /\ ~t.dropped => \A e \in EntriesOf(documents[d].pages) : e.file \in t.subject \/ e \in EntriesOf(t.list)
  BY <1>3 DEF TakingFits
<1>5. (CHOOSE x \in t.locks : TRUE) = d
  BY <1>4
<1>6. /\ t.dropped => documents' = Without(documents, {d})
      /\ ~t.dropped => documents' = Write(documents, Only(d, t.list))
      /\ Finish(r)
  BY <1>1, <1>5 DEF CommitTakingOut
<1>7. req'[r].at = "done"
  BY <1>2, <1>6 DEF Finish, Goto
<1>8. \A f \in t.subject : TakesOut(f)
  BY <1>1, <1>2, <1>7 DEF TakesOut
<1>9. CASE t.dropped
  <2>1. \A p \in EntriesOf(documents[d].pages) : Accounted(p)
    BY <1>4, <1>8, <1>9 DEF Accounted, EntriesOf, FilesOf
  <2>2. PICK ds : ds = {d}
    OBVIOUS
  <2>3. \A x \in DOMAIN documents \ ds : x \in DOMAIN documents' /\ documents'[x].pages = documents[x].pages
    BY <1>6, <1>9, <2>2 DEF Without
  <2>4. \A o \in ds \cap DOMAIN documents : \A p \in EntriesOf(documents[o].pages) : Accounted(p)
    BY <2>1, <2>2
  <2> QED BY <2>3, <2>4, OthersStay
<1>10. CASE ~t.dropped
  <2>1. PICK list : list = t.list
    OBVIOUS
  <2>2. \A p : Keeps(p, p)
    BY DEF Keeps
  <2>3. \A p \in EntriesOf(documents[d].pages) : (\E q \in EntriesOf(list) : Keeps(p, q)) \/ TakesOut(p.file)
    BY <1>4, <1>8, <1>10, <2>1, <2>2
  <2>4. documents' = Write(documents, Only(d, list))
    BY <1>6, <1>10, <2>1
  <2> QED BY <2>3, <2>4, WrittenStays
<1> QED BY <1>9, <1>10

\* The pages of a document that becomes a receipt go with it.
LEMMA ConvertAccounts ==
  ASSUME IInv, AInv, NEW r \in Requests, DocumentToReceipt(r)
  PROVE  AllAccounted
<1>1. PICK d : d = req[r].doc
  OBVIOUS
<1>2. /\ d \in DOMAIN documents /\ documents' = Without(documents, {d})
      /\ receipts' = WithRow(receipts, d, req[r].file)
  BY <1>1 DEF DocumentToReceipt
<1>3. d \notin DOMAIN documents' /\ d \in DOMAIN receipts'
  BY <1>2 DEF Without, WithRow
<1>4. \A p \in EntriesOf(documents[d].pages) : Accounted(p)
  BY <1>2, <1>3 DEF Accounted, Converts, EntriesOf
<1>5. PICK ds : ds = {d}
  OBVIOUS
<1>6. \A x \in DOMAIN documents \ ds : x \in DOMAIN documents' /\ documents'[x].pages = documents[x].pages
  BY <1>2, <1>5 DEF Without
<1>7. \A o \in ds \cap DOMAIN documents : \A p \in EntriesOf(documents[o].pages) : Accounted(p)
  BY <1>4, <1>5
<1> QED BY <1>6, <1>7, OthersStay

\* A receipt or a restored file becomes a document.
LEMMA ProductAccounts ==
  ASSUME IInv, AInv, NEW r \in Requests,
         CommitRestore(r) \/ \E x \in DOMAIN receipts : ReceiptToDocument(r, x)
  PROVE  AllAccounted
<1>1. CASE CommitRestore(r)
  <2>1. At(r, "checked")
    BY <1>1 DEF CommitRestore
  <2>2. r \notin DOMAIN documents
    BY <2>1 DEF AInv, RowsFit, Made, Over, At
  <2>3. UNCHANGED documents \/ \E row : documents' = WithRow(documents, r, row)
    BY <1>1 DEF CommitRestore
  <2> QED BY <2>2, <2>3, SameDocumentsStay, NewDocumentStays
<1>2. ASSUME NEW x \in DOMAIN receipts, ReceiptToDocument(r, x)
      PROVE  AllAccounted
  <2>1. x \notin DOMAIN documents
    BY DEF AInv, RowsFit
  <2>2. \E row : documents' = WithRow(documents, x, row)
    BY <1>2 DEF ReceiptToDocument
  <2> QED BY <2>1, <2>2, NewDocumentStays
<1> QED BY <1>1, <1>2

\* What a document that may not be there yet has.
EntriesHere(o) == IF o \in DOMAIN documents THEN EntriesOf(documents[o].pages) ELSE {}
\* Its files.
FilesHere(o) == IF o \in DOMAIN documents THEN FilesOf(documents[o].pages) ELSE {}

\* Two documents that are not combined have, between them, what they had before.
Shares(d, o) ==
  /\ d # o /\ d \in DOMAIN documents /\ documents[d].state = "live"
  /\ o \in DOMAIN documents => documents[o].state = "live"
  /\ DOMAIN documents' = DOMAIN documents \cup {o}
  /\ \A x \in DOMAIN documents \ {d, o} : documents'[x] = documents[x]
  /\ documents'[d].state = "live" /\ documents'[o].state = "live"
  /\ FilesOf(documents'[d].pages) \cup FilesOf(documents'[o].pages) = FilesHere(d) \cup FilesHere(o)
  /\ \A p \in EntriesHere(d) \cup EntriesHere(o) :
       \E q \in EntriesOf(documents'[d].pages) \cup EntriesOf(documents'[o].pages) : Keeps(p, q)

\* Pages that two documents share between them stay.
LEMMA SharesAccounts ==
  ASSUME NEW d, NEW o, Shares(d, o)
  PROVE  AllAccounted
<1>1. ASSUME NEW p \in EntriesHere(d) \cup EntriesHere(o)
      PROVE  Accounted(p)
  <2>1. PICK q \in EntriesOf(documents'[d].pages) \cup EntriesOf(documents'[o].pages) : Keeps(p, q)
    BY <1>1 DEF Shares
  <2>2. d \in DOMAIN documents' /\ o \in DOMAIN documents'
    BY DEF Shares
  <2> QED BY <2>1, <2>2 DEF Accounted, Stays
<1>2. PICK ds : ds = {d, o}
  OBVIOUS
<1>3. \A x \in DOMAIN documents \ ds : x \in DOMAIN documents' /\ documents'[x].pages = documents[x].pages
  BY <1>2 DEF Shares
<1>4. \A x \in ds \cap DOMAIN documents : \A p \in EntriesOf(documents[x].pages) : Accounted(p)
  BY <1>1, <1>2 DEF EntriesHere
<1> QED BY <1>3, <1>4, OthersStay

\* A split divides the pages of a document.
LEMMA SplitShares ==
  ASSUME IInv, AInv, NEW r \in Requests, SplitAtPage(r) \/ SplitFile(r)
  PROVE  \E d : Shares(d, r)
<1>1. PICK kind \in Arranges : MayRewrite(r, kind)
  BY DEF SplitAtPage, SplitFile, Arranges
<1>2. PICK d : d = req[r].doc
  OBVIOUS
<1>3. PICK held : held = req[r].held[d]
  OBVIOUS
<1>4. d \in DOMAIN documents /\ documents[d].pages = held /\ held \in Seq(Entries) /\ r \notin DOMAIN documents
      /\ documents[d].state = "live"
  <2>1. ~Over(r)
    BY <1>1, RewriteFacts
  <2> QED BY <1>1, <1>2, <1>3, <2>1, RewriteFacts DEF AInv, RowsFit, Made
<1>5. PICK kept, taken : /\ DivideInto(r, kept, taken)
                         /\ kept \in Seq(Entries) /\ taken \in Seq(Entries)
                         /\ EntriesOf(kept) \cup EntriesOf(taken) = EntriesOf(held)
  BY <1>2, <1>3, <1>4, DividesAll
<1>6. PICK list : list = WithoutId(taken, r)
  OBVIOUS
<1>7. KeepsAll(taken, list) /\ FilesOf(list) = FilesOf(taken)
  BY <1>5, <1>6, WithoutIdEffect
<1>8. documents' = WithRow(Write(documents, Only(d, kept)), r, Product(documents[d].owned, list))
  BY <1>2, <1>5, <1>6 DEF DivideInto
<1>9. /\ DOMAIN documents' = DOMAIN documents \cup {r}
      /\ \A o \in DOMAIN documents \ {d} : documents'[o] = documents[o]
      /\ documents'[d].pages = kept /\ documents'[r].pages = list
      /\ documents'[d].state = "live" /\ documents'[r].state = "live"
  <2>1. \A o \in DOMAIN documents : documents[o] \in DocumentRow
    BY DEF AInv, RowsFit
  <2>2. DOMAIN Only(d, kept) = {d} /\ Only(d, kept)[d] = kept
    BY DEF Only
  <2>3. PICK lists : lists = Only(d, kept)
    OBVIOUS
  <2>4. PICK table : table = Write(documents, lists)
    OBVIOUS
  <2>5. /\ DOMAIN table = DOMAIN documents
        /\ \A o \in DOMAIN documents \ DOMAIN lists : table[o] = documents[o]
        /\ \A o \in DOMAIN documents \cap DOMAIN lists :
             table[o].pages = lists[o] /\ table[o].state = documents[o].state
    BY <2>1, <2>4, WriteEffect
  <2>6. documents' = WithRow(table, r, Product(documents[d].owned, list))
    BY <1>8, <2>3, <2>4
  <2> QED BY <1>4, <2>2, <2>3, <2>5, <2>6 DEF WithRow, Product
<1>10. ASSUME NEW p \in EntriesOf(held)
       PROVE  \E q \in EntriesOf(kept) \cup EntriesOf(list) : Keeps(p, q)
  <2>1. CASE p \in EntriesOf(kept)
    BY <2>1 DEF Keeps
  <2>2. CASE p \in EntriesOf(taken)
    BY <1>7, <2>2 DEF KeepsAll
  <2> QED BY <1>5, <2>1, <2>2
<1>11. FilesOf(kept) \cup FilesOf(list) = FilesOf(held)
  <2>1. \A pages : FilesOf(pages) = {e.file : e \in EntriesOf(pages)}
    BY OfEntries
  <2> QED BY <1>5, <1>7, <2>1
<1>12. FilesHere(d) = FilesOf(held) /\ FilesHere(r) = {} /\ EntriesHere(d) = EntriesOf(held) /\ EntriesHere(r) = {}
  BY <1>4 DEF FilesHere, EntriesHere
<1>13. Shares(d, r)
  BY <1>4, <1>9, <1>10, <1>11, <1>12 DEF Shares
<1> QED BY <1>4, <1>13

\* A move takes pages from one document to the other.
LEMMA MoveShares ==
  ASSUME IInv, AInv, NEW r \in Requests, MovePages(r)
  PROVE  \E d, o : Shares(d, o)
<1>1. PICK d, to : d = req[r].doc /\ to = req[r].to
  OBVIOUS
<1>2. PICK held, into : held = req[r].held[d] /\ into = IF to = r THEN <<>> ELSE req[r].held[to]
  OBVIOUS
<1>3. MayRewrite(r, "move")
  BY DEF MovePages
<1>4. /\ ~Over(r) /\ d \in DOMAIN documents /\ documents[d].pages = held /\ held \in Seq(Entries)
      /\ documents[d].state = "live"
      /\ to # r => /\ to \in DOMAIN documents /\ documents[to].pages = into
                   /\ into \in Seq(Entries) /\ to # d /\ documents[to].state = "live"
  <2>1. "move" \in Arranges
    BY DEF Arranges
  <2> QED BY <1>1, <1>2, <1>3, <2>1, RewriteFacts
<1>5. r \notin DOMAIN documents /\ \A o \in DOMAIN documents : documents[o] \in DocumentRow
  BY <1>4 DEF AInv, RowsFit, Made
<1>6. PICK moved \in SUBSET DOMAIN held :
        LET written == Write(documents, [o \in {d, to} |-> IF o = d THEN Pick(held, DOMAIN held \ moved)
                                                           ELSE WithoutId(Pick(held, moved), r) \o into])
        IN documents' = IF to = r
                        THEN WithRow(written, r, Product(documents[d].owned,
                                                         WithoutId(Pick(held, moved), r) \o into))
                        ELSE written
  BY <1>1, <1>2 DEF MovePages
<1>7. PICK remaining, moving : remaining = Pick(held, DOMAIN held \ moved) /\ moving = Pick(held, moved)
  OBVIOUS
<1>8. PICK taken : taken = WithoutId(moving, r)
  OBVIOUS
<1>9. PICK list : list = taken \o into
  OBVIOUS
<1>10. PICK lists : lists = [o \in {d, to} |-> IF o = d THEN remaining ELSE list]
  OBVIOUS
<1>11. PICK table : table = Write(documents, lists)
  OBVIOUS
<1>12. documents' = IF to = r THEN WithRow(table, r, Product(documents[d].owned, list)) ELSE table
  BY <1>6, <1>7, <1>8, <1>9, <1>10, <1>11
<1>13. into \in Seq(Entries)
  BY <1>2, <1>4
<1>14. PICK stay : stay = DOMAIN held \ moved
  OBVIOUS
<1>15. stay \subseteq DOMAIN held /\ moved \subseteq DOMAIN held /\ stay \cup moved = DOMAIN held
  BY <1>14
<1>16. /\ EntriesOf(remaining) = {held[i] : i \in stay}
       /\ EntriesOf(moving) = {held[i] : i \in moved} /\ moving \in Seq(Entries)
  BY <1>4, <1>7, <1>14, <1>15, PickEffect
<1>17. EntriesOf(held) = EntriesOf(remaining) \cup EntriesOf(moving)
  BY <1>15, <1>16 DEF EntriesOf
<1>18. taken \in Seq(Entries) /\ KeepsAll(moving, taken) /\ FilesOf(taken) = FilesOf(moving)
  BY <1>8, <1>16, WithoutIdEffect
<1>19. /\ EntriesOf(list) = EntriesOf(taken) \cup EntriesOf(into)
       /\ FilesOf(list) = FilesOf(taken) \cup FilesOf(into)
  BY <1>9, <1>13, <1>18, ConcatEffect
<1>20. DOMAIN lists = {d, to} /\ lists[d] = remaining /\ (to # d => lists[to] = list)
  BY <1>10
<1>21. /\ DOMAIN table = DOMAIN documents
       /\ \A o \in DOMAIN documents \ DOMAIN lists : table[o] = documents[o]
       /\ \A o \in DOMAIN documents \cap DOMAIN lists :
            table[o].pages = lists[o] /\ table[o].state = documents[o].state
  BY <1>5, <1>11, WriteEffect
<1>22. /\ DOMAIN documents \cup {to} = DOMAIN documents'
       /\ \A o \in DOMAIN documents \ {d, to} : documents'[o] = documents[o]
       /\ documents'[d].pages = remaining /\ documents'[to].pages = list
       /\ documents'[d].state = "live" /\ documents'[to].state = "live"
  <2>1. CASE to = r
    BY <1>4, <1>5, <1>12, <1>20, <1>21, <2>1 DEF WithRow, Product
  <2>2. CASE to # r
    BY <1>4, <1>12, <1>20, <1>21, <2>2
  <2> QED BY <2>1, <2>2
<1>23. to # d
  BY <1>4, <1>5
<1>24. /\ FilesHere(d) = FilesOf(held) /\ FilesHere(to) = FilesOf(into)
       /\ EntriesHere(d) = EntriesOf(held) /\ EntriesHere(to) = EntriesOf(into)
  <2>1. FilesOf(<<>>) = {} /\ EntriesOf(<<>>) = {}
    BY DEF FilesOf, EntriesOf
  <2> QED BY <1>2, <1>4, <1>5, <2>1 DEF FilesHere, EntriesHere
<1>25. FilesOf(held) = FilesOf(remaining) \cup FilesOf(moving)
  <2>1. \A pages : FilesOf(pages) = {e.file : e \in EntriesOf(pages)}
    BY OfEntries
  <2> QED BY <1>17, <2>1
<1>26. ASSUME NEW p \in EntriesOf(held) \cup EntriesOf(into)
       PROVE  \E q \in EntriesOf(remaining) \cup EntriesOf(list) : Keeps(p, q)
  <2>1. CASE p \in EntriesOf(remaining) \cup EntriesOf(into)
    BY <1>19, <2>1 DEF Keeps
  <2>2. CASE p \in EntriesOf(moving)
    BY <1>18, <1>19, <2>2 DEF KeepsAll
  <2> QED BY <1>17, <2>1, <2>2
<1>27. FilesOf(remaining) \cup FilesOf(list) = FilesOf(held) \cup FilesOf(into)
  BY <1>18, <1>19, <1>25
<1>28. to \in DOMAIN documents => documents[to].state = "live"
  BY <1>4, <1>5
<1>29. /\ \A p \in EntriesHere(d) \cup EntriesHere(to) :
            \E q \in EntriesOf(documents'[d].pages) \cup EntriesOf(documents'[to].pages) : Keeps(p, q)
       /\ FilesOf(documents'[d].pages) \cup FilesOf(documents'[to].pages) = FilesHere(d) \cup FilesHere(to)
  BY <1>22, <1>24, <1>26, <1>27
<1>30. Shares(d, to)
  BY <1>4, <1>22, <1>23, <1>28, <1>29 DEF Shares
<1> QED BY <1>30

\* The pages of the source go to the target.
LEMMA CombineAccounts ==
  ASSUME IInv, AInv, NEW r \in Requests, Combine(r)
  PROVE  AllAccounted
<1>1. PICK d, source : d = req[r].doc /\ source = req[r].to
  OBVIOUS
<1>2. PICK old, given : old = documents[d].pages /\ given = documents[source].pages
  OBVIOUS
<1>3. PICK taken : taken = WithoutId(given, r)
  OBVIOUS
<1>4. PICK lists : lists = [o \in {d, source} |-> IF o = d THEN old \o taken ELSE <<>>]
  OBVIOUS
<1>5. PICK table : table = Write(documents, lists)
  OBVIOUS
<1>6. /\ At(r, "read") /\ req[r].kind = "combine" /\ d \in DOMAIN documents /\ source \in DOMAIN documents
      /\ documents' = [table EXCEPT ![source].state = "merged"]
  BY <1>1, <1>2, <1>3, <1>4, <1>5 DEF Combine
<1>7. source # d
  BY <1>1, <1>6 DEF AInv, RequestFits, PlanFits
<1>8. \A o \in DOMAIN documents : documents[o] \in DocumentRow
  BY DEF AInv, RowsFit
<1>9. old \in Seq(Entries) /\ given \in Seq(Entries)
  BY <1>2, <1>6, <1>8 DEF DocumentRow
<1>10. taken \in Seq(Entries) /\ KeepsAll(given, taken)
  BY <1>3, <1>9, WithoutIdEffect
<1>11. EntriesOf(old \o taken) = EntriesOf(old) \cup EntriesOf(taken)
  BY <1>9, <1>10, ConcatEffect
<1>12. PICK list : list = old \o taken
  OBVIOUS
<1>13. DOMAIN lists = {d, source} /\ lists[d] = list
  BY <1>4, <1>7, <1>12
<1>14. /\ DOMAIN table = DOMAIN documents
       /\ \A o \in DOMAIN documents \ DOMAIN lists : table[o] = documents[o]
       /\ \A o \in DOMAIN documents \cap DOMAIN lists : table[o].pages = lists[o]
  BY <1>5, <1>8, WriteEffect
<1>15. /\ DOMAIN documents' = DOMAIN documents
       /\ \A o \in DOMAIN documents \ {d, source} : documents'[o] = documents[o]
       /\ documents'[d].pages = list
  BY <1>6, <1>7, <1>13, <1>14
<1>16. ASSUME NEW p \in EntriesOf(old) \cup EntriesOf(given)
       PROVE  Accounted(p)
  <2>1. \E q \in EntriesOf(list) : Keeps(p, q)
    <3>1. CASE p \in EntriesOf(old)
      BY <1>11, <1>12, <3>1 DEF Keeps
    <3>2. CASE p \in EntriesOf(given)
      BY <1>10, <1>11, <1>12, <3>2 DEF KeepsAll
    <3> QED BY <3>1, <3>2
  <2> QED BY <1>6, <1>15, <2>1, ListStays
<1>17. PICK ds : ds = {d, source}
  OBVIOUS
<1>18. \A x \in DOMAIN documents \ ds : x \in DOMAIN documents' /\ documents'[x].pages = documents[x].pages
  BY <1>15, <1>17
<1>19. \A o \in ds \cap DOMAIN documents : \A p \in EntriesOf(documents[o].pages) : Accounted(p)
  BY <1>2, <1>16, <1>17
<1> QED BY <1>18, <1>19, OthersStay

\* Bytes that arrive replace only the file they were to replace.
LEMMA BytesAccounts ==
  ASSUME IInv, AInv, NEW r \in Requests, CommitBytes(r)
  PROVE  AllAccounted
<1>1. PICK t : t = req[r]
  OBVIOUS
<1>2. PICK f : f = t.file
  OBVIOUS
<1>3. PICK new : new = PagesForFile(f, t.row, r)
  OBVIOUS
<1>4. /\ Brings(r) /\ At(r, "checked") /\ r \notin DOMAIN documents /\ DOMAIN req = Requests
      /\ new \in Seq(Entries) /\ new # <<>>
      /\ \E s : Goto(r, s) /\ s.at \in {"done", "dropping"}
  BY <1>1, <1>2, <1>3, BytesCommit DEF Brings
<1>5. req'[r].at # "checked"
  BY <1>4 DEF Goto
<1>6. CASE t.kind = "receipt"
  BY <1>1, <1>6, SameDocumentsStay DEF CommitBytes
<1>7. CASE t.kind \in {"document", "ingest"}
  <2>1. \E row : documents' = WithRow(documents, r, row)
    BY <1>1, <1>7 DEF CommitBytes
  <2> QED BY <1>4, <2>1, NewDocumentStays
<1>8. CASE t.kind = "add"
  <2>1. PICK d : d = t.doc
    OBVIOUS
  <2>2. PICK old : old = documents[d].pages
    OBVIOUS
  <2>3. PICK list : list = IF t.held = <<>> THEN old \o new ELSE new \o old
    OBVIOUS
  <2>4. d \in DOMAIN documents /\ documents' = Write(documents, Only(d, list))
    BY <1>1, <1>2, <1>3, <1>8, <2>1, <2>2, <2>3 DEF CommitBytes
  <2>5. old \in Seq(Entries)
    BY <2>2, <2>4 DEF AInv, RowsFit, DocumentRow
  <2>6. EntriesOf(old) \subseteq EntriesOf(list)
    BY <1>4, <2>3, <2>5, ConcatEffect
  <2>7. \A p : Keeps(p, p)
    BY DEF Keeps
  <2>8. \A p \in EntriesOf(documents[d].pages) : \E q \in EntriesOf(list) : Keeps(p, q)
    BY <2>2, <2>6, <2>7
  <2> QED BY <2>4, <2>8, WrittenStays
<1>9. CASE t.kind = "replace"
  <2>1. PICK held, gone : held = t.held /\ gone = t.gone
    OBVIOUS
  <2>2. PICK lists : lists = [d \in DOMAIN held |-> WithFileReplaced(held[d], gone, new)]
    OBVIOUS
  <2>3. Unchanged(held) /\ documents' = Write(documents, lists)
    BY <1>1, <1>2, <1>3, <1>9, <2>1, <2>2 DEF CommitBytes
  <2>4. TakesOut(gone)
    BY <1>1, <1>4, <1>5, <1>9, <2>1 DEF TakesOut
  <2>5. \A o \in DOMAIN held : /\ o \in DOMAIN documents /\ documents[o].pages = held[o]
                               /\ held[o] \in Seq(Entries)
    BY <1>1, <1>4, <2>1, <2>3, HeldAreLive
  <2>6. \A o \in DOMAIN documents : documents[o] \in DocumentRow
    BY DEF AInv, RowsFit
  <2>7. DOMAIN lists = DOMAIN held
    BY <2>2
  <2>8. /\ DOMAIN documents' = DOMAIN documents
        /\ \A o \in DOMAIN documents \ DOMAIN held : documents'[o] = documents[o]
        /\ \A o \in DOMAIN documents \cap DOMAIN held : documents'[o].pages = lists[o]
    BY <2>3, <2>6, <2>7, WriteEffect
  <2>9. ASSUME NEW o \in DOMAIN held, NEW p \in EntriesOf(held[o])
        PROVE  Accounted(p)
    <3>1. lists[o] = WithFileReplaced(held[o], gone, new)
      BY <2>2
    <3>2. p.file # gone => p \in EntriesOf(lists[o])
      BY <1>4, <2>5, <3>1, ReplacedEffect
    <3>3. CASE p.file = gone
      BY <2>4, <3>3 DEF Accounted
    <3>4. CASE p.file # gone
      BY <2>5, <2>8, <3>2, <3>4, ListStays DEF Keeps
    <3> QED BY <3>3, <3>4
  <2>10. PICK ds : ds = DOMAIN held
    OBVIOUS
  <2>11. \A x \in DOMAIN documents \ ds : x \in DOMAIN documents' /\ documents'[x].pages = documents[x].pages
    BY <2>8, <2>10
  <2>12. \A o \in ds \cap DOMAIN documents : \A p \in EntriesOf(documents[o].pages) : Accounted(p)
    BY <2>5, <2>9, <2>10
  <2> QED BY <2>11, <2>12, OthersStay
<1>10. t.kind \in {"document", "ingest", "receipt", "add", "replace"}
  BY <1>1, <1>4 DEF IInv, HashIsHeld, Kinds
<1> QED BY <1>6, <1>7, <1>8, <1>9, <1>10

\* Every step accounts for every page.
LEMMA StepAccounts ==
  ASSUME IInv, AInv, Next
  PROVE  AllAccounted
<1>1. PICK r \in Requests :
    \/ \E c \in Contents : Upload(r, c) \/ Ingest(r, c)
    \/ \E d \in DOMAIN documents, c \in Contents : AddFile(r, d, c)
    \/ \E d \in DOMAIN documents, f \in DOMAIN files, c \in Contents : ReplaceFile(r, d, f, c)
    \/ CheckBytes(r) \/ CommitBytes(r) \/ DropObject(r)
    \/ \E d \in DOMAIN documents : BeginEdit(r, d) \/ BeginBuild(r, d) \/ DeleteDocument(r, d) \/ BeginConvert(r, d)
    \/ \E d \in DOMAIN documents, to \in DOMAIN documents \cup {r} : BeginMove(r, d, to)
    \/ \E d, source \in DOMAIN documents : BeginCombine(r, d, source)
    \/ ReorderPages(r) \/ CropPage(r) \/ TurnFile(r) \/ SplitAtPage(r) \/ SplitFile(r) \/ MovePages(r)
    \/ Combine(r) \/ DocumentToReceipt(r) \/ ExpandPages(r) \/ RemovePage(r) \/ CommitTakingOut(r)
    \/ \E x \in DOMAIN receipts : DeleteReceipt(r, x) \/ ReceiptToDocument(r, x)
    \/ \E f \in DOMAIN files : BeginRestore(r, f)
    \/ CheckRestore(r) \/ CommitRestore(r)
    \/ BeginPurge(r) \/ Purge(r) \/ PurgeObjects(r)
    \/ SweepList(r) \/ SweepAsk(r) \/ SweepDelete(r)
    \/ Fail(r)
  BY DEF Next
<1>2. CASE \/ \E c \in Contents : Upload(r, c) \/ Ingest(r, c)
           \/ \E d \in DOMAIN documents, c \in Contents : AddFile(r, d, c)
           \/ \E d \in DOMAIN documents, f \in DOMAIN files, c \in Contents : ReplaceFile(r, d, f, c)
  BY <1>2, SameDocumentsStay DEF Upload, Ingest, AddFile, ReplaceFile, Store, rows
<1>3. CASE CheckBytes(r) \/ DropObject(r) \/ Fail(r)
  BY <1>3, SameDocumentsStay DEF CheckBytes, Refuse, DropObject, Fail, rows
<1>4. CASE \/ \E d \in DOMAIN documents : BeginEdit(r, d) \/ BeginBuild(r, d) \/ DeleteDocument(r, d) \/ BeginConvert(r, d)
           \/ \E d \in DOMAIN documents, to \in DOMAIN documents \cup {r} : BeginMove(r, d, to)
           \/ \E d, source \in DOMAIN documents : BeginCombine(r, d, source)
  BY <1>4, SameDocumentsStay DEF BeginEdit, BeginBuild, DeleteDocument, BeginConvert, BeginMove, BeginCombine, rows
<1>5. CASE \/ RemovePage(r) \/ CheckRestore(r) \/ BeginPurge(r) \/ Purge(r) \/ PurgeObjects(r)
           \/ \E f \in DOMAIN files : BeginRestore(r, f)
           \/ \E x \in DOMAIN receipts : DeleteReceipt(r, x)
           \/ SweepList(r) \/ SweepAsk(r) \/ SweepDelete(r)
  BY <1>5, SameDocumentsStay DEF RemovePage, CheckRestore, BeginPurge, Purge, PurgeObjects, BeginRestore,
                                 DeleteReceipt, SweepList, SweepAsk, SweepDelete, rows
<1>6. CASE CommitBytes(r) \/ CommitTakingOut(r) \/ DocumentToReceipt(r) \/ CommitRestore(r)
           \/ \E x \in DOMAIN receipts : ReceiptToDocument(r, x)
  BY <1>6, BytesAccounts, TakingOutAccounts, ConvertAccounts, ProductAccounts
<1>7. CASE \/ ReorderPages(r) \/ CropPage(r) \/ TurnFile(r) \/ SplitAtPage(r) \/ SplitFile(r)
           \/ MovePages(r) \/ Combine(r) \/ ExpandPages(r)
  BY <1>7, RearrangeAccounts, SplitShares, MoveShares, SharesAccounts, CombineAccounts, ExpandAccounts
<1> QED BY <1>1, <1>2, <1>3, <1>4, <1>5, <1>6, <1>7

(* No page and no edit of a page is lost to a list computed from an older   *)
(* one: it goes only when a request that saw it takes it out or edits it,   *)
(* or when its document becomes a receipt.                                  *)
THEOREM PagesAreAccounted == Spec => NothingOverwritten
<1>1. IInv /\ AInv /\ [Next]_vars =>
        [\A p \in AllPages :
           \/ \E q \in AllPages' : q.file = p.file /\ p.index \in {q.index, Whole} /\ q.crop = p.crop
           \/ TakesOut(p.file)
           \/ Converts(p)
           \/ Recrops(p)]_vars
  BY StepAccounts, AccountedIsAll
<1> QED BY <1>1, Arranged, PTL DEF Spec, NothingOverwritten

-----------------------------------------------------------------------------
(* The archive keeps the abstract life of a content.                        *)

\* A live document reads the file.
Shown(f) == Readers(f) \cap Live # {}

\* Where the row is; a file that has no row is unknown.
Was(f) ==
  IF f \notin DOMAIN files THEN "unknown"
  ELSE IF IsReceipt(f) THEN "receipt"
  ELSE IF Shown(f) THEN "document"
  ELSE IF ~HasHome(f) /\ InTrash(f) THEN "trash"
  ELSE "limbo"

\* The row is elsewhere after the step.
Moves(f) == Was(f)' # Was(f)

\* What a place says of a row,
LEMMA WasCases ==
  ASSUME NEW f
  PROVE  /\ Was(f) \in Life!Places
         /\ Was(f) = "unknown" <=> f \notin DOMAIN files
         /\ Was(f) = "receipt" <=> f \in DOMAIN files /\ IsReceipt(f)
         /\ Was(f) = "document" <=> f \in DOMAIN files /\ ~IsReceipt(f) /\ Shown(f)
BY DEF Was, Life!Places

\* and what it says after the step.
LEMMA WillCases ==
  ASSUME NEW f
  PROVE  /\ Was(f)' \in Life!Places
         /\ Was(f)' = "unknown" <=> f \notin DOMAIN files'
         /\ Was(f)' = "receipt" <=> f \in DOMAIN files' /\ IsReceipt(f)'
         /\ Was(f)' = "document" <=> f \in DOMAIN files' /\ ~IsReceipt(f)' /\ Shown(f)'
         /\ f \in DOMAIN files' /\ HasHome(f)' /\ ~IsReceipt(f)' /\ ~Shown(f)' => Was(f)' = "limbo"
BY DEF Was, Life!Places

\* The place of a content is where its row is,
LEMMA PlaceOfRow ==
  ASSUME OneRow, NEW f \in DOMAIN files, NEW c, c = files[f].content
  PROVE  PlaceOf(c) = Was(f)
<1>1. RowsOf(c) = {f}
  BY DEF OneRow, RowsOf
<1>2. (CHOOSE x \in RowsOf(c) : TRUE) = f
  BY <1>1
<1> DEFINE receipt == IsReceipt(f)
           shown   == Shown(f)
           trash   == ~HasHome(f) /\ InTrash(f)
<1>3. PlaceOf(c) = CASE receipt -> "receipt" [] ~receipt /\ shown -> "document" [] trash -> "trash" [] OTHER -> "limbo"
  BY <1>1, <1>2 DEF PlaceOf, Shown
<1>4. receipt => ~trash
  BY DEF HasHome
<1>5. shown => ~trash
  BY DEF HasHome, Shown
<1>6. Was(f) = IF receipt THEN "receipt" ELSE IF shown THEN "document" ELSE IF trash THEN "trash" ELSE "limbo"
  BY DEF Was
<1> HIDE DEF receipt, shown, trash
<1> QED BY <1>3, <1>4, <1>5, <1>6

\* and so it is after the step.
LEMMA PlaceOfRowThen ==
  ASSUME OneRow', NEW f \in DOMAIN files', NEW c, c = files'[f].content
  PROVE  PlaceOf(c)' = Was(f)'
<1>1. RowsOf(c)' = {f}
  BY DEF OneRow, RowsOf
<1>2. (CHOOSE x \in RowsOf(c)' : TRUE) = f
  BY <1>1
<1> DEFINE receipt == IsReceipt(f)'
           shown   == Shown(f)'
           trash   == ~HasHome(f)' /\ InTrash(f)'
<1>3. PlaceOf(c)' = CASE receipt -> "receipt" [] ~receipt /\ shown -> "document" [] trash -> "trash" [] OTHER -> "limbo"
  BY <1>1, <1>2 DEF PlaceOf, Shown
<1>4. receipt => ~trash
  BY DEF HasHome
<1>5. shown => ~trash
  BY DEF HasHome, Shown
<1>6. Was(f)' = IF receipt THEN "receipt" ELSE IF shown THEN "document" ELSE IF trash THEN "trash" ELSE "limbo"
  BY DEF Was
<1> HIDE DEF receipt, shown, trash
<1> QED BY <1>3, <1>4, <1>5, <1>6

\* Without a row a content is unknown.
LEMMA NoRowNoPlace ==
  ASSUME NEW c
  PROVE  /\ RowsOf(c) = {} => PlaceOf(c) = "unknown"
         /\ RowsOf(c)' = {} => PlaceOf(c)' = "unknown"
BY DEF PlaceOf

\* Rows come or go, and the content of a row does not change.
RowsGoOn ==
  /\ DOMAIN files \subseteq DOMAIN files' \/ DOMAIN files' \subseteq DOMAIN files
  /\ \A f \in DOMAIN files \cap DOMAIN files' : files'[f].content = files[f].content

\* The row of the content, before the step or after it.
RowFor(f, c) ==
  \/ f \in DOMAIN files /\ files[f].content = c
  \/ f \in DOMAIN files' /\ files'[f].content = c

\* A content goes where its row goes.
LEMMA PlaceGoes ==
  ASSUME OneRow, OneRow', RowsGoOn, NEW f, NEW c, RowFor(f, c)
  PROVE  PlaceOf(c) = Was(f) /\ PlaceOf(c)' = Was(f)'
<1>1. CASE f \in DOMAIN files /\ f \in DOMAIN files'
  <2>1. files[f].content = c /\ files'[f].content = c
    BY <1>1 DEF RowFor, RowsGoOn
  <2> QED BY <1>1, <2>1, PlaceOfRow, PlaceOfRowThen
<1>2. CASE f \in DOMAIN files /\ f \notin DOMAIN files'
  <2>1. files[f].content = c /\ DOMAIN files' \subseteq DOMAIN files
    BY <1>2 DEF RowFor, RowsGoOn
  <2>2. RowsOf(c)' = {}
    BY <1>2, <2>1 DEF RowsOf, OneRow, RowsGoOn
  <2>3. Was(f)' = "unknown"
    BY <1>2, WillCases
  <2> QED BY <1>2, <2>1, <2>2, <2>3, PlaceOfRow, NoRowNoPlace
<1>3. CASE f \notin DOMAIN files /\ f \in DOMAIN files'
  <2>1. files'[f].content = c /\ DOMAIN files \subseteq DOMAIN files'
    BY <1>3 DEF RowFor, RowsGoOn
  <2>2. RowsOf(c) = {}
    BY <1>3, <2>1 DEF RowsOf, OneRow, RowsGoOn
  <2>3. Was(f) = "unknown"
    BY <1>3, WasCases
  <2> QED BY <1>3, <2>1, <2>2, <2>3, PlaceOfRowThen, NoRowNoPlace
<1> QED BY <1>1, <1>2, <1>3 DEF RowFor

\* What moves has a row, before the step or after it.
LEMMA MovedHasRow ==
  ASSUME NEW c, PlaceOf(c)' # PlaceOf(c)
  PROVE  \E f : RowFor(f, c)
<1>1. RowsOf(c) # {} \/ RowsOf(c)' # {}
  BY NoRowNoPlace
<1> QED BY <1>1 DEF RowsOf, RowFor

\* The row steps from a place in `from` to a place in `to`.
Steps(f, from, to) == Was(f) \in from /\ Was(f)' \in to

\* The places that the abstract life is told of.
Places == [c \in Contents |-> PlaceOf(c)]

\* They are places of the abstract life.
LEMMA PlacesAre ==
  ASSUME OneRow, OneRow'
  PROVE  Places' \in [Contents -> Life!Places]
<1> SUFFICES ASSUME NEW c \in Contents
             PROVE  PlaceOf(c)' \in Life!Places
  BY DEF Places
<1>1. CASE RowsOf(c)' = {}
  BY <1>1, NoRowNoPlace DEF Life!Places
<1>2. CASE RowsOf(c)' # {}
  <2>1. PICK f \in DOMAIN files' : files'[f].content = c
    BY <1>2 DEF RowsOf
  <2> QED BY <2>1, PlaceOfRowThen, WillCases
<1> QED BY <1>1, <1>2

\* The abstract life sees what the row does.
LEMMA RowGoes ==
  ASSUME OneRow, OneRow', RowsGoOn, NEW f, NEW c \in Contents, RowFor(f, c), NEW from, NEW to
  PROVE  /\ Life!Moved(c) <=> Moves(f)
         /\ Life!Goes(c, from, to) <=> Steps(f, from, to)
<1>1. PlaceOf(c) = Was(f) /\ PlaceOf(c)' = Was(f)'
  BY PlaceGoes
<1> QED BY <1>1 DEF Life!Moved, Life!Goes, Moves, Steps

\* A content that moves has a row.
LEMMA MovesHasRow ==
  ASSUME NEW c \in Contents, Life!Moved(c)
  PROVE  \E f : RowFor(f, c)
<1>1. PlaceOf(c)' # PlaceOf(c)
  BY DEF Life!Moved
<1> QED BY <1>1, MovedHasRow

\* When all rows that move go this way, so do all contents.
LEMMA AllGo ==
  ASSUME OneRow, OneRow', RowsGoOn, NEW from, NEW to, \A f : Moves(f) => Steps(f, from, to)
  PROVE  \A c \in Contents : Life!Moved(c) => Life!Goes(c, from, to)
<1> SUFFICES ASSUME NEW c \in Contents, Life!Moved(c)
             PROVE  Life!Goes(c, from, to)
  OBVIOUS
<1>1. PICK f : RowFor(f, c)
  BY MovesHasRow
<1> QED BY <1>1, RowGoes

\* Rows that go to the trash are a step of the abstract life;
LEMMA IsDiscard ==
  ASSUME OneRow, OneRow', RowsGoOn, \A f : Moves(f) => Steps(f, {"document", "receipt"}, {"trash", "limbo"})
  PROVE  Life!Next
<1>1. Life!Discard
  BY AllGo DEF Life!Discard
<1> QED BY <1>1, PlacesAre DEF Life!Next, Places

\* so are rows that go from the trash,
LEMMA IsForget ==
  ASSUME OneRow, OneRow', RowsGoOn, \A f : Moves(f) => Steps(f, {"trash", "limbo"}, {"unknown"})
  PROVE  Life!Next
<1>1. Life!Forget
  BY AllGo DEF Life!Forget
<1> QED BY <1>1, PlacesAre DEF Life!Next, Places

\* files that are seen again,
LEMMA IsRecover ==
  ASSUME OneRow, OneRow', RowsGoOn, \A f : Moves(f) => Steps(f, {"limbo"}, {"document"})
  PROVE  Life!Next
<1>1. Life!Recover
  BY AllGo DEF Life!Recover
<1> QED BY <1>1, PlacesAre DEF Life!Next, Places

\* The other contents are let go when the other rows are.
LEMMA OthersLetGo ==
  ASSUME OneRow, OneRow', RowsGoOn, NEW f, NEW c, RowFor(f, c),
         \A g : g # f /\ Moves(g) => Steps(g, {"document", "limbo"}, {"trash", "limbo"})
  PROVE  \A o \in Contents \ {c} : Life!Moved(o) => Life!LetGo(o)
<1> SUFFICES ASSUME NEW o \in Contents \ {c}, Life!Moved(o)
             PROVE  Life!LetGo(o)
  OBVIOUS
<1>1. PICK g : RowFor(g, o)
  BY MovesHasRow
<1>2. Moves(g)
  BY <1>1, RowGoes
<1>3. g # f
  BY <1>1 DEF RowFor, RowsGoOn
<1>4. Steps(g, {"document", "limbo"}, {"trash", "limbo"})
  BY <1>2, <1>3
<1> QED BY <1>1, <1>4, RowGoes DEF Life!LetGo

\* A file that arrives, while others are let go, is a step of the abstract life;
LEMMA IsArrive ==
  ASSUME OneRow, OneRow', RowsGoOn, NEW f,
         Steps(f, {"unknown", "trash", "limbo"}, {"document", "receipt", "limbo"}),
         \A g : g # f /\ Moves(g) => Steps(g, {"document", "limbo"}, {"trash", "limbo"})
  PROVE  Life!Next
<1>1. f \in DOMAIN files'
  BY WillCases DEF Steps
<1>2. PICK c : c = files'[f].content
  OBVIOUS
<1>3. c \in Contents /\ RowFor(f, c)
  BY <1>1, <1>2 DEF OneRow, FileRow, RowFor
<1>4. \A o \in Contents \ {c} : Life!Moved(o) => Life!LetGo(o)
  BY <1>3, OthersLetGo
<1>5. Life!Goes(c, {"unknown", "trash", "limbo"}, {"document", "receipt", "limbo"})
  BY <1>3, RowGoes
<1>6. Life!Arrive
  BY <1>3, <1>4, <1>5 DEF Life!Arrive
<1> QED BY <1>6, PlacesAre DEF Life!Next, Places

\* so is one that is converted.
LEMMA IsConvert ==
  ASSUME OneRow, OneRow', RowsGoOn, NEW f,
         Steps(f, {"document", "receipt"}, {"document", "receipt"}),
         \A g : g # f /\ Moves(g) => Steps(g, {"document", "limbo"}, {"trash", "limbo"})
  PROVE  Life!Next
<1>1. f \in DOMAIN files'
  BY WillCases DEF Steps
<1>2. PICK c : c = files'[f].content
  OBVIOUS
<1>3. c \in Contents /\ RowFor(f, c)
  BY <1>1, <1>2 DEF OneRow, FileRow, RowFor
<1>4. \A o \in Contents \ {c} : Life!Moved(o) => Life!LetGo(o)
  BY <1>3, OthersLetGo
<1>5. Life!Goes(c, {"document", "receipt"}, {"document", "receipt"})
  BY <1>3, RowGoes
<1>6. Life!Convert
  BY <1>3, <1>4, <1>5 DEF Life!Convert
<1> QED BY <1>6, PlacesAre DEF Life!Next, Places

\* When no row moves, the abstract life stands still.
LEMMA NothingMoves ==
  ASSUME OneRow, OneRow', RowsGoOn, \A f : ~Moves(f)
  PROVE  UNCHANGED Places
<1> SUFFICES ASSUME NEW c \in Contents
             PROVE  PlaceOf(c)' = PlaceOf(c)
  BY DEF Places
<1> SUFFICES ASSUME PlaceOf(c)' # PlaceOf(c)
             PROVE  FALSE
  OBVIOUS
<1>1. PICK f : RowFor(f, c)
  BY MovedHasRow
<1> QED BY <1>1, PlaceGoes DEF Moves

\* One file arrives, or was there already.
LEMMA ArriveOrNothing ==
  ASSUME OneRow, OneRow', RowsGoOn, NEW f,
         ~Moves(f) \/ Steps(f, {"unknown", "trash", "limbo"}, {"document", "receipt", "limbo"}),
         \A g : g # f => ~Moves(g)
  PROVE  Life!Next \/ UNCHANGED Places
<1>1. CASE Moves(f)
  BY <1>1, IsArrive
<1>2. CASE ~Moves(f)
  BY <1>2, NothingMoves
<1> QED BY <1>1, <1>2

\* The step is one of the abstract life, or is not seen by it.
LifeGoesOn == Life!Next \/ UNCHANGED Places

\* The rows of files have what a place depends on.
RowsStay ==
  /\ DOMAIN files' = DOMAIN files
  /\ \A f \in DOMAIN files : /\ files'[f].content = files[f].content
                             /\ files'[f].trashed = files[f].trashed

\* Rows that stay are in the trash as before.
LEMMA RowsStayOn ==
  ASSUME RowsStay
  PROVE  RowsGoOn /\ \A f : InTrash(f)' <=> InTrash(f)
BY DEF RowsStay, RowsGoOn, InTrash

\* What a place depends on.
LEMMA StaysPut ==
  ASSUME NEW f, f \in DOMAIN files' <=> f \in DOMAIN files,
         IsReceipt(f)' <=> IsReceipt(f), Shown(f)' <=> Shown(f), Readers(f)' = {} <=> Readers(f) = {},
         InTrash(f)' <=> InTrash(f)
  PROVE  ~Moves(f)
<1> DEFINE there == f \in DOMAIN files
           receipt == IsReceipt(f)
           shown == Shown(f)
           home == HasHome(f)
           trash == InTrash(f)
           now == f \in DOMAIN files'
           receiptNow == IsReceipt(f)'
           shownNow == Shown(f)'
           homeNow == HasHome(f)'
           trashNow == InTrash(f)'
<1>1. Was(f) = IF ~there THEN "unknown" ELSE IF receipt THEN "receipt" ELSE IF shown THEN "document"
               ELSE IF ~home /\ trash THEN "trash" ELSE "limbo"
  BY DEF Was
<1>2. Was(f)' = IF ~now THEN "unknown" ELSE IF receiptNow THEN "receipt" ELSE IF shownNow THEN "document"
                ELSE IF ~homeNow /\ trashNow THEN "trash" ELSE "limbo"
  BY DEF Was
<1>3. (now <=> there) /\ (receiptNow <=> receipt) /\ (shownNow <=> shown) /\ (homeNow <=> home) /\ (trashNow <=> trash)
  BY DEF HasHome
<1> HIDE DEF there, receipt, shown, home, trash, now, receiptNow, shownNow, homeNow, trashNow
<1> QED BY <1>1, <1>2, <1>3 DEF Moves

\* A document of the set reads the file, and may be seen.
ShownIn(table, f, ds) ==
  \E o \in ds : o \in DOMAIN table /\ table[o].state = "live" /\ f \in FilesOf(table[o].pages)
\* A document of the set reads the file.
PageIn(table, f, ds) ==
  \E o \in ds : o \in DOMAIN table /\ f \in FilesOf(table[o].pages)

\* The step writes these documents, and no other.
OnlyWrites(ds) ==
  /\ \A x : x \notin ds => (x \in DOMAIN documents' <=> x \in DOMAIN documents)
  /\ \A x \in DOMAIN documents : x \notin ds => documents'[x] = documents[x]

\* What the step does not write is read as it was.
LEMMA ReadingStays ==
  ASSUME NEW ds, NEW f,
         OnlyWrites(ds)
  PROVE  /\ (ShownIn(documents', f, ds) => ShownIn(documents, f, ds)) => (Shown(f)' => Shown(f))
         /\ (ShownIn(documents, f, ds) => ShownIn(documents', f, ds)) => (Shown(f) => Shown(f)')
         /\ (PageIn(documents', f, ds) => PageIn(documents, f, ds)) => (Readers(f) = {} => Readers(f)' = {})
         /\ (PageIn(documents, f, ds) => PageIn(documents', f, ds)) => (Readers(f)' = {} => Readers(f) = {})
         /\ (ShownIn(documents, f, ds) => Shown(f)) /\ (ShownIn(documents', f, ds) => Shown(f)')
         /\ (PageIn(documents, f, ds) => Readers(f) # {}) /\ (PageIn(documents', f, ds) => Readers(f)' # {})
<1> DEFINE rest == {x \in DOMAIN documents : x \notin ds}
           seen == \E o \in rest : documents[o].state = "live" /\ f \in FilesOf(documents[o].pages)
           read == \E o \in rest : f \in FilesOf(documents[o].pages)
<1>2. Shown(f) <=> seen \/ ShownIn(documents, f, ds)
  BY DEF Shown, Readers, Live, ShownIn
<1>3. \A o : o \in DOMAIN documents' /\ o \notin ds <=> o \in rest
  BY DEF OnlyWrites
<1>4. \A o \in rest : documents'[o] = documents[o]
  BY DEF OnlyWrites
<1>5. \A o \in DOMAIN documents' : f \in FilesOf(documents[o].pages)' <=> f \in FilesOf(documents'[o].pages)
  BY DEF FilesOf
<1>6. Shown(f)' <=> \E o \in DOMAIN documents' : documents'[o].state = "live" /\ f \in FilesOf(documents'[o].pages)
  BY <1>5 DEF Shown, Readers, Live
<1>7. Shown(f)' <=> seen \/ ShownIn(documents', f, ds)
  <2> HIDE DEF rest
  <2> QED BY <1>3, <1>4, <1>6 DEF ShownIn
<1>8. Readers(f) # {} <=> read \/ PageIn(documents, f, ds)
  BY DEF Readers, PageIn
<1>9. Readers(f)' # {} <=> \E o \in DOMAIN documents' : f \in FilesOf(documents'[o].pages)
  BY <1>5 DEF Readers
<1>10. Readers(f)' # {} <=> read \/ PageIn(documents', f, ds)
  <2> HIDE DEF rest
  <2> QED BY <1>3, <1>4, <1>9 DEF PageIn
<1> HIDE DEF seen, read
<1> QED BY <1>2, <1>7, <1>8, <1>10

\* A step that leaves the rows, and moves pages between the documents of a set only.
LEMMA ReadingMoves ==
  ASSUME OneRow, OneRow', RowsStay, UNCHANGED receipts, NEW ds,
         OnlyWrites(ds),
         \A f : /\ ShownIn(documents', f, ds) <=> ShownIn(documents, f, ds)
                /\ PageIn(documents', f, ds) <=> PageIn(documents, f, ds)
  PROVE  LifeGoesOn
<1>1. ASSUME NEW f
      PROVE  ~Moves(f)
  <2>1. (Shown(f)' <=> Shown(f)) /\ (Readers(f)' = {} <=> Readers(f) = {})
    BY ReadingStays
  <2>3. IsReceipt(f)' <=> IsReceipt(f)
    BY DEF IsReceipt
  <2>2. (InTrash(f)' <=> InTrash(f)) /\ (f \in DOMAIN files' <=> f \in DOMAIN files)
    BY RowsStayOn DEF RowsStay
  <2> QED BY <2>1, <2>2, <2>3, StaysPut
<1>2. RowsGoOn
  BY RowsStayOn
<1> QED BY <1>1, <1>2, NothingMoves DEF LifeGoesOn

\* A step that writes no document and no receipt.
LEMMA QuietStep ==
  ASSUME OneRow, OneRow', RowsStay, UNCHANGED <<documents, receipts>>
  PROVE  LifeGoesOn
<1>1. PICK ds : ds = {}
  OBVIOUS
<1>2. \A table, f : ~ShownIn(table, f, ds) /\ ~PageIn(table, f, ds)
  BY <1>1 DEF ShownIn, PageIn
<1>3. \A f : /\ ShownIn(documents', f, ds) <=> ShownIn(documents, f, ds)
             /\ PageIn(documents', f, ds) <=> PageIn(documents, f, ds)
  BY <1>2
<1>4. OnlyWrites(ds)
  BY DEF OnlyWrites
<1> QED BY <1>3, <1>4, ReadingMoves

\* Pages that two live documents share between them move no file.
LEMMA SharesMoves ==
  ASSUME OneRow, OneRow', UNCHANGED <<files, receipts>>, NEW d, NEW o, Shares(d, o)
  PROVE  LifeGoesOn
<1>1. PICK ds : ds = {d, o}
  OBVIOUS
<1>2. ASSUME NEW f
      PROVE  /\ ShownIn(documents', f, ds) <=> f \in FilesOf(documents'[d].pages) \cup FilesOf(documents'[o].pages)
             /\ PageIn(documents', f, ds) <=> f \in FilesOf(documents'[d].pages) \cup FilesOf(documents'[o].pages)
             /\ ShownIn(documents, f, ds) <=> f \in FilesHere(d) \cup FilesHere(o)
             /\ PageIn(documents, f, ds) <=> f \in FilesHere(d) \cup FilesHere(o)
  BY <1>1 DEF Shares, ShownIn, PageIn, FilesHere
<1>3. \A f : /\ ShownIn(documents', f, ds) <=> ShownIn(documents, f, ds)
             /\ PageIn(documents', f, ds) <=> PageIn(documents, f, ds)
  BY <1>2 DEF Shares
<1>4. OnlyWrites(ds)
  BY <1>1 DEF OnlyWrites, Shares
<1>5. RowsStay
  BY DEF RowsStay
<1> QED BY <1>3, <1>4, <1>5, ReadingMoves

\* One list is written with the files it had.
LEMMA OneListMoves ==
  ASSUME AInv, OneRow, OneRow', UNCHANGED <<files, receipts>>, NEW d \in DOMAIN documents, NEW list,
         documents' = Write(documents, Only(d, list)), FilesOf(list) = FilesOf(documents[d].pages)
  PROVE  LifeGoesOn
<1>1. PICK ds : ds = {d}
  OBVIOUS
<1>2. PICK lists : lists = Only(d, list)
  OBVIOUS
<1>3. \A o \in DOMAIN documents : documents[o] \in DocumentRow
  BY DEF AInv, RowsFit
<1>4. /\ DOMAIN documents' = DOMAIN documents
      /\ \A o \in DOMAIN documents \ DOMAIN lists : documents'[o] = documents[o]
      /\ \A o \in DOMAIN documents \cap DOMAIN lists :
           documents'[o].pages = lists[o] /\ documents'[o].state = documents[o].state
  BY <1>2, <1>3, WriteEffect
<1>5. DOMAIN lists = {d} /\ lists[d] = list
  BY <1>2 DEF Only
<1>6. \A f : /\ ShownIn(documents', f, ds) <=> ShownIn(documents, f, ds)
             /\ PageIn(documents', f, ds) <=> PageIn(documents, f, ds)
  BY <1>1, <1>4, <1>5 DEF ShownIn, PageIn
<1>7. OnlyWrites(ds)
  BY <1>1, <1>4, <1>5 DEF OnlyWrites
<1>8. RowsStay
  BY DEF RowsStay
<1> QED BY <1>6, <1>7, <1>8, ReadingMoves

\* Each action in turn: the pages of one document are rearranged,
LEMMA RearrangeLives ==
  ASSUME IInv, AInv, OneRow', NEW r \in Requests, ReorderPages(r) \/ CropPage(r) \/ TurnFile(r)
  PROVE  LifeGoesOn
<1>1. PICK kind \in Arranges : MayRewrite(r, kind)
  BY DEF ReorderPages, CropPage, TurnFile, Arranges
<1>2. PICK d : d = req[r].doc
  OBVIOUS
<1>3. PICK held : held = req[r].held[d]
  OBVIOUS
<1>4. d \in DOMAIN documents /\ documents[d].pages = held /\ held \in Seq(Entries)
  BY <1>1, <1>2, <1>3, RewriteFacts
<1>5. PICK list : SameEntries(held, list) /\ documents' = Write(documents, Only(d, list))
  BY <1>2, <1>3, <1>4, RearrangesAll
<1>6. UNCHANGED <<files, receipts>> /\ OneRow
  BY DEF ReorderPages, CropPage, TurnFile, IInv
<1> QED BY <1>4, <1>5, <1>6, OneListMoves DEF SameEntries

\* its entries are expanded,
LEMMA ExpandLives ==
  ASSUME IInv, AInv, OneRow', NEW r \in Requests, ExpandPages(r)
  PROVE  LifeGoesOn
<1>1. PICK d : d = req[r].doc
  OBVIOUS
<1>2. PICK pages : pages = documents[d].pages
  OBVIOUS
<1>3. PICK opened : opened = req[r].opened
  OBVIOUS
<1>4. PICK list : list = WithExpandedPages(pages, opened, r)
  OBVIOUS
<1>5. /\ d \in DOMAIN documents /\ documents' = Write(documents, Only(d, list))
      /\ UNCHANGED <<files, receipts>>
  BY <1>1, <1>2, <1>3, <1>4 DEF ExpandPages
<1>6. pages \in Seq(Entries) /\ FilesOf(pages) \subseteq DOMAIN files /\ OneRow
  BY <1>2, <1>5 DEF AInv, RowsFit, DocumentRow, IInv
<1>7. FilesOf(list) = FilesOf(documents[d].pages)
  BY <1>2, <1>4, <1>6, ExpandEffect DEF OneRow
<1> QED BY <1>5, <1>6, <1>7, OneListMoves

\* a document is divided,
LEMMA DivideLives ==
  ASSUME IInv, AInv, OneRow', NEW r \in Requests, SplitAtPage(r) \/ SplitFile(r) \/ MovePages(r)
  PROVE  LifeGoesOn
<1>1. \E d, o : Shares(d, o)
  BY SplitShares, MoveShares
<1>2. UNCHANGED <<files, receipts>> /\ OneRow
  BY DEF SplitAtPage, SplitFile, DivideInto, MovePages, IInv
<1> QED BY <1>1, <1>2, SharesMoves

\* documents are combined,
LEMMA CombineLives ==
  ASSUME IInv, AInv, OneRow', NEW r \in Requests, Combine(r)
  PROVE  LifeGoesOn
<1>1. PICK d, source : d = req[r].doc /\ source = req[r].to
  OBVIOUS
<1>2. PICK old, given : old = documents[d].pages /\ given = documents[source].pages
  OBVIOUS
<1>3. PICK list : list = old \o WithoutId(given, r)
  OBVIOUS
<1>4. PICK lists : lists = [o \in {d, source} |-> IF o = d THEN list ELSE <<>>]
  OBVIOUS
<1>5. PICK table : table = Write(documents, lists)
  OBVIOUS
<1>6. /\ At(r, "read") /\ req[r].kind = "combine" /\ d \in DOMAIN documents /\ source \in DOMAIN documents
      /\ documents' = [table EXCEPT ![source].state = "merged"]
      /\ UNCHANGED <<files, receipts>> /\ OneRow
  BY <1>1, <1>2, <1>3, <1>4, <1>5 DEF Combine, IInv
<1>7. source # d
  BY <1>1, <1>6 DEF AInv, RequestFits, PlanFits
<1>8. \A o \in DOMAIN documents : documents[o] \in DocumentRow
  BY DEF AInv, RowsFit
<1>9. old \in Seq(Entries) /\ given \in Seq(Entries)
  BY <1>2, <1>6, <1>8 DEF DocumentRow
<1>10. FilesOf(list) = FilesOf(old) \cup FilesOf(given)
  <2>1. PICK taken : taken = WithoutId(given, r)
    OBVIOUS
  <2>2. taken \in Seq(Entries) /\ FilesOf(taken) = FilesOf(given)
    BY <1>9, <2>1, WithoutIdEffect
  <2> QED BY <1>3, <1>9, <2>1, <2>2, ConcatEffect
<1>11. DOMAIN lists = {d, source} /\ lists[d] = list /\ lists[source] = <<>>
  BY <1>4, <1>7
<1>12. /\ DOMAIN table = DOMAIN documents
       /\ \A o \in DOMAIN documents \ DOMAIN lists : table[o] = documents[o]
       /\ \A o \in DOMAIN documents \cap DOMAIN lists :
            table[o].pages = lists[o] /\ table[o] \in DocumentRow /\ table[o].state = documents[o].state
  <2>1. <<>> \in Seq(Entries) /\ list \in Seq(Entries)
    <3>1. PICK taken : taken = WithoutId(given, r)
      OBVIOUS
    <3>2. taken \in Seq(Entries)
      BY <1>9, <3>1, WithoutIdEffect
    <3>3. list = old \o taken
      BY <1>3, <3>1
    <3>4. list \in Seq(Entries)
      BY <1>9, <3>2, <3>3, ConcatEffect
    <3>5. <<>> \in Seq(Entries)
      OBVIOUS
    <3> QED BY <3>4, <3>5
  <2>2. \A o \in DOMAIN lists : lists[o] \in Seq(Entries)
    BY <1>11, <2>1
  <2> QED BY <1>5, <1>8, <2>2, WriteEffect
<1>13. /\ DOMAIN documents' = DOMAIN documents
       /\ \A o \in DOMAIN documents \ {d, source} : documents'[o] = documents[o]
       /\ documents'[d].pages = list /\ documents'[d].state = documents[d].state
       /\ documents'[source].pages = <<>> /\ documents'[source].state = "merged"
  <2>1. PICK row : row = table[source]
    OBVIOUS
  <2>2. row \in DocumentRow /\ row.pages = <<>>
    BY <1>6, <1>11, <1>12, <2>1
  <2>3. [row EXCEPT !.state = "merged"].pages = <<>> /\ [row EXCEPT !.state = "merged"].state = "merged"
    BY <2>2 DEF DocumentRow
  <2> QED BY <1>6, <1>7, <1>11, <1>12, <2>1, <2>3
<1>14. PICK ds : ds = {d, source}
  OBVIOUS
<1>15. OnlyWrites(ds)
  BY <1>13, <1>14 DEF OnlyWrites
<1>16. FilesOf(<<>>) = {}
  BY DEF FilesOf
<1>17. ASSUME NEW f
       PROVE  /\ PageIn(documents', f, ds) <=> PageIn(documents, f, ds)
              /\ ShownIn(documents', f, ds) <=> documents[d].state = "live" /\ PageIn(documents, f, ds)
              /\ ShownIn(documents, f, ds) => PageIn(documents, f, ds)
  BY <1>2, <1>6, <1>7, <1>10, <1>13, <1>14, <1>16 DEF PageIn, ShownIn
<1>18. ASSUME NEW f
       PROVE  /\ IsReceipt(f)' <=> IsReceipt(f)
              /\ InTrash(f)' <=> InTrash(f)
              /\ f \in DOMAIN files' <=> f \in DOMAIN files
              /\ Readers(f)' = {} <=> Readers(f) = {}
              /\ documents[d].state = "live" => (Shown(f) => Shown(f)')
              /\ documents[d].state # "live" => (Shown(f)' => Shown(f))
  BY <1>6, <1>15, <1>17, ReadingStays DEF IsReceipt, InTrash
<1>19. ASSUME NEW f, Moves(f)
       PROVE  /\ f \in DOMAIN files /\ ~IsReceipt(f) /\ Readers(f) # {}
              /\ documents[d].state = "live" => ~Shown(f) /\ Shown(f)'
              /\ documents[d].state # "live" => Shown(f) /\ ~Shown(f)'
  <2>1. ~(Shown(f)' <=> Shown(f))
    BY <1>18, <1>19, StaysPut
  <2>2. f \in DOMAIN files /\ ~IsReceipt(f)
    BY <1>18, <1>19, <2>1 DEF Moves, Was
  <2>3. Readers(f) # {}
    BY <1>18, <2>1 DEF Shown
  <2> QED BY <1>18, <2>1, <2>2, <2>3
<1>20. RowsGoOn
  BY <1>6 DEF RowsGoOn
<1>21. CASE documents[d].state = "live"
  <2>1. ASSUME NEW f, Moves(f)
        PROVE  Steps(f, {"limbo"}, {"document"})
    <3>1. Was(f) = "limbo"
      BY <1>19, <1>21, <2>1 DEF Was, HasHome
    <3>2. Was(f)' = "document"
      BY <1>18, <1>19, <1>21, <2>1, WillCases
    <3> QED BY <3>1, <3>2 DEF Steps
  <2> QED BY <1>6, <1>20, <2>1, IsRecover DEF LifeGoesOn
<1>22. CASE documents[d].state # "live"
  <2>1. ASSUME NEW f, Moves(f)
        PROVE  Steps(f, {"document", "receipt"}, {"trash", "limbo"})
    <3>1. Was(f) = "document"
      BY <1>19, <1>22, <2>1, WasCases
    <3>2. f \in DOMAIN files' /\ ~IsReceipt(f)' /\ ~Shown(f)' /\ Readers(f)' # {}
      BY <1>18, <1>19, <1>22, <2>1
    <3>3. Was(f)' = "limbo"
      BY <3>2, WillCases DEF HasHome
    <3> QED BY <3>1, <3>3 DEF Steps
  <2> QED BY <1>6, <1>20, <2>1, IsDiscard DEF LifeGoesOn
<1> QED BY <1>21, <1>22

\* The documents are not written, and these rows and receipts stay.
LEMMA ReadAsBefore ==
  ASSUME UNCHANGED documents, NEW f
  PROVE  Readers(f)' = Readers(f) /\ (Shown(f)' <=> Shown(f))
BY DEF Readers, FilesOf, Shown, Live

\* A document is made of one file, or a document gets one more file.
LEMMA OneMoreRead ==
  ASSUME NEW d, NEW f,
         DOMAIN documents' = DOMAIN documents \cup {d},
         \A o \in DOMAIN documents : o # d => documents'[o] = documents[o],
         d \in DOMAIN documents => /\ documents'[d].state = documents[d].state
                                   /\ FilesOf(documents'[d].pages) = FilesOf(documents[d].pages) \cup {f},
         d \notin DOMAIN documents => /\ documents'[d].state = "live"
                                      /\ FilesOf(documents'[d].pages) = {f}
  PROVE  /\ \A g : g # f => (Shown(g)' <=> Shown(g)) /\ (Readers(g)' = {} <=> Readers(g) = {})
         /\ Shown(f) => Shown(f)'
         /\ Readers(f)' # {}
         /\ d \notin DOMAIN documents => Shown(f)'
<1>1. PICK ds : ds = {d}
  OBVIOUS
<1>2. OnlyWrites(ds)
  BY <1>1 DEF OnlyWrites
<1>3. ASSUME NEW g
      PROVE  /\ g # f => (ShownIn(documents', g, ds) <=> ShownIn(documents, g, ds))
             /\ g # f => (PageIn(documents', g, ds) <=> PageIn(documents, g, ds))
             /\ ShownIn(documents, g, ds) => ShownIn(documents', g, ds)
             /\ PageIn(documents', f, ds)
             /\ d \notin DOMAIN documents => ShownIn(documents', f, ds)
  <2>1. CASE d \in DOMAIN documents
    BY <1>1, <2>1 DEF ShownIn, PageIn
  <2>2. CASE d \notin DOMAIN documents
    BY <1>1, <2>2 DEF ShownIn, PageIn
  <2> QED BY <2>1, <2>2
<1>4. ASSUME NEW g, g # f
      PROVE  (Shown(g)' <=> Shown(g)) /\ (Readers(g)' = {} <=> Readers(g) = {})
  BY <1>2, <1>3, <1>4, ReadingStays
<1>5. (Shown(f) => Shown(f)') /\ Readers(f)' # {} /\ (d \notin DOMAIN documents => Shown(f)')
  BY <1>2, <1>3, ReadingStays
<1> QED BY <1>4, <1>5

\* a receipt is deleted,
LEMMA DeleteReceiptLives ==
  ASSUME IInv, AInv, OneRow', NEW r \in Requests, NEW x \in DOMAIN receipts, DeleteReceipt(r, x)
  PROVE  LifeGoesOn
<1>1. PICK f : f = receipts[x]
  OBVIOUS
<1>2. PICK fs, kind : fs = {f} /\ kind = "RECEIPT"
  OBVIOUS
<1>3. UNCHANGED documents /\ files' = Trashed(files, fs, kind) /\ receipts' = Without(receipts, {x})
  BY <1>1, <1>2 DEF DeleteReceipt
<1>4. f \in DOMAIN files /\ \A y \in DOMAIN receipts : receipts[y] = f => y = x
  BY <1>1 DEF AInv, RowsFit
<1>5. /\ DOMAIN files' = DOMAIN files
      /\ \A g \in DOMAIN files \ fs : files'[g] = files[g]
      /\ \A g \in DOMAIN files : files'[g].content = files[g].content
  <2>1. \A g \in DOMAIN files : files[g] \in FileRow
    BY DEF IInv, OneRow
  <2> QED BY <1>3, <2>1, TrashedEffect
<1>6. /\ DOMAIN receipts' = DOMAIN receipts \ {x}
      /\ \A y \in DOMAIN receipts' : receipts'[y] = receipts[y]
  BY <1>3 DEF Without
<1>7. RowsGoOn /\ OneRow
  BY <1>5 DEF RowsGoOn, IInv
<1>8. ASSUME NEW g, g # f
      PROVE  ~Moves(g)
  <2>1. IsReceipt(g)' <=> IsReceipt(g)
    BY <1>1, <1>6, <1>8 DEF IsReceipt
  <2>2. InTrash(g)' <=> InTrash(g)
    BY <1>2, <1>5, <1>8 DEF InTrash
  <2> QED BY <1>3, <1>5, <2>1, <2>2, ReadAsBefore, StaysPut
<1>9. Was(f) = "receipt"
  <2>1. IsReceipt(f)
    BY <1>1 DEF IsReceipt
  <2> QED BY <1>4, <2>1, WasCases
<1>10. f \in DOMAIN files' /\ ~IsReceipt(f)'
  BY <1>4, <1>5, <1>6 DEF IsReceipt
<1>11. CASE Shown(f)'
  <2>1. Was(f)' = "document"
    BY <1>10, <1>11, WillCases
  <2>2. Steps(f, {"document", "receipt"}, {"document", "receipt"})
    BY <1>9, <2>1 DEF Steps
  <2> QED BY <1>7, <1>8, <2>2, IsConvert DEF LifeGoesOn
<1>12. CASE ~Shown(f)'
  <2>1. Was(f)' \in {"trash", "limbo"}
    BY <1>10, <1>12, WillCases DEF Life!Places
  <2>2. \A g : Moves(g) => Steps(g, {"document", "receipt"}, {"trash", "limbo"})
    BY <1>8, <1>9, <2>1 DEF Steps
  <2> QED BY <1>7, <2>2, IsDiscard DEF LifeGoesOn
<1> QED BY <1>11, <1>12

\* a receipt becomes a document,
LEMMA ReceiptToDocumentLives ==
  ASSUME IInv, AInv, OneRow', NEW r \in Requests, NEW x \in DOMAIN receipts, ReceiptToDocument(r, x)
  PROVE  LifeGoesOn
<1>1. PICK f : f = receipts[x]
  OBVIOUS
<1>2. PICK row : row = files[f]
  OBVIOUS
<1>3. PICK list : list = PagesForFile(f, row, r)
  OBVIOUS
<1>4. PICK owned : owned = TRUE
  OBVIOUS
<1>5. /\ UNCHANGED files
      /\ documents' = WithRow(documents, x, Product(owned, list)) /\ receipts' = Without(receipts, {x})
  BY <1>1, <1>2, <1>3, <1>4 DEF ReceiptToDocument
<1>6. /\ f \in DOMAIN files /\ \A y \in DOMAIN receipts : receipts[y] = f => y = x
      /\ x \notin DOMAIN documents /\ f \in FileIds /\ row \in FileRow
  BY <1>1, <1>2 DEF AInv, RowsFit, IInv, OneRow
<1>7. FilesOf(list) = {f}
  BY <1>3, <1>6, ArrivingEffect
<1>8. /\ DOMAIN documents' = DOMAIN documents \cup {x} /\ documents'[x] = Product(owned, list)
      /\ \A o \in DOMAIN documents : documents'[o] = documents[o]
  BY <1>5, <1>6 DEF WithRow
<1>9. documents'[x].state = "live" /\ documents'[x].pages = list
  BY <1>8 DEF Product
<1>10. /\ \A g : g # f => (Shown(g)' <=> Shown(g)) /\ (Readers(g)' = {} <=> Readers(g) = {})
       /\ Shown(f)'
  BY <1>6, <1>7, <1>8, <1>9, OneMoreRead
<1>11. /\ DOMAIN receipts' = DOMAIN receipts \ {x}
       /\ \A y \in DOMAIN receipts' : receipts'[y] = receipts[y]
  BY <1>5 DEF Without
<1>12. ASSUME NEW g, g # f
       PROVE  ~Moves(g)
  <2>1. IsReceipt(g)' <=> IsReceipt(g)
    BY <1>1, <1>11, <1>12 DEF IsReceipt
  <2>2. (InTrash(g)' <=> InTrash(g)) /\ (g \in DOMAIN files' <=> g \in DOMAIN files)
    BY <1>5 DEF InTrash
  <2> QED BY <1>10, <1>12, <2>1, <2>2, StaysPut
<1>13. Was(f) = "receipt"
  <2>1. IsReceipt(f)
    BY <1>1 DEF IsReceipt
  <2> QED BY <1>6, <2>1, WasCases
<1>14. Was(f)' = "document"
  <2>1. f \in DOMAIN files' /\ ~IsReceipt(f)'
    BY <1>5, <1>6, <1>11 DEF IsReceipt
  <2> QED BY <1>10, <2>1, WillCases
<1>15. Steps(f, {"document", "receipt"}, {"document", "receipt"})
  BY <1>13, <1>14 DEF Steps
<1>16. RowsGoOn /\ OneRow
  BY <1>5 DEF RowsGoOn, IInv
<1> QED BY <1>12, <1>15, <1>16, IsConvert DEF LifeGoesOn

\* a file is restored,
LEMMA CommitRestoreLives ==
  ASSUME IInv, AInv, OneRow', NEW r \in Requests, CommitRestore(r)
  PROVE  LifeGoesOn
<1>1. At(r, "checked") /\ req[r].kind = "restoring" /\ ~Over(r)
  BY DEF CommitRestore, At, Over
<1>2. PICK f \in req[r].subject : req[r].subject = {f}
  BY <1>1 DEF AInv, RequestFits, RestoreFits
<1>3. (CHOOSE x \in req[r].subject : TRUE) = f
  BY <1>2
<1>4. PICK row : row = files'[f]
  OBVIOUS
<1>5. PICK list : list = PagesForFile(f, row, r)
  OBVIOUS
<1>6. PICK owned : owned = TRUE
  OBVIOUS
<1>7. /\ f \in DOMAIN files /\ ~IsReceipt(f)
      /\ files' = [files EXCEPT ![f].trashed = "no"]
      /\ \/ /\ receipts' = WithRow(receipts, r, f) /\ UNCHANGED documents
            /\ Readers(f) \cap Live = {}
         \/ documents' = WithRow(documents, r, Product(owned, list)) /\ UNCHANGED receipts
  BY <1>3, <1>4, <1>5, <1>6 DEF CommitRestore
<1>8. /\ DOMAIN files' = DOMAIN files
      /\ \A g \in DOMAIN files \ {f} : files'[g] = files[g]
      /\ row.content = files[f].content /\ row \in FileRow
  <2>1. files[f] \in FileRow
    BY <1>7 DEF IInv, OneRow
  <2>2. /\ [files[f] EXCEPT !.trashed = "no"] \in FileRow
        /\ [files[f] EXCEPT !.trashed = "no"].content = files[f].content
    BY <2>1 DEF FileRow
  <2>3. row = [files[f] EXCEPT !.trashed = "no"]
    BY <1>4, <1>7
  <2> QED BY <2>2, <2>3, <1>7
<1>9. RowsGoOn /\ OneRow
  BY <1>4, <1>8 DEF RowsGoOn, IInv
<1>10. r \notin DOMAIN documents /\ r \notin DOMAIN receipts /\ f \in FileIds
  BY <1>1, <1>7 DEF AInv, RowsFit, Made
<1>11. \A g : g # f => (InTrash(g)' <=> InTrash(g)) /\ (g \in DOMAIN files' <=> g \in DOMAIN files)
  BY <1>8 DEF InTrash
<1>12. f \in DOMAIN files' /\ Was(f) # "unknown" /\ Was(f) # "receipt"
  BY <1>7, <1>8, WasCases
<1>13. CASE receipts' = WithRow(receipts, r, f) /\ UNCHANGED documents /\ Readers(f) \cap Live = {}
  <2>1. DOMAIN receipts' = DOMAIN receipts \cup {r} /\ receipts'[r] = f
        /\ \A x \in DOMAIN receipts : receipts'[x] = receipts[x]
    BY <1>10, <1>13 DEF WithRow
  <2>2. ASSUME NEW g, g # f
        PROVE  ~Moves(g)
    <3>1. IsReceipt(g)' <=> IsReceipt(g)
      BY <1>10, <2>1, <2>2 DEF IsReceipt
    <3> QED BY <1>11, <1>13, <2>2, <3>1, ReadAsBefore, StaysPut
  <2>3. Was(f) \in {"trash", "limbo"}
    <3>1. ~Shown(f)
      BY <1>13 DEF Shown
    <3> QED BY <1>12, <3>1, WasCases DEF Life!Places
  <2>4. Was(f)' = "receipt"
    <3>1. IsReceipt(f)'
      BY <2>1 DEF IsReceipt
    <3> QED BY <1>12, <3>1, WillCases
  <2>5. Steps(f, {"unknown", "trash", "limbo"}, {"document", "receipt", "limbo"})
    BY <2>3, <2>4 DEF Steps
  <2> QED BY <1>9, <2>2, <2>5, ArriveOrNothing DEF LifeGoesOn
<1>14. CASE documents' = WithRow(documents, r, Product(owned, list)) /\ UNCHANGED receipts
  <2>1. FilesOf(list) = {f}
    BY <1>5, <1>8, <1>10, ArrivingEffect
  <2>2. /\ DOMAIN documents' = DOMAIN documents \cup {r} /\ documents'[r] = Product(owned, list)
        /\ \A o \in DOMAIN documents : documents'[o] = documents[o]
    BY <1>10, <1>14 DEF WithRow
  <2>3. documents'[r].state = "live" /\ documents'[r].pages = list
    BY <2>2 DEF Product
  <2>4. /\ \A g : g # f => (Shown(g)' <=> Shown(g)) /\ (Readers(g)' = {} <=> Readers(g) = {})
        /\ Shown(f)'
    BY <1>10, <2>1, <2>2, <2>3, OneMoreRead
  <2>5. \A g : IsReceipt(g)' <=> IsReceipt(g)
    BY <1>14 DEF IsReceipt
  <2>6. ASSUME NEW g, g # f
        PROVE  ~Moves(g)
    BY <1>11, <2>4, <2>5, <2>6, StaysPut
  <2>7. Was(f)' = "document"
    BY <1>7, <1>12, <2>4, <2>5, WillCases
  <2>8. ~Moves(f) \/ Steps(f, {"unknown", "trash", "limbo"}, {"document", "receipt", "limbo"})
    BY <1>12, <2>7, WasCases DEF Moves, Steps, Life!Places
  <2> QED BY <1>9, <2>6, <2>8, ArriveOrNothing DEF LifeGoesOn
<1> QED BY <1>7, <1>13, <1>14

\* the trash is purged,
LEMMA PurgeLives ==
  ASSUME IInv, AInv, OneRow', NEW r \in Requests, Purge(r)
  PROVE  LifeGoesOn
<1>1. PICK held : held = req[r].held
  OBVIOUS
<1>2. /\ \A f \in held : ~HasHome(f)
      /\ files' = Without(files, held) /\ UNCHANGED <<documents, receipts>>
  BY <1>1 DEF Purge
<1>3. /\ DOMAIN files' = DOMAIN files \ held
      /\ \A f \in DOMAIN files' : files'[f] = files[f]
  BY <1>2 DEF Without
<1>4. RowsGoOn /\ OneRow
  BY <1>3 DEF RowsGoOn, IInv
<1>5. ASSUME NEW f, f \notin held \cap DOMAIN files
      PROVE  ~Moves(f)
  <2>1. IsReceipt(f)' <=> IsReceipt(f)
    BY <1>2 DEF IsReceipt
  <2>2. (InTrash(f)' <=> InTrash(f)) /\ (f \in DOMAIN files' <=> f \in DOMAIN files)
    BY <1>3, <1>5 DEF InTrash
  <2> QED BY <1>2, <2>1, <2>2, ReadAsBefore, StaysPut
<1>6. ASSUME NEW f \in held \cap DOMAIN files
      PROVE  Steps(f, {"trash", "limbo"}, {"unknown"})
  <2>1. ~IsReceipt(f) /\ ~Shown(f)
    BY <1>2 DEF HasHome, Shown
  <2>2. Was(f) \in {"trash", "limbo"}
    BY <2>1, WasCases DEF Life!Places
  <2>3. Was(f)' = "unknown"
    BY <1>3, WillCases
  <2> QED BY <2>2, <2>3 DEF Steps
<1> QED BY <1>4, <1>5, <1>6, IsForget DEF LifeGoesOn

\* pages are taken out,
LEMMA CommitTakingOutLives ==
  ASSUME IInv, AInv, OneRow', NEW r \in Requests, CommitTakingOut(r)
  PROVE  LifeGoesOn
<1>1. PICK t : t = req[r]
  OBVIOUS
<1>2. At(r, "checked") /\ t.kind = "out"
  BY <1>1 DEF CommitTakingOut
<1>3. PICK d \in DOMAIN documents : TakingFits(t, d)
  BY <1>1, <1>2 DEF AInv, RequestFits, OutFits
<1>4. /\ t.locks = {d} /\ documents[d].state = "live"
      /\ t.subject \subseteq FilesOf(documents[d].pages) /\ t.orphaned \subseteq t.subject
      /\ ~t.dropped =>
           /\ t.list \in Seq(Entries)
           /\ EntriesOf(t.list) \subseteq EntriesOf(documents[d].pages)
           /\ \A e \in EntriesOf(documents[d].pages) : e.file \in t.subject \/ e \in EntriesOf(t.list)
  BY <1>3 DEF TakingFits
<1>5. (CHOOSE x \in t.locks : TRUE) = d
  BY <1>4
<1>6. /\ t.dropped => documents' = Without(documents, {d})
      /\ ~t.dropped => documents' = Write(documents, Only(d, t.list))
      /\ files' = Trashed(files, t.orphaned, "DOCUMENT")
      /\ UNCHANGED receipts
  BY <1>1, <1>5 DEF CommitTakingOut
<1>7. \A o \in DOMAIN documents : documents[o] \in DocumentRow
  BY DEF AInv, RowsFit
<1>8. /\ DOMAIN files' = DOMAIN files
      /\ \A f \in DOMAIN files \ t.orphaned : files'[f] = files[f]
      /\ \A f \in DOMAIN files : files'[f].content = files[f].content
  <2>1. \A f \in DOMAIN files : files[f] \in FileRow
    BY DEF IInv, OneRow
  <2> QED BY <1>6, <2>1, TrashedEffect
<1>9. RowsGoOn /\ OneRow
  BY <1>8 DEF RowsGoOn, IInv
<1>10. PICK ds : ds = {d}
  OBVIOUS
<1>11. /\ \A o : o # d => (o \in DOMAIN documents' <=> o \in DOMAIN documents)
       /\ \A o \in DOMAIN documents : o # d => documents'[o] = documents[o]
  <2>1. CASE t.dropped
    BY <2>1, <1>6 DEF Without
  <2>2. CASE ~t.dropped
    <3>1. DOMAIN Only(d, t.list) = {d}
      BY DEF Only
    <3>2. /\ DOMAIN documents' = DOMAIN documents
          /\ \A o \in DOMAIN documents \ {d} : documents'[o] = documents[o]
      BY <2>2, <1>6, <1>7, <3>1, WriteEffect
    <3> QED BY <3>2
  <2> QED BY <2>1, <2>2
<1>12. OnlyWrites(ds)
  BY <1>10, <1>11 DEF OnlyWrites
<1>13. ASSUME NEW f, f \notin FilesOf(documents[d].pages)
       PROVE  ~PageIn(documents', f, ds) /\ ~PageIn(documents, f, ds)
  <2>1. CASE t.dropped
    BY <2>1, <1>6, <1>10, <1>13 DEF Without, PageIn
  <2>2. CASE ~t.dropped
    <3>1. DOMAIN Only(d, t.list) = {d} /\ Only(d, t.list)[d] = t.list
      BY DEF Only
    <3>2. documents'[d].pages = t.list
      BY <2>2, <1>6, <1>7, <3>1, WriteEffect
    <3>3. FilesOf(t.list) \subseteq FilesOf(documents[d].pages)
      BY <2>2, <1>4, OfEntries
    <3> QED BY <1>10, <1>13, <3>2, <3>3 DEF PageIn
  <2> QED BY <2>1, <2>2
<1>14. \A f : IsReceipt(f)' <=> IsReceipt(f)
  BY <1>6 DEF IsReceipt
<1>15. ASSUME NEW f, f \notin FilesOf(documents[d].pages)
       PROVE  ~Moves(f)
  <2>1. \A table : ShownIn(table, f, ds) => PageIn(table, f, ds)
    BY DEF ShownIn, PageIn
  <2>2. (Shown(f)' <=> Shown(f)) /\ (Readers(f)' = {} <=> Readers(f) = {})
    BY <1>12, <1>13, <1>15, <2>1, ReadingStays
  <2>3. InTrash(f)' <=> InTrash(f)
    BY <1>4, <1>8, <1>15 DEF InTrash
  <2> QED BY <1>8, <1>14, <2>2, <2>3, StaysPut
<1>16. ASSUME NEW f, Moves(f)
       PROVE  Steps(f, {"document", "receipt"}, {"trash", "limbo"})
  <2>1. f \in FilesOf(documents[d].pages)
    BY <1>15, <1>16
  <2>2. f \in DOMAIN files /\ f \in DOMAIN files'
    BY <1>8, <2>1 DEF AInv, RowsFit
  <2>3. Shown(f)
    BY <1>4, <2>1 DEF Shown, Readers, Live
  <2>4. ~IsReceipt(f)
    BY <1>14, <1>16, <2>2, WasCases, WillCases DEF Moves
  <2>5. Was(f) = "document"
    BY <2>2, <2>3, <2>4, WasCases
  <2>6. Was(f)' \in {"trash", "limbo"}
    BY <1>14, <1>16, <2>2, <2>4, <2>5, WillCases DEF Moves, Life!Places
  <2> QED BY <2>5, <2>6 DEF Steps
<1> QED BY <1>9, <1>16, IsDiscard DEF LifeGoesOn

\* a document becomes a receipt,
LEMMA DocumentToReceiptLives ==
  ASSUME IInv, AInv, OneRow', NEW r \in Requests, DocumentToReceipt(r)
  PROVE  LifeGoesOn
<1>1. PICK f, d : f = req[r].file /\ d = req[r].doc
  OBVIOUS
<1>2. /\ UNCHANGED files /\ d \in DOMAIN documents /\ f \in DOMAIN files /\ ~IsReceipt(f)
      /\ documents' = Without(documents, {d}) /\ receipts' = WithRow(receipts, d, f)
  BY <1>1 DEF DocumentToReceipt
<1>3. d \notin DOMAIN receipts
  BY <1>2 DEF AInv, RowsFit
<1>4. /\ DOMAIN receipts' = DOMAIN receipts \cup {d} /\ receipts'[d] = f
      /\ \A x \in DOMAIN receipts : receipts'[x] = receipts[x]
  BY <1>2, <1>3 DEF WithRow
<1>5. /\ DOMAIN documents' = DOMAIN documents \ {d}
      /\ \A o \in DOMAIN documents' : documents'[o] = documents[o]
  BY <1>2 DEF Without
<1>6. PICK ds : ds = {d}
  OBVIOUS
<1>7. OnlyWrites(ds)
  BY <1>5, <1>6 DEF OnlyWrites
<1>8. \A g : ~ShownIn(documents', g, ds) /\ ~PageIn(documents', g, ds)
  BY <1>5, <1>6 DEF ShownIn, PageIn
<1>9. \A g : (Shown(g)' => Shown(g)) /\ (Readers(g) = {} => Readers(g)' = {})
  BY <1>7, <1>8, ReadingStays
<1>10. \A g : (InTrash(g)' <=> InTrash(g)) /\ (g \in DOMAIN files' <=> g \in DOMAIN files)
  BY <1>2 DEF InTrash
<1>11. \A g : g # f => (IsReceipt(g)' <=> IsReceipt(g))
  BY <1>3, <1>4 DEF IsReceipt
<1>12. RowsGoOn /\ OneRow
  BY <1>2 DEF RowsGoOn, IInv
<1>13. ASSUME NEW g, g # f, Moves(g)
       PROVE  Steps(g, {"document", "limbo"}, {"trash", "limbo"})
  <2>1. Was(g)' # Was(g)
    BY <1>13 DEF Moves
  <2>2. g \in DOMAIN files /\ g \in DOMAIN files'
    BY <1>10, <2>1, WasCases, WillCases
  <2>3. ~IsReceipt(g) /\ ~IsReceipt(g)'
    BY <1>11, <1>13, <2>1, <2>2, WasCases, WillCases
  <2>4. Was(g) # "trash"
    <3> SUFFICES ASSUME Was(g) = "trash"
                 PROVE  FALSE
      OBVIOUS
    <3>1. ~Shown(g) /\ ~HasHome(g) /\ InTrash(g)
      BY <2>2, <2>3 DEF Was
    <3>2. ~Shown(g)' /\ Readers(g)' = {} /\ InTrash(g)'
      BY <1>9, <1>10, <3>1 DEF HasHome
    <3>3. Readers(g) = {} /\ (IsReceipt(g)' <=> IsReceipt(g))
      BY <1>11, <1>13, <3>1 DEF HasHome
    <3>4. ~Moves(g)
      BY <1>10, <3>1, <3>2, <3>3, StaysPut
    <3> QED BY <1>13, <3>4
  <2>5. Was(g)' # "document"
    BY <1>9, <2>1, <2>2, <2>3, WasCases, WillCases
  <2>6. Was(g) \in {"document", "limbo"}
    BY <2>2, <2>3, <2>4, WasCases DEF Life!Places
  <2>7. Was(g)' \in {"trash", "limbo"}
    BY <2>2, <2>3, <2>5, WillCases DEF Life!Places
  <2> QED BY <2>6, <2>7 DEF Steps
<1>14. Was(f)' = "receipt"
  <2>1. IsReceipt(f)'
    BY <1>4 DEF IsReceipt
  <2> QED BY <1>2, <1>10, <2>1, WillCases
<1>15. CASE Was(f) = "document"
  <2>1. Steps(f, {"document", "receipt"}, {"document", "receipt"})
    BY <1>14, <1>15 DEF Steps
  <2> QED BY <1>12, <1>13, <2>1, IsConvert DEF LifeGoesOn
<1>16. CASE Was(f) # "document"
  <2>1. Was(f) \in {"trash", "limbo"}
    BY <1>2, <1>16, WasCases DEF Life!Places
  <2>2. Steps(f, {"unknown", "trash", "limbo"}, {"document", "receipt", "limbo"})
    BY <1>14, <2>1 DEF Steps
  <2> QED BY <1>12, <1>13, <2>2, IsArrive DEF LifeGoesOn
<1> QED BY <1>15, <1>16

\* The bytes that a transaction brings, and their pages.
LEMMA BytesRow ==
  ASSUME IInv, AInv, NEW r \in Requests, CommitBytes(r), NEW f, f = req[r].file
  PROVE  /\ OneRow /\ ~IsReceipt(f) /\ r \notin DOMAIN documents /\ r \notin DOMAIN receipts
         /\ FilesOf(PagesForFile(f, req[r].row, r)) = {f}
         /\ PagesForFile(f, req[r].row, r) \in Seq(Entries)
         /\ Brings(r) /\ (req[r].created \/ req[r].file \in DOMAIN files)
<1>1. /\ Brings(r) /\ (req[r].created \/ f \in DOMAIN files)
      /\ r \notin DOMAIN documents /\ r \notin DOMAIN receipts
      /\ FilesOf(PagesForFile(f, req[r].row, r)) = {f}
      /\ PagesForFile(f, req[r].row, r) \in Seq(Entries)
  BY BytesCommit
<1>2. req[r].kind \in Kinds
  BY <1>1 DEF IInv, HashIsHeld, Brings, At
<1>3. ~IsReceipt(f)
  BY <1>2 DEF CommitBytes, Kinds
<1> QED BY <1>1, <1>3 DEF IInv

\* A file arrives, and nothing else is moved.
LEMMA OneArrives ==
  ASSUME OneRow, OneRow', NEW f,
         DOMAIN files' = DOMAIN files \cup {f},
         \A g \in DOMAIN files \ {f} : files'[g] = files[g],
         f \in DOMAIN files => files'[f].content = files[f].content,
         ~IsReceipt(f),
         \A g : g # f => /\ IsReceipt(g)' <=> IsReceipt(g)
                         /\ Shown(g)' <=> Shown(g)
                         /\ Readers(g)' = {} <=> Readers(g) = {},
         \/ IsReceipt(f)' /\ ~Shown(f)
         \/ ~IsReceipt(f)' /\ (Shown(f) => Shown(f)') /\ Readers(f)' # {}
  PROVE  LifeGoesOn
<1>1. RowsGoOn
  BY DEF RowsGoOn
<1>2. ASSUME NEW g, g # f
      PROVE  ~Moves(g)
  <2>1. (InTrash(g)' <=> InTrash(g)) /\ (g \in DOMAIN files' <=> g \in DOMAIN files)
    BY <1>2 DEF InTrash
  <2> QED BY <1>2, <2>1, StaysPut
<1>3. Was(f) # "receipt"
  BY WasCases
<1>4. CASE IsReceipt(f)' /\ ~Shown(f)
  <2>1. Was(f)' = "receipt" /\ Was(f) \in {"unknown", "trash", "limbo"}
    BY <1>3, <1>4, WasCases, WillCases DEF Life!Places
  <2>2. Steps(f, {"unknown", "trash", "limbo"}, {"document", "receipt", "limbo"})
    BY <2>1 DEF Steps
  <2> QED BY <1>1, <1>2, <2>2, ArriveOrNothing DEF LifeGoesOn
<1>5. CASE ~IsReceipt(f)' /\ (Shown(f) => Shown(f)') /\ Readers(f)' # {}
  <2>1. Was(f)' \in {"document", "limbo"}
    <3>1. HasHome(f)' /\ f \in DOMAIN files'
      BY <1>5 DEF HasHome
    <3> QED BY <1>5, <3>1, WillCases
  <2>2. Was(f) = "document" => Was(f)' = "document"
    BY <1>5, WasCases, WillCases
  <2>3. ~Moves(f) \/ Steps(f, {"unknown", "trash", "limbo"}, {"document", "receipt", "limbo"})
    BY <1>3, <2>1, <2>2, WasCases DEF Moves, Steps, Life!Places
  <2> QED BY <1>1, <1>2, <2>3, ArriveOrNothing DEF LifeGoesOn
<1> QED BY <1>4, <1>5

\* bytes arrive,
LEMMA BytesMakeLives ==
  ASSUME IInv, AInv, OneRow', NEW r \in Requests, CommitBytes(r),
         req[r].kind \in {"document", "ingest", "receipt", "add"}
  PROVE  LifeGoesOn
<1> DEFINE t == req[r]
<1>1. PICK f : f = t.file
  OBVIOUS
<1>2. PICK arrived : arrived = Arrived(t)
  OBVIOUS
<1>3. PICK list : list = PagesForFile(f, t.row, r)
  OBVIOUS
<1>4. /\ OneRow /\ ~IsReceipt(f) /\ r \notin DOMAIN documents /\ r \notin DOMAIN receipts
      /\ FilesOf(list) = {f} /\ list \in Seq(Entries)
      /\ DOMAIN arrived = DOMAIN files \cup {f}
      /\ \A g \in DOMAIN files \ {f} : arrived[g] = files[g]
      /\ f \in DOMAIN files => arrived[f].content = files[f].content
  <2>1. f = req[r].file /\ arrived = Arrived(req[r])
    BY <1>1, <1>2
  <2>2. list = PagesForFile(f, req[r].row, r)
    BY <1>3
  <2> HIDE DEF t
  <2>3. /\ OneRow /\ ~IsReceipt(f) /\ r \notin DOMAIN documents /\ r \notin DOMAIN receipts
        /\ FilesOf(PagesForFile(f, req[r].row, r)) = {f}
        /\ PagesForFile(f, req[r].row, r) \in Seq(Entries)
    BY <2>1, BytesRow, Zenon
  <2>4. arrived = Arrived(req[r]) /\ f = req[r].file
    BY <2>1
  <2>5. Brings(r) /\ (req[r].created \/ req[r].file \in DOMAIN files)
    BY <2>1, BytesRow, Zenon
  <2>6. DOMAIN arrived = DOMAIN files \cup {f} /\ \A g \in DOMAIN files \ {f} : arrived[g] = files[g]
    BY <2>4, <2>5, ArrivedFacts
  <2>7. f \in DOMAIN files => arrived[f].content = files[f].content
    BY <2>4, <2>5, ArrivedFacts
  <2> QED BY <2>2, <2>3, <2>6, <2>7
<1>5. /\ files' = arrived
      /\ t.kind \in {"document", "ingest"} =>
           /\ documents' = WithRow(documents, r, Product(t.kind = "document", list))
           /\ UNCHANGED receipts
      /\ t.kind = "receipt" => /\ receipts' = WithRow(receipts, r, f) /\ UNCHANGED documents
                               /\ Readers(f) \cap Live = {}
  BY <1>1, <1>2, <1>3 DEF CommitBytes, Arrived
<1>6. CASE t.kind \in {"document", "ingest"}
  <2>1. PICK owned : owned = (t.kind = "document")
    OBVIOUS
  <2>2. /\ DOMAIN documents' = DOMAIN documents \cup {r} /\ documents'[r] = Product(owned, list)
        /\ \A o \in DOMAIN documents : documents'[o] = documents[o]
    BY <1>4, <1>5, <1>6, <2>1 DEF WithRow
  <2>3. documents'[r].state = "live" /\ documents'[r].pages = list
    BY <2>2 DEF Product
  <2>4. /\ \A g : g # f => (Shown(g)' <=> Shown(g)) /\ (Readers(g)' = {} <=> Readers(g) = {})
        /\ Shown(f)' /\ Readers(f)' # {}
    BY <1>4, <2>2, <2>3, OneMoreRead
  <2>5. \A g : IsReceipt(g)' <=> IsReceipt(g)
    BY <1>5, <1>6 DEF IsReceipt
  <2> HIDE DEF t
  <2> QED BY <1>4, <1>5, <2>4, <2>5, OneArrives
<1>7. CASE t.kind = "receipt"
  <2>1. /\ DOMAIN receipts' = DOMAIN receipts \cup {r} /\ receipts'[r] = f
        /\ \A x \in DOMAIN receipts : receipts'[x] = receipts[x]
    BY <1>4, <1>5, <1>7 DEF WithRow
  <2>2. IsReceipt(f)' /\ ~Shown(f)
    BY <1>5, <1>7, <2>1 DEF IsReceipt, Shown
  <2>3. \A g : g # f => (IsReceipt(g)' <=> IsReceipt(g))
    BY <1>4, <2>1 DEF IsReceipt
  <2>4. \A g : Readers(g)' = Readers(g) /\ (Shown(g)' <=> Shown(g))
    BY <1>5, <1>7, ReadAsBefore
  <2> HIDE DEF t
  <2> QED BY <1>4, <1>5, <2>2, <2>3, <2>4, OneArrives
<1>8. CASE t.kind = "add"
  <2>1. PICK d : d = t.doc
    OBVIOUS
  <2>2. PICK old : old = documents[d].pages
    OBVIOUS
  <2>3. PICK new : new = IF t.held = <<>> THEN old \o list ELSE list \o old
    OBVIOUS
  <2>4. /\ UNCHANGED receipts /\ d \in DOMAIN documents
        /\ documents' = Write(documents, Only(d, new))
    BY <1>1, <1>3, <1>8, <2>1, <2>2, <2>3 DEF CommitBytes
  <2>5. old \in Seq(Entries) /\ \A o \in DOMAIN documents : documents[o] \in DocumentRow
    BY <2>2, <2>4 DEF AInv, RowsFit, DocumentRow
  <2>6. FilesOf(new) = FilesOf(old) \cup {f}
    <3>1. CASE t.held = <<>>
      <4>1. new = old \o list
        BY <2>3, <3>1
      <4> QED BY <4>1, <1>4, <2>5, ConcatEffect
    <3>2. CASE t.held # <<>>
      <4>1. new = list \o old
        BY <2>3, <3>2
      <4> QED BY <4>1, <1>4, <2>5, ConcatEffect
    <3> QED BY <3>1, <3>2
  <2>7. DOMAIN Only(d, new) = {d} /\ Only(d, new)[d] = new
    BY DEF Only
  <2>8. /\ DOMAIN documents' = DOMAIN documents
        /\ \A o \in DOMAIN documents \ {d} : documents'[o] = documents[o]
        /\ documents'[d].state = documents[d].state /\ documents'[d].pages = new
    BY <2>4, <2>5, <2>7, WriteEffect
  <2>9. /\ \A g : g # f => (Shown(g)' <=> Shown(g)) /\ (Readers(g)' = {} <=> Readers(g) = {})
        /\ (Shown(f) => Shown(f)') /\ Readers(f)' # {}
    <3>1. DOMAIN documents' = DOMAIN documents \cup {d}
      BY <2>4, <2>8
    <3> QED BY <2>2, <2>4, <2>6, <2>8, <3>1, OneMoreRead
  <2>10. \A g : IsReceipt(g)' <=> IsReceipt(g)
    BY <2>4 DEF IsReceipt
  <2> HIDE DEF t
  <2> QED BY <1>4, <1>5, <2>9, <2>10, OneArrives
<1> QED BY <1>6, <1>7, <1>8

\* or replace others,
LEMMA BytesReplaceLives ==
  ASSUME IInv, AInv, OneRow', NEW r \in Requests, CommitBytes(r), req[r].kind = "replace"
  PROVE  LifeGoesOn
<1> DEFINE t == req[r]
<1>1. PICK f, gone : f = t.file /\ gone = t.gone
  OBVIOUS
<1>2. PICK arrived : arrived = Arrived(t)
  OBVIOUS
<1>3. PICK new : new = PagesForFile(f, t.row, r)
  OBVIOUS
<1>4. PICK held : held = t.held
  OBVIOUS
<1>5. PICK lists : lists = [d \in DOMAIN held |-> WithFileReplaced(held[d], gone, new)]
  OBVIOUS
<1>6. /\ OneRow /\ ~IsReceipt(f) /\ FilesOf(new) = {f} /\ new \in Seq(Entries)
      /\ Brings(r) /\ (t.created \/ t.file \in DOMAIN files)
  <2>1. f = req[r].file /\ new = PagesForFile(f, req[r].row, r)
    BY <1>1, <1>3
  <2>2. /\ OneRow /\ ~IsReceipt(f)
        /\ FilesOf(PagesForFile(f, req[r].row, r)) = {f}
        /\ PagesForFile(f, req[r].row, r) \in Seq(Entries)
        /\ Brings(r) /\ (req[r].created \/ req[r].file \in DOMAIN files)
    BY <2>1, BytesRow, Zenon
  <2> QED BY <2>1, <2>2
<1>7. /\ DOMAIN arrived = DOMAIN files \cup {f} /\ f # gone
      /\ \A g \in DOMAIN files \ {f} : arrived[g] = files[g]
      /\ f \in DOMAIN files => arrived[f].content = files[f].content
      /\ arrived[f] \in FileRow
  <2>1. f = req[r].file /\ gone = req[r].gone /\ arrived = Arrived(req[r])
    BY <1>1, <1>2
  <2>2. Brings(r) /\ (req[r].created \/ req[r].file \in DOMAIN files)
    BY <1>6
  <2> HIDE DEF t
  <2>3. f # gone /\ arrived[f] \in FileRow
    BY <2>1, <2>2, ArrivedFacts
  <2>4. DOMAIN arrived = DOMAIN files \cup {f} /\ \A g \in DOMAIN files \ {f} : arrived[g] = files[g]
    BY <2>1, <2>2, ArrivedFacts
  <2>5. f \in DOMAIN files => arrived[f].content = files[f].content
    BY <2>1, <2>2, ArrivedFacts
  <2> QED BY <2>3, <2>4, <2>5
<1>8. /\ UNCHANGED receipts /\ Unchanged(held) /\ documents' = Write(documents, lists)
      /\ files' = IF Readers(gone) \subseteq DOMAIN held THEN Trashed(arrived, {gone}, "DOCUMENT") ELSE arrived
  BY <1>1, <1>2, <1>3, <1>4, <1>5 DEF CommitBytes, Arrived
<1>9. PICK d : d = t.doc
  OBVIOUS
<1>10. d \in DOMAIN held /\ gone \in FilesOf(held[d]) /\ gone # "none"
  <2>1. BytesFit(r)
    BY DEF AInv, RequestFits
  <2> QED BY <2>1, <1>1, <1>4, <1>6, <1>9 DEF BytesFit
<1>11. ASSUME NEW o \in DOMAIN held
       PROVE  /\ o \in DOMAIN documents /\ documents[o].pages = held[o]
              /\ documents[o].state = "live" /\ held[o] \in Seq(Entries)
  BY <1>4, <1>6, <1>8, HeldAreLive
<1> HIDE DEF t
<1>12. gone \in DOMAIN files /\ gone # f /\ Shown(gone)
  <2>1. gone \in FilesOf(documents[d].pages) /\ d \in DOMAIN documents /\ documents[d].state = "live"
    BY <1>10, <1>11
  <2> QED BY <2>1, <1>7 DEF AInv, RowsFit, Shown, Readers, Live
<1>13. ASSUME NEW o \in DOMAIN held
       PROVE  FilesOf(lists[o]) = IF gone \in FilesOf(held[o])
                                  THEN (FilesOf(held[o]) \ {gone}) \cup {f} ELSE FilesOf(held[o])
  <2>1. lists[o] = WithFileReplaced(held[o], gone, new)
    BY <1>5
  <2>2. new # <<>>
    BY <1>6 DEF FilesOf
  <2> QED BY <1>6, <1>11, <2>1, <2>2, ReplacedEffect
<1>14. /\ DOMAIN documents' = DOMAIN documents
       /\ \A o \in DOMAIN documents \ DOMAIN held : documents'[o] = documents[o]
       /\ \A o \in DOMAIN held : documents'[o].state = "live" /\ documents'[o].pages = lists[o]
  <2>1. \A o \in DOMAIN documents : documents[o] \in DocumentRow
    BY DEF AInv, RowsFit
  <2>2. DOMAIN held \subseteq DOMAIN documents /\ DOMAIN lists = DOMAIN held
    BY <1>5, <1>11
  <2>3. /\ DOMAIN documents' = DOMAIN documents
        /\ \A o \in DOMAIN documents \ DOMAIN lists : documents'[o] = documents[o]
        /\ \A o \in DOMAIN documents \cap DOMAIN lists :
             documents'[o].state = documents[o].state /\ documents'[o].pages = lists[o]
    BY <1>8, <2>1, WriteEffect
  <2> QED BY <1>11, <2>2, <2>3
<1>15. /\ DOMAIN files' = DOMAIN files \cup {f}
       /\ \A g \in DOMAIN files \ {f, gone} : files'[g] = files[g]
       /\ \A g \in DOMAIN files : files'[g].content = files[g].content
  <2>1. CASE Readers(gone) \subseteq DOMAIN held
    <3>1. PICK fs, kind : fs = {gone} /\ kind = "DOCUMENT"
      OBVIOUS
    <3>2. files' = Trashed(arrived, fs, kind)
      BY <1>8, <2>1, <3>1
    <3>3. \A g \in DOMAIN arrived : arrived[g] \in FileRow
      BY <1>6, <1>7 DEF OneRow
    <3>4. /\ DOMAIN files' = DOMAIN arrived
          /\ \A g \in DOMAIN arrived \ fs : files'[g] = arrived[g]
          /\ \A g \in DOMAIN arrived : files'[g].content = arrived[g].content
      BY <3>2, <3>3, TrashedEffect
    <3> QED BY <1>7, <3>1, <3>4
  <2>2. CASE ~(Readers(gone) \subseteq DOMAIN held)
    BY <1>7, <1>8, <2>2
  <2> QED BY <2>1, <2>2
<1>16. PICK ds : ds = DOMAIN held
  OBVIOUS
<1>17. OnlyWrites(ds)
  BY <1>14, <1>16 DEF OnlyWrites
<1>18. ASSUME NEW g, g \notin {f, gone}
       PROVE  /\ ShownIn(documents', g, ds) <=> ShownIn(documents, g, ds)
              /\ PageIn(documents', g, ds) <=> PageIn(documents, g, ds)
  <2>1. \A o \in ds : /\ o \in DOMAIN documents /\ o \in DOMAIN documents'
                      /\ documents[o].state = "live" /\ documents'[o].state = "live"
                      /\ g \in FilesOf(documents'[o].pages) <=> g \in FilesOf(documents[o].pages)
    BY <1>11, <1>13, <1>14, <1>16, <1>18
  <2> QED BY <2>1 DEF ShownIn, PageIn
<1>19. \A g : IsReceipt(g)' <=> IsReceipt(g)
  BY <1>8 DEF IsReceipt
<1>20. RowsGoOn
  BY <1>15 DEF RowsGoOn
<1>21. ASSUME NEW g, g \notin {f, gone}
       PROVE  ~Moves(g)
  <2>1. (Shown(g)' <=> Shown(g)) /\ (Readers(g)' = {} <=> Readers(g) = {})
    BY <1>17, <1>18, <1>21, ReadingStays
  <2>2. (InTrash(g)' <=> InTrash(g)) /\ (g \in DOMAIN files' <=> g \in DOMAIN files)
    BY <1>15, <1>21 DEF InTrash
  <2> QED BY <1>19, <2>1, <2>2, StaysPut
<1>22. Moves(gone) => Was(gone) = "document" /\ Was(gone)' \in {"trash", "limbo"}
  <2> SUFFICES ASSUME Moves(gone)
               PROVE  Was(gone) = "document" /\ Was(gone)' \in {"trash", "limbo"}
    OBVIOUS
  <2>1. gone \in DOMAIN files' /\ gone \in DOMAIN files
    BY <1>12, <1>15
  <2>2. ~IsReceipt(gone) /\ ~IsReceipt(gone)'
    BY <1>19, <2>1, WasCases, WillCases DEF Moves
  <2>3. Was(gone) = "document"
    BY <1>12, <2>1, <2>2, WasCases
  <2> QED BY <2>1, <2>2, <2>3, WillCases DEF Moves, Life!Places
<1>23. Was(f)' = "document"
  <2>1. ShownIn(documents', f, ds)
    <3>1. f \in FilesOf(documents'[d].pages) /\ documents'[d].state = "live" /\ d \in DOMAIN documents'
      BY <1>10, <1>11, <1>13, <1>14
    <3> QED BY <1>10, <1>16, <3>1 DEF ShownIn
  <2>2. Shown(f)'
    BY <1>17, <2>1, ReadingStays
  <2>3. f \in DOMAIN files' /\ ~IsReceipt(f)'
    BY <1>6, <1>15, <1>19
  <2> QED BY <2>2, <2>3, WillCases
<1>24. CASE Moves(f)
  <2>1. Was(f) \in {"unknown", "trash", "limbo"}
    BY <1>6, <1>23, <1>24, WasCases DEF Moves, Life!Places
  <2>2. Steps(f, {"unknown", "trash", "limbo"}, {"document", "receipt", "limbo"})
    BY <1>23, <2>1 DEF Steps
  <2>3. \A g : g # f /\ Moves(g) => Steps(g, {"document", "limbo"}, {"trash", "limbo"})
    BY <1>21, <1>22 DEF Steps
  <2> QED BY <1>6, <1>20, <2>2, <2>3, IsArrive DEF LifeGoesOn
<1>25. CASE ~Moves(f)
  <2>1. \A g : Moves(g) => Steps(g, {"document", "receipt"}, {"trash", "limbo"})
    BY <1>21, <1>22, <1>25 DEF Steps
  <2> QED BY <1>6, <1>20, <2>1, IsDiscard DEF LifeGoesOn
<1> QED BY <1>24, <1>25

\* What writes no document and no receipt, and at most counts pages.
LEMMA QuietLives ==
  ASSUME IInv, AInv, OneRow', NEW r \in Requests,
         \/ \E c \in Contents : Upload(r, c) \/ Ingest(r, c)
         \/ \E d \in DOMAIN documents, c \in Contents : AddFile(r, d, c)
         \/ \E d \in DOMAIN documents, f \in DOMAIN files, c \in Contents : ReplaceFile(r, d, f, c)
         \/ CheckBytes(r) \/ DropObject(r)
         \/ \E d \in DOMAIN documents : BeginEdit(r, d) \/ DeleteDocument(r, d) \/ BeginConvert(r, d)
         \/ \E d \in DOMAIN documents, to \in DOMAIN documents \cup {r} : BeginMove(r, d, to)
         \/ \E d, source \in DOMAIN documents : BeginCombine(r, d, source)
         \/ RemovePage(r)
         \/ \E f \in DOMAIN files : BeginRestore(r, f)
         \/ CheckRestore(r) \/ BeginPurge(r) \/ PurgeObjects(r)
         \/ SweepList(r) \/ SweepAsk(r) \/ SweepDelete(r) \/ Fail(r)
  PROVE  LifeGoesOn
<1>1. UNCHANGED rows
  BY DEF Upload, Ingest, AddFile, ReplaceFile, Store, CheckBytes, Refuse, DropObject, BeginEdit, DeleteDocument,
         BeginConvert, BeginMove, BeginCombine, RemovePage, BeginRestore, CheckRestore, BeginPurge,
         PurgeObjects, SweepList, SweepAsk, SweepDelete, Fail
<1>2. UNCHANGED <<files, documents, receipts>> /\ OneRow
  BY <1>1 DEF rows, IInv
<1>3. RowsStay
  BY <1>2 DEF RowsStay
<1> QED BY <1>2, <1>3, QuietStep

\* or pages are counted.
LEMMA BeginBuildLives ==
  ASSUME IInv, AInv, OneRow', NEW r \in Requests, NEW d \in DOMAIN documents, BeginBuild(r, d)
  PROVE  LifeGoesOn
<1>1. PICK opened : opened = FilesOf(documents[d].pages)
  OBVIOUS
<1>2. /\ files' = [f \in DOMAIN files |->
                     IF f \in opened THEN [files[f] EXCEPT !.counted = TRUE] ELSE files[f]]
      /\ UNCHANGED <<documents, receipts>>
  BY <1>1 DEF BeginBuild
<1>3. OneRow
  BY DEF IInv
<1>4. ASSUME NEW f \in DOMAIN files
      PROVE  files'[f].content = files[f].content /\ files'[f].trashed = files[f].trashed
  <2>1. PICK row : row = files[f]
    OBVIOUS
  <2>2. row \in FileRow
    BY <1>3, <2>1 DEF OneRow
  <2>3. [row EXCEPT !.counted = TRUE].content = row.content /\ [row EXCEPT !.counted = TRUE].trashed = row.trashed
    BY <2>2 DEF FileRow
  <2>4. files'[f] = IF f \in opened THEN [row EXCEPT !.counted = TRUE] ELSE row
    BY <1>2, <2>1
  <2> QED BY <2>1, <2>3, <2>4
<1>5. RowsStay
  BY <1>2, <1>4 DEF RowsStay
<1> QED BY <1>2, <1>3, <1>5, QuietStep

\* Every step is one of the abstract life, or is not seen by it.
LEMMA StepLives ==
  ASSUME IInv, AInv, OneRow', [Next]_vars
  PROVE  LifeGoesOn
<1>1. CASE UNCHANGED vars
  <2>1. UNCHANGED <<files, documents, receipts>> /\ OneRow
    BY <1>1 DEF vars, IInv
  <2>2. RowsStay
    BY <2>1 DEF RowsStay
  <2> QED BY <2>1, <2>2, QuietStep
<1>2. CASE Next
  <2>1. PICK r \in Requests :
    \/ \E c \in Contents : Upload(r, c) \/ Ingest(r, c)
    \/ \E d \in DOMAIN documents, c \in Contents : AddFile(r, d, c)
    \/ \E d \in DOMAIN documents, f \in DOMAIN files, c \in Contents : ReplaceFile(r, d, f, c)
    \/ CheckBytes(r) \/ CommitBytes(r) \/ DropObject(r)
    \/ \E d \in DOMAIN documents : BeginEdit(r, d) \/ BeginBuild(r, d) \/ DeleteDocument(r, d) \/ BeginConvert(r, d)
    \/ \E d \in DOMAIN documents, to \in DOMAIN documents \cup {r} : BeginMove(r, d, to)
    \/ \E d, source \in DOMAIN documents : BeginCombine(r, d, source)
    \/ ReorderPages(r) \/ CropPage(r) \/ TurnFile(r) \/ SplitAtPage(r) \/ SplitFile(r) \/ MovePages(r)
    \/ Combine(r) \/ DocumentToReceipt(r) \/ ExpandPages(r) \/ RemovePage(r) \/ CommitTakingOut(r)
    \/ \E x \in DOMAIN receipts : DeleteReceipt(r, x) \/ ReceiptToDocument(r, x)
    \/ \E f \in DOMAIN files : BeginRestore(r, f)
    \/ CheckRestore(r) \/ CommitRestore(r)
    \/ BeginPurge(r) \/ Purge(r) \/ PurgeObjects(r)
    \/ SweepList(r) \/ SweepAsk(r) \/ SweepDelete(r)
    \/ Fail(r)
    BY <1>2 DEF Next
  <2>2. CASE CommitBytes(r)
    <3>1. req[r].kind \in {"document", "ingest", "receipt", "add", "replace"}
      BY <2>2 DEF CommitBytes, IInv, HashIsHeld, Brings, At, Kinds
    <3> QED BY <2>2, <3>1, BytesMakeLives, BytesReplaceLives
  <2>3. CASE \E d \in DOMAIN documents : BeginBuild(r, d)
    BY <2>3, BeginBuildLives
  <2>4. CASE ReorderPages(r) \/ CropPage(r) \/ TurnFile(r)
    BY <2>4, RearrangeLives
  <2>5. CASE SplitAtPage(r) \/ SplitFile(r) \/ MovePages(r)
    BY <2>5, DivideLives
  <2>6. CASE Combine(r) \/ ExpandPages(r)
    BY <2>6, CombineLives, ExpandLives
  <2>7. CASE CommitTakingOut(r) \/ DocumentToReceipt(r)
    BY <2>7, CommitTakingOutLives, DocumentToReceiptLives
  <2>8. CASE \E x \in DOMAIN receipts : DeleteReceipt(r, x) \/ ReceiptToDocument(r, x)
    BY <2>8, DeleteReceiptLives, ReceiptToDocumentLives
  <2>9. CASE CommitRestore(r) \/ Purge(r)
    BY <2>9, CommitRestoreLives, PurgeLives
  <2>10. \/ CommitBytes(r) \/ (\E d \in DOMAIN documents : BeginBuild(r, d))
         \/ ReorderPages(r) \/ CropPage(r) \/ TurnFile(r)
         \/ SplitAtPage(r) \/ SplitFile(r) \/ MovePages(r)
         \/ Combine(r) \/ ExpandPages(r)
         \/ CommitTakingOut(r) \/ DocumentToReceipt(r)
         \/ \E x \in DOMAIN receipts : DeleteReceipt(r, x) \/ ReceiptToDocument(r, x)
         \/ CommitRestore(r) \/ Purge(r)
         \/ LifeGoesOn
    BY <2>1, QuietLives
  <2> QED BY <2>2, <2>3, <2>4, <2>5, <2>6, <2>7, <2>8, <2>9, <2>10
<1> QED BY <1>1, <1>2

(* The archive implements the abstract life of a content (FileLife): every  *)
(* step of a request is a step of the places of the contents, or leaves     *)
(* them where they are.                                                     *)
THEOREM ContentsLive == Spec => LifeOfContents
<1>1. Init => Life!Init
  <2> SUFFICES ASSUME Init
               PROVE  Places \in [Contents -> Life!Places]
    BY DEF Life!Init, Places
  <2>1. OneRow
    BY InitHolds DEF IInv
  <2> SUFFICES ASSUME NEW c \in Contents
               PROVE  PlaceOf(c) \in Life!Places
    BY DEF Places
  <2>2. CASE RowsOf(c) = {}
    BY <2>2, NoRowNoPlace DEF Life!Places
  <2>3. CASE RowsOf(c) # {}
    <3>1. PICK f \in DOMAIN files : files[f].content = c
      BY <2>3 DEF RowsOf
    <3> QED BY <2>1, <3>1, PlaceOfRow, WasCases
  <2> QED BY <2>2, <2>3
<1>2. IInv /\ AInv /\ IInv' /\ [Next]_vars => [Life!Next]_Places
  BY StepLives DEF LifeGoesOn, IInv
<1>3. [Life!Next]_Places => [Life!Next]_[c \in Contents |-> PlaceOf(c)]
  BY DEF Places
<1> QED BY <1>1, <1>2, <1>3, Arranged, PTL DEF Spec, LifeOfContents, Life!Spec
=============================================================================
