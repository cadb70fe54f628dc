---------------------------- MODULE ArchiveFiles ----------------------------
(***************************************************************************)
(* The life of the files of the archive: who brings their bytes, which     *)
(* documents and receipts hold them, how pages are arranged, moved and     *)
(* taken out, what goes to the trash, what leaves it, and the objects kept *)
(* beside the rows.                                                        *)
(*                                                                         *)
(* A request reads, stores bytes, and opens one transaction.  Transactions *)
(* run at READ COMMITTED: what one has written is invisible to the others  *)
(* until it commits, and only row locks, the advisory lock of a hash and   *)
(* the foreign keys order them.  A transaction whose decision rests on a   *)
(* read is modelled by the read ("checked") and the commit; one that takes *)
(* its locks before it reads is a single step.  Every id a request makes   *)
(* (a file, a document, a receipt, a page) is named after the request.     *)
(***************************************************************************)
EXTENDS Naturals, Sequences, FiniteSets, SequencesExt

CONSTANTS
  Contents,     \* the distinct contents (hashes) that reach the archive
  PageCount,    \* the number of pages of each content
  Requests,     \* the requests, jobs and sweeps of one behaviour
  Archives,     \* the archives a behaviour may start from
  MaxFiles      \* MAX_FILES_PER_DOCUMENT

FileRow == [content : Contents, origin : {"MANAGED", "LIBRARY"},
            trashed : {"no", "DOCUMENT", "RECEIPT"}, counted : BOOLEAN]

FileIds == Requests \cup UNION {DOMAIN a.files : a \in Archives}

\* A page: of which file, which of its pages, made by whom, last edited by whom.
Entries == [file : FileIds, index : Nat, by : Requests \cup {"init"}, crop : Requests \cup {"none"}]

DocumentRow == [state : {"live", "merged"}, owned : BOOLEAN, pages : Seq(Entries)]

ASSUME PageCountAssumption == PageCount \in [Contents -> Nat \ {0}]
ASSUME NoneAssumption == "none" \notin Contents \cup FileIds /\ "init" \notin Requests

\* An archive at rest: its ids are not those that requests will make, and its rows
\* are what the constraints of the tables and the use-cases leave behind.
ASSUME ArchivesAssumption ==
  \A a \in Archives :
    /\ (DOMAIN a.files \cup DOMAIN a.documents \cup DOMAIN a.receipts) \cap Requests = {}
    /\ \A f \in DOMAIN a.files : a.files[f] \in FileRow
    /\ \A f, g \in DOMAIN a.files : a.files[f].content = a.files[g].content => f = g
    /\ \A d \in DOMAIN a.documents :
         LET pages == a.documents[d].pages IN
         /\ a.documents[d] \in DocumentRow /\ a.documents[d].state = "live"
         /\ pages # <<>>
         /\ \A i \in DOMAIN pages : pages[i].file \in DOMAIN a.files /\ pages[i].by = "init"
         /\ \/ a.documents[d].owned
            \/ \E i \in DOMAIN pages : a.files[pages[i].file].origin = "LIBRARY"
    /\ DOMAIN a.documents \cap DOMAIN a.receipts = {}
    /\ \A x \in DOMAIN a.receipts : a.receipts[x] \in DOMAIN a.files
    /\ \A x, y \in DOMAIN a.receipts : a.receipts[x] = a.receipts[y] => x = y
    /\ \A f \in DOMAIN a.files :
         LET read     == \E d \in DOMAIN a.documents : \E i \in DOMAIN a.documents[d].pages :
                           a.documents[d].pages[i].file = f
             receipt  == \E x \in DOMAIN a.receipts : a.receipts[x] = f
             trashed  == a.files[f].trashed # "no"
         IN /\ read \/ receipt \/ trashed
            /\ ~(read /\ receipt) /\ ~(read /\ trashed) /\ ~(receipt /\ trashed)

VARIABLES
  files,        \* file rows: id -> [content, origin, trashed, counted]
  documents,    \* document rows: id -> [state, owned, pages]
  receipts,     \* receipt rows: id -> file id
  objects,      \* the files whose original is in the bucket
  req,          \* where each request is, and what it has read
  crossed       \* files in two hands at once, or put where nobody looks

vars == <<files, documents, receipts, objects, req, crossed>>
rows == <<files, documents, receipts>>

(***************************************************************************)
(* Rows and pages                                                          *)
(***************************************************************************)

Whole == 0                     \* the page index of an entry for a whole file

FilesOf(pages) == {pages[i].file : i \in DOMAIN pages}

\* The documents with a page of the file, whatever their state (findDocumentIdForFile).
Readers(f) == {d \in DOMAIN documents : f \in FilesOf(documents[d].pages)}

IsReceipt(f) == \E x \in DOMAIN receipts : receipts[x] = f

RowsOf(c) == {f \in DOMAIN files : files[f].content = c}

HasHome(f) == Readers(f) # {} \/ IsReceipt(f)

PagesForFile(f, row, r) ==
  [i \in 1 .. (IF row.counted THEN PageCount[row.content] ELSE 1) |->
     [file |-> f, index |-> IF row.counted THEN i ELSE Whole, by |-> r, crop |-> "none"]]

\* Entries that change documents get new ids.
WithoutId(pages, r) == [i \in DOMAIN pages |-> [pages[i] EXCEPT !.by = r]]

\* The elements of a finite set, the smaller before the larger.
InOrder(S, smaller) ==
  [k \in 1 .. Cardinality(S) |->
     CHOOSE x \in S : Cardinality({y \in S : <<y, x>> \in smaller}) = k - 1]

\* The pages at these places, in their order.
Pick(pages, places) ==
  LET order == InOrder(places, {p \in places \X places : p[1] < p[2]})
  IN [k \in DOMAIN order |-> pages[order[k]]]

PlacesOf(pages, f) == {i \in DOMAIN pages : pages[i].file = f}

WithoutFile(pages, f) == Pick(pages, DOMAIN pages \ PlacesOf(pages, f))

WithFileReplaced(pages, f, arriving) ==
  LET own    == PlacesOf(pages, f)
      before == {i \in DOMAIN pages : \A j \in own : i < j}
  IN IF own = {} THEN pages
     ELSE Pick(pages, before) \o arriving \o Pick(pages, DOMAIN pages \ (before \cup own))

\* The entry of a whole file that has been opened becomes one entry a page.
WithExpandedPages(pages, opened, r) ==
  LET Opens(p)  == p.index = Whole /\ p.file \in opened
      Parts(i)  == IF Opens(pages[i]) THEN 1 .. PageCount[files[pages[i].file].content] ELSE {1}
      places    == UNION {{i} \X Parts(i) : i \in DOMAIN pages}
      before    == {p \in places \X places :
                      p[1][1] < p[2][1] \/ (p[1][1] = p[2][1] /\ p[1][2] < p[2][2])}
      order     == InOrder(places, before)
      Part(i, n) == IF Opens(pages[i])
                    THEN [pages[i] EXCEPT !.index = n, !.by = IF n = 1 THEN @ ELSE r]
                    ELSE pages[i]
  IN [k \in DOMAIN order |-> Part(order[k][1], order[k][2])]

\* Mutant: any page will do.
KeepsPages(d, pages) == documents[d].owned \/ pages # <<>>

\* A document nobody created is read through its library pages.
KeepsItsReaders(d, pages) ==
  \/ documents[d].owned
  \/ \E f \in FilesOf(pages) : files[f].origin = "LIBRARY"

\* The list of one document, for Write.
Only(d, list) == [o \in {d} |-> list]

Product(owned, pages) == [state |-> "live", owned |-> owned, pages |-> pages]

WithRow(table, id, row) == [x \in DOMAIN table \cup {id} |-> IF x = id THEN row ELSE table[x]]
Without(table, ids) == [x \in DOMAIN table \ ids |-> table[x]]

(***************************************************************************)
(* Requests and the locks of open transactions                             *)
(***************************************************************************)

At(r, at) == req[r].at = at
Goto(r, state) == req' = [req EXCEPT ![r] = state]
Finish(r) == Goto(r, [at |-> "done"])

Open == {r \in Requests : At(r, "checked")}
LockedDocuments == UNION {req[q].locks : q \in Open}
Unlocked(ds) == ds \cap LockedDocuments = {}
HashLocked(c) == \E q \in Open : req[q].bytes = c

\* The row of a file that a transaction has taken out of the trash.
RowFree(r, f) == \A q \in Open \ {r} : f \notin req[q].holds

\* What the request decides about while an open transaction does.
Crosses(r, fs) == crossed' = crossed \cup {f \in fs : \E q \in Open \ {r} : f \in req[q].subject}

\* The request reaches the point where its transaction has read and not committed.
OpenWith(r, state) ==
  /\ Goto(r, state)
  /\ Crosses(r, state.subject)

\* Pages for a document that has been combined into another one meanwhile: nobody sees it.
Strands(d, pages) ==
  crossed' = crossed \cup (IF documents[d].state = "merged" THEN FilesOf(pages) ELSE {})

Trashed(table, fs, kind) ==
  [f \in DOMAIN table |-> IF f \in fs THEN [table[f] EXCEPT !.trashed = kind] ELSE table[f]]

Write(table, lists) ==
  [d \in DOMAIN table |-> IF d \in DOMAIN lists
                          THEN [table[d] EXCEPT !.pages = lists[d]] ELSE table[d]]

\* Mutant: the list is written over whatever is there.
StillThere(held) == DOMAIN held \subseteq DOMAIN documents

\* replacePages with a precondition: the list is the one the edit was computed from.
Unchanged(held) ==
  \A d \in DOMAIN held : d \in DOMAIN documents /\ documents[d].pages = held[d]

FitsInDocument(pages) == Cardinality(FilesOf(pages)) <= MaxFiles

Live == {d \in DOMAIN documents : documents[d].state = "live"}

Init ==
  /\ \E a \in Archives :
       /\ files = a.files
       /\ documents = a.documents
       /\ receipts = a.receipts
       /\ objects = {f \in DOMAIN a.files : a.files[f].origin = "MANAGED"}
  /\ req = [r \in Requests |-> [at |-> "idle"]]
  /\ crossed = {}

(***************************************************************************)
(* Bringing bytes in: an upload (document or receipt), a file added to a   *)
(* document, a file replaced, an ingest of a library file.                 *)
(***************************************************************************)

Bring(r, kind, c, target, held, gone) ==
  [at |-> "stored", kind |-> kind, bytes |-> c, doc |-> target, held |-> held, gone |-> gone]

\* The object is written before the transaction; a library file has none of its own.
Store(r, state) ==
  /\ Goto(r, state)
  /\ objects' = IF state.kind = "ingest" THEN objects ELSE objects \cup {r}
  /\ UNCHANGED <<rows, crossed>>

Upload(r, c) ==
  /\ At(r, "idle")
  /\ \A f \in RowsOf(c) : ~HasHome(f)
  /\ \E kind \in {"document", "receipt"} : Store(r, Bring(r, kind, c, "none", <<>>, "none"))

Ingest(r, c) ==
  /\ At(r, "idle")
  /\ Store(r, Bring(r, "ingest", c, "none", <<>>, "none"))

\* `where` of the request: at the end, with no precondition, or at a place of the list read.
AddFile(r, d, c) ==
  /\ At(r, "idle")
  /\ d \in Live
  /\ \E held \in {<<>>, Only(d, documents[d].pages)} : Store(r, Bring(r, "add", c, d, held, "none"))

\* A replacement reaches every document that reads the file; all are read before.
ReplaceFile(r, d, f, c) ==
  /\ At(r, "idle")
  /\ d \in Live
  /\ f \in FilesOf(documents[d].pages)
  /\ files[f].content # c
  /\ LET reached == Readers(f) \cup {d} IN
       /\ reached \subseteq Live
       /\ \A o \in reached :
            KeepsItsReaders(o, WithoutFile(documents[o].pages, f))
       /\ Store(r, Bring(r, "replace", c, d, [o \in reached |-> documents[o].pages], f))

\* An upload drops its object when the archive has the bytes; an edit that fails leaves it.
DropsItsObject(r) == req[r].kind \in {"document", "receipt"}

Refuse(r) ==
  /\ Goto(r, [at |-> IF DropsItsObject(r) THEN "dropping" ELSE "done"])
  /\ UNCHANGED <<rows, objects, crossed>>

(* findOrCreateByContentHash under the lock of the hash, and the questions  *)
(* asked of the row it found.                                               *)
CheckBytes(r) ==
  /\ At(r, "stored")
  /\ ~HashLocked(req[r].bytes)
  /\ LET c       == req[r].bytes
         kind    == req[r].kind
         created == RowsOf(c) = {}
         f       == IF created THEN r ELSE CHOOSE x \in RowsOf(c) : TRUE
         row     == IF created
                    THEN [content |-> c, trashed |-> "no", counted |-> FALSE,
                          origin |-> IF kind = "ingest" THEN "LIBRARY" ELSE "MANAGED"]
                    ELSE files[f]
     IN IF \/ Readers(f) # {}
           \/ kind = "receipt" /\ IsReceipt(f)
           \/ kind = "ingest" /\ row.trashed # "no"
        THEN Refuse(r)
        ELSE /\ RowFree(r, f)
             /\ OpenWith(r, [at |-> "checked", kind |-> kind, bytes |-> c, locks |-> {},
                             holds |-> IF row.trashed = "no" THEN {} ELSE {f},
                             subject |-> {f, req[r].gone} \ {"none"}, file |-> f,
                             doc |-> req[r].doc, held |-> req[r].held, gone |-> req[r].gone,
                             row |-> row, created |-> created])
             /\ UNCHANGED <<rows, objects>>

\* Mutant: dropped whether or not the row it was stored for was created.
DropAnyway(r) ==
  Goto(r, [at |-> IF req[r].kind = "ingest" THEN "done" ELSE "dropping"])

\* Whoever stored an object that became no file's original drops it afterwards.
AfterCommit(r) ==
  Goto(r, [at |-> IF req[r].created \/ req[r].kind = "ingest" THEN "done" ELSE "dropping"])

(* The pages or the receipt of the bytes, in the transaction that brings    *)
(* them; the row is created, or taken out of the trash.                     *)
CommitBytes(r) ==
  /\ At(r, "checked")
  /\ req[r].bytes # "none"
  /\ LET t        == req[r]
         f        == t.file
         arriving == PagesForFile(f, t.row, r)
         arrived  == IF t.created THEN WithRow(files, f, t.row)
                     ELSE [files EXCEPT ![f].trashed = IF f \in t.holds THEN "no" ELSE @]
     IN /\ t.created \/ f \in DOMAIN files
        /\ CASE t.kind \in {"document", "ingest"} ->
                  /\ ~IsReceipt(f)
                  /\ documents' = WithRow(documents, r, Product(t.kind = "document", arriving))
                  /\ files' = arrived
                  /\ UNCHANGED <<receipts, crossed>>
             [] t.kind = "receipt" ->
                  /\ arrived[f].origin = "MANAGED"
                  /\ Readers(f) \cap Live = {}
                  /\ ~IsReceipt(f)
                  /\ receipts' = WithRow(receipts, r, f)
                  /\ files' = arrived
                  /\ UNCHANGED <<documents, crossed>>
             [] t.kind = "add" ->
                  /\ ~IsReceipt(f)
                  /\ t.doc \in DOMAIN documents
                  /\ Unlocked({t.doc})
                  /\ Unchanged(t.held)
                  /\ LET old  == documents[t.doc].pages
                         list == IF t.held = <<>> THEN old \o arriving ELSE arriving \o old
                     IN /\ FitsInDocument(list)
                        /\ documents' = Write(documents, Only(t.doc, list))
                  /\ Strands(t.doc, arriving)
                  /\ files' = arrived
                  /\ UNCHANGED receipts
             [] t.kind = "replace" ->
                  /\ ~IsReceipt(f)
                  /\ Unlocked(DOMAIN t.held)
                  /\ Unchanged(t.held)
                  /\ RowFree(r, t.gone)
                  /\ documents' = Write(documents, [d \in DOMAIN t.held |->
                                          WithFileReplaced(t.held[d], t.gone, arriving)])
                  /\ files' = IF Readers(t.gone) \subseteq DOMAIN t.held
                              THEN Trashed(arrived, {t.gone}, "DOCUMENT") ELSE arrived
                  /\ UNCHANGED <<receipts, crossed>>
  /\ AfterCommit(r)
  /\ UNCHANGED objects

\* The delete of an object nobody needs is not repeated when it fails.
DropObject(r) ==
  /\ At(r, "dropping")
  /\ objects' \in {objects, objects \ {r}}
  /\ Finish(r)
  /\ UNCHANGED <<rows, crossed>>

(***************************************************************************)
(* Arranging the pages of documents                                        *)
(***************************************************************************)

\* The use-case is given the document as it was read when the request came in.
Edit(kind, d, to, held) == [at |-> "read", kind |-> kind, doc |-> d, to |-> to, held |-> held]

BeginEdit(r, d) ==
  /\ At(r, "idle")
  /\ d \in Live
  /\ \E kind \in {"reorder", "crop", "turn", "split", "splitFile", "remove"} :
       Goto(r, Edit(kind, d, "none", Only(d, documents[d].pages)))
  /\ UNCHANGED <<rows, objects, crossed>>

BeginMove(r, d, to) ==
  /\ At(r, "idle")
  /\ d \in Live
  /\ to \in (Live \ {d}) \cup {r}
  /\ Goto(r, Edit("move", d, to, [o \in {d, to} \cap Live |-> documents[o].pages]))
  /\ UNCHANGED <<rows, objects, crossed>>

\* The list an edit may still write: nobody changed, or holds, what it was computed from.
MayRewrite(r, kind) ==
  /\ At(r, "read")
  /\ req[r].kind = kind
  /\ Unlocked(DOMAIN req[r].held)
  /\ Unchanged(req[r].held)

ReorderPages(r) ==
  /\ MayRewrite(r, "reorder")
  /\ LET d == req[r].doc IN documents' = Write(documents, Only(d, Reverse(req[r].held[d])))
  /\ Finish(r)
  /\ UNCHANGED <<files, receipts, objects, crossed>>

CropPage(r) ==
  /\ MayRewrite(r, "crop")
  /\ LET d == req[r].doc IN
       \E i \in DOMAIN req[r].held[d] :
         documents' = Write(documents, Only(d, [req[r].held[d] EXCEPT ![i].crop = r]))
  /\ Finish(r)
  /\ UNCHANGED <<files, receipts, objects, crossed>>

\* UpdateDocumentFile: every page of one file is edited, as many documents as read it.
TurnFile(r) ==
  /\ MayRewrite(r, "turn")
  /\ LET d == req[r].doc
         held == req[r].held[d]
     IN \E f \in FilesOf(held) :
          documents' = Write(documents, Only(d, [i \in DOMAIN held |->
                         IF held[i].file = f THEN [held[i] EXCEPT !.crop = r] ELSE held[i]]))
  /\ Finish(r)
  /\ UNCHANGED <<files, receipts, objects, crossed>>

\* A document is cut in two: SplitDocumentAtPages at a page, SplitDocumentFile around a file.
DivideInto(r, kept, taken) ==
  LET d == req[r].doc IN
  /\ kept # <<>> /\ taken # <<>>
  /\ KeepsItsReaders(d, kept) /\ KeepsItsReaders(d, taken)
  /\ documents' = WithRow(Write(documents, Only(d, kept)), r,
                          Product(documents[d].owned, WithoutId(taken, r)))
  /\ Finish(r)
  /\ UNCHANGED <<files, receipts, objects, crossed>>

SplitAtPage(r) ==
  /\ MayRewrite(r, "split")
  /\ LET held == req[r].held[req[r].doc] IN
       \E at \in 1 .. Len(held) - 1 :
         DivideInto(r, SubSeq(held, 1, at), SubSeq(held, at + 1, Len(held)))

SplitFile(r) ==
  /\ MayRewrite(r, "splitFile")
  /\ LET held == req[r].held[req[r].doc] IN
       \E f \in FilesOf(held) :
         DivideInto(r, WithoutFile(held, f), Pick(held, PlacesOf(held, f)))

(* Pages leave for another document or for one of their own, which is r's.  *)
(* Whatever they read is still read, so nothing goes to the trash.          *)
MovePages(r) ==
  /\ MayRewrite(r, "move")
  /\ LET d    == req[r].doc
         to   == req[r].to
         held == req[r].held[d]
     IN \E moved \in SUBSET DOMAIN held :
          LET remaining == Pick(held, DOMAIN held \ moved)
              moving    == Pick(held, moved)
              into      == IF to = r THEN <<>> ELSE req[r].held[to]
              list      == WithoutId(moving, r) \o into
              written   == Write(documents, [o \in {d, to} |-> IF o = d THEN remaining ELSE list])
          IN /\ remaining # <<>> /\ moving # <<>>
             /\ KeepsItsReaders(d, remaining)
             /\ to = r => KeepsItsReaders(d, moving)
             /\ FitsInDocument(list)
             /\ documents' = IF to = r
                             THEN WithRow(written, r, Product(documents[d].owned, list))
                             ELSE written
  /\ Finish(r)
  /\ UNCHANGED <<files, receipts, objects, crossed>>

(* Combining takes the source's pages under its lock, and appends them to a *)
(* target whose state is not read again.                                    *)
BeginCombine(r, d, source) ==
  /\ At(r, "idle")
  /\ {d, source} \subseteq Live /\ d # source
  /\ Goto(r, Edit("combine", d, source, <<>>))
  /\ UNCHANGED <<rows, objects, crossed>>

Combine(r) ==
  LET d == req[r].doc
      source == req[r].to
  IN /\ At(r, "read") /\ req[r].kind = "combine"
     /\ {d, source} \subseteq DOMAIN documents
     /\ Unlocked({d, source})
     /\ LET list == documents[d].pages \o WithoutId(documents[source].pages, r) IN
          /\ FitsInDocument(list)
          /\ documents' = [Write(documents, [o \in {d, source} |-> IF o = d THEN list ELSE <<>>])
                             EXCEPT ![source].state = "merged"]
     /\ Strands(d, documents[source].pages)
     /\ Finish(r)
     /\ UNCHANGED <<files, receipts, objects>>

(* The first build of a document counts the pages of the files it opens,    *)
(* and then writes one entry a page for them, on the list as it is under    *)
(* the lock.                                                                *)
BeginBuild(r, d) ==
  /\ At(r, "idle")
  /\ d \in Live
  /\ LET opened == FilesOf(documents[d].pages) IN
       /\ files' = [f \in DOMAIN files |->
                      IF f \in opened THEN [files[f] EXCEPT !.counted = TRUE] ELSE files[f]]
       /\ Goto(r, [at |-> "read", kind |-> "build", doc |-> d, opened |-> opened])
  /\ UNCHANGED <<documents, receipts, objects, crossed>>

ExpandPages(r) ==
  /\ At(r, "read") /\ req[r].kind = "build"
  /\ LET d == req[r].doc IN
       /\ d \in DOMAIN documents
       /\ Unlocked({d})
       /\ documents' = Write(documents,
                             Only(d, WithExpandedPages(documents[d].pages, req[r].opened, r)))
  /\ Finish(r)
  /\ UNCHANGED <<files, receipts, objects, crossed>>

(***************************************************************************)
(* Taking out: a page, a document, a receipt                               *)
(***************************************************************************)

\* Mutant: asked of the pages as they were before the edit.
ReadBefore(fs, lists) == {f \in fs : Readers(f) = {}}

\* Mutant: everything that leaves a document goes to the trash.
Leaving(fs, lists) == fs

\* filterFilesWithoutLivePages: the pages the others have taken out are still seen.
ReadNowhereElse(fs, lists) ==
  {f \in fs : \A d \in DOMAIN documents :
                f \notin FilesOf(IF d \in DOMAIN lists THEN lists[d] ELSE documents[d].pages)}

\* The pages are written and the files nothing reads are known; nothing is committed.
TakeOut(r, d, list, leaving, dropped) ==
  OpenWith(r, [at |-> "checked", kind |-> "out", bytes |-> "none", locks |-> {d},
               holds |-> {}, subject |-> leaving, list |-> list, dropped |-> dropped,
               orphaned |-> ReadNowhereElse(leaving, Only(d, list))])

RemovePage(r) ==
  /\ MayRewrite(r, "remove")
  /\ LET d == req[r].doc
         held == req[r].held[d]
     IN /\ Len(held) > 1
        /\ \E i \in DOMAIN held :
             /\ KeepsItsReaders(d, Pick(held, DOMAIN held \ {i}))
             /\ TakeOut(r, d, Pick(held, DOMAIN held \ {i}), {held[i].file}, FALSE)
  /\ UNCHANGED <<rows, objects>>

DeleteDocument(r, d) ==
  /\ At(r, "idle")
  /\ d \in Live
  /\ Unlocked({d})
  /\ TakeOut(r, d, <<>>, FilesOf(documents[d].pages), TRUE)
  /\ UNCHANGED <<rows, objects>>

CommitTakingOut(r) ==
  /\ At(r, "checked")
  /\ req[r].kind = "out"
  /\ \A f \in req[r].orphaned : RowFree(r, f)
  /\ LET d == CHOOSE x \in req[r].locks : TRUE IN
       documents' = IF req[r].dropped THEN Without(documents, {d})
                    ELSE Write(documents, Only(d, req[r].list))
  /\ files' = Trashed(files, req[r].orphaned, "DOCUMENT")
  /\ Finish(r)
  /\ UNCHANGED <<receipts, objects, crossed>>

DeleteReceipt(r, x) ==
  /\ At(r, "idle")
  /\ RowFree(r, receipts[x])
  /\ files' = Trashed(files, {receipts[x]}, "RECEIPT")
  /\ receipts' = Without(receipts, {x})
  /\ Crosses(r, {receipts[x]})
  /\ Finish(r)
  /\ UNCHANGED <<documents, objects>>

(***************************************************************************)
(* Converting: a document of one managed file into a receipt, and back     *)
(***************************************************************************)

BeginConvert(r, d) ==
  /\ At(r, "idle")
  /\ d \in Live
  /\ \E f \in FilesOf(documents[d].pages) :
       /\ FilesOf(documents[d].pages) = {f}
       /\ files[f].origin = "MANAGED"
       /\ Readers(f) = {d}
       /\ Goto(r, [at |-> "read", kind |-> "convert", doc |-> d, file |-> f])
  /\ UNCHANGED <<rows, objects, crossed>>

(* documentToReceipt: the document goes with its pages, whatever they are   *)
(* by now; only what it was read to hold becomes the receipt, even from the *)
(* trash.                                                                   *)
DocumentToReceipt(r) ==
  /\ At(r, "read") /\ req[r].kind = "convert"
  /\ LET d == req[r].doc
         f == req[r].file
     IN /\ d \in DOMAIN documents
        /\ f \in DOMAIN files
        /\ Unlocked({d})
        /\ RowFree(r, f)
        /\ Readers(f) \cap Live \subseteq {d}
        /\ ~IsReceipt(f)
        /\ documents' = Without(documents, {d})
        /\ receipts' = WithRow(receipts, d, f)
        /\ LET there == FilesOf(documents[d].pages) IN
             crossed' = IF there = {f} THEN crossed ELSE crossed \cup there \cup {f}
  /\ Finish(r)
  /\ UNCHANGED <<files, objects>>

\* receiptToDocument, under the lock of the receipt.
ReceiptToDocument(r, x) ==
  /\ At(r, "idle")
  /\ RowFree(r, receipts[x])
  /\ documents' = WithRow(documents, x,
                          Product(TRUE, PagesForFile(receipts[x], files[receipts[x]], r)))
  /\ receipts' = Without(receipts, {x})
  /\ Crosses(r, {receipts[x]})
  /\ Finish(r)
  /\ UNCHANGED <<files, objects>>

(***************************************************************************)
(* The trash: restore and purge                                            *)
(***************************************************************************)

InTrash(f) == f \in DOMAIN files /\ files[f].trashed # "no"

BeginRestore(r, f) ==
  /\ At(r, "idle")
  /\ InTrash(f)
  /\ Goto(r, [at |-> "read", kind |-> "restore", file |-> f, as |-> files[f].trashed])
  /\ UNCHANGED <<rows, objects, crossed>>

\* The question of the home is asked without a lock; the row is locked by the untrash.
CheckRestore(r) ==
  /\ At(r, "read") /\ req[r].kind = "restore"
  /\ ~HasHome(req[r].file)
  /\ OpenWith(r, [at |-> "checked", kind |-> "restoring", bytes |-> "none", locks |-> {},
                  holds |-> {}, subject |-> {req[r].file}, as |-> req[r].as])
  /\ UNCHANGED <<rows, objects>>

CommitRestore(r) ==
  /\ At(r, "checked")
  /\ req[r].kind = "restoring"
  /\ LET f == CHOOSE x \in req[r].subject : TRUE IN
       /\ f \in DOMAIN files
       /\ RowFree(r, f)
       /\ ~IsReceipt(f)
       /\ files' = [files EXCEPT ![f].trashed = "no"]
       /\ IF req[r].as = "RECEIPT"
          THEN /\ files[f].origin = "MANAGED"
               /\ Readers(f) \cap Live = {}
               /\ receipts' = WithRow(receipts, r, f)
               /\ UNCHANGED documents
          ELSE /\ documents' = WithRow(documents, r,
                                       Product(TRUE, PagesForFile(f, files'[f], r)))
               /\ UNCHANGED receipts
  /\ Finish(r)
  /\ UNCHANGED <<objects, crossed>>

(* One item, the whole trash, or the items past the retention window, which *)
(* are never library files: the rows are listed first.                      *)
BeginPurge(r) ==
  /\ At(r, "idle")
  /\ LET trash == {f \in DOMAIN files : InTrash(f)} IN
       \E held \in {{f} : f \in trash} \cup {trash}
                   \cup {{f \in trash : files[f].origin = "MANAGED"}} :
         /\ held # {}
         /\ Goto(r, [at |-> "read", kind |-> "purge", held |-> held])
  /\ UNCHANGED <<rows, objects, crossed>>

\* Mutant: pages and receipts go with their file, and are not asked for.
PurgeHomeless(r) ==
  /\ At(r, "read") /\ req[r].kind = "purge"
  /\ files' = Without(files, req[r].held)
  /\ Goto(r, [at |-> "purged", held |-> req[r].held])
  /\ UNCHANGED <<documents, receipts, objects, crossed>>

\* The rows go whatever has become of them, unless a foreign key refuses all of them.
Purge(r) ==
  /\ At(r, "read") /\ req[r].kind = "purge"
  /\ \A f \in req[r].held : ~HasHome(f) /\ RowFree(r, f)
  /\ files' = Without(files, req[r].held)
  /\ Goto(r, [at |-> "purged", held |-> req[r].held])
  /\ UNCHANGED <<documents, receipts, objects, crossed>>

\* A delete that fails leaves an object for the sweep.
PurgeObjects(r) ==
  /\ At(r, "purged")
  /\ objects' \in {objects, objects \ req[r].held}
  /\ Finish(r)
  /\ UNCHANGED <<rows, crossed>>

(***************************************************************************)
(* The sweep of the bucket: list the objects, ask for their rows, delete   *)
(***************************************************************************)

SweepList(r) ==
  /\ At(r, "idle")
  /\ Goto(r, [at |-> "listed", listed |-> objects])
  /\ UNCHANGED <<rows, objects, crossed>>

SweepAsk(r) ==
  /\ At(r, "listed")
  /\ LET orphans == req[r].listed \ DOMAIN files IN
       /\ Goto(r, [at |-> "asked", orphans |-> orphans])
       \* The object of a transaction that has not committed has no row yet.
       /\ crossed' = crossed \cup {f \in orphans \cap Requests : req[f].at \in {"stored", "checked"}}
  /\ UNCHANGED <<rows, objects>>

SweepDelete(r) ==
  /\ At(r, "asked")
  /\ objects' = objects \ req[r].orphans
  /\ Finish(r)
  /\ UNCHANGED <<rows, crossed>>

(***************************************************************************)
(* A transaction fails or is refused, a request dies: nothing was written  *)
(***************************************************************************)
Fail(r) ==
  /\ req[r].at \in {"stored", "read", "checked", "purged", "listed", "asked"}
  /\ Goto(r, [at |-> IF req[r].at \in {"stored", "checked"} /\ req[r].kind = "receipt"
                     THEN "dropping" ELSE "done"])
  /\ UNCHANGED <<rows, objects, crossed>>

Next ==
  \E r \in Requests :
    \/ \E c \in Contents : Upload(r, c) \/ Ingest(r, c)
    \/ \E d \in DOMAIN documents, c \in Contents : AddFile(r, d, c)
    \/ \E d \in DOMAIN documents, f \in DOMAIN files, c \in Contents : ReplaceFile(r, d, f, c)
    \/ CheckBytes(r) \/ CommitBytes(r) \/ DropObject(r)
    \/ \E d \in DOMAIN documents : BeginEdit(r, d) \/ BeginBuild(r, d) \/ DeleteDocument(r, d) \/ BeginConvert(r, d)
    \/ \E d \in DOMAIN documents, to \in DOMAIN documents \cup {r} : BeginMove(r, d, to)
    \/ \E d, source \in DOMAIN documents : BeginCombine(r, d, source)
    \/ ReorderPages(r) \/ CropPage(r) \/ TurnFile(r) \/ SplitAtPage(r) \/ SplitFile(r) \/ MovePages(r)
    \/ Combine(r) \/ DocumentToReceipt(r) \/ ExpandPages(r) \/ RemovePage(r) \/ CommitTakingOut(r)
    \/ \E x \in DOMAIN receipts : DeleteReceipt(r, x) \/ ReceiptToDocument(r, x)
    \/ \E f \in DOMAIN files : BeginRestore(r, f)
    \/ CheckRestore(r) \/ CommitRestore(r)
    \/ BeginPurge(r) \/ Purge(r) \/ PurgeObjects(r)
    \/ SweepList(r) \/ SweepAsk(r) \/ SweepDelete(r)
    \/ Fail(r)

Spec == Init /\ [][Next]_vars

(***************************************************************************)
(* Properties                                                              *)
(***************************************************************************)

(* The tables hold rows of their kinds, every page and receipt names a row, *)
(* and there is one row a content: the constraints of the database.         *)
TypeOK ==
  /\ \A f \in DOMAIN files : files[f] \in FileRow
  /\ \A f, g \in DOMAIN files : files[f].content = files[g].content => f = g
  /\ \A d \in DOMAIN documents :
       /\ documents[d].state \in {"live", "merged"}
       /\ documents[d].owned \in BOOLEAN
       /\ FilesOf(documents[d].pages) \subseteq DOMAIN files
  /\ \A x \in DOMAIN receipts : receipts[x] \in DOMAIN files

InReach(f) == Readers(f) \cap Live # {} \/ IsReceipt(f) \/ InTrash(f)

(* M47.15 of the backlog says that no sequence of compositions leaves bytes *)
(* nobody can delete: every file row is a page of a live document, a        *)
(* receipt, or in the trash.                                                *)
BytesInReach == \A f \in DOMAIN files : InReach(f)

(* The only ways out of reach: two transactions decided about the file side *)
(* by side, its pages were appended to a document that had been combined    *)
(* into another, or they were added to a document while it was being made a *)
(* receipt of another file.                                                 *)
LostOnlyByOverlap == \A f \in DOMAIN files : InReach(f) \/ f \in crossed

(* A file is pages of documents, or a receipt, or in the trash, and no two  *)
(* of these, whatever was uploaded, restored, replaced or converted         *)
(* meanwhile, unless two decisions crossed over it.                         *)
OneHome ==
  \A f \in DOMAIN files \ crossed :
    /\ IsReceipt(f) => Readers(f) = {}
    /\ InTrash(f) => ~HasHome(f)

(* A document that is there has pages and somebody who may read it, however *)
(* the edits of it were interleaved.                                        *)
ReadersRemain ==
  \A d \in Live :
    /\ documents[d].pages # <<>>
    /\ \/ documents[d].owned
       \/ \E f \in FilesOf(documents[d].pages) : files[f].origin = "LIBRARY" \/ f \in crossed

(* The original of a managed file is in the bucket, unless a sweep asked    *)
(* about it before the transaction of its upload had committed.             *)
OriginalKept ==
  \A f \in DOMAIN files :
    files[f].origin = "MANAGED" /\ f \notin crossed => f \in objects

AllPages == UNION {{documents[d].pages[i] : i \in DOMAIN documents[d].pages} : d \in DOMAIN documents}

\* The step is the commit of a transaction that was to take pages of the file out.
TakesOut(f) ==
  \E r \in Requests :
    /\ At(r, "checked") /\ req'[r].at # "checked"
    /\ \/ req[r].kind = "out" /\ f \in req[r].subject
       \/ req[r].kind = "replace" /\ f = req[r].gone

\* The step is an edit of the page by somebody who had read it as it is.
Recrops(p) ==
  \E r \in Requests :
    /\ At(r, "read") /\ req[r].kind \in {"crop", "turn"} /\ req'[r].at = "done"
    /\ \E i \in DOMAIN req[r].held[req[r].doc] : req[r].held[req[r].doc][i] = p

\* The page goes with a document that becomes a receipt.
Converts(p) ==
  \E d \in DOMAIN documents \ DOMAIN documents' :
    d \in DOMAIN receipts' /\ \E i \in DOMAIN documents[d].pages : documents[d].pages[i] = p

(* No page, and no edit of a page, is lost to a list computed from an older *)
(* one: a page stays somewhere with its crop until a request that saw it    *)
(* takes it out or edits it, or its document becomes a receipt.             *)
NothingOverwritten ==
  [][\A p \in AllPages :
       \/ \E q \in AllPages' : q.file = p.file /\ p.index \in {q.index, Whole} /\ q.crop = p.crop
       \/ TakesOut(p.file)
       \/ Converts(p)
       \/ Recrops(p)]_vars

(* The archive keeps the abstract life of a content (FileLife).             *)
PlaceOf(c) ==
  IF RowsOf(c) = {} THEN "unknown"
  ELSE LET f == CHOOSE x \in RowsOf(c) : TRUE IN
       CASE IsReceipt(f) -> "receipt"
         [] ~IsReceipt(f) /\ Readers(f) \cap Live # {} -> "document"
         [] ~HasHome(f) /\ InTrash(f) -> "trash"
         [] OTHER -> "limbo"

Life == INSTANCE FileLife WITH place <- [c \in Contents |-> PlaceOf(c)]

LifeOfContents == Life!Spec
=============================================================================
