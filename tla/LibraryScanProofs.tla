-------------------------- MODULE LibraryScanProofs --------------------------
(***************************************************************************)
(* What the scans and ingests of a library keep for any volume, any number *)
(* of calls and any budget of changes and faults.  Nothing is needed of a  *)
(* scan but that it writes only what is there as it passes: what it may    *)
(* have seen, and how long ago, does not matter.  What is needed of an     *)
(* ingest is that its hash is the file's as long as the file has the time  *)
(* the ingest read before it hashed, and that its open transaction holds   *)
(* the row of its file.  What is needed of a purge is that a ref it will   *)
(* find naming its file is one it has marked, or one that was marked while *)
(* it went on.                                                             *)
(***************************************************************************)
EXTENDS LibraryScan, TLAPS

File   == [content : Contents \cup {None}, mtime : Nat, there : BOOLEAN]
Begun  == [at : {"begun"}, path : Paths, mtime : Nat]
Reader == [at : {"hashed"}, path : Paths, mtime : Nat, hash : Contents]
Finder == [at : {"found"}, path : Paths, mtime : Nat, hash : Contents,
           file : {"created", "live", "trashed"}]
Marker == [at : {"marked"}, path : Paths, mtime : Nat, hash : Contents,
           creates : BOOLEAN, beside : BOOLEAN]
Call   == {Idle} \cup Begun \cup Reader \cup Finder \cup Marker
Home   == {"absent", "document", "trash", "both"}
Hasher == {"hashed", "found", "marked"}

Types ==
  /\ disk \in [Paths -> File]
  /\ clock \in Nat
  /\ refs \in [Paths -> Ref]
  /\ home \in [Contents -> Home]
  /\ ingest \in [Ingesters -> Call]
  /\ purging \subseteq Contents

(* No time is later than the clock, so that a change gives a new one.       *)
Clocked ==
  /\ \A p \in Paths :
       /\ disk[p].there => disk[p].mtime > 0
       /\ disk[p].mtime > 0 => disk[p].content \in Contents
       /\ disk[p].mtime <= clock /\ refs[p].mtime <= clock
  /\ \A i \in Ingesters : ingest[i].at # "idle" => ingest[i].mtime <= clock

(* A hash is the file's, unless the file has another time by now, or a scan *)
(* wrote the time of bytes that nobody has read.                            *)
HashIsThere ==
  /\ \A p \in Paths \ unread :
       refs[p].hash # None /\ refs[p].mtime = disk[p].mtime => refs[p].hash = disk[p].content
  /\ \A i \in Ingesters :
       ingest[i].at \in Hasher /\ ingest[i].mtime = disk[ingest[i].path].mtime =>
         ingest[i].hash = disk[ingest[i].path].content

HashKnown == \A p \in Paths : refs[p].status = "HASHED" => refs[p].hash # None

(* The row an open transaction has marked a ref with stays until it ends,   *)
(* and a purge finds its file named only by refs it has marked, or by refs  *)
(* that were marked while it went on.                                       *)
RowsHeld ==
  \A i \in Ingesters :
    ingest[i].at = "marked" /\ ~ingest[i].creates => home[ingest[i].hash] # "absent"

PurgesSeen ==
  \A c \in purging :
    /\ \A i \in Ingesters : Marks(i, c) => ingest[i].beside
    /\ home[c] = "trash" => \A p \in Paths : refs[p].file = c => p \in tombs \/ p \in beside

IInv == Types /\ Clocked /\ HashIsThere /\ HashKnown /\ RowsHeld /\ PurgesSeen /\ RefsNameRows

-----------------------------------------------------------------------------
LEMMA InitHolds ==
  ASSUME Init
  PROVE  IInv
<1>1. PICK known \in [Paths -> Contents \cup {None}], deleted \in SUBSET Contents :
        LET old == {p \in Paths : known[p] # None} IN
        /\ \A c \in deleted : \E p \in Paths : known[p] = c
        /\ clock = IF old = {} THEN 0 ELSE 1
        /\ disk = [p \in Paths |-> [content |-> known[p], mtime |-> IF p \in old THEN 1 ELSE 0,
                                    there |-> p \in old]]
        /\ refs = [p \in Paths |-> IF p \notin old THEN NoRef
                                   ELSE IF known[p] \in deleted THEN Tombstone(known[p], 1)
                                   ELSE Hashed(known[p], 1)]
        /\ home = [c \in Contents |-> IF c \in deleted THEN "trash"
                                      ELSE IF \E p \in Paths : known[p] = c THEN "document"
                                      ELSE "absent"]
  BY DEF Init
<1>2. ingest = [i \in Ingesters |-> Idle] /\ purging = {}
  BY DEF Init
<1>3. \A p \in Paths :
        /\ disk[p] \in File /\ refs[p] \in Ref
        /\ disk[p].there <=> known[p] # None
        /\ disk[p].content = known[p]
        /\ disk[p].mtime = IF known[p] # None THEN 1 ELSE 0
        /\ refs[p].mtime = disk[p].mtime
        /\ refs[p].hash = known[p]
        /\ refs[p].file # None => refs[p].file = known[p] /\ known[p] \in Contents
        /\ refs[p].status = "HASHED" => refs[p].file # None /\ known[p] # None
  <2> TAKE p \in Paths
  <2>1. /\ disk[p] = [content |-> known[p], mtime |-> IF known[p] # None THEN 1 ELSE 0,
                      there |-> known[p] # None]
        /\ refs[p] = IF known[p] = None THEN NoRef
                     ELSE IF known[p] \in deleted THEN Tombstone(known[p], 1)
                     ELSE Hashed(known[p], 1)
    BY <1>1
  <2>2. CASE known[p] # None /\ known[p] \in deleted
    <3>1. /\ disk[p] = [content |-> known[p], mtime |-> 1, there |-> TRUE]
          /\ refs[p] = Tombstone(known[p], 1)
      BY <2>1, <2>2
    <3> QED BY <3>1, <2>2 DEF File, Ref, Tombstone
  <2>3. CASE known[p] # None /\ known[p] \notin deleted
    <3>1. /\ disk[p] = [content |-> known[p], mtime |-> 1, there |-> TRUE]
          /\ refs[p] = Hashed(known[p], 1)
      BY <2>1, <2>3
    <3> QED BY <3>1, <2>3 DEF File, Ref, Hashed
  <2>4. CASE known[p] = None
    <3>1. disk[p] = [content |-> None, mtime |-> 0, there |-> FALSE] /\ refs[p] = NoRef
      BY <2>1, <2>4
    <3> QED BY <3>1, <2>4 DEF File, Ref, NoRef
  <2> QED BY <2>2, <2>3, <2>4
<1>4. Types
  BY <1>1, <1>2, <1>3 DEF Types, Call, Home
<1>5. Clocked
  BY <1>1, <1>2, <1>3 DEF Clocked, Idle
<1>6. HashIsThere /\ HashKnown
  BY <1>2, <1>3 DEF HashIsThere, HashKnown, Idle, Hasher
<1>7. RefsNameRows
  BY <1>1, <1>3 DEF RefsNameRows
<1>8. RowsHeld /\ PurgesSeen
  BY <1>2 DEF RowsHeld, PurgesSeen, Idle
<1> QED BY <1>4, <1>5, <1>6, <1>7, <1>8 DEF IInv

(* Steps that touch neither the volume, the refs nor the rows, and no       *)
(* ingest: it goes on, ends, or is not there.  A crash ends every purge.    *)
LEMMA ScanWork ==
  ASSUME IInv, UNCHANGED <<volume, refs, home, unread, beside>>,
         UNCHANGED trash \/ purging' = {},
         ingest' \in [Ingesters -> Call],
         \A i \in Ingesters : ingest'[i] = ingest[i] \/ ingest'[i] = Idle
  PROVE  IInv'
<1>0. /\ disk' = disk /\ clock' = clock /\ refs' = refs /\ home' = home /\ unread' = unread
      /\ beside' = beside
      /\ (purging' = purging /\ tombs' = tombs) \/ purging' = {}
  BY DEF volume, trash
<1>1. Types'
  BY <1>0 DEF IInv, Types
<1>2. Clocked'
  BY <1>0 DEF IInv, Clocked, Idle
<1>3. HashIsThere' /\ HashKnown'
  BY <1>0 DEF IInv, HashIsThere, HashKnown, Idle, Hasher
<1>4. RefsNameRows'
  BY <1>0 DEF IInv, RefsNameRows
<1>5. RowsHeld'
  BY <1>0 DEF IInv, RowsHeld, Idle
<1>6. PurgesSeen'
  BY <1>0 DEF IInv, PurgesSeen, Marks, Idle
<1> QED BY <1>1, <1>2, <1>3, <1>4, <1>5, <1>6 DEF IInv

(* The volume is nothing to the rows.                                       *)
LEMMA VolumeWork ==
  ASSUME IInv, UNCHANGED <<archive, ingest>>, Types', Clocked', HashIsThere'
  PROVE  IInv'
<1>0. /\ refs' = refs /\ home' = home /\ purging' = purging /\ tombs' = tombs
      /\ beside' = beside /\ ingest' = ingest
  BY DEF archive
<1>1. RefsNameRows' /\ HashKnown'
  BY <1>0 DEF IInv, RefsNameRows, HashKnown
<1>2. RowsHeld' /\ PurgesSeen'
  BY <1>0 DEF IInv, RowsHeld, PurgesSeen, Marks
<1> QED BY <1>1, <1>2 DEF IInv

(* What is written has a time that nothing else has. *)
LEMMA WriteKeeps ==
  ASSUME IInv, NEW p \in Paths, NEW c \in Contents, Write(p, c)
  PROVE  IInv'
<1>0. /\ UNCHANGED archive /\ refs' = refs /\ home' = home /\ unread' = unread /\ ingest' = ingest
      /\ purging' = purging
      /\ clock' = clock + 1
      /\ disk' = [disk EXCEPT ![p] = [content |-> c, mtime |-> clock + 1, there |-> TRUE]]
  BY DEF Write, archive, handlers
<1>1. /\ disk' \in [Paths -> File] /\ clock' \in Nat /\ clock \in Nat
      /\ disk'[p].content = c /\ disk'[p].mtime = clock + 1 /\ disk'[p].there
      /\ \A q \in Paths : q # p => disk'[q] = disk[q]
      /\ \A q \in Paths : disk[q].mtime \in Nat /\ refs[q].mtime \in Nat
      /\ \A i \in Ingesters : ingest[i].at # "idle" => ingest[i].mtime \in Nat /\ ingest[i].path \in Paths
  BY <1>0 DEF IInv, Types, File, Ref, Call, Idle, Begun, Reader, Finder, Marker
<1>2. Types'
  BY <1>0, <1>1 DEF IInv, Types
<1>3. Clocked'
  BY <1>0, <1>1 DEF IInv, Clocked
<1>4. HashIsThere'
  BY <1>0, <1>1 DEF IInv, Clocked, HashIsThere, Hasher
<1> QED BY <1>0, <1>2, <1>3, <1>4, VolumeWork

LEMMA MoveKeeps ==
  ASSUME IInv, NEW p \in Paths, Move(p)
  PROVE  IInv'
<1>0. /\ UNCHANGED archive /\ refs' = refs /\ home' = home /\ unread' = unread /\ ingest' = ingest
      /\ purging' = purging
      /\ clock' = clock
      /\ disk[p].mtime > 0
      /\ disk' = [disk EXCEPT ![p].there = ~@]
  BY DEF Move, archive, handlers
<1>1. /\ disk' \in [Paths -> File]
      /\ \A q \in Paths : /\ disk'[q].mtime = disk[q].mtime /\ disk'[q].content = disk[q].content
                          /\ q # p => disk'[q] = disk[q]
      /\ \A i \in Ingesters : ingest[i].at \in Hasher => ingest[i].path \in Paths
  <2>1. \A f \in File : LET g == [f EXCEPT !.there = ~@] IN
          g \in File /\ g.mtime = f.mtime /\ g.content = f.content
    BY DEF File
  <2>2. disk \in [Paths -> File]
    BY DEF IInv, Types
  <2>3. \A i \in Ingesters : ingest[i].at \in Hasher => ingest[i].path \in Paths
    BY DEF IInv, Types, Call, Idle, Begun, Reader, Finder, Marker, Hasher
  <2> QED BY <1>0, <2>1, <2>2, <2>3
<1>2. Types'
  BY <1>0, <1>1 DEF IInv, Types
<1>3. Clocked'
  BY <1>0, <1>1 DEF IInv, Clocked
<1>4. HashIsThere'
  BY <1>0, <1>1 DEF IInv, HashIsThere
<1> QED BY <1>0, <1>2, <1>3, <1>4, VolumeWork

(* Steps that write refs keep what the hashes rest on, if each ref keeps    *)
(* its hash and its time, or takes the time of the file with nobody having  *)
(* read it.                                                                 *)
LEMMA RefsWritten ==
  ASSUME IInv, UNCHANGED volume, UNCHANGED ingest, refs' \in [Paths -> Ref],
         home' \in [Contents -> Home], purging' \subseteq Contents,
         \A c \in Contents : home[c] # "absent" =>
           home'[c] # "absent" \/ \A i \in Ingesters : ~Marks(i, c),
         \A p \in Paths :
           /\ p \in unread => p \in unread'
           /\ \/ refs'[p].hash = refs[p].hash /\ refs'[p].mtime = refs[p].mtime
              \/ refs'[p].mtime = disk[p].mtime /\ p \in unread'
           /\ refs'[p].status = "HASHED" => refs'[p].hash # None,
         RefsNameRows', PurgesSeen'
  PROVE  IInv'
<1>0. disk' = disk /\ clock' = clock /\ ingest' = ingest
  BY DEF volume
<1>1. Types'
  BY <1>0 DEF IInv, Types
<1>2. Clocked'
  BY <1>0 DEF IInv, Clocked
<1>3. HashIsThere' /\ HashKnown'
  BY <1>0 DEF IInv, HashIsThere, HashKnown
<1>4. RowsHeld'
  <2>1. \A i \in Ingesters : ingest[i].at = "marked" => ingest[i].hash \in Contents
    BY DEF IInv, Types, Call, Idle, Begun, Reader, Finder, Marker
  <2> QED BY <2>1, <1>0 DEF IInv, RowsHeld, Marks
<1> QED BY <1>1, <1>2, <1>3, <1>4 DEF IInv

(* A deletion leaves each ref its hash and its time, and no ref that names  *)
(* the file.                                                                *)
LEMMA DeleteKeeps ==
  ASSUME IInv, NEW c \in Contents, DeleteDocument(c)
  PROVE  IInv'
<1>0. /\ UNCHANGED volume /\ UNCHANGED ingest /\ unread' = unread /\ beside' = beside
      /\ purging' = purging /\ tombs' = tombs /\ purging \subseteq Contents
      /\ refs \in [Paths -> Ref] /\ home \in [Contents -> Home]
      /\ home' = [home EXCEPT ![c] = "trash"]
  BY DEF IInv, Types, DeleteDocument, handlers, trash
<1>1. /\ home' \in [Contents -> Home] /\ home'[c] = "trash"
      /\ \A b \in Contents : b # c => home'[b] = home[b]
  BY <1>0 DEF Home
<1>2. /\ refs' \in [Paths -> Ref]
      /\ \A p \in Paths :
           /\ refs'[p].hash = refs[p].hash /\ refs'[p].mtime = refs[p].mtime
           /\ refs[p].file = c => refs'[p].file = None /\ refs'[p].status = "EXCLUDED"
           /\ refs[p].file # c => refs'[p] = refs[p]
  <2>1. \A w \in Ref : LET v == [w EXCEPT !.status = "EXCLUDED", !.file = None] IN
          /\ v \in Ref /\ v.hash = w.hash /\ v.mtime = w.mtime
          /\ v.file = None /\ v.status = "EXCLUDED"
    BY DEF Ref
  <2>2. \A p \in Paths : refs[p] \in Ref
    BY <1>0
  <2>3. refs' = [p \in Paths |-> IF refs[p].file = c
                                 THEN [refs[p] EXCEPT !.status = "EXCLUDED", !.file = None]
                                 ELSE refs[p]]
    BY DEF DeleteDocument, Excluded
  <2> QED BY <2>1, <2>2, <2>3
<1>3. RefsNameRows'
  BY <1>0, <1>1, <1>2 DEF IInv, RefsNameRows, Ref
<1>4. PurgesSeen'
  <2>1. c # None
    BY NoneAssumption
  <2>2. \A b \in purging' : \A i \in Ingesters : Marks(i, b)' => ingest'[i].beside
    BY <1>0 DEF IInv, PurgesSeen, Marks
  <2>3. ASSUME NEW b \in purging', home'[b] = "trash", NEW p \in Paths, refs'[p].file = b
        PROVE  p \in tombs' \/ p \in beside'
    <3>1. b # c /\ refs[p].file = b /\ home[b] = "trash" /\ b \in purging
      BY <1>0, <1>1, <1>2, <2>1, <2>3, NoneAssumption
    <3> QED BY <1>0, <3>1 DEF IInv, PurgesSeen
  <2> QED BY <2>2, <2>3 DEF PurgesSeen
<1>5. \A p \in Paths : refs'[p].status = "HASHED" => refs'[p].hash # None
  BY <1>2 DEF IInv, HashKnown
<1> QED BY <1>0, <1>1, <1>2, <1>3, <1>4, <1>5, RefsWritten

(* A restore takes every tombstone of its file, and no other ref.           *)
LEMMA RestoreKeeps ==
  ASSUME IInv, NEW c \in Contents, Restore(c)
  PROVE  IInv'
<1>0. /\ UNCHANGED volume /\ UNCHANGED ingest /\ unread' = unread /\ beside' = beside
      /\ purging' = purging /\ tombs' = tombs /\ purging \subseteq Contents
      /\ refs \in [Paths -> Ref] /\ home \in [Contents -> Home]
      /\ home' = [home EXCEPT ![c] = "document"]
      /\ refs' = Restored(c)
  BY DEF IInv, Types, Restore, handlers, trash
<1>1. /\ home' \in [Contents -> Home] /\ home'[c] = "document"
      /\ \A b \in Contents : b # c => home'[b] = home[b]
  BY <1>0 DEF Home
<1>2. /\ refs' \in [Paths -> Ref]
      /\ \A p \in Paths :
           /\ refs'[p].hash = refs[p].hash /\ refs'[p].mtime = refs[p].mtime
           /\ refs'[p] = refs[p] \/ (refs'[p].file = c /\ refs[p].hash = c)
  BY <1>0 DEF Restored, Buried, Ref
<1>3. RefsNameRows'
  BY <1>0, <1>1, <1>2, NoneAssumption DEF IInv, RefsNameRows, Ref
<1>4. PurgesSeen'
  <2>1. \A b \in purging' : \A i \in Ingesters : Marks(i, b)' => ingest'[i].beside
    BY <1>0 DEF IInv, PurgesSeen, Marks
  <2>2. ASSUME NEW b \in purging', home'[b] = "trash", NEW p \in Paths, refs'[p].file = b
        PROVE  p \in tombs' \/ p \in beside'
    <3>1. b # c /\ refs[p].file = b /\ home[b] = "trash" /\ b \in purging
      BY <1>0, <1>1, <1>2, <2>2
    <3> QED BY <1>0, <3>1 DEF IInv, PurgesSeen
  <2> QED BY <2>1, <2>2 DEF PurgesSeen
<1>5. \A p \in Paths : refs'[p].status = "HASHED" => refs'[p].hash # None
  BY <1>2, NoneAssumption DEF IInv, HashKnown
<1> QED BY <1>0, <1>1, <1>2, <1>3, <1>4, <1>5, RefsWritten

(* A purge begins by marking every ref that names its file, and every open  *)
(* ingest of the file knows of it.                                          *)
LEMMA BeginPurgeKeeps ==
  ASSUME IInv, NEW c \in Contents, BeginPurge(c)
  PROVE  IInv'
<1>0. /\ disk' = disk /\ clock' = clock /\ refs' = refs /\ home' = home
      /\ unread' = unread /\ beside' = beside
      /\ purging' = purging \cup {c}
      /\ tombs' = tombs \cup {p \in Paths : refs[p].file = c}
      /\ ingest' = [i \in Ingesters |-> IF Marks(i, c) THEN [ingest[i] EXCEPT !.beside = TRUE]
                                        ELSE ingest[i]]
  BY DEF BeginPurge, volume
<1>1. \A w \in Marker : LET v == [w EXCEPT !.beside = TRUE] IN
        /\ v \in Marker /\ v.beside /\ v.at = w.at /\ v.path = w.path /\ v.mtime = w.mtime
        /\ v.hash = w.hash /\ v.creates = w.creates
  BY DEF Marker
<1>2. \A i \in Ingesters : Marks(i, c) => ingest[i] \in Marker
  BY DEF IInv, Types, Marks, Call, Idle, Begun, Reader, Finder, Marker
<1>3. \A i \in Ingesters :
        /\ Marks(i, c) => /\ ingest'[i] \in Marker /\ ingest'[i].beside
                          /\ ingest'[i].at = ingest[i].at /\ ingest'[i].path = ingest[i].path
                          /\ ingest'[i].mtime = ingest[i].mtime
                          /\ ingest'[i].hash = ingest[i].hash
                          /\ ingest'[i].creates = ingest[i].creates
        /\ ~Marks(i, c) => ingest'[i] = ingest[i]
  BY <1>0, <1>1, <1>2
<1>4. ingest' \in [Ingesters -> Call]
  BY <1>0, <1>1, <1>2 DEF IInv, Types, Call
<1>5. Types'
  BY <1>0, <1>4 DEF IInv, Types
<1>6. Clocked'
  BY <1>0, <1>3 DEF IInv, Clocked
<1>7. HashIsThere' /\ HashKnown'
  BY <1>0, <1>3 DEF IInv, HashIsThere, HashKnown
<1>8. RefsNameRows'
  BY <1>0 DEF IInv, RefsNameRows
<1>9. RowsHeld'
  BY <1>0, <1>3 DEF IInv, RowsHeld
<1>10. PurgesSeen'
  <2>1. ASSUME NEW b \in purging', NEW i \in Ingesters, Marks(i, b)'
        PROVE  ingest'[i].beside
    <3>1. CASE Marks(i, c)
      BY <1>3, <3>1
    <3>2. CASE ~Marks(i, c)
      <4>1. Marks(i, b) /\ b # c /\ b \in purging
        BY <1>0, <1>3, <2>1, <3>2 DEF Marks
      <4> QED BY <1>3, <3>2, <4>1 DEF IInv, PurgesSeen
    <3> QED BY <3>1, <3>2
  <2>2. ASSUME NEW b \in purging', home'[b] = "trash", NEW p \in Paths, refs'[p].file = b
        PROVE  p \in tombs' \/ p \in beside'
    BY <1>0, <2>2 DEF IInv, PurgesSeen
  <2> QED BY <2>1, <2>2 DEF PurgesSeen
<1> QED BY <1>5, <1>6, <1>7, <1>8, <1>9, <1>10 DEF IInv

(* A purge commits when nothing holds the row: a ref it has not marked and  *)
(* the foreign key clears was marked beside it.                             *)
LEMMA PurgeKeeps ==
  ASSUME IInv, NEW c \in Contents, Purge(c)
  PROVE  IInv'
<1>0. /\ UNCHANGED volume /\ UNCHANGED ingest /\ unread' = unread /\ beside' = beside
      /\ c \in purging /\ home[c] = "trash" /\ \A i \in Ingesters : ~Marks(i, c)
      /\ purging' = purging \ {c} /\ tombs' = {p \in tombs : refs[p].file # c}
      /\ purging \subseteq Contents
      /\ refs \in [Paths -> Ref] /\ home \in [Contents -> Home]
      /\ home' = [home EXCEPT ![c] = "absent"]
      /\ refs' = Purged(c)
  BY DEF IInv, Types, Purge, EndPurge, handlers
<1>1. /\ home' \in [Contents -> Home]
      /\ \A b \in Contents : b # c => home'[b] = home[b]
  BY <1>0 DEF Home
<1>2. /\ refs' \in [Paths -> Ref]
      /\ \A p \in Paths :
           /\ refs'[p].hash = refs[p].hash /\ refs'[p].mtime = refs[p].mtime
           /\ refs[p].file = c => refs'[p].file = None
           /\ refs'[p].status = "HASHED" => refs[p].status = "HASHED"
           /\ refs[p].file = c /\ p \in tombs => refs'[p].status = "EXCLUDED"
           /\ refs[p].file # c => refs'[p] = refs[p]
  <2>1. \A w \in Ref : LET v == [w EXCEPT !.status = "EXCLUDED", !.file = None]
                           u == [w EXCEPT !.file = None] IN
          /\ v \in Ref /\ v.hash = w.hash /\ v.mtime = w.mtime
          /\ v.file = None /\ v.status = "EXCLUDED"
          /\ u \in Ref /\ u.hash = w.hash /\ u.mtime = w.mtime
          /\ u.file = None /\ u.status = w.status
    BY DEF Ref
  <2>2. \A p \in Paths : refs[p] \in Ref
    BY <1>0
  <2>3. refs' = [p \in Paths |-> IF refs[p].file # c THEN refs[p]
                   ELSE IF p \in tombs THEN [refs[p] EXCEPT !.status = "EXCLUDED", !.file = None]
                   ELSE [refs[p] EXCEPT !.file = None]]
    BY <1>0 DEF Purged
  <2> QED BY <2>1, <2>2, <2>3
<1>3. RefsNameRows'
  <2>1. ASSUME NEW p \in Paths, refs'[p].file # None
        PROVE  refs'[p].hash = refs'[p].file /\ home'[refs'[p].file] # "absent"
    <3>1. refs[p].file # c /\ refs'[p] = refs[p] /\ refs[p].file \in Contents
      BY <1>0, <1>2, <2>1 DEF Ref
    <3> QED BY <1>1, <2>1, <3>1 DEF IInv, RefsNameRows
  <2>2. ASSUME NEW p \in Paths, refs'[p].status = "HASHED"
        PROVE  refs'[p].file # None \/ p \in beside'
    <3>1. CASE refs[p].file = c
      BY <1>0, <1>2, <2>2, <3>1 DEF IInv, PurgesSeen
    <3>2. CASE refs[p].file # c
      BY <1>0, <1>2, <2>2, <3>2 DEF IInv, RefsNameRows
    <3> QED BY <3>1, <3>2
  <2> QED BY <2>1, <2>2 DEF RefsNameRows
<1>4. PurgesSeen'
  <2>1. \A b \in purging' : \A i \in Ingesters : Marks(i, b)' => ingest'[i].beside
    BY <1>0 DEF IInv, PurgesSeen, Marks
  <2>2. ASSUME NEW b \in purging', home'[b] = "trash", NEW p \in Paths, refs'[p].file = b
        PROVE  p \in tombs' \/ p \in beside'
    <3>1. b # c /\ refs[p].file = b /\ home[b] = "trash" /\ b \in purging
      BY <1>0, <1>1, <1>2, <2>2, NoneAssumption
    <3> QED BY <1>0, <3>1 DEF IInv, PurgesSeen
  <2> QED BY <2>1, <2>2 DEF PurgesSeen
<1>5. \A p \in Paths : refs'[p].status = "HASHED" => refs'[p].hash # None
  BY <1>2 DEF IInv, HashKnown
<1>6. purging' \subseteq Contents
  BY <1>0
<1> QED BY <1>0, <1>1, <1>2, <1>3, <1>4, <1>5, <1>6, RefsWritten

LEMMA AbortPurgeKeeps ==
  ASSUME IInv, NEW c \in Contents, AbortPurge(c)
  PROVE  IInv'
<1>0. /\ UNCHANGED volume /\ UNCHANGED ingest /\ unread' = unread /\ beside' = beside
      /\ refs' = refs /\ home' = home
      /\ purging' = purging \ {c} /\ tombs' = {p \in tombs : refs[p].file # c}
      /\ purging \subseteq Contents
      /\ refs \in [Paths -> Ref] /\ home \in [Contents -> Home]
  BY DEF IInv, Types, AbortPurge, EndPurge, handlers
<1>1. RefsNameRows'
  BY <1>0 DEF IInv, RefsNameRows
<1>2. PurgesSeen'
  BY <1>0 DEF IInv, PurgesSeen, Marks
<1>3. \A p \in Paths : refs'[p].status = "HASHED" => refs'[p].hash # None
  BY <1>0 DEF IInv, HashKnown
<1>4. purging' \subseteq Contents
  BY <1>0
<1> QED BY <1>0, <1>1, <1>2, <1>3, <1>4, RefsWritten

(* A scan that writes refs leaves to each what it names.                    *)
LEMMA ScanKeepsNames ==
  ASSUME IInv, home' = home, purging' = purging, tombs' = tombs, beside' = beside,
         UNCHANGED ingest,
         \A p \in Paths :
           /\ \/ refs'[p].file = None
              \/ refs'[p].file = refs[p].file /\ refs'[p].hash = refs[p].hash
           /\ refs'[p].status = "HASHED" => refs'[p] = refs[p]
  PROVE  /\ RefsNameRows' /\ PurgesSeen' /\ purging' \subseteq Contents
         /\ \A p \in Paths : refs'[p].status = "HASHED" => refs'[p].hash # None
<1>1. RefsNameRows'
  BY DEF IInv, RefsNameRows
<1>2. PurgesSeen'
  <2>1. \A b \in purging' : \A i \in Ingesters : Marks(i, b)' => ingest'[i].beside
    BY DEF IInv, PurgesSeen, Marks
  <2>2. ASSUME NEW b \in purging', home'[b] = "trash", NEW p \in Paths, refs'[p].file = b
        PROVE  p \in tombs' \/ p \in beside'
    <3>1. b \in Contents
      BY <2>2 DEF IInv, Types
    <3>2. refs[p].file = b
      BY <2>2, <3>1, NoneAssumption
    <3> QED BY <2>2, <3>2 DEF IInv, PurgesSeen
  <2> QED BY <2>1, <2>2 DEF PurgesSeen
<1>3. \A p \in Paths : refs'[p].status = "HASHED" => refs'[p].hash # None
  BY DEF IInv, HashKnown
<1>4. purging' \subseteq Contents
  BY DEF IInv, Types
<1> QED BY <1>1, <1>2, <1>3, <1>4

(* A scan writes the time that is there as it passes, and says so. *)
LEMMA VisitKeeps ==
  ASSUME IInv, NEW s \in Scanners, NEW p \in Paths, Visit(s, p)
  PROVE  IInv'
<1> DEFINE fresh == scan[s].snapshot[p].status = "NONE"
           again == ~fresh /\ NeedsRehash(scan[s].snapshot[p], disk[p].mtime)
<1>0. /\ UNCHANGED volume /\ UNCHANGED ingest /\ home' = home
      /\ purging' = purging /\ tombs' = tombs /\ beside' = beside
      /\ fresh => refs[p].status = "NONE"
      /\ refs' = IF fresh THEN [refs EXCEPT ![p] = [NoRef EXCEPT !.status = "DISCOVERED", !.mtime = disk[p].mtime]]
                 ELSE IF again THEN [refs EXCEPT ![p].status = "DISCOVERED", ![p].mtime = disk[p].mtime]
                 ELSE refs
      /\ unread' = IF fresh \/ again THEN unread \cup {p} ELSE unread
  BY DEF Visit, trash
<1> HIDE DEF fresh, again
<1>1. /\ refs \in [Paths -> Ref] /\ disk[p].mtime \in Nat
      /\ home \in [Contents -> Home]
  BY DEF IInv, Types, File
<1>2. CASE fresh
  <2>1. /\ refs' \in [Paths -> Ref]
        /\ refs'[p].mtime = disk[p].mtime /\ refs'[p].status = "DISCOVERED" /\ refs'[p].file = None
        /\ \A q \in Paths : q # p => refs'[q] = refs[q]
    BY <1>0, <1>1, <1>2 DEF NoRef, Ref
  <2> QED BY <1>0, <1>1, <1>2, <2>1, RefsWritten, ScanKeepsNames
<1>3. CASE ~fresh /\ again
  <2>1. /\ refs' \in [Paths -> Ref]
        /\ refs'[p].mtime = disk[p].mtime /\ refs'[p].status = "DISCOVERED"
        /\ refs'[p].file = refs[p].file /\ refs'[p].hash = refs[p].hash
        /\ \A q \in Paths : q # p => refs'[q] = refs[q]
    BY <1>0, <1>1, <1>3 DEF Ref
  <2> QED BY <1>0, <1>1, <1>3, <2>1, RefsWritten, ScanKeepsNames
<1>4. CASE ~fresh /\ ~again
  BY <1>0, <1>1, <1>4, RefsWritten, ScanKeepsNames
<1> QED BY <1>2, <1>3, <1>4

LEMMA MarkMissingKeeps ==
  ASSUME IInv, NEW s \in Scanners, MarkMissing(s)
  PROVE  IInv'
<1>0. /\ UNCHANGED volume /\ UNCHANGED ingest /\ home' = home /\ unread' = unread
      /\ purging' = purging /\ tombs' = tombs /\ beside' = beside
      /\ refs \in [Paths -> Ref] /\ home \in [Contents -> Home]
  BY DEF MarkMissing, IInv, Types, trash
<1>1. PICK vanished : refs' = [p \in Paths |-> IF p \in vanished THEN [refs[p] EXCEPT !.status = "MISSING"]
                                               ELSE refs[p]]
  BY DEF MarkMissing
<1>2. /\ refs' \in [Paths -> Ref]
      /\ \A p \in Paths :
           /\ refs'[p].hash = refs[p].hash /\ refs'[p].mtime = refs[p].mtime
           /\ refs'[p].file = refs[p].file
           /\ refs'[p].status = "HASHED" => refs'[p] = refs[p]
  BY <1>0, <1>1 DEF Ref
<1> QED BY <1>0, <1>2, RefsWritten, ScanKeepsNames

(* What one call of the ingest handler comes to know disturbs nothing, if   *)
(* it has a time of the past, a hash that is the file's, and, once it has   *)
(* marked its ref, a row and word of the purges of it.                      *)
LEMMA CallKeeps ==
  ASSUME IInv, NEW i \in Ingesters, NEW call \in Call,
         UNCHANGED <<volume, archive>>,
         ingest' = [ingest EXCEPT ![i] = call],
         call.at # "idle" => call.mtime <= clock,
         call.at \in Hasher /\ call.mtime = disk[call.path].mtime =>
           call.hash = disk[call.path].content,
         call.at = "marked" /\ ~call.creates => home[call.hash] # "absent",
         call.at = "marked" /\ call.hash \in purging => call.beside
  PROVE  IInv'
<1>0. /\ disk' = disk /\ clock' = clock /\ refs' = refs /\ home' = home /\ unread' = unread
      /\ purging' = purging /\ tombs' = tombs /\ beside' = beside
  BY DEF volume, archive
<1>1. /\ ingest' \in [Ingesters -> Call]
      /\ ingest'[i] = call
      /\ \A j \in Ingesters : j # i => ingest'[j] = ingest[j]
  BY DEF IInv, Types
<1>2. Types' /\ RefsNameRows' /\ HashKnown'
  BY <1>0, <1>1 DEF IInv, Types, RefsNameRows, HashKnown
<1>3. Clocked'
  BY <1>0, <1>1 DEF IInv, Clocked
<1>4. HashIsThere'
  BY <1>0, <1>1 DEF IInv, HashIsThere
<1>5. RowsHeld'
  BY <1>0, <1>1 DEF IInv, RowsHeld
<1>6. PurgesSeen'
  BY <1>0, <1>1 DEF IInv, PurgesSeen, Marks
<1> QED BY <1>2, <1>3, <1>4, <1>5, <1>6 DEF IInv

(* An ingest begins with the time of its ref. *)
LEMMA BeginIngestKeeps ==
  ASSUME IInv, NEW i \in Ingesters, NEW p \in Paths, BeginIngest(i, p)
  PROVE  IInv'
<1>0. UNCHANGED <<volume, archive>>
  BY DEF BeginIngest
<1>1. CASE ingest' = ingest
  BY <1>0, <1>1, ScanWork DEF volume, archive, trash, IInv, Types
<1>2. CASE ingest' # ingest
  <2>1. PICK mtime \in Nat :
          /\ mtime = refs[p].mtime
          /\ ingest' = [ingest EXCEPT ![i] = [at |-> "begun", path |-> p, mtime |-> mtime]]
    BY <1>2 DEF BeginIngest, IInv, Types, Ref
  <2> DEFINE call == [at |-> "begun", path |-> p, mtime |-> mtime]
  <2>2. call \in Call /\ call.at = "begun" /\ call.mtime = mtime
    BY DEF Call, Begun
  <2>3. mtime <= clock
    BY <2>1 DEF IInv, Clocked
  <2>4. ingest' = [ingest EXCEPT ![i] = call]
    BY <2>1
  <2> HIDE DEF call
  <2> QED BY <1>0, <2>2, <2>3, <2>4, CallKeeps DEF Hasher
<1> QED BY <1>1, <1>2

(* It takes the hash of what is there. *)
LEMMA HashFileKeeps ==
  ASSUME IInv, NEW i \in Ingesters, HashFile(i)
  PROVE  IInv'
<1>0. UNCHANGED <<volume, archive>>
  BY DEF HashFile
<1>1. ingest[i] \in Begun
  BY DEF HashFile, IInv, Types, Call, Idle, Reader, Finder, Marker
<1>2. PICK p \in Paths, mtime \in Nat : ingest[i] = [at |-> "begun", path |-> p, mtime |-> mtime]
  BY <1>1 DEF Begun
<1>3. PICK c \in Contents : c = disk[p].content
  BY <1>2 DEF HashFile, IInv, Clocked
<1> DEFINE call == [at |-> "hashed", path |-> p, mtime |-> mtime, hash |-> c]
<1>4. ingest' = [ingest EXCEPT ![i] = call]
  <2>1. ingest' = [ingest EXCEPT ![i] = [at |-> "hashed", path |-> ingest[i].path,
                                         mtime |-> ingest[i].mtime,
                                         hash |-> disk[ingest[i].path].content]]
    BY DEF HashFile
  <2>2. ingest[i].path = p /\ ingest[i].mtime = mtime
    BY <1>2
  <2> QED BY <2>1, <2>2, <1>3
<1>5. mtime <= clock
  BY <1>2 DEF IInv, Clocked
<1>6. /\ call \in Call /\ call.at = "hashed" /\ call.path = p /\ call.mtime = mtime
      /\ call.hash = c
  BY DEF Call, Reader
<1> HIDE DEF call
<1> QED BY <1>0, <1>3, <1>4, <1>5, <1>6, CallKeeps

(* It goes on with the row it found. *)
LEMMA FindFileKeeps ==
  ASSUME IInv, NEW i \in Ingesters, FindFile(i)
  PROVE  IInv'
<1>0. UNCHANGED <<volume, archive>>
  BY DEF FindFile
<1>1. ingest[i] \in Reader
  BY DEF FindFile, IInv, Types, Call, Idle, Begun, Finder, Marker
<1>2. PICK p \in Paths, mtime \in Nat, c \in Contents :
        ingest[i] = [at |-> "hashed", path |-> p, mtime |-> mtime, hash |-> c]
  BY <1>1 DEF Reader
<1>3. PICK file \in {"created", "live", "trashed"} :
        ingest' = [ingest EXCEPT ![i] =
                     [at |-> "found", path |-> p, mtime |-> mtime, hash |-> c, file |-> file]]
  <2> DEFINE file == IF home[c] = "absent" THEN "created"
                     ELSE IF home[c] = "document" THEN "live" ELSE "trashed"
  <2>1. ingest' = [ingest EXCEPT ![i] =
                     [at |-> "found", path |-> ingest[i].path, mtime |-> ingest[i].mtime,
                      hash |-> ingest[i].hash,
                      file |-> IF home[ingest[i].hash] = "absent" THEN "created"
                               ELSE IF home[ingest[i].hash] = "document" THEN "live"
                               ELSE "trashed"]]
    BY DEF FindFile
  <2>2. ingest[i].path = p /\ ingest[i].mtime = mtime /\ ingest[i].hash = c
    BY <1>2
  <2>3. file \in {"created", "live", "trashed"}
    OBVIOUS
  <2> QED BY <2>1, <2>2, <2>3
<1> DEFINE call == [at |-> "found", path |-> p, mtime |-> mtime, hash |-> c, file |-> file]
<1>4. mtime <= clock /\ (mtime = disk[p].mtime => c = disk[p].content)
  BY <1>2 DEF IInv, Clocked, HashIsThere, Hasher
<1>5. /\ call \in Call /\ call.at = "found" /\ call.path = p /\ call.mtime = mtime
      /\ call.hash = c
  BY DEF Call, Finder
<1>6. ingest' = [ingest EXCEPT ![i] = call]
  BY <1>3
<1> HIDE DEF call
<1> QED BY <1>0, <1>4, <1>5, <1>6, CallKeeps

(* It marks its ref with a row that is there, and knows of a purge of it.   *)
LEMMA MarkRefKeeps ==
  ASSUME IInv, NEW i \in Ingesters, MarkRef(i)
  PROVE  IInv'
<1>0. UNCHANGED <<volume, archive>>
  BY DEF MarkRef
<1>1. ingest[i] \in Finder
  BY DEF MarkRef, IInv, Types, Call, Idle, Begun, Reader, Marker
<1>2. PICK p \in Paths, mtime \in Nat, c \in Contents, file \in {"created", "live", "trashed"} :
        ingest[i] = [at |-> "found", path |-> p, mtime |-> mtime, hash |-> c, file |-> file]
  BY <1>1 DEF Finder
<1> DEFINE creates == \/ file = "created"
                      \/ file = "live" /\ home[c] \notin {"document", "both"}
           call == [at |-> "marked", path |-> p, mtime |-> mtime, hash |-> c,
                    creates |-> creates, beside |-> c \in purging]
<1>3. file = "created" \/ home[c] # "absent"
  BY <1>2 DEF MarkRef
<1>4. ingest' = [ingest EXCEPT ![i] = call]
  <2>1. ingest' = [ingest EXCEPT ![i] =
                     [at |-> "marked", path |-> ingest[i].path, mtime |-> ingest[i].mtime,
                      hash |-> ingest[i].hash,
                      creates |-> \/ ingest[i].file = "created"
                                  \/ /\ ingest[i].file = "live"
                                     /\ home[ingest[i].hash] \notin {"document", "both"},
                      beside |-> ingest[i].hash \in purging]]
    BY DEF MarkRef
  <2>2. /\ ingest[i].path = p /\ ingest[i].mtime = mtime /\ ingest[i].hash = c
        /\ ingest[i].file = file
    BY <1>2
  <2> QED BY <2>1, <2>2
<1>5. mtime <= clock /\ (mtime = disk[p].mtime => c = disk[p].content)
  BY <1>2 DEF IInv, Clocked, HashIsThere, Hasher
<1>6. /\ call \in Call /\ call.at = "marked" /\ call.path = p /\ call.mtime = mtime
      /\ call.hash = c /\ call.creates = creates /\ call.beside = (c \in purging)
  BY DEF Call, Marker
<1>7. ~call.creates => home[c] # "absent"
  BY <1>3, <1>6
<1> HIDE DEF call, creates
<1> QED BY <1>0, <1>4, <1>5, <1>6, <1>7, CallKeeps

(* The ref is marked with what was hashed and the time read before that,    *)
(* and its content has a home from then on.                                 *)
LEMMA CommitIngestKeeps ==
  ASSUME IInv, NEW i \in Ingesters, CommitIngest(i)
  PROVE  IInv'
<1>0. disk' = disk /\ clock' = clock /\ purging' = purging /\ tombs' = tombs
  BY DEF CommitIngest, volume, trash
<1>1. PICK p \in Paths, mtime \in Nat, c \in Contents, creates \in BOOLEAN, by \in BOOLEAN :
        ingest[i] = [at |-> "marked", path |-> p, mtime |-> mtime, hash |-> c,
                     creates |-> creates, beside |-> by]
  BY DEF CommitIngest, IInv, Types, Call, Idle, Begun, Reader, Finder, Marker
<1>2. /\ refs' = [refs EXCEPT ![p] = Hashed(c, mtime)]
      /\ home' = [home EXCEPT ![c] = IF ~creates THEN @
                                     ELSE IF @ \in {"trash", "both"} THEN "both" ELSE "document"]
      /\ unread' = unread \ {p}
      /\ beside' = IF by THEN beside \cup {p} ELSE beside \ {p}
      /\ ingest' = [ingest EXCEPT ![i] = Idle]
  BY <1>1 DEF CommitIngest
<1>3. c # None /\ Hashed(c, mtime) \in Ref
  BY NoneAssumption DEF Hashed, Ref
<1>4. /\ refs' \in [Paths -> Ref]
      /\ refs'[p].hash = c /\ refs'[p].file = c /\ refs'[p].mtime = mtime
      /\ \A q \in Paths : q # p => refs'[q] = refs[q]
  BY <1>2, <1>3 DEF IInv, Types, Hashed
<1>5. /\ home' \in [Contents -> Home]
      /\ home'[c] # "absent"
      /\ \A b \in Contents : home[b] # "absent" => home'[b] # "absent"
      /\ \A b \in Contents : home'[b] = "trash" => home[b] = "trash"
  <2>1. ~creates => home[c] # "absent"
    BY <1>1 DEF IInv, RowsHeld
  <2> QED BY <1>2, <2>1 DEF IInv, Types, Home
<1>6. /\ ingest' \in [Ingesters -> Call]
      /\ ingest'[i] = Idle
      /\ \A j \in Ingesters : j # i => ingest'[j] = ingest[j]
  BY <1>2 DEF IInv, Types, Call
<1>7. Types'
  BY <1>0, <1>4, <1>5, <1>6 DEF IInv, Types
<1>8. Clocked'
  <2>1. mtime <= clock
    BY <1>1 DEF IInv, Clocked
  <2> QED BY <2>1, <1>0, <1>4, <1>6 DEF IInv, Clocked, Idle
<1>9. HashIsThere' /\ HashKnown'
  <2>1. mtime = disk[p].mtime => c = disk[p].content
    BY <1>1 DEF IInv, HashIsThere, Hasher
  <2> QED BY <2>1, <1>0, <1>2, <1>3, <1>4, <1>6 DEF IInv, HashIsThere, HashKnown, Idle, Hasher
<1>10. RefsNameRows'
  <2>1. \A q \in Paths : refs[q].file \in Contents \cup {None}
    BY DEF IInv, Types, Ref
  <2>2. \A q \in Paths : q # p /\ q \in beside => q \in beside'
    BY <1>2
  <2> QED BY <2>1, <2>2, <1>3, <1>4, <1>5 DEF IInv, RefsNameRows
<1>11. RowsHeld'
  <2>1. \A j \in Ingesters : ingest[j].at = "marked" => ingest[j].hash \in Contents
    BY DEF IInv, Types, Call, Idle, Begun, Reader, Finder, Marker
  <2> QED BY <2>1, <1>5, <1>6 DEF IInv, RowsHeld, Idle
<1>12. PurgesSeen'
  <2>1. c \in purging => by
    BY <1>1 DEF IInv, PurgesSeen, Marks
  <2>2. \A b \in purging' : \A j \in Ingesters : Marks(j, b)' => ingest'[j].beside
    BY <1>0, <1>6 DEF IInv, PurgesSeen, Marks, Idle
  <2>3. ASSUME NEW b \in purging', home'[b] = "trash", NEW q \in Paths, refs'[q].file = b
        PROVE  q \in tombs' \/ q \in beside'
    <3>1. b \in purging /\ home[b] = "trash"
      BY <1>0, <1>5, <2>3 DEF IInv, Types
    <3>2. CASE q = p
      BY <1>2, <1>4, <2>1, <2>3, <3>1, <3>2
    <3>3. CASE q # p
      BY <1>0, <1>2, <1>4, <2>3, <3>1, <3>3 DEF IInv, PurgesSeen
    <3> QED BY <3>2, <3>3
  <2> QED BY <2>2, <2>3 DEF PurgesSeen
<1> QED BY <1>7, <1>8, <1>9, <1>10, <1>11, <1>12 DEF IInv

LEMMA StepKeeps ==
  ASSUME IInv, [Next]_vars
  PROVE  IInv'
<1>0. ingest \in [Ingesters -> Call] /\ Idle \in Call
  BY DEF IInv, Types, Call
<1>1. CASE Volume
  BY <1>1, WriteKeeps, MoveKeeps DEF Volume
<1>2. ASSUME UNCHANGED <<volume, archive, ingest>> PROVE IInv'
  BY <1>0, <1>2, ScanWork DEF archive, trash
<1>3. CASE People
  <2>1. ASSUME NEW state, SetLibrary(state) PROVE IInv'
    BY <1>2, <2>1 DEF SetLibrary
  <2>2. ASSUME NEW t \in Triggers, TriggerScan(t) PROVE IInv'
    BY <1>2, <2>2 DEF TriggerScan
  <2> QED BY <1>3, <2>1, <2>2, DeleteKeeps, RestoreKeeps, BeginPurgeKeeps DEF People
<1>4. CASE Faults
  <2>1. UNCHANGED <<volume, refs, home, unread, beside>> /\ (UNCHANGED trash \/ purging' = {})
    BY <1>4 DEF Faults, Crash, FailScan, Expire, FailIngest, ExpireIngest, archive, trash
  <2>2. /\ ingest' \in [Ingesters -> Call]
        /\ \A i \in Ingesters : ingest'[i] = ingest[i] \/ ingest'[i] = Idle
    BY <1>0, <1>4 DEF Faults, Crash, FailScan, Expire, FailIngest, ExpireIngest
  <2> QED BY <2>1, <2>2, ScanWork
<1>5. CASE SweepDueLibraries \/ RecoverJob \/ UNCHANGED vars
  <2>1. UNCHANGED <<volume, archive>> /\ ingest' = ingest
    BY <1>5 DEF SweepDueLibraries, RecoverJob, vars, volume, archive
  <2> QED BY <2>1, <1>2
<1>6. ASSUME NEW s \in Scanners, Scan(s)
      PROVE  IInv'
  <2>1. ASSUME NEW from, Fetch(s, from) PROVE IInv'
    BY <1>2, <2>1 DEF Fetch
  <2>2. ASSUME NEW p \in Paths, PassBy(s, p) \/ Collide(s, p) \/ EnqueueIngest(s, p) PROVE IInv'
    BY <1>2, <2>2 DEF PassBy, Collide, EnqueueIngest
  <2>3. CASE TooLarge(s) \/ FinishScan(s)
    BY <1>2, <2>3 DEF TooLarge, FinishScan
  <2> QED BY <1>6, <2>1, <2>2, <2>3, VisitKeeps, MarkMissingKeeps DEF Scan
<1>7. ASSUME NEW i \in Ingesters, Ingest(i)
      PROVE  IInv'
  <2>1. CASE FileGone(i) \/ RowGone(i)
    <3>1. UNCHANGED <<volume, archive>> /\ ingest' = [ingest EXCEPT ![i] = Idle]
      BY <2>1 DEF FileGone, RowGone
    <3>2. /\ ingest' \in [Ingesters -> Call]
          /\ \A j \in Ingesters : ingest'[j] = ingest[j] \/ ingest'[j] = Idle
      BY <3>1, <1>0
    <3> QED BY <3>1, <3>2, ScanWork DEF archive, trash
  <2> QED BY <1>7, <2>1, BeginIngestKeeps, HashFileKeeps, FindFileKeeps, MarkRefKeeps,
             CommitIngestKeeps DEF Ingest
<1> QED BY <1>1, <1>3, <1>4, <1>5, <1>6, <1>7, PurgeKeeps, AbortPurgeKeeps DEF Next

(* What a scan, an ingest and a purge rely on holds throughout, on any      *)
(* volume.                                                                  *)
THEOREM Invariant == Spec => []IInv
<1>1. Init => IInv
  BY InitHolds
<1>2. IInv /\ [Next]_vars => IInv'
  BY StepKeeps
<1> QED BY <1>1, <1>2, PTL DEF Spec

(* A ref that names a file names the row of what it was hashed to, and the  *)
(* row has a home; one that passes for hashed and names none was marked     *)
(* while a purge of the same file went on.                                  *)
THEOREM RefsAreGood == Spec => []RefsNameRows
<1>1. IInv => RefsNameRows
  BY DEF IInv
<1> QED BY <1>1, Invariant, PTL

(* A ref that would pass for unchanged has the hash of what is there.       *)
THEOREM HashesAreFresh == Spec => []FreshHash
<1>1. IInv => FreshHash
  <2>1. ASSUME IInv, NEW p \in Paths \ unread, refs[p].status = "HASHED", refs[p].mtime = disk[p].mtime
        PROVE  refs[p].hash = disk[p].content
    <3>1. refs[p].hash # None
      BY <2>1 DEF IInv, HashKnown
    <3> QED BY <2>1, <3>1 DEF IInv, HashIsThere
  <2> QED BY <2>1 DEF FreshHash
<1> QED BY <1>1, Invariant, PTL
=============================================================================
