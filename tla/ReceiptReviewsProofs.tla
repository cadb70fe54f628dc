------------------------ MODULE ReceiptReviewsProofs ------------------------
(***************************************************************************)
(* What the duplicate reviews of receipts promise for any receipts, any    *)
(* pairs of them, any number of reviews and any faults.  The three promises*)
(* hold each other up: an undo brings back what its review hid because     *)
(* nobody else has hidden it; it may set the combined receipt aside because*)
(* no other review in force made it (OnePair, HiddenIsUndoable) or rests on*)
(* it (MadeFirst, and the dependents the undo asks for).  A sweep of the   *)
(* bucket will delete no original but of a file it asked about too early   *)
(* (SweepIsSound).                                                         *)
(***************************************************************************)
EXTENDS ReceiptReviews, FiniteSetTheorems, SequenceTheorems, TLAPS

Row == [state : States \cup {"none", "deleted", "document"}, review : Nat,
        preview : Statuses \cup {"none"}, extraction : Statuses \cup {"none"}]

Review == [pair : Pairs, action : {"dismiss", "keep", "merge"}, result : Receipts \cup {NoResult},
           undone : BOOLEAN, current : BOOLEAN]

Stored  == [at : {"stored"}, pair : Pairs, current : BOOLEAN, own : Results]
Holding == [at : {"locked"}, pair : Pairs, current : BOOLEAN, own : Results,
            file : Results, result : Results, busy : BOOLEAN]
Closing == [at : {"cleanup"}, pair : {{}}, current : BOOLEAN, own : Results]

Sweep == [at : {"listed", "asked"}, objects : SUBSET Results]

Types ==
  /\ receipts \in [Receipts -> Row]
  /\ reviews \in Seq(Review)
  /\ original \in [Results -> Results \cup {0}]
  /\ pdfs \subseteq Results /\ missed \subseteq Results
  /\ sweep \in [Sweepers -> {Idle} \cup Sweep]
  /\ merge \in {Idle} \cup Stored \cup Holding \cup Closing

Merges(i) == reviews[i].action = "merge"

(* What a review says of its result: one of the pair that was kept, or a    *)
(* combined receipt beside it, and in any case one that has been there.     *)
Named ==
  \A i \in DOMAIN reviews :
    /\ reviews[i].action = "keep" => reviews[i].result \in reviews[i].pair
    /\ Merges(i) => reviews[i].result \in Results \ reviews[i].pair
    /\ reviews[i].action # "dismiss" => receipts[reviews[i].result].state # "none"

(* The PDFs that are in the bucket, or that a sweep may have taken.         *)
Kept == pdfs \cup missed

(* A combined receipt has its file, and the file its object.                *)
Objects ==
  \A m \in Results :
    /\ original[m] = 0 <=> receipts[m].state = "none"
    /\ original[m] # 0 => original[m] \in Kept

(* A receipt is combined of one pair, however often.                        *)
OnePair ==
  \A i, j \in DOMAIN reviews :
    Merges(i) /\ Merges(j) /\ reviews[i].result = reviews[j].result =>
      reviews[i].pair = reviews[j].pair

(* A decision about a combined receipt comes after the one that made it.    *)
MadeFirst ==
  \A i, j \in DOMAIN reviews :
    Decides(i) /\ Decides(j) /\ Merges(j) /\ reviews[j].result \in reviews[i].pair => j < i

(* A combined receipt that is on the shelf, hidden or a document, and was   *)
(* no document when its decision was undone, has a decision in force.       *)
InForce ==
  \A m \in Results \ converted : receipts[m].state \in {"ACTIVE", "REPLACED", "document"} =>
    \E i \in DOMAIN reviews : Decides(i) /\ Merges(i) /\ reviews[i].result = m

(* What the combination under way counts on.                                *)
MergeIsSound ==
  /\ merge.at \in {"stored", "locked"} =>
       merge.own \in Kept /\ receipts[merge.own].state = "none"
  /\ merge.at = "locked" =>
       /\ \A r \in merge.pair : Active(r)
       /\ merge.file \in Kept
       /\ merge.file = merge.own \/ \E m \in Results : original[m] = merge.file
       /\ \/ merge.result = merge.own
          \/ /\ receipts[merge.result].state = "MERGE_UNDONE"
             /\ original[merge.result] = merge.file
             /\ Made(merge.result, merge.pair) # {}

Essentials ==
  /\ Named /\ Objects /\ OnePair /\ MadeFirst /\ InForce
  /\ HiddenIsUndoable /\ PurchaseStaysVisible

(* What a sweep will delete is no file's, and will be none's, unless it     *)
(* asked too early.                                                         *)
SweepIsSound ==
  \A s \in Sweepers : sweep[s].at = "asked" =>
    \A file \in sweep[s].objects \ missed :
      /\ Orphaned(file)
      /\ merge.at \in {"stored", "locked"} => merge.own # file

IInv == Types /\ Essentials /\ MergeIsSound /\ SweepIsSound

-----------------------------------------------------------------------------
(* Both receipts of a pair are receipts, and there are two.                 *)
LEMMA PairFacts ==
  ASSUME NEW pair \in Pairs
  PROVE  pair # {} /\ pair \subseteq Receipts
<1>1. Cardinality(pair) = 2
  BY PairsAssumption
<1>2. Cardinality({}) = 0
  BY FS_EmptySet
<1> QED BY <1>1, <1>2, PairsAssumption DEF Receipts

(* 0 names no receipt. *)
LEMMA ZeroIsNone == NoResult \notin Receipts
BY SourcesAssumption, ResultsAssumption DEF NoResult, Receipts

SameRows ==
  \A r \in Receipts : receipts'[r].state = receipts[r].state /\ receipts'[r].review = receipts[r].review

SameReview(i) ==
  /\ reviews'[i].pair = reviews[i].pair
  /\ reviews'[i].action = reviews[i].action
  /\ reviews'[i].result = reviews[i].result

SameReviews ==
  /\ DOMAIN reviews' = DOMAIN reviews
  /\ \A i \in DOMAIN reviews : SameReview(i) /\ reviews'[i].undone = reviews[i].undone

(* To make reviews out of date changes nothing else of them.                *)
LEMMA OutdatedSame ==
  ASSUME Types, NEW rs
  PROVE  /\ Outdated(rs) \in Seq(Review)
         /\ Len(Outdated(rs)) = Len(reviews)
         /\ DOMAIN Outdated(rs) = DOMAIN reviews
         /\ \A i \in DOMAIN reviews :
              /\ Outdated(rs)[i].pair = reviews[i].pair
              /\ Outdated(rs)[i].action = reviews[i].action
              /\ Outdated(rs)[i].result = reviews[i].result
              /\ Outdated(rs)[i].undone = reviews[i].undone
<1> DEFINE new(i) == IF reviews[i].pair \cap rs # {} THEN [reviews[i] EXCEPT !.current = FALSE]
                     ELSE reviews[i]
<1>1. reviews \in Seq(Review) /\ DOMAIN reviews = 1 .. Len(reviews) /\ Len(reviews) \in Nat
  BY DEF Types
<1>2. \A i \in DOMAIN reviews : reviews[i] \in Review
  BY <1>1
<1>3. \A i \in DOMAIN reviews :
        /\ new(i) \in Review
        /\ new(i).pair = reviews[i].pair /\ new(i).action = reviews[i].action
        /\ new(i).result = reviews[i].result /\ new(i).undone = reviews[i].undone
  BY <1>2 DEF Review
<1>4. Outdated(rs) = [i \in 1 .. Len(reviews) |-> new(i)]
  BY <1>1 DEF Outdated
<1> HIDE DEF new
<1>5. Outdated(rs) \in Seq(Review) /\ Len(Outdated(rs)) = Len(reviews)
  BY <1>1, <1>3, <1>4
<1> QED BY <1>1, <1>3, <1>4, <1>5

(* A review more: the others stay as they were. *)
LEMMA OneMore ==
  ASSUME Types, NEW rs, NEW new \in Review, reviews' = Append(Outdated(rs), new)
  PROVE  LET n == Len(reviews) + 1 IN
         /\ reviews' \in Seq(Review)
         /\ n \in Nat /\ DOMAIN reviews' = DOMAIN reviews \cup {n}
         /\ n \in DOMAIN reviews' /\ n \notin DOMAIN reviews
         /\ \A i \in DOMAIN reviews : i \in Nat /\ i < n
         /\ reviews'[n] = new
         /\ \A i \in DOMAIN reviews : SameReview(i) /\ reviews'[i].undone = reviews[i].undone
<1>1. /\ Outdated(rs) \in Seq(Review) /\ Len(Outdated(rs)) = Len(reviews)
      /\ DOMAIN Outdated(rs) = DOMAIN reviews
  BY OutdatedSame
<1>2. DOMAIN reviews = 1 .. Len(reviews) /\ Len(reviews) \in Nat
  BY DEF Types
<1>3. \A i \in DOMAIN reviews : reviews'[i] = Outdated(rs)[i]
  BY <1>1, <1>2, AppendProperties
<1> QED BY <1>1, <1>2, <1>3, AppendProperties, OutdatedSame DEF SameReview

-----------------------------------------------------------------------------
LEMMA ReviewFacts ==
  ASSUME Types, Named
  PROVE  \A i \in DOMAIN reviews :
           /\ reviews[i].pair \in Pairs
           /\ reviews[i].pair \subseteq Receipts
           /\ Hides(i) \subseteq reviews[i].pair
           /\ Hides(i) \subseteq Receipts
           /\ reviews[i].action \in {"dismiss", "keep", "merge"}
           /\ reviews[i].action # "dismiss" => reviews[i].result \in Receipts
<1> TAKE i \in DOMAIN reviews
<1>1. reviews[i] \in Review
  BY DEF Types
<1>2. /\ reviews[i].pair \in Pairs /\ reviews[i].pair \subseteq Receipts
      /\ reviews[i].action \in {"dismiss", "keep", "merge"}
  BY <1>1, PairFacts DEF Review
<1>3. reviews[i].action # "dismiss" => reviews[i].result \in Receipts
  BY <1>2 DEF Named, Merges, Receipts
<1> QED BY <1>2, <1>3 DEF Hides

(* Steps that hide, bring back, make and remove nothing leave everything    *)
(* as it was, if no file loses its object.                                  *)
LEMMA QuietKeeps ==
  ASSUME Types, Essentials, SameRows, SameReviews,
         original' = original, converted' = converted,
         \A m \in Results : original[m] \in Kept => original[m] \in Kept'
  PROVE  Essentials'
<1>1. \A i \in DOMAIN reviews :
        /\ reviews[i].pair \subseteq Receipts
        /\ Hides(i) \subseteq Receipts
        /\ reviews[i].action # "dismiss" => reviews[i].result \in Receipts
  BY ReviewFacts DEF Essentials
<1>a. \A i \in DOMAIN reviews :
        /\ Decides(i)' <=> Decides(i)
        /\ Merges(i)' <=> Merges(i)
        /\ Hides(i)' = Hides(i)
  BY DEF SameReviews, SameReview, Decides, Lives, Hides, Merges
<1>2. Named'
  BY <1>1, <1>a DEF Essentials, Named, SameRows, SameReviews, SameReview
<1>3. Objects'
  BY DEF Essentials, Objects, SameRows, Receipts
<1>4. OnePair' /\ MadeFirst'
  BY <1>1, <1>a DEF Essentials, OnePair, MadeFirst, SameReviews, SameReview
<1>5. InForce'
  BY <1>1, <1>a DEF Essentials, InForce, SameRows, SameReviews, SameReview, Receipts
<1>6. HiddenIsUndoable'
  BY <1>1, <1>a DEF Essentials, HiddenIsUndoable, SameRows, SameReviews
<1>7. PurchaseStaysVisible'
  <2> SUFFICES ASSUME NEW i \in DOMAIN reviews', Decides(i)'
               PROVE  (LET result == reviews[i].result IN
                       \/ Active(result) /\ (result \in Results => original[result] \in pdfs \cup missed)
                       \/ receipts[result].state = "REPLACED" /\ receipts[result].review > i
                       \/ receipts[result].state \in {"deleted", "document"})'
    BY DEF PurchaseStaysVisible
  <2>1. i \in DOMAIN reviews /\ Decides(i)
    BY <1>a DEF SameReviews
  <2>2. reviews'[i].result = reviews[i].result /\ reviews[i].result \in Receipts
    BY <2>1, <1>1 DEF SameReviews, SameReview, Decides
  <2> QED BY <2>1, <2>2 DEF Essentials, PurchaseStaysVisible, Active, SameRows, Kept
<1> QED BY <1>2, <1>3, <1>4, <1>5, <1>6, <1>7 DEF Essentials

(* A combination under way is only told that its pair has changed. *)
Told == merge' = merge \/ (merge # Idle /\ merge' = [merge EXCEPT !.current = FALSE])

LEMMA ToldFacts ==
  ASSUME Types, Told
  PROVE  /\ merge' \in {Idle} \cup Stored \cup Holding \cup Closing
         /\ merge'.at = merge.at
         /\ merge.at \in {"stored", "locked"} => merge'.pair = merge.pair /\ merge'.own = merge.own
         /\ merge.at = "locked" => merge'.file = merge.file /\ merge'.result = merge.result
<1>1. CASE merge = Idle
  BY <1>1 DEF Told, Types, Idle
<1>2. CASE merge \in Stored
  BY <1>2 DEF Told, Idle, Stored
<1>3. CASE merge \in Holding
  BY <1>3 DEF Told, Idle, Holding
<1>4. CASE merge \in Closing
  BY <1>4 DEF Told, Idle, Closing
<1> QED BY <1>1, <1>2, <1>3, <1>4 DEF Types

LEMMA StaleTells ==
  ASSUME NEW rs, merge' = Stale(rs)
  PROVE  Told
BY DEF Stale, Told

(* What a combination under way has locked, or has put aside for itself,    *)
(* stays what it is.                                                        *)
LEMMA MergeKept ==
  ASSUME Types, MergeIsSound, Told, original' = original, Kept \subseteq Kept',
         \A m \in Results, pair \in Pairs : Made(m, pair) # {} => Made(m, pair)' # {},
         merge.at \in {"stored", "locked"} =>
           receipts'[merge.own].state = receipts[merge.own].state,
         merge.at = "locked" =>
           \A r \in merge.pair \cup {merge.result} : receipts'[r].state = receipts[r].state
  PROVE  MergeIsSound'
<1>1. /\ merge.at \in {"stored", "locked"} => merge.pair \in Pairs /\ merge.own \in Results
      /\ merge.at = "locked" => merge.result \in Results
  BY DEF Types, Idle, Stored, Holding, Closing
<1>2. merge.at = "locked" /\ Made(merge.result, merge.pair) # {} =>
        Made(merge.result, merge.pair)' # {}
  BY <1>1, ToldFacts DEF Made
<1> QED BY <1>1, <1>2, ToldFacts DEF MergeIsSound, Active

(* The combination under way, if there is one still, has its own number.    *)
GoesOn ==
  merge'.at \in {"stored", "locked"} => merge.at \in {"stored", "locked"} /\ merge'.own = merge.own

LEMMA ToldGoesOn ==
  ASSUME Types, Told
  PROVE  GoesOn
BY ToldFacts DEF GoesOn

(* What a sweep will delete is nobody's still, if no file gets a row.       *)
LEMMA SweepKept ==
  ASSUME SweepIsSound, GoesOn, original' = original, missed' = missed,
         sweep' = sweep \/ \A s \in Sweepers : sweep'[s] = sweep[s] \/ sweep'[s] = Idle
  PROVE  SweepIsSound'
BY DEF SweepIsSound, GoesOn, Orphaned, Idle
-----------------------------------------------------------------------------
(* A new decision: its pair is on the shelf, its result is one of the pair, *)
(* or nothing yet, or a receipt of this pair that had stepped aside.        *)
LEMMA DecisionKeeps ==
  ASSUME Types, Essentials, NEW rs, NEW new \in Review,
         reviews' = Append(Outdated(rs), new), ~new.undone,
         NEW hidden, hidden = IF new.action = "dismiss" THEN {} ELSE new.pair \ {new.result},
         \A r \in new.pair : Active(r),
         new.action = "dismiss" => new.result = NoResult,
         new.action = "keep" => new.result \in new.pair,
         new.action = "merge" =>
           /\ new.result \in Results \ new.pair
           /\ receipts[new.result].state \in {"none", "MERGE_UNDONE"}
           /\ receipts[new.result].state # "none" => Made(new.result, new.pair) # {},
         \A r \in hidden : receipts'[r].state = "REPLACED" /\ receipts'[r].review = Len(reviews) + 1,
         \A r \in Receipts \ (hidden \cup {new.result}) :
           receipts'[r].state = receipts[r].state /\ receipts'[r].review = receipts[r].review,
         new.action # "dismiss" => receipts'[new.result].state = "ACTIVE",
         \A m \in Results : (m = new.result /\ new.action = "merge") \/ original'[m] = original[m],
         new.action = "merge" => original'[new.result] \in Kept,
         Kept' = Kept, converted' = converted
  PROVE  Essentials'
<1> DEFINE took == new.result
<1>0. PICK n : n = Len(reviews) + 1
  OBVIOUS
<1>n. /\ n \in Nat /\ DOMAIN reviews' = DOMAIN reviews \cup {n}
      /\ n \in DOMAIN reviews' /\ n \notin DOMAIN reviews
      /\ \A i \in DOMAIN reviews : i \in Nat /\ i < n
      /\ reviews'[n] = new
      /\ \A i \in DOMAIN reviews : SameReview(i) /\ reviews'[i].undone = reviews[i].undone
  BY <1>0, OneMore
<1>h. \A r \in hidden : receipts'[r].state = "REPLACED" /\ receipts'[r].review = n
  BY <1>0
<1>f. \A i \in DOMAIN reviews :
        /\ reviews[i].pair \subseteq Receipts
        /\ Hides(i) \subseteq reviews[i].pair
        /\ Hides(i) \subseteq Receipts
        /\ reviews[i].action # "dismiss" => reviews[i].result \in Receipts
  BY ReviewFacts DEF Essentials
<1>p. /\ new.pair \subseteq Receipts /\ new.action \in {"dismiss", "keep", "merge"}
      /\ new.action # "dismiss" => took \in Receipts
      /\ hidden \subseteq new.pair /\ took \notin hidden
  BY PairFacts DEF Review, Receipts
<1>a. \A i \in DOMAIN reviews :
        /\ Decides(i)' <=> Decides(i)
        /\ Merges(i)' <=> Merges(i)
        /\ Hides(i)' = Hides(i)
        /\ reviews'[i].pair = reviews[i].pair
        /\ reviews'[i].result = reviews[i].result
        /\ reviews'[i].action = reviews[i].action
  BY <1>n DEF SameReview, Decides, Lives, Hides, Merges
<1>b. /\ Decides(n)' <=> new.action # "dismiss"
      /\ Merges(n)' <=> new.action = "merge"
      /\ Hides(n)' = hidden
  BY <1>n DEF Decides, Lives, Hides, Merges
<1>r. \A r \in Receipts :
        \/ /\ r \in hidden /\ receipts[r].state = "ACTIVE"
           /\ receipts'[r].state = "REPLACED" /\ receipts'[r].review = n
        \/ /\ r = took /\ r \notin hidden /\ new.action # "dismiss" /\ receipts'[r].state = "ACTIVE"
           /\ receipts[r].state \in {"ACTIVE", "none", "MERGE_UNDONE"}
           /\ new.action = "keep" => receipts[r].state = "ACTIVE"
        \/ /\ r # took /\ r \notin hidden
           /\ receipts'[r].state = receipts[r].state /\ receipts'[r].review = receipts[r].review
  <2> TAKE r \in Receipts
  <2>1. CASE r \in hidden
    BY <2>1, <1>h, <1>p DEF Active
  <2>2. CASE r = took
    BY <2>2, <1>p, ZeroIsNone DEF Active
  <2> QED BY <2>1, <2>2
<1> HIDE DEF took
<1>1. Named'
  <2>1. \A i \in DOMAIN reviews : reviews[i].action # "dismiss" =>
          receipts'[reviews[i].result].state # "none"
    BY <1>f, <1>r DEF Essentials, Named
  <2> SUFFICES ASSUME NEW i \in DOMAIN reviews'
               PROVE  (/\ reviews[i].action = "keep" => reviews[i].result \in reviews[i].pair
                       /\ Merges(i) => reviews[i].result \in Results \ reviews[i].pair
                       /\ reviews[i].action # "dismiss" =>
                            receipts[reviews[i].result].state # "none")'
    BY DEF Named
  <2>2. CASE i \in DOMAIN reviews
    BY <2>1, <2>2, <1>a DEF Essentials, Named
  <2>3. CASE i = n
    <3>1. reviews'[i] = new
      BY <2>3, <1>n
    <3>2. Merges(i)' <=> new.action = "merge"
      BY <2>3, <1>b
    <3> QED BY <3>1, <3>2
  <2> QED BY <2>2, <2>3, <1>n
<1>2. Objects'
  <2> SUFFICES ASSUME NEW m \in Results
               PROVE  (/\ original[m] = 0 <=> receipts[m].state = "none"
                       /\ original[m] # 0 => original[m] \in Kept)'
    BY DEF Objects
  <2>1. m \in Receipts /\ 0 \notin Kept
    BY ZeroIsNone DEF Receipts, Types, NoResult, Kept
  <2>2. CASE m = took /\ new.action = "merge"
    BY <2>1, <2>2, <1>r DEF took
  <2>3. CASE ~(m = took /\ new.action = "merge")
    <3>1. original'[m] = original[m]
      BY <2>3 DEF took
    <3>2. receipts'[m].state = "none" <=> receipts[m].state = "none"
      BY <2>1, <2>3, <1>r, <1>p
    <3> QED BY <3>1, <3>2 DEF Essentials, Objects
  <2> QED BY <2>2, <2>3
<1>3. OnePair'
  <2>1. ASSUME NEW i \in DOMAIN reviews, Merges(i), new.action = "merge", reviews[i].result = took
        PROVE  reviews[i].pair = new.pair
    <3>1. receipts[took].state # "none"
      BY <2>1 DEF Essentials, Named, Merges
    <3>2. PICK k \in DOMAIN reviews : Merges(k) /\ reviews[k].result = took /\ reviews[k].pair = new.pair
      BY <2>1, <3>1 DEF Made, Merges, took
    <3> QED BY <2>1, <3>2 DEF Essentials, OnePair
  <2> SUFFICES ASSUME NEW i \in DOMAIN reviews', NEW j \in DOMAIN reviews',
                      Merges(i)', Merges(j)', reviews'[i].result = reviews'[j].result
               PROVE  reviews'[i].pair = reviews'[j].pair
    BY DEF OnePair
  <2>2. CASE i = n /\ j = n
    BY <2>2
  <2>3. CASE i \in DOMAIN reviews /\ j = n
    BY <2>3, <2>1, <1>a, <1>b, <1>n DEF took
  <2>4. CASE i = n /\ j \in DOMAIN reviews
    BY <2>4, <2>1, <1>a, <1>b, <1>n DEF took
  <2>5. CASE i \in DOMAIN reviews /\ j \in DOMAIN reviews
    BY <2>5, <1>a DEF Essentials, OnePair
  <2> QED BY <2>2, <2>3, <2>4, <2>5, <1>n
<1>4. MadeFirst'
  <2>1. ASSUME NEW i \in DOMAIN reviews, Decides(i), new.action = "merge", took \in reviews[i].pair
        PROVE  FALSE
    <3>1. receipts[took].state \in {"none", "MERGE_UNDONE"}
      BY <2>1 DEF took
    <3>2. CASE took = reviews[i].result
      BY <2>1, <3>1, <3>2 DEF Essentials, PurchaseStaysVisible, Active, Kept
    <3>3. CASE took # reviews[i].result
      <4>1. took \in Hides(i)
        BY <2>1, <3>3 DEF Hides, Decides
      <4> QED BY <2>1, <3>1, <4>1 DEF Essentials, HiddenIsUndoable
    <3> QED BY <3>2, <3>3
  <2> SUFFICES ASSUME NEW i \in DOMAIN reviews', NEW j \in DOMAIN reviews',
                      Decides(i)', Decides(j)', Merges(j)', reviews'[j].result \in reviews'[i].pair
               PROVE  j < i
    BY DEF MadeFirst
  <2>2. CASE i = n /\ j = n
    BY <2>2, <1>n, <1>b
  <2>3. CASE i = n /\ j \in DOMAIN reviews
    BY <2>3, <1>n
  <2>4. CASE i \in DOMAIN reviews /\ j = n
    BY <2>4, <2>1, <1>a, <1>b, <1>n DEF took
  <2>5. CASE i \in DOMAIN reviews /\ j \in DOMAIN reviews
    BY <2>5, <1>a DEF Essentials, MadeFirst
  <2> QED BY <2>2, <2>3, <2>4, <2>5, <1>n
<1>5. InForce'
  <2> SUFFICES ASSUME NEW m \in Results \ converted,
                      receipts'[m].state \in {"ACTIVE", "REPLACED", "document"}
               PROVE  \E i \in DOMAIN reviews' :
                        Decides(i)' /\ Merges(i)' /\ reviews'[i].result = m
    BY DEF InForce
  <2>1. CASE m = took /\ new.action = "merge"
    BY <2>1, <1>n, <1>b DEF took
  <2>2. CASE ~(m = took /\ new.action = "merge")
    <3>1. receipts[m].state \in {"ACTIVE", "REPLACED", "document"}
      BY <2>2, <1>r, <1>p DEF Receipts
    <3>2. PICK i \in DOMAIN reviews : Decides(i) /\ Merges(i) /\ reviews[i].result = m
      BY <3>1 DEF Essentials, InForce
    <3> QED BY <3>2, <1>a, <1>n
  <2> QED BY <2>1, <2>2
<1>6. HiddenIsUndoable'
  <2>1. ASSUME NEW i \in DOMAIN reviews', Decides(i)', NEW r \in Hides(i)'
        PROVE  receipts'[r].state = "REPLACED" /\ receipts'[r].review = i
    <3>1. CASE i = n
      BY <2>1, <3>1, <1>b, <1>h
    <3>2. CASE i \in DOMAIN reviews
      <4>1. Decides(i) /\ r \in Hides(i) /\ r \in Receipts
        BY <2>1, <3>2, <1>a, <1>f
      <4>2. receipts[r].state = "REPLACED" /\ receipts[r].review = i
        BY <3>2, <4>1 DEF Essentials, HiddenIsUndoable
      <4> QED BY <4>1, <4>2, <1>r
    <3> QED BY <3>1, <3>2, <1>n
  <2>2. ASSUME NEW r \in Receipts, receipts'[r].state = "REPLACED"
        PROVE  receipts'[r].review \in {i \in DOMAIN reviews : Decides(i) /\ r \in Hides(i)}'
    <3>1. CASE r \in hidden
      <4>1. new.action # "dismiss"
        BY <3>1
      <4>2. n \in DOMAIN reviews' /\ Decides(n)' /\ r \in Hides(n)'
        BY <3>1, <4>1, <1>n, <1>b
      <4> QED BY <3>1, <4>2, <1>h
    <3>2. CASE r \notin hidden
      <4>1. receipts[r].state = "REPLACED" /\ receipts'[r].review = receipts[r].review
        BY <2>2, <3>2, <1>r
      <4>2. receipts[r].review \in {i \in DOMAIN reviews : Decides(i) /\ r \in Hides(i)}
        BY <4>1 DEF Essentials, HiddenIsUndoable
      <4> QED BY <4>1, <4>2, <1>a, <1>n
    <3> QED BY <3>1, <3>2
  <2> QED BY <2>1, <2>2 DEF HiddenIsUndoable
<1>7. PurchaseStaysVisible'
  <2> SUFFICES ASSUME NEW i \in DOMAIN reviews', Decides(i)'
               PROVE  (LET result == reviews[i].result IN
                       \/ Active(result) /\ (result \in Results => original[result] \in pdfs \cup missed)
                       \/ receipts[result].state = "REPLACED" /\ receipts[result].review > i
                       \/ receipts[result].state \in {"deleted", "document"})'
    BY DEF PurchaseStaysVisible
  <2>o. \A m \in Results : Active(m)' => original'[m] \in Kept'
    BY <1>2 DEF Objects, Active
  <2>1. CASE i = n
    BY <2>1, <2>o, <1>n, <1>b DEF Active, Kept
  <2>2. CASE i \in DOMAIN reviews
    <3> DEFINE s == reviews[i].result
    <3>1. Decides(i) /\ reviews'[i].result = s /\ s \in Receipts /\ i \in Nat /\ i < n
      BY <2>2, <1>a, <1>f, <1>n DEF Decides
    <3>2. \/ Active(s)
          \/ receipts[s].state = "REPLACED" /\ receipts[s].review > i
          \/ receipts[s].state \in {"deleted", "document"}
      BY <2>2, <3>1 DEF Essentials, PurchaseStaysVisible
    <3> HIDE DEF s
    <3>3. \/ receipts'[s].state = "ACTIVE"
          \/ receipts'[s].state = "REPLACED" /\ receipts'[s].review > i
          \/ receipts'[s].state \in {"deleted", "document"}
      BY <3>1, <3>2, <1>r, <1>n DEF Active
    <3>4. s \in Results /\ receipts'[s].state = "ACTIVE" => original'[s] \in Kept'
      BY <2>o DEF Active
    <3> QED BY <3>1, <3>3, <3>4 DEF Active, Kept
  <2> QED BY <2>1, <2>2, <1>n
<1> QED BY <1>1, <1>2, <1>3, <1>4, <1>5, <1>6, <1>7 DEF Essentials

(* Reviews that stay what they are were made of the same pairs. *)
LEMMA SameMade ==
  ASSUME SameReviews
  PROVE  \A m \in Results, pair \in Pairs : Made(m, pair)' = Made(m, pair)
BY DEF SameReviews, SameReview, Made

(* A row is rewritten, and nothing else. *)
LEMMA BecomesFacts ==
  ASSUME Types, NEW r \in Receipts, NEW row \in Row, Becomes(r, row)
  PROVE  /\ receipts' \in [Receipts -> Row] /\ receipts'[r] = row
         /\ \A q \in Receipts \ {r} : receipts'[q] = receipts[q]
         /\ reviews' \in Seq(Review)
         /\ SameReviews
         /\ Told
<1>1. /\ receipts' \in [Receipts -> Row] /\ receipts'[r] = row
      /\ \A q \in Receipts \ {r} : receipts'[q] = receipts[q]
  BY DEF Becomes, Types
<1>2. reviews' \in Seq(Review) /\ SameReviews
  BY OutdatedSame DEF Becomes, SameReviews, SameReview
<1>3. Told
  BY StaleTells DEF Becomes
<1> QED BY <1>1, <1>2, <1>3

(* A receipt goes, or comes back from the documents, where no decision      *)
(* hides it.                                                                *)
LEMMA RowKeeps ==
  ASSUME Types, Essentials, NEW r \in Receipts,
         SameReviews, original' = original, Kept' = Kept, converted' = converted,
         receipts[r].state \in {"ACTIVE", "document"},
         receipts'[r].state \in {"deleted", "document"} \/
           (receipts[r].state = "document" /\ receipts'[r].state = "ACTIVE"),
         \A q \in Receipts \ {r} : receipts'[q] = receipts[q]
  PROVE  Essentials'
<1>1. \A i \in DOMAIN reviews :
        /\ reviews[i].pair \subseteq Receipts
        /\ Hides(i) \subseteq Receipts
        /\ reviews[i].action # "dismiss" => reviews[i].result \in Receipts
  BY ReviewFacts DEF Essentials
<1>a. \A i \in DOMAIN reviews :
        /\ Decides(i)' <=> Decides(i)
        /\ Merges(i)' <=> Merges(i)
        /\ Hides(i)' = Hides(i)
  BY DEF SameReviews, SameReview, Decides, Lives, Hides, Merges
<1>2. Named'
  BY <1>1, <1>a DEF Essentials, Named, SameReviews, SameReview
<1>3. Objects'
  <2> SUFFICES ASSUME NEW m \in Results
               PROVE  (/\ original[m] = 0 <=> receipts[m].state = "none"
                       /\ original[m] # 0 => original[m] \in Kept)'
    BY DEF Objects
  <2>1. receipts'[m].state = "none" <=> receipts[m].state = "none"
    BY DEF Receipts
  <2> QED BY <2>1 DEF Essentials, Objects
<1>4. OnePair' /\ MadeFirst'
  BY <1>1, <1>a DEF Essentials, OnePair, MadeFirst, SameReviews, SameReview
<1>5. InForce'
  <2> SUFFICES ASSUME NEW m \in Results \ converted,
                      receipts'[m].state \in {"ACTIVE", "REPLACED", "document"}
               PROVE  \E i \in DOMAIN reviews' :
                        Decides(i)' /\ Merges(i)' /\ reviews'[i].result = m
    BY DEF InForce
  <2>1. receipts[m].state \in {"ACTIVE", "REPLACED", "document"}
    BY DEF Receipts
  <2>2. PICK i \in DOMAIN reviews : Decides(i) /\ Merges(i) /\ reviews[i].result = m
    BY <2>1 DEF Essentials, InForce
  <2> QED BY <2>2, <1>a DEF SameReviews, SameReview
<1>6. HiddenIsUndoable'
  <2>1. ASSUME NEW i \in DOMAIN reviews', Decides(i)', NEW q \in Hides(i)'
        PROVE  receipts'[q].state = "REPLACED" /\ receipts'[q].review = i
    <3>1. i \in DOMAIN reviews /\ Decides(i) /\ q \in Hides(i) /\ q \in Receipts
      BY <2>1, <1>a, <1>1 DEF SameReviews
    <3>2. receipts[q].state = "REPLACED" /\ receipts[q].review = i
      BY <3>1 DEF Essentials, HiddenIsUndoable
    <3> QED BY <3>1, <3>2
  <2>2. ASSUME NEW q \in Receipts, receipts'[q].state = "REPLACED"
        PROVE  receipts'[q].review \in {i \in DOMAIN reviews : Decides(i) /\ q \in Hides(i)}'
    <3>1. receipts[q].state = "REPLACED" /\ receipts'[q].review = receipts[q].review
      BY <2>2
    <3>2. receipts[q].review \in {i \in DOMAIN reviews : Decides(i) /\ q \in Hides(i)}
      BY <3>1 DEF Essentials, HiddenIsUndoable
    <3> QED BY <3>1, <3>2, <1>a DEF SameReviews
  <2> QED BY <2>1, <2>2 DEF HiddenIsUndoable
<1>7. PurchaseStaysVisible'
  <2> SUFFICES ASSUME NEW i \in DOMAIN reviews', Decides(i)'
               PROVE  (LET result == reviews[i].result IN
                       \/ Active(result) /\ (result \in Results => original[result] \in pdfs \cup missed)
                       \/ receipts[result].state = "REPLACED" /\ receipts[result].review > i
                       \/ receipts[result].state \in {"deleted", "document"})'
    BY DEF PurchaseStaysVisible
  <2>1. i \in DOMAIN reviews /\ Decides(i)
    BY <1>a DEF SameReviews
  <2>2. reviews'[i].result = reviews[i].result /\ reviews[i].result \in Receipts
    BY <2>1, <1>1 DEF SameReviews, SameReview, Decides
  <2>3. \A m \in Results : receipts[m].state = "document" => original[m] \in Kept
    BY DEF Essentials, Objects
  <2> QED BY <2>1, <2>2, <2>3 DEF Essentials, PurchaseStaysVisible, Active, Kept
<1> QED BY <1>2, <1>3, <1>4, <1>5, <1>6, <1>7 DEF Essentials

-----------------------------------------------------------------------------
(* An undo, receipt by receipt and review by review. *)
LEMMA UndoFacts ==
  ASSUME Types, Essentials, NEW i \in DOMAIN reviews, Undo(i)
  PROVE  /\ receipts' \in [Receipts -> Row]
         /\ \A r \in Receipts :
              /\ r \in Hides(i) => receipts'[r].state = "ACTIVE"
              /\ r \in StepsAside(i) => receipts'[r].state = "MERGE_UNDONE"
              /\ r \notin Hides(i) \cup StepsAside(i) => receipts'[r] = receipts[r]
         /\ Hides(i) \cap StepsAside(i) = {}
         /\ reviews' \in Seq(Review)
         /\ DOMAIN reviews' = DOMAIN reviews
         /\ \A k \in DOMAIN reviews :
              /\ SameReview(k)
              /\ reviews'[k].undone = IF k = i THEN TRUE ELSE reviews[k].undone
         /\ Told
<1> DEFINE gone  == Hides(i) \cup StepsAside(i)
           once  == SetReviewState(receipts, Hides(i), "ACTIVE", 0)
           twice == SetReviewState(once, StepsAside(i), "MERGE_UNDONE", i)
<1>1. /\ receipts' = twice
      /\ reviews' = [Outdated(gone) EXCEPT ![i].undone = TRUE]
      /\ merge' = Stale(gone)
  BY DEF Undo
<1>2. i \in Nat /\ DOMAIN reviews = 1 .. Len(reviews) /\ Len(reviews) \in Nat
  BY DEF Types
<1>3. Hides(i) \cap StepsAside(i) = {}
  BY DEF Hides, StepsAside
<1>4. \A r \in Receipts : receipts[r] \in Row
  BY DEF Types
<1>5. /\ once \in [Receipts -> Row]
      /\ \A r \in Receipts : r \notin Hides(i) => once[r] = receipts[r]
      /\ \A r \in Receipts : r \in Hides(i) => once[r].state = "ACTIVE"
  BY <1>4 DEF SetReviewState, Row, States
<1> HIDE DEF once
<1>6. /\ twice \in [Receipts -> Row]
      /\ \A r \in Receipts : r \notin StepsAside(i) => twice[r] = once[r]
      /\ \A r \in Receipts : r \in StepsAside(i) => twice[r].state = "MERGE_UNDONE"
  BY <1>2, <1>5 DEF SetReviewState, Row, States
<1> HIDE DEF twice, gone
<1>7. /\ Outdated(gone) \in Seq(Review) /\ Len(Outdated(gone)) = Len(reviews)
      /\ DOMAIN Outdated(gone) = DOMAIN reviews
      /\ \A k \in DOMAIN reviews :
           /\ Outdated(gone)[k].pair = reviews[k].pair
           /\ Outdated(gone)[k].action = reviews[k].action
           /\ Outdated(gone)[k].result = reviews[k].result
           /\ Outdated(gone)[k].undone = reviews[k].undone
  BY OutdatedSame
<1>8. [Outdated(gone)[i] EXCEPT !.undone = TRUE] \in Review
  <2>1. Outdated(gone)[i] \in Review
    BY <1>7
  <2> QED BY <2>1 DEF Review
<1>9. reviews' \in Seq(Review) /\ DOMAIN reviews' = DOMAIN reviews
  BY <1>1, <1>2, <1>7, <1>8
<1>10. \A k \in DOMAIN reviews :
         SameReview(k) /\ reviews'[k].undone = IF k = i THEN TRUE ELSE reviews[k].undone
  <2>1. \A k \in DOMAIN reviews : Outdated(gone)[k] \in Review /\ reviews[k] \in Review
    BY <1>7 DEF Types
  <2>2. \A k \in DOMAIN reviews :
          reviews'[k] = IF k = i THEN [Outdated(gone)[k] EXCEPT !.undone = TRUE] ELSE Outdated(gone)[k]
    BY <1>1, <1>7
  <2> SUFFICES ASSUME NEW k \in DOMAIN reviews
               PROVE  SameReview(k) /\ reviews'[k].undone = IF k = i THEN TRUE ELSE reviews[k].undone
    OBVIOUS
  <2>3. \A v \in Review :
          LET w == [v EXCEPT !.undone = TRUE] IN
          w.pair = v.pair /\ w.action = v.action /\ w.result = v.result /\ w.undone = TRUE
    BY DEF Review
  <2>4. CASE k = i
    <3> DEFINE v == Outdated(gone)[k]
    <3>1. v \in Review /\ reviews'[k] = [v EXCEPT !.undone = TRUE]
      BY <2>1, <2>2, <2>4
    <3>2. v.pair = reviews[k].pair /\ v.action = reviews[k].action /\ v.result = reviews[k].result
      BY <1>7
    <3> HIDE DEF v
    <3>3. LET w == [v EXCEPT !.undone = TRUE] IN
          w.pair = v.pair /\ w.action = v.action /\ w.result = v.result /\ w.undone = TRUE
      BY <3>1, <2>3
    <3> QED BY <3>1, <3>2, <3>3, <2>4 DEF SameReview
  <2>5. CASE k # i
    BY <1>7, <2>2, <2>5 DEF SameReview
  <2> QED BY <2>4, <2>5
<1> QED BY <1>1, <1>3, <1>5, <1>6, <1>9, <1>10, StaleTells

(* An undo brings back what its own review hid, and sets aside a receipt    *)
(* that nothing in force rests on.                                          *)
LEMMA UndoKeeps ==
  ASSUME Types, Essentials, NEW i \in DOMAIN reviews, Undo(i)
  PROVE  Essentials'
<1>f. \A k \in DOMAIN reviews :
        /\ reviews[k].pair \in Pairs
        /\ reviews[k].pair \subseteq Receipts
        /\ Hides(k) \subseteq reviews[k].pair
        /\ Hides(k) \subseteq Receipts
        /\ reviews[k].action # "dismiss" => reviews[k].result \in Receipts
  BY ReviewFacts DEF Essentials
<1>u. /\ Lives(i)
      /\ Decides(i) => ~HasDependents(i)
      /\ \A r \in Hides(i) : receipts[r].state = "REPLACED" /\ receipts[r].review = i
      /\ original' = original /\ Kept' = Kept
      /\ converted' = IF Merges(i) /\ receipts[reviews[i].result].state = "document"
                      THEN converted \cup {reviews[i].result} ELSE converted
  BY DEF Undo, Merges, bucket, Kept
<1>g. /\ \A r \in Receipts :
           /\ r \in Hides(i) => receipts'[r].state = "ACTIVE"
           /\ r \in StepsAside(i) => receipts'[r].state = "MERGE_UNDONE"
           /\ r \notin Hides(i) \cup StepsAside(i) => receipts'[r] = receipts[r]
      /\ Hides(i) \cap StepsAside(i) = {}
      /\ DOMAIN reviews' = DOMAIN reviews
      /\ \A k \in DOMAIN reviews :
           /\ SameReview(k)
           /\ reviews'[k].undone = IF k = i THEN TRUE ELSE reviews[k].undone
  BY UndoFacts
<1>a. \A k \in DOMAIN reviews :
        /\ Decides(k)' <=> Decides(k) /\ k # i
        /\ Merges(k)' <=> Merges(k)
        /\ Hides(k)' = Hides(k)
        /\ reviews'[k].pair = reviews[k].pair
        /\ reviews'[k].result = reviews[k].result
        /\ reviews'[k].action = reviews[k].action
  BY <1>g DEF SameReview, Decides, Lives, Hides, Merges
<1>n. \A r \in Receipts : r \in Hides(i) \cup StepsAside(i) => receipts[r].state # "none"
  BY <1>u DEF StepsAside, Exists, States
<1>1. Named'
  <2> SUFFICES ASSUME NEW k \in DOMAIN reviews
               PROVE  (/\ reviews[k].action = "keep" => reviews[k].result \in reviews[k].pair
                       /\ Merges(k) => reviews[k].result \in Results \ reviews[k].pair
                       /\ reviews[k].action # "dismiss" =>
                            receipts[reviews[k].result].state # "none")'
    BY <1>g DEF Named
  <2>1. reviews[k].action # "dismiss" => receipts'[reviews[k].result].state # "none"
    BY <1>f, <1>g DEF Essentials, Named
  <2>2. /\ reviews'[k].action = reviews[k].action /\ reviews'[k].result = reviews[k].result
        /\ reviews'[k].pair = reviews[k].pair /\ (Merges(k)' <=> Merges(k))
    BY <1>a
  <2>3. /\ reviews[k].action = "keep" => reviews[k].result \in reviews[k].pair
        /\ Merges(k) => reviews[k].result \in Results \ reviews[k].pair
    BY DEF Essentials, Named
  <2> QED BY <2>1, <2>2, <2>3
<1>2. Objects'
  <2> SUFFICES ASSUME NEW m \in Results
               PROVE  (/\ original[m] = 0 <=> receipts[m].state = "none"
                       /\ original[m] # 0 => original[m] \in Kept)'
    BY DEF Objects
  <2>1. receipts'[m].state = "none" <=> receipts[m].state = "none"
    BY <1>g, <1>n DEF Receipts
  <2> QED BY <2>1, <1>u DEF Essentials, Objects
<1>3. OnePair'
  BY <1>a, <1>g DEF Essentials, OnePair
<1>4. MadeFirst'
  BY <1>a, <1>g DEF Essentials, MadeFirst
<1>5. InForce'
  <2> SUFFICES ASSUME NEW m \in Results \ converted',
                      receipts'[m].state \in {"ACTIVE", "REPLACED", "document"}
               PROVE  \E k \in DOMAIN reviews' :
                        Decides(k)' /\ Merges(k)' /\ reviews'[k].result = m
    BY DEF InForce
  <2>1. m \in Receipts /\ m \notin StepsAside(i) /\ m \notin converted
    BY <1>g, <1>u DEF Receipts
  <2>2. receipts[m].state \in {"ACTIVE", "REPLACED", "document"}
    BY <2>1, <1>g, <1>u
  <2>3. PICK k \in DOMAIN reviews : Decides(k) /\ Merges(k) /\ reviews[k].result = m
    BY <2>1, <2>2 DEF Essentials, InForce
  <2>4. k # i
    <3> SUFFICES ASSUME k = i PROVE FALSE
      OBVIOUS
    <3>1. ~Exists(m)
      BY <2>1, <2>3 DEF StepsAside, Merges
    <3>2. receipts[m].state = "document"
      BY <2>2, <3>1 DEF Exists, States
    <3> QED BY <2>3, <3>2, <1>u
  <2> QED BY <2>3, <2>4, <1>a, <1>g
<1>6. HiddenIsUndoable'
  <2>1. ASSUME NEW k \in DOMAIN reviews', Decides(k)', NEW r \in Hides(k)'
        PROVE  receipts'[r].state = "REPLACED" /\ receipts'[r].review = k
    <3>1. k \in DOMAIN reviews /\ Decides(k) /\ k # i /\ r \in Hides(k) /\ r \in Receipts
      BY <2>1, <1>a, <1>f, <1>g
    <3>2. receipts[r].state = "REPLACED" /\ receipts[r].review = k
      BY <3>1 DEF Essentials, HiddenIsUndoable
    <3>3. r \notin StepsAside(i)
      <4> SUFFICES ASSUME r \in StepsAside(i) PROVE FALSE
        OBVIOUS
      <4>1. Merges(i) /\ r = reviews[i].result
        BY DEF StepsAside, Merges
      <4>2. Decides(i) /\ r \in reviews[k].pair
        BY <4>1, <3>1, <1>u, <1>f DEF Decides, Merges
      <4>3. i < k
        BY <4>1, <4>2, <3>1 DEF Essentials, MadeFirst
      <4>4. k > i
        BY <4>3, <3>1 DEF Types
      <4> QED BY <4>1, <4>2, <4>4, <3>1, <1>u DEF HasDependents
    <3> QED BY <3>1, <3>2, <3>3, <1>u, <1>g
  <2>2. ASSUME NEW r \in Receipts, receipts'[r].state = "REPLACED"
        PROVE  receipts'[r].review \in {k \in DOMAIN reviews : Decides(k) /\ r \in Hides(k)}'
    <3>1. r \notin Hides(i) /\ receipts'[r] = receipts[r]
      BY <2>2, <1>g
    <3>2. receipts[r].review \in {k \in DOMAIN reviews : Decides(k) /\ r \in Hides(k)}
      BY <2>2, <3>1 DEF Essentials, HiddenIsUndoable
    <3> QED BY <3>1, <3>2, <1>a, <1>g
  <2> QED BY <2>1, <2>2 DEF HiddenIsUndoable
<1>7. PurchaseStaysVisible'
  <2> SUFFICES ASSUME NEW k \in DOMAIN reviews', Decides(k)'
               PROVE  (LET result == reviews[k].result IN
                       \/ Active(result) /\ (result \in Results => original[result] \in pdfs \cup missed)
                       \/ receipts[result].state = "REPLACED" /\ receipts[result].review > k
                       \/ receipts[result].state \in {"deleted", "document"})'
    BY DEF PurchaseStaysVisible
  <2>1. k \in DOMAIN reviews /\ Decides(k) /\ k # i
    BY <1>a, <1>g
  <2>2. PICK s \in Receipts : s = reviews[k].result /\ s = reviews'[k].result
    BY <2>1, <1>a, <1>f DEF Decides
  <2>3. s \in Results /\ receipts'[s].state = "ACTIVE" => original'[s] \in Kept'
    BY <1>2 DEF Objects
  <2>4. s \notin StepsAside(i)
    <3> SUFFICES ASSUME s \in StepsAside(i) PROVE FALSE
      OBVIOUS
    <3>1. Merges(i) /\ s = reviews[i].result /\ Decides(i)
      BY <1>u DEF StepsAside, Merges, Decides
    <3>2. CASE Merges(k)
      <4>1. reviews[k].pair = reviews[i].pair
        BY <2>1, <2>2, <3>1, <3>2 DEF Essentials, OnePair
      <4>2. Hides(i) = reviews[i].pair /\ Hides(k) = Hides(i)
        BY <2>1, <2>2, <3>1, <3>2, <4>1 DEF Hides, Merges, Essentials, Named
      <4>3. PICK r : r \in Hides(i)
        BY <4>2, <1>f, PairFacts
      <4> QED BY <4>2, <4>3, <2>1, <1>u DEF Essentials, HiddenIsUndoable
    <3>3. CASE ~Merges(k)
      <4>1. s \in reviews[k].pair
        BY <2>1, <2>2, <3>3, ReviewFacts DEF Essentials, Named, Decides, Merges
      <4>2. i < k
        BY <4>1, <2>1, <3>1 DEF Essentials, MadeFirst
      <4>3. k > i
        BY <4>2, <2>1 DEF Types
      <4> QED BY <4>1, <4>3, <2>1, <3>1, <1>u DEF HasDependents
    <3> QED BY <3>2, <3>3
  <2>5. \/ receipts[s].state = "ACTIVE"
        \/ receipts[s].state = "REPLACED" /\ receipts[s].review > k
        \/ receipts[s].state \in {"deleted", "document"}
    BY <2>1, <2>2 DEF Essentials, PurchaseStaysVisible, Active, Kept
  <2> QED BY <2>2, <2>3, <2>4, <2>5, <1>g DEF Active, Kept
<1> QED BY <1>1, <1>2, <1>3, <1>4, <1>5, <1>6, <1>7 DEF Essentials

-----------------------------------------------------------------------------
(* Processing writes to the two steps of a row. *)
LEMMA RewriteKeeps ==
  ASSUME IInv, NEW r \in Receipts, NEW row \in Row, Becomes(r, row),
         row.state = receipts[r].state, row.review = receipts[r].review,
         UNCHANGED bucket, UNCHANGED converted
  PROVE  IInv'
<1>0. /\ original' = original /\ pdfs' = pdfs /\ converted' = converted
      /\ sweep' = sweep /\ missed' = missed /\ Kept' = Kept
  BY DEF bucket, Kept
<1>1. /\ receipts' \in [Receipts -> Row] /\ receipts'[r] = row
      /\ \A q \in Receipts \ {r} : receipts'[q] = receipts[q]
      /\ reviews' \in Seq(Review) /\ SameReviews /\ Told
  BY BecomesFacts DEF IInv
<1>2. SameRows
  BY <1>1 DEF SameRows
<1>3. Types'
  BY <1>0, <1>1, ToldFacts DEF IInv, Types, Idle, Stored, Holding, Closing
<1>4. Essentials'
  BY <1>0, <1>1, <1>2, QuietKeeps DEF IInv
<1>5. MergeIsSound'
  <2>1. /\ merge.at \in {"stored", "locked"} => merge.own \in Receipts
        /\ merge.at = "locked" => merge.pair \subseteq Receipts /\ merge.result \in Receipts
    BY PairFacts DEF IInv, Types, Idle, Stored, Holding, Closing, Receipts
  <2>2. /\ merge.at \in {"stored", "locked"} =>
             receipts'[merge.own].state = receipts[merge.own].state
        /\ merge.at = "locked" =>
             \A q \in merge.pair \cup {merge.result} : receipts'[q].state = receipts[q].state
    BY <2>1, <1>2 DEF SameRows
  <2>3. \A m \in Results, pair \in Pairs : Made(m, pair) # {} => Made(m, pair)' # {}
    BY <1>1, SameMade
  <2>4. Types /\ MergeIsSound /\ Kept \subseteq Kept' /\ original' = original /\ Told
    BY <1>0, <1>1 DEF IInv
  <2> QED BY <2>2, <2>3, <2>4, MergeKept
<1>6. SweepIsSound'
  BY <1>0, <1>1, SweepKept, ToldGoesOn DEF IInv
<1> QED BY <1>3, <1>4, <1>5, <1>6 DEF IInv

(* Nothing is written; at most the combination under way is given up. *)
LEMMA StillKeeps ==
  ASSUME IInv, UNCHANGED <<receipts, reviews, original, pdfs, missed, converted>>,
         sweep' = sweep \/ sweep' = [s \in Sweepers |-> Idle],
         merge' = merge \/ merge' = Idle \/ (merge.at \in {"stored", "locked"} /\ merge' = Ending)
  PROVE  IInv'
<1>0. /\ receipts' = receipts /\ reviews' = reviews
      /\ original' = original /\ pdfs' = pdfs /\ converted' = converted
      /\ missed' = missed /\ Kept' = Kept
      /\ sweep' \in [Sweepers -> {Idle} \cup Sweep]
      /\ \A s \in Sweepers : sweep'[s] = sweep[s] \/ sweep'[s] = Idle
  BY DEF Kept, IInv, Types
<1>1. Types' /\ (merge' = merge \/ merge'.at \in {"idle", "cleanup"})
  <2>1. merge.at \in {"stored", "locked"} => merge.own \in Results
    BY DEF IInv, Types, Idle, Stored, Holding, Closing
  <2>2. merge.at \in {"stored", "locked"} => Ending \in Closing /\ Ending.at = "cleanup"
    BY <2>1 DEF Ending, Closing
  <2>3. merge' \in {Idle} \cup Stored \cup Holding \cup Closing
    BY <2>2 DEF IInv, Types
  <2> QED BY <1>0, <2>2, <2>3 DEF IInv, Types, Idle
<1>2. SameRows /\ SameReviews
  BY <1>0 DEF SameRows, SameReviews, SameReview
<1>3. Essentials'
  BY <1>0, <1>2, QuietKeeps DEF IInv
<1>4. MergeIsSound'
  <2>1. CASE merge' = merge
    <3>1. \A m \in Results, pair \in Pairs : Made(m, pair)' = Made(m, pair)
      BY <1>2, SameMade
    <3>2. Told
      BY <2>1 DEF Told
    <3>3. Types /\ MergeIsSound
      BY DEF IInv
    <3> QED BY <1>0, <3>1, <3>2, <3>3, MergeKept
  <2>2. CASE merge'.at \in {"idle", "cleanup"}
    BY <2>2 DEF MergeIsSound
  <2> QED BY <1>1, <2>1, <2>2
<1>5. SweepIsSound'
  <2>1. GoesOn
    BY <1>1 DEF GoesOn
  <2> QED BY <1>0, <2>1, SweepKept DEF IInv
<1> QED BY <1>1, <1>3, <1>4, <1>5 DEF IInv

(* A PDF is put under a number that nothing has yet. *)
LEMMA StoreMergedKeeps ==
  ASSUME IInv, NEW pair \in Pairs, StoreMerged(pair)
  PROVE  IInv'
<1>0. /\ receipts' = receipts /\ reviews' = reviews
      /\ original' = original /\ converted' = converted
      /\ sweep' = sweep /\ missed' = missed
  BY DEF StoreMerged, sweeping
<1>1. PICK own \in Results :
        /\ receipts[own].state = "none"
        /\ \A s \in Sweepers : sweep[s] # Idle => own \notin sweep[s].objects
        /\ pdfs' = pdfs \cup {own}
        /\ merge' = [at |-> "stored", pair |-> pair, current |-> TRUE, own |-> own]
  BY DEF StoreMerged, Fresh
<1>2. Types'
  BY <1>0, <1>1 DEF IInv, Types, Stored
<1>3. SameRows /\ SameReviews
  BY <1>0 DEF SameRows, SameReviews, SameReview
<1>4. Essentials'
  <2>1. Kept \subseteq Kept'
    BY <1>0, <1>1 DEF Kept
  <2> QED BY <2>1, <1>0, <1>3, QuietKeeps DEF IInv
<1>5. MergeIsSound'
  BY <1>0, <1>1 DEF MergeIsSound, Kept
<1>6. SweepIsSound'
  BY <1>0, <1>1 DEF IInv, SweepIsSound, Orphaned, Idle
<1> QED BY <1>2, <1>4, <1>5, <1>6 DEF IInv

(* What the transaction finds is a new receipt, or one of this pair. *)
LEMMA FindResultKeeps ==
  ASSUME IInv, FindResult
  PROVE  IInv'
<1>0. /\ receipts' = receipts /\ reviews' = reviews
      /\ original' = original /\ pdfs' = pdfs /\ converted' = converted
      /\ sweep' = sweep /\ missed' = missed /\ Kept' = Kept
  BY DEF FindResult, bucket, Kept
<1>1. merge.at = "stored" /\ merge \in Stored /\ (\A r \in merge.pair : Active(r))
      /\ merge.own \in Kept /\ receipts[merge.own].state = "none"
  <2>1. merge.at = "stored" /\ (\A r \in merge.pair : Active(r))
    BY DEF FindResult, Revalidated, Reviewable
  <2>2. merge \in Stored
    BY <2>1 DEF IInv, Types, Idle, Holding, Closing
  <2> QED BY <2>1, <2>2 DEF IInv, MergeIsSound
<1>2. PICK file \in {merge.own} \cup SameBytes(merge.pair) :
        \/ \E m \in ReceiptsOf(file) :
             /\ receipts[m].state = "MERGE_UNDONE" /\ ReusableResult(m, merge.pair)
             /\ Takes(file, m, IsReceiptProcessing(m))
        \/ Takes(file, merge.own, FALSE)
  BY DEF FindResult
<1>3. /\ file \in Kept /\ file \in Results
      /\ file = merge.own \/ \E m \in Results : original[m] = file
  <2>1. CASE file = merge.own
    BY <2>1, <1>1 DEF Stored
  <2>2. CASE file \in SameBytes(merge.pair)
    <3>1. PICK m \in Results : Made(m, merge.pair) # {} /\ file = original[m]
      BY <2>2 DEF SameBytes
    <3>2. PICK k \in DOMAIN reviews : Merges(k) /\ reviews[k].result = m
      BY <3>1 DEF Made, Merges
    <3>3. receipts[m].state # "none"
      BY <3>2 DEF IInv, Essentials, Named, Merges
    <3>4. original[m] # 0 /\ original[m] \in Kept
      BY <3>3 DEF IInv, Essentials, Objects
    <3> QED BY <3>1, <3>4 DEF IInv, Types
  <2> QED BY <2>1, <2>2
<1>4. PICK m \in Results :
        /\ \E busy \in BOOLEAN : Takes(file, m, busy)
        /\ \/ m = merge.own
           \/ /\ receipts[m].state = "MERGE_UNDONE" /\ original[m] = file
              /\ Made(m, merge.pair) # {}
  <2>1. CASE \E m \in ReceiptsOf(file) :
               /\ receipts[m].state = "MERGE_UNDONE" /\ ReusableResult(m, merge.pair)
               /\ Takes(file, m, IsReceiptProcessing(m))
    BY <2>1 DEF ReceiptsOf, ReusableResult, IsReceiptProcessing
  <2>2. CASE Takes(file, merge.own, FALSE)
    BY <2>2, <1>1 DEF Stored
  <2> QED BY <1>2, <2>1, <2>2
<1>5. PICK busy \in BOOLEAN :
        merge' = [at |-> "locked", pair |-> merge.pair, current |-> TRUE, own |-> merge.own,
                  file |-> file, result |-> m, busy |-> busy]
  BY <1>4 DEF Takes
<1>6. merge' \in Holding
  BY <1>1, <1>3, <1>5 DEF Stored, Holding
<1>7. Types'
  BY <1>0, <1>6 DEF IInv, Types
<1>8. SameRows /\ SameReviews
  BY <1>0 DEF SameRows, SameReviews, SameReview
<1>9. Essentials'
  BY <1>0, <1>8, QuietKeeps DEF IInv
<1>10. MergeIsSound'
  <2>1. Made(m, merge.pair) # {} => \E k \in DOMAIN reviews' : /\ reviews'[k].result = m
                                                               /\ reviews'[k].pair = merge.pair
                                                               /\ reviews'[k].action = "merge"
    BY <1>0 DEF Made
  <2>2. merge'.result = m /\ merge'.pair = merge.pair /\ merge'.own = merge.own /\ merge'.file = file
        /\ merge'.at = "locked"
    BY <1>5
  <2>3. Made(m, merge.pair) # {} => Made(merge.result, merge.pair)' # {}
    BY <2>1, <2>2 DEF Made
  <2> QED BY <1>0, <1>1, <1>3, <1>4, <2>2, <2>3 DEF MergeIsSound, Active
<1>11. SweepIsSound'
  <2>1. GoesOn
    BY <1>1, <1>5 DEF GoesOn
  <2> QED BY <1>0, <2>1, SweepKept DEF IInv
<1> QED BY <1>7, <1>9, <1>10, <1>11 DEF IInv

(* An object that goes is no receipt's original. *)
LEMMA CleanUpKeeps ==
  ASSUME IInv, CleanUp
  PROVE  IInv'
<1>0. /\ receipts' = receipts /\ reviews' = reviews
      /\ original' = original /\ converted' = converted /\ merge' = Idle
      /\ sweep' = sweep /\ missed' = missed
  BY DEF CleanUp, sweeping
<1>1. pdfs' \subseteq pdfs /\ \A m \in Results : original[m] \in Kept => original[m] \in Kept'
  BY <1>0 DEF CleanUp, Orphaned, Kept
<1>2. Types'
  BY <1>0, <1>1 DEF IInv, Types
<1>3. SameRows /\ SameReviews
  BY <1>0 DEF SameRows, SameReviews, SameReview
<1>4. Essentials'
  BY <1>0, <1>1, <1>3, QuietKeeps DEF IInv
<1>5. MergeIsSound'
  BY <1>0 DEF MergeIsSound, Idle
<1>6. SweepIsSound'
  <2>1. GoesOn
    BY <1>0 DEF GoesOn, Idle
  <2> QED BY <1>0, <2>1, SweepKept DEF IInv
<1> QED BY <1>2, <1>4, <1>5, <1>6 DEF IInv

(* A sweep lists what there is, asks, and deletes what it was told is       *)
(* nobody's.                                                                *)
LEMMA SweepKeeps ==
  ASSUME IInv, NEW s \in Sweepers, SweepList(s) \/ SweepAsk(s) \/ SweepDelete(s)
  PROVE  IInv'
<1>0. /\ receipts' = receipts /\ reviews' = reviews /\ original' = original
      /\ converted' = converted /\ merge' = merge
  BY DEF SweepList, SweepAsk, SweepDelete
<1>1. /\ pdfs \subseteq Results /\ missed \subseteq Results
      /\ sweep \in [Sweepers -> {Idle} \cup Sweep]
      /\ merge \in {Idle} \cup Stored \cup Holding \cup Closing
  BY DEF IInv, Types
<1>2. /\ pdfs' \subseteq Results /\ missed' \subseteq Results /\ missed \subseteq missed'
      /\ sweep' \in [Sweepers -> {Idle} \cup Sweep]
      /\ \A other \in Sweepers \ {s} : sweep'[other] = sweep[other]
      /\ \A m \in Results : original[m] \in Kept => original[m] \in Kept'
      /\ merge.at \in {"stored", "locked"} => (merge.own \in Kept => merge.own \in Kept')
      /\ sweep'[s].at = "asked" => \A file \in sweep'[s].objects \ missed' :
           Orphaned(file) /\ (merge.at \in {"stored", "locked"} => merge.own # file)
  <2>1. CASE SweepList(s)
    <3>1. /\ pdfs' = pdfs /\ missed' = missed
          /\ sweep' = [sweep EXCEPT ![s] = [at |-> "listed", objects |-> pdfs]]
      BY <2>1 DEF SweepList
    <3>2. [at |-> "listed", objects |-> pdfs] \in Sweep
      BY <1>1 DEF Sweep
    <3> QED BY <1>1, <3>1, <3>2 DEF Kept
  <2>2. CASE SweepAsk(s)
    <3> DEFINE orphans == {file \in sweep[s].objects : Orphaned(file)}
    <3>1. sweep[s] \in Sweep
      BY <1>1, <2>2 DEF SweepAsk, Idle
    <3>2. /\ pdfs' = pdfs
          /\ missed' = IF merge.at \in {"stored", "locked"} THEN missed \cup (orphans \cap {merge.own})
                       ELSE missed
          /\ sweep' = [sweep EXCEPT ![s] = [at |-> "asked", objects |-> orphans]]
      BY <2>2 DEF SweepAsk
    <3>3. orphans \subseteq Results /\ [at |-> "asked", objects |-> orphans] \in Sweep
      BY <3>1 DEF Sweep
    <3>4. sweep'[s].objects = orphans /\ \A file \in orphans : Orphaned(file)
      BY <1>1, <3>2
    <3> HIDE DEF orphans
    <3> QED BY <1>1, <3>2, <3>3, <3>4 DEF Kept
  <2>3. CASE SweepDelete(s)
    <3>1. PICK gone \in SUBSET sweep[s].objects :
            /\ pdfs' = pdfs \ gone /\ missed' = missed
            /\ sweep' = [sweep EXCEPT ![s] = Idle] /\ sweep[s].at = "asked"
      BY <2>3 DEF SweepDelete
    <3>2. \A file \in gone \ missed :
            /\ Orphaned(file)
            /\ merge.at \in {"stored", "locked"} => merge.own # file
      BY <3>1 DEF IInv, SweepIsSound
    <3> QED BY <1>1, <3>1, <3>2 DEF Kept, Orphaned, Idle
  <2> QED BY <2>1, <2>2, <2>3
<1>3. Types'
  BY <1>0, <1>2 DEF IInv, Types
<1>4. SameRows /\ SameReviews
  BY <1>0 DEF SameRows, SameReviews, SameReview
<1>5. Essentials'
  BY <1>0, <1>2, <1>4, QuietKeeps DEF IInv
<1>6. MergeIsSound'
  <2>1. \A m \in Results, pair \in Pairs : Made(m, pair)' = Made(m, pair)
    BY <1>4, SameMade
  <2>2. merge.at = "locked" => merge.pair \in Pairs /\ merge.result \in Results
    BY <1>1 DEF Idle, Stored, Holding, Closing
  <2> QED BY <1>0, <1>2, <2>1, <2>2 DEF IInv, MergeIsSound, Active, Made
<1>7. SweepIsSound'
  <2> SUFFICES ASSUME NEW other \in Sweepers, sweep'[other].at = "asked",
                      NEW file \in sweep'[other].objects \ missed'
               PROVE  Orphaned(file)' /\ (merge.at \in {"stored", "locked"} => merge.own # file)'
    BY DEF SweepIsSound
  <2>1. CASE other = s
    BY <1>0, <1>2, <2>1 DEF Orphaned
  <2>2. CASE other # s
    BY <1>0, <1>2, <2>2 DEF IInv, SweepIsSound, Orphaned
  <2> QED BY <2>1, <2>2
<1> QED BY <1>3, <1>5, <1>6, <1>7 DEF IInv

-----------------------------------------------------------------------------
HiddenBy(pair, action, result) == IF action = "dismiss" THEN {} ELSE pair \ {result}

(* A decision, receipt by receipt. *)
LEMMA DecideFacts ==
  ASSUME Types, NEW pair \in Pairs, NEW action \in {"dismiss", "keep", "merge"},
         NEW result \in Receipts \cup {NoResult}, NEW table \in [Receipts -> Row], NEW touched,
         Decide(pair, action, result, table, touched)
  PROVE  /\ receipts' \in [Receipts -> Row]
         /\ \A r \in HiddenBy(pair, action, result) :
              receipts'[r].state = "REPLACED" /\ receipts'[r].review = Len(reviews) + 1
         /\ \A r \in Receipts \ HiddenBy(pair, action, result) : receipts'[r] = table[r]
         /\ \E new \in Review :
              /\ reviews' = Append(Outdated(touched), new)
              /\ new.pair = pair /\ new.action = action /\ new.result = result /\ ~new.undone
<1> DEFINE hidden == HiddenBy(pair, action, result)
<1>1. Len(reviews) + 1 \in Nat /\ hidden \subseteq Receipts
  BY PairFacts DEF Types, HiddenBy
<1>2. receipts' = SetReviewState(table, hidden, "REPLACED", Len(reviews) + 1)
  BY DEF Decide, HiddenBy
<1> HIDE DEF hidden
<1>3. /\ receipts' \in [Receipts -> Row]
      /\ \A r \in hidden : receipts'[r].state = "REPLACED" /\ receipts'[r].review = Len(reviews) + 1
      /\ \A r \in Receipts \ hidden : receipts'[r] = table[r]
  BY <1>1, <1>2 DEF SetReviewState, Row, States
<1> DEFINE new == [pair |-> pair, action |-> action, result |-> result,
                   undone |-> FALSE, current |-> hidden = {}]
<1>4. reviews' = Append(Outdated(touched), new)
  BY DEF Decide, HiddenBy, hidden
<1>5. /\ new \in Review /\ new.pair = pair /\ new.action = action
      /\ new.result = result /\ ~new.undone
  BY DEF Review
<1> HIDE DEF new
<1> QED BY <1>3, <1>4, <1>5 DEF hidden

(* A review more changes nothing about what was made of which pair. *)
LEMMA MadeStays ==
  ASSUME Types, NEW rs, NEW new \in Review, reviews' = Append(Outdated(rs), new)
  PROVE  \A m \in Results, pair \in Pairs : Made(m, pair) # {} => Made(m, pair)' # {}
<1> TAKE m \in Results, pair \in Pairs
<1> HAVE Made(m, pair) # {}
<1>1. PICK i \in DOMAIN reviews :
        reviews[i].result = m /\ reviews[i].pair = pair /\ reviews[i].action = "merge"
  BY DEF Made
<1>2. i \in DOMAIN reviews' /\ SameReview(i)
  BY OneMore
<1> QED BY <1>1, <1>2 DEF Made, SameReview

(* No decision about a locked pair, but the combination's own. *)
LEMMA ChooseKeeps ==
  ASSUME IInv, NEW pair \in Pairs, Dismiss(pair) \/ \E kept \in pair : Keep(pair, kept)
  PROVE  IInv'
<1>1. /\ original' = original /\ pdfs' = pdfs /\ converted' = converted
      /\ sweep' = sweep /\ missed' = missed /\ Kept' = Kept
      /\ \A r \in pair : Active(r)
      /\ Unlocked(pair)
  BY DEF Dismiss, Keep, bucket, Reviewable, Kept
<1>2. PICK action \in {"dismiss", "keep"}, result \in Receipts \cup {NoResult}, touched \in SUBSET Receipts :
        /\ action = "dismiss" => result = NoResult
        /\ action = "keep" => result \in pair
        /\ Decide(pair, action, result, receipts, touched)
        /\ Told
  <2>1. CASE Dismiss(pair)
    BY <2>1 DEF Dismiss, Told
  <2>2. CASE \E kept \in pair : Keep(pair, kept)
    <3>1. PICK kept \in pair : Keep(pair, kept)
      BY <2>2
    <3>2. kept \in Receipts /\ pair \subseteq Receipts
      BY PairFacts
    <3>3. Told /\ Decide(pair, "keep", kept, receipts, pair \ {kept})
      BY <3>1, StaleTells DEF Keep
    <3> QED BY <3>2, <3>3
  <2> QED BY <2>1, <2>2
<1>3. PICK hidden : hidden = HiddenBy(pair, action, result)
  OBVIOUS
<1>4. /\ receipts' \in [Receipts -> Row]
      /\ \A r \in hidden : receipts'[r].state = "REPLACED" /\ receipts'[r].review = Len(reviews) + 1
      /\ \A r \in Receipts \ hidden : receipts'[r] = receipts[r]
      /\ \E new \in Review :
           /\ reviews' = Append(Outdated(touched), new)
           /\ new.pair = pair /\ new.action = action /\ new.result = result /\ ~new.undone
  <2>1. Types /\ receipts \in [Receipts -> Row] /\ action \in {"dismiss", "keep", "merge"}
    BY DEF IInv, Types
  <2> QED BY <2>1, <1>2, <1>3, DecideFacts
<1>5. PICK new \in Review :
        /\ reviews' = Append(Outdated(touched), new)
        /\ new.pair = pair /\ new.action = action /\ new.result = result /\ ~new.undone
  BY <1>4
<1>6. Types /\ Essentials /\ MergeIsSound
  BY DEF IInv
<1>7. Types'
  <2>1. reviews' \in Seq(Review)
    BY <1>5, <1>6, OneMore
  <2> QED BY <2>1, <1>1, <1>2, <1>4, <1>6, ToldFacts DEF Types, Idle, Stored, Holding, Closing
<1>8. Essentials'
  <2>1. hidden = IF new.action = "dismiss" THEN {} ELSE new.pair \ {new.result}
    BY <1>3, <1>5 DEF HiddenBy
  <2>2. \A r \in Receipts \ (hidden \cup {new.result}) :
          receipts'[r].state = receipts[r].state /\ receipts'[r].review = receipts[r].review
    BY <1>4
  <2>3. new.action # "dismiss" => receipts'[new.result].state = "ACTIVE"
    BY <1>1, <1>2, <1>3, <1>4, <1>5, PairFacts DEF Active, HiddenBy
  <2>4. /\ new.action = "dismiss" => new.result = NoResult
        /\ new.action = "keep" => new.result \in new.pair
        /\ new.action # "merge"
    BY <1>2, <1>5
  <2>5. /\ \A r \in new.pair : Active(r)
        /\ \A m \in Results : (m = new.result /\ new.action = "merge") \/ original'[m] = original[m]
    BY <1>1, <1>5
  <2> QED BY <2>1, <2>2, <2>3, <2>4, <2>5, <1>1, <1>4, <1>5, <1>6, DecisionKeeps
<1>9. MergeIsSound'
  <2>1. \A m \in Results, p \in Pairs : Made(m, p) # {} => Made(m, p)' # {}
    BY <1>5, <1>6, MadeStays
  <2>2. \A r \in Receipts : ~Active(r) \/ r \in Locked => receipts'[r].state = receipts[r].state
    BY <1>1, <1>3, <1>4 DEF Unlocked, HiddenBy
  <2>3. merge.at \in {"stored", "locked"} =>
          merge.own \in Receipts /\ receipts'[merge.own].state = receipts[merge.own].state
    BY <1>6, <2>2 DEF MergeIsSound, Active, Types, Idle, Stored, Holding, Closing, Receipts
  <2>4. merge.at = "locked" =>
          \A r \in merge.pair \cup {merge.result} : receipts'[r].state = receipts[r].state
    <3> SUFFICES ASSUME merge.at = "locked"
                 PROVE  \A r \in merge.pair \cup {merge.result} :
                          receipts'[r].state = receipts[r].state
      OBVIOUS
    <3>1. merge.pair \subseteq Receipts /\ merge.result \in Receipts /\ merge.own \in Receipts
      BY <1>6, PairFacts DEF Types, Idle, Stored, Holding, Closing, Receipts
    <3>2. ~Active(merge.result)
      BY <1>6 DEF MergeIsSound, Active
    <3> QED BY <3>1, <3>2, <2>2 DEF Locked
  <2> QED BY <1>1, <1>2, <1>6, <2>1, <2>3, <2>4, MergeKept
<1>10. SweepIsSound'
  BY <1>1, <1>2, SweepKept, ToldGoesOn DEF IInv
<1> QED BY <1>7, <1>8, <1>9, <1>10 DEF IInv

(* The combination takes place. *)
LEMMA CommitKeeps ==
  ASSUME IInv, CommitMerge
  PROVE  IInv'
<1>1. /\ merge \in Holding /\ merge.at = "locked"
      /\ merge.own \in Results /\ merge.result \in Results /\ merge.file \in Results
      /\ merge.pair \in Pairs
  BY DEF CommitMerge, IInv, Types, Idle, Stored, Holding, Closing
<1>2. /\ pdfs' = pdfs /\ converted' = converted
      /\ sweep' = sweep /\ missed' = missed /\ Kept' = Kept
      /\ merge' = Ending
      /\ original' = [original EXCEPT ![merge.result] = merge.file]
  BY DEF CommitMerge, sweeping, Kept
<1>3. /\ \A r \in merge.pair : Active(r)
      /\ merge.file \in Kept
      /\ receipts[merge.result].state \in {"none", "MERGE_UNDONE"}
      /\ receipts[merge.result].state # "none" => Made(merge.result, merge.pair) # {}
  BY <1>1 DEF IInv, MergeIsSound
<1>4. merge.result \notin merge.pair
  BY <1>3 DEF Active
<1>5. PICK made \in Row :
        /\ made.state = "ACTIVE"
        /\ Decide(merge.pair, "merge", merge.result, [receipts EXCEPT ![merge.result] = made],
                  merge.pair \cup {merge.result})
  <2> DEFINE made == IF ~Exists(merge.result) THEN Receipt("ACTIVE", "QUEUED", "QUEUED")
                     ELSE [receipts[merge.result] EXCEPT
                             !.state = "ACTIVE", !.review = 0,
                             !.extraction = IF merge.busy THEN @ ELSE "QUEUED"]
  <2>1. receipts[merge.result] \in Row
    BY <1>1 DEF IInv, Types, Receipts
  <2>2. made \in Row /\ made.state = "ACTIVE"
    BY <2>1 DEF Row, Receipt, States, Statuses
  <2>3. Decide(merge.pair, "merge", merge.result, [receipts EXCEPT ![merge.result] = made],
               merge.pair \cup {merge.result})
    BY DEF CommitMerge
  <2> HIDE DEF made
  <2> QED BY <2>2, <2>3
<1>6. Types /\ Essentials /\ merge.result \in Receipts
  BY <1>1 DEF IInv, Types, Receipts
<1>7. PICK pair \in Pairs, m \in Receipts, action \in {"dismiss", "keep", "merge"}, touched \in SUBSET Receipts :
        /\ pair = merge.pair /\ m = merge.result /\ action = "merge"
        /\ touched = merge.pair \cup {merge.result}
  BY PairFacts, <1>1, <1>6
<1>t. PICK table \in [Receipts -> Row] : table = [receipts EXCEPT ![m] = made]
  BY <1>6 DEF Types
<1>d. Decide(pair, action, m, table, touched)
  BY <1>5, <1>7, <1>t
<1>h. PICK hidden : hidden = HiddenBy(pair, action, m)
  OBVIOUS
<1>8. /\ receipts' \in [Receipts -> Row]
      /\ \A r \in hidden : receipts'[r].state = "REPLACED" /\ receipts'[r].review = Len(reviews) + 1
      /\ \A r \in Receipts \ hidden : receipts'[r] = table[r]
      /\ \E new \in Review :
           /\ reviews' = Append(Outdated(touched), new)
           /\ new.pair = pair /\ new.action = action /\ new.result = m /\ ~new.undone
  BY <1>6, <1>d, <1>h, DecideFacts
<1>9. PICK new \in Review :
        /\ reviews' = Append(Outdated(touched), new)
        /\ new.pair = merge.pair /\ new.action = "merge" /\ new.result = merge.result /\ ~new.undone
  BY <1>7, <1>8
<1>10. Types'
  <2>1. reviews' \in Seq(Review)
    BY <1>9, <1>6, OneMore
  <2>2. Ending \in Closing
    BY <1>1 DEF Ending, Closing
  <2>3. original' \in [Results -> Results \cup {0}] /\ pdfs' \subseteq Results
    BY <1>1, <1>2, <1>6 DEF Types
  <2> QED BY <2>1, <2>2, <2>3, <1>2, <1>6, <1>8 DEF Types
<1>11. Essentials'
  <2>1. hidden = IF new.action = "dismiss" THEN {} ELSE new.pair \ {new.result}
    BY <1>7, <1>h, <1>9 DEF HiddenBy
  <2>2. \A r \in Receipts \ (hidden \cup {new.result}) :
          receipts'[r].state = receipts[r].state /\ receipts'[r].review = receipts[r].review
    BY <1>7, <1>t, <1>8, <1>9, <1>6 DEF Types
  <2>3. receipts'[new.result].state = "ACTIVE"
    BY <1>5, <1>6, <1>7, <1>t, <1>h, <1>8, <1>9 DEF HiddenBy, Types
  <2>4. \A x \in Results : x = new.result \/ original'[x] = original[x]
    BY <1>2, <1>6, <1>9 DEF Types
  <2>5. original'[new.result] \in Kept
    BY <1>1, <1>2, <1>3, <1>6, <1>9 DEF Types
  <2>6. /\ new.result \in Results \ new.pair
        /\ receipts[new.result].state \in {"none", "MERGE_UNDONE"}
        /\ receipts[new.result].state # "none" => Made(new.result, new.pair) # {}
        /\ \A r \in new.pair : Active(r)
    BY <1>1, <1>3, <1>4, <1>9
  <2>7. new.action # "dismiss" /\ new.action # "keep" /\ new.action = "merge"
    BY <1>9
  <2> QED BY <2>1, <2>2, <2>3, <2>4, <2>5, <2>6, <2>7, <1>2, <1>6, <1>8, <1>9, DecisionKeeps
<1>12. MergeIsSound'
  BY <1>2 DEF MergeIsSound, Ending
<1>13. SweepIsSound'
  <2> SUFFICES ASSUME NEW s \in Sweepers, sweep[s].at = "asked", NEW file \in sweep[s].objects \ missed
               PROVE  Orphaned(file)' /\ (merge.at \in {"stored", "locked"} => merge.own # file)'
    BY <1>2 DEF SweepIsSound
  <2>1. Orphaned(file) /\ merge.own # file
    BY <1>1 DEF IInv, SweepIsSound
  <2>2. merge.file # file
    BY <2>1, <1>1 DEF IInv, MergeIsSound, Orphaned
  <2>3. \A n \in Results : original'[n] \in {original[n], merge.file}
    BY <1>2, <1>6 DEF Types
  <2> QED BY <1>2, <2>1, <2>2, <2>3 DEF Orphaned, Ending
<1> QED BY <1>10, <1>11, <1>12, <1>13 DEF IInv

-----------------------------------------------------------------------------
(* An undo leaves what a transaction has locked, and what it found.         *)
LEMMA UndoIsSafe ==
  ASSUME IInv, NEW i \in DOMAIN reviews, Undo(i)
  PROVE  IInv'
<1>0. /\ original' = original /\ pdfs' = pdfs
      /\ sweep' = sweep /\ missed' = missed /\ Kept' = Kept
      /\ Unlocked(reviews[i].pair \cup {reviews[i].result})
      /\ \A r \in Hides(i) : receipts[r].state = "REPLACED"
      /\ Lives(i)
  BY DEF Undo, bucket, Kept
<1>1. Types /\ Essentials /\ MergeIsSound
  BY DEF IInv
<1>2. /\ receipts' \in [Receipts -> Row]
      /\ \A r \in Receipts : r \notin Hides(i) \cup StepsAside(i) => receipts'[r] = receipts[r]
      /\ reviews' \in Seq(Review)
      /\ DOMAIN reviews' = DOMAIN reviews
      /\ \A k \in DOMAIN reviews : SameReview(k)
      /\ Told
  BY <1>1, UndoFacts
<1>3. Types'
  BY <1>0, <1>1, <1>2, ToldFacts DEF Types, Idle, Stored, Holding, Closing
<1>4. Essentials'
  BY <1>1, UndoKeeps
<1>5. MergeIsSound'
  <2>1. \A m \in Results, pair \in Pairs : Made(m, pair) # {} => Made(m, pair)' # {}
    BY <1>2 DEF Made, SameReview
  <2>2. \A r \in StepsAside(i) : receipts[r].state \in {"ACTIVE", "REPLACED"}
    <3> SUFFICES ASSUME NEW r \in StepsAside(i) PROVE receipts[r].state \in {"ACTIVE", "REPLACED"}
      OBVIOUS
    <3>1. r = reviews[i].result /\ Decides(i) /\ Exists(r)
      BY <1>0 DEF StepsAside, Decides
    <3> QED BY <3>1, <1>1 DEF Essentials, PurchaseStaysVisible, Active, Exists, States
  <2>3. \A r \in Receipts : receipts[r].state \in {"none", "MERGE_UNDONE"} => receipts'[r] = receipts[r]
    BY <2>2, <1>0, <1>2
  <2>4. /\ merge.at \in {"stored", "locked"} => merge.own \in Receipts /\ receipts[merge.own].state = "none"
        /\ merge.at = "locked" => /\ merge.result \in Receipts
                                  /\ receipts[merge.result].state \in {"none", "MERGE_UNDONE"}
                                  /\ merge.pair \subseteq Receipts
    BY <1>1, PairFacts DEF MergeIsSound, Types, Idle, Stored, Holding, Closing, Receipts
  <2>5. merge.at = "locked" => \A r \in merge.pair : receipts'[r] = receipts[r]
    <3>1. Hides(i) \cup StepsAside(i) \subseteq reviews[i].pair \cup {reviews[i].result}
      BY DEF Hides, StepsAside
    <3> QED BY <3>1, <2>4, <1>0, <1>2 DEF Unlocked, Locked
  <2>6. /\ merge.at \in {"stored", "locked"} =>
             receipts'[merge.own].state = receipts[merge.own].state
        /\ merge.at = "locked" =>
             \A r \in merge.pair \cup {merge.result} : receipts'[r].state = receipts[r].state
    BY <2>3, <2>4, <2>5
  <2> QED BY <1>0, <1>1, <1>2, <2>1, <2>6, MergeKept
<1>6. SweepIsSound'
  BY <1>0, <1>2, SweepKept, ToldGoesOn DEF IInv
<1> QED BY <1>3, <1>4, <1>5, <1>6 DEF IInv

(* A receipt is deleted or converted, and no transaction has locked it.     *)
LEMMA ConversionKeeps ==
  ASSUME IInv, NEW r \in Receipts, DeleteReceipt(r) \/ ToDocument(r) \/ ToReceipt(r)
  PROVE  IInv'
<1>0. /\ original' = original /\ pdfs' = pdfs /\ converted' = converted
      /\ sweep' = sweep /\ missed' = missed /\ Kept' = Kept
  BY DEF DeleteReceipt, ToDocument, ToReceipt, bucket, Kept
<1>1. Types /\ Essentials /\ MergeIsSound
  BY DEF IInv
<1>2. PICK row \in Row :
        /\ Becomes(r, row)
        /\ receipts[r].state \in {"ACTIVE", "document"}
        /\ row.state \in {"deleted", "document"} \/
             (receipts[r].state = "document" /\ row.state = "ACTIVE")
        /\ Unlocked({r}) \/ receipts[r].state = "document"
  <2>1. /\ NoRow("deleted") \in Row /\ NoRow("deleted").state = "deleted"
        /\ NoRow("document") \in Row /\ NoRow("document").state = "document"
        /\ Receipt("ACTIVE", "QUEUED", "QUEUED") \in Row
        /\ Receipt("ACTIVE", "QUEUED", "QUEUED").state = "ACTIVE"
    BY DEF NoRow, Receipt, Row, States, Statuses
  <2>2. CASE DeleteReceipt(r)
    BY <2>1, <2>2 DEF DeleteReceipt, Active
  <2>3. CASE ToDocument(r)
    BY <2>1, <2>3 DEF ToDocument, Active
  <2>4. CASE ToReceipt(r)
    BY <2>1, <2>4 DEF ToReceipt
  <2> QED BY <2>2, <2>3, <2>4
<1>3. /\ receipts' \in [Receipts -> Row] /\ receipts'[r] = row
      /\ \A q \in Receipts \ {r} : receipts'[q] = receipts[q]
      /\ reviews' \in Seq(Review) /\ SameReviews /\ Told
  BY <1>1, <1>2, BecomesFacts
<1>4. Types'
  BY <1>0, <1>1, <1>3, ToldFacts DEF Types, Idle, Stored, Holding, Closing
<1>5. Essentials'
  BY <1>0, <1>1, <1>2, <1>3, RowKeeps
<1>6. MergeIsSound'
  <2>1. \A m \in Results, pair \in Pairs : Made(m, pair) # {} => Made(m, pair)' # {}
    BY <1>3, SameMade
  <2>2. \A q \in Receipts : receipts[q].state \in {"none", "MERGE_UNDONE"} => receipts'[q] = receipts[q]
    BY <1>2, <1>3
  <2>3. /\ merge.at \in {"stored", "locked"} => merge.own \in Receipts /\ receipts[merge.own].state = "none"
        /\ merge.at = "locked" => /\ merge.result \in Receipts
                                  /\ receipts[merge.result].state \in {"none", "MERGE_UNDONE"}
                                  /\ merge.pair \subseteq Receipts
                                  /\ \A q \in merge.pair : Active(q)
    BY <1>1, PairFacts DEF MergeIsSound, Types, Idle, Stored, Holding, Closing, Receipts
  <2>4. merge.at = "locked" => r \notin merge.pair
    BY <1>2, <2>3 DEF Unlocked, Locked, Active
  <2>5. /\ merge.at \in {"stored", "locked"} =>
             receipts'[merge.own].state = receipts[merge.own].state
        /\ merge.at = "locked" =>
             \A q \in merge.pair \cup {merge.result} : receipts'[q].state = receipts[q].state
    BY <2>2, <2>3, <2>4, <1>3
  <2> QED BY <1>0, <1>1, <1>3, <2>1, <2>5, MergeKept
<1>7. SweepIsSound'
  BY <1>0, <1>3, SweepKept, ToldGoesOn DEF IInv
<1> QED BY <1>4, <1>5, <1>6, <1>7 DEF IInv

Processing(r) ==
  \/ Running(r) \/ RenderFails(r) \/ LoadFails(r) \/ ExtractionFails(r)
  \/ Expire(r) \/ RecoverJob(r) \/ SweepStale(r) \/ RetryFailedReceipts(r)

(* Only the two steps of a row change. *)
LEMMA RowSteps ==
  ASSUME NEW w \in Row, NEW preview \in Statuses \cup {"none"}, NEW extraction \in Statuses \cup {"none"}
  PROVE  LET row == [w EXCEPT !.preview = preview, !.extraction = extraction] IN
         row \in Row /\ row.state = w.state /\ row.review = w.review
BY DEF Row

(* The handler, the sweep and a retry write to the steps of a row that is   *)
(* there, or to none.                                                       *)
LEMMA ProcessingKeeps ==
  ASSUME IInv, NEW r \in Receipts, Processing(r)
  PROVE  IInv'
<1>0. receipts[r] \in Row
  BY DEF IInv, Types
<1>1. ASSUME NEW preview \in Statuses \cup {"none"}, NEW extraction \in Statuses \cup {"none"},
             Write(r, preview, extraction)
      PROVE  IInv'
  <2> DEFINE row == [receipts[r] EXCEPT !.preview = preview, !.extraction = extraction]
  <2>1. row \in Row /\ row.state = receipts[r].state /\ row.review = receipts[r].review
    BY <1>0, RowSteps
  <2>2. Becomes(r, row) /\ UNCHANGED bucket /\ UNCHANGED converted
    BY <1>1 DEF Write
  <2> HIDE DEF row
  <2> QED BY <2>1, <2>2, RewriteKeeps
<1>2. receipts[r].preview \in Statuses \cup {"none"} /\ receipts[r].extraction \in Statuses \cup {"none"}
  BY <1>0 DEF Row
<1>3. ASSUME Requeue(r)
      PROVE  IInv'
  <2> DEFINE preview == IF receipts[r].preview = "DONE" THEN "DONE" ELSE "QUEUED"
  <2>1. preview \in Statuses \cup {"none"} /\ "QUEUED" \in Statuses \cup {"none"}
    BY DEF Statuses
  <2>2. Becomes(r, [receipts[r] EXCEPT !.preview = preview, !.extraction = "QUEUED"])
    BY <1>3 DEF Requeue
  <2> HIDE DEF preview
  <2> DEFINE row == [receipts[r] EXCEPT !.preview = preview, !.extraction = "QUEUED"]
  <2>3. row \in Row /\ row.state = receipts[r].state /\ row.review = receipts[r].review
    BY <1>0, <2>1, RowSteps
  <2>4. Becomes(r, row) /\ UNCHANGED bucket /\ UNCHANGED converted
    BY <1>3, <2>2 DEF Requeue
  <2> HIDE DEF row
  <2> QED BY <2>3, <2>4, RewriteKeeps
<1>4. ASSUME UNCHANGED <<receipts, reviews, bucket, converted>>, UNCHANGED merge
      PROVE  IInv'
  BY <1>4, StillKeeps DEF bucket
<1>5. CASE BeginRun(r) \/ RowGone(r) \/ Expire(r) \/ RecoverJob(r)
  BY <1>5, <1>4 DEF BeginRun, RowGone, Expire, RecoverJob
<1>6. CASE StartRender(r) \/ Rendered(r)
  BY <1>6, <1>1, <1>2 DEF StartRender, Rendered, WritePreview, Statuses
<1>7. CASE StartExtraction(r) \/ Extracted(r)
  BY <1>7, <1>1, <1>2 DEF StartExtraction, Extracted, WriteExtraction, Statuses
<1>8. CASE RenderFails(r) \/ LoadFails(r) \/ ExtractionFails(r)
  BY <1>8, <1>1, <1>2 DEF RenderFails, LoadFails, ExtractionFails, WritePreview, WriteExtraction, Statuses
<1>9. CASE SweepStale(r) \/ RetryFailedReceipts(r)
  BY <1>9, <1>3 DEF SweepStale, RetryFailedReceipts
<1> QED BY <1>5, <1>6, <1>7, <1>8, <1>9 DEF Processing, Running

(* At first nothing has been decided. *)
LEMMA InitHolds ==
  ASSUME Init
  PROVE  IInv
<1>1. DOMAIN reviews = {}
  BY DEF Init
<1>2. /\ \A r \in Receipts : receipts[r].state = IF r \in Results THEN "none" ELSE "ACTIVE"
      /\ receipts \in [Receipts -> Row]
  BY DEF Init, NoRow, Receipt, Row, States, Statuses
<1>3. Types
  BY <1>2 DEF Init, Types
<1>4. Essentials
  <2>1. Named /\ OnePair /\ MadeFirst /\ PurchaseStaysVisible
    BY <1>1 DEF Named, OnePair, MadeFirst, PurchaseStaysVisible
  <2>2. Objects /\ InForce
    BY <1>2 DEF Init, Objects, InForce, Receipts
  <2>3. HiddenIsUndoable
    BY <1>1, <1>2 DEF HiddenIsUndoable
  <2> QED BY <2>1, <2>2, <2>3 DEF Essentials
<1>5. MergeIsSound /\ SweepIsSound
  BY DEF Init, MergeIsSound, SweepIsSound, Idle
<1> QED BY <1>3, <1>4, <1>5 DEF IInv

(* Every step keeps the invariant. *)
LEMMA StepKeeps ==
  ASSUME IInv, [Next]_vars
  PROVE  IInv'
<1>1. CASE UNCHANGED vars
  BY <1>1, StillKeeps DEF vars, bucket
<1>2. CASE Crash
  BY <1>2, StillKeeps DEF Crash
<1>3. ASSUME NEW pair \in Pairs, Dismiss(pair) \/ StoreMerged(pair) \/ \E kept \in pair : Keep(pair, kept)
      PROVE  IInv'
  BY <1>3, ChooseKeeps, StoreMergedKeeps
<1>4. CASE RefuseMerge \/ FailMerge
  BY <1>4, StillKeeps DEF RefuseMerge, FailMerge, bucket
<1>s. ASSUME NEW s \in Sweepers, SweepList(s) \/ SweepAsk(s) \/ SweepDelete(s)
      PROVE  IInv'
  BY <1>s, SweepKeeps
<1>5. CASE FindResult \/ CommitMerge \/ CleanUp
  BY <1>5, FindResultKeeps, CommitKeeps, CleanUpKeeps
<1>6. ASSUME NEW i \in DOMAIN reviews, Undo(i)
      PROVE  IInv'
  BY <1>6, UndoIsSafe
<1>7. ASSUME NEW r \in Receipts, DeleteReceipt(r) \/ ToDocument(r) \/ ToReceipt(r)
      PROVE  IInv'
  BY <1>7, ConversionKeeps
<1>8. ASSUME NEW r \in Receipts, Processing(r)
      PROVE  IInv'
  BY <1>8, ProcessingKeeps
<1> QED BY <1>1, <1>2, <1>3, <1>4, <1>s, <1>5, <1>6, <1>7, <1>8 DEF Next, Deciding, Processing

(* What the promises rest on holds throughout, whatever the receipts are.   *)
THEOREM Invariant == Spec => []IInv
<1>1. Init => IInv
  BY InitHolds
<1>2. IInv /\ [Next]_vars => IInv'
  BY StepKeeps
<1> QED BY <1>1, <1>2, PTL DEF Spec

(* Whatever a review in force has hidden, undoing it brings back; nothing   *)
(* else is hidden.                                                          *)
THEOREM DecisionsCanBeUndone == Spec => []HiddenIsUndoable
<1>1. IInv => HiddenIsUndoable
  BY DEF IInv, Essentials
<1> QED BY <1>1, Invariant, PTL

(* What took a hidden receipt's place is on the shelf with its original, or *)
(* gave way to a later decision, a deletion or a conversion; the original   *)
(* is lost only to a sweep that asked about it before its file had a row.   *)
THEOREM NoPurchaseVanishes == Spec => []PurchaseStaysVisible
<1>1. IInv => PurchaseStaysVisible
  BY DEF IInv, Essentials
<1> QED BY <1>1, Invariant, PTL

(* A combined receipt is on the shelf only in place of its parts.           *)
THEOREM NoPurchaseTwice == Spec => []CountedOnce
<1>1. IInv => CountedOnce
  BY DEF IInv, Essentials, InForce, CountedOnce, Active, Merges
<1> QED BY <1>1, Invariant, PTL
=============================================================================
