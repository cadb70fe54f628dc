--------------------------- MODULE MCArchiveFiles ---------------------------
EXTENDS ArchiveFiles, TLC

CONSTANTS a, b

MCPageCount == (a :> 2) @@ (b :> 1)

Row(c, origin, trashed, counted) ==
  [content |-> c, origin |-> origin, trashed |-> trashed, counted |-> counted]

Entry(f, i) == [file |-> f, index |-> i, by |-> "init", crop |-> "none"]

\* A scan of two pages, split into two documents that share its file.
Shared ==
  [files |-> "fa" :> Row(a, "MANAGED", "no", TRUE),
   documents |-> ("d1" :> Product(TRUE, <<Entry("fa", 1)>>))
              @@ ("d2" :> Product(TRUE, <<Entry("fa", 2)>>)),
   receipts |-> <<>>]

\* A library document that has been combined with an upload, and nothing else.
Mixed ==
  [files |-> ("fa" :> Row(a, "LIBRARY", "no", TRUE)) @@ ("fb" :> Row(b, "MANAGED", "no", FALSE)),
   documents |-> "d1" :> Product(FALSE, <<Entry("fa", 1), Entry("fa", 2), Entry("fb", Whole)>>),
   receipts |-> <<>>]

\* A document, and a receipt that was deleted.
Discarded ==
  [files |-> ("fa" :> Row(a, "MANAGED", "no", TRUE)) @@ ("fb" :> Row(b, "MANAGED", "RECEIPT", TRUE)),
   documents |-> "d1" :> Product(TRUE, <<Entry("fa", 1), Entry("fa", 2)>>),
   receipts |-> <<>>]

\* A receipt, and a library file in the trash.
Receipted ==
  [files |-> ("fa" :> Row(a, "LIBRARY", "DOCUMENT", TRUE)) @@ ("fb" :> Row(b, "MANAGED", "no", TRUE)),
   documents |-> <<>>,
   receipts |-> "x1" :> "fb"]

MCArchives == {Shared, Mixed, Discarded, Receipted}

Symmetry == Permutations(Requests)
=============================================================================
