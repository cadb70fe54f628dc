------------------------------ MODULE FileLife ------------------------------
(***************************************************************************)
(* What the archive promises about a piece of content (the bytes of one    *)
(* hash), whoever brought it and whatever documents it has passed through: *)
(* it is unknown, or it is read by documents, or it is a receipt, or it    *)
(* waits in the trash, and only a purge of the trash forgets it.  The one  *)
(* place a person cannot reach is "limbo": no step out of it may lose the  *)
(* content, and ArchiveFiles shows which steps lead into it.               *)
(***************************************************************************)

CONSTANT Contents

VARIABLE place

Places == {"unknown", "document", "receipt", "trash", "limbo"}

Moved(c) == place[c] # place'[c]

\* The contents that step from a place in `from` to a place in `to`.
Goes(c, from, to) == place[c] \in from /\ place'[c] \in to

Init == place \in [Contents -> Places]

\* What a document held, or what nobody could reach, is taken from the document.
LetGo(c) == Goes(c, {"document", "limbo"}, {"trash", "limbo"})

(* Bytes are brought in or restored, from anywhere but a product, and a     *)
(* product holds them.  (A document that was combined into another one      *)
(* meanwhile takes them too, and is no place.)  A replacement puts the      *)
(* bytes it replaces into the trash.                                        *)
Arrive ==
  \E c \in Contents :
    /\ Goes(c, {"unknown", "trash", "limbo"}, {"document", "receipt", "limbo"})
    /\ \A o \in Contents \ {c} : Moved(o) => LetGo(o)

(* Products are taken apart: what they alone held goes to the trash.        *)
Discard == \A c \in Contents : Moved(c) => Goes(c, {"document", "receipt"}, {"trash", "limbo"})

(* What a document holds becomes a receipt, or a receipt a document; what   *)
(* was added to the document meanwhile is left behind.                      *)
Convert ==
  \E c \in Contents :
    /\ Goes(c, {"document", "receipt"}, {"document", "receipt"})
    /\ \A o \in Contents \ {c} : Moved(o) => LetGo(o)

(* A document that was combined into another one, and got pages since, is   *)
(* combined once more: they are seen again.                                 *)
Recover == \A c \in Contents : Moved(c) => Goes(c, {"limbo"}, {"document"})

(* A purge forgets what was in the trash.                                   *)
Forget == \A c \in Contents : Moved(c) => Goes(c, {"trash", "limbo"}, {"unknown"})

Next ==
  /\ place' \in [Contents -> Places]
  /\ Arrive \/ Discard \/ Convert \/ Recover \/ Forget

Spec == Init /\ [][Next]_place
=============================================================================
