----------------------------- MODULE FlashStore -----------------------------
(***************************************************************************)
(* What the flash filesystem promises its callers, without clusters: an    *)
(* ordered list of files, each a name and its bytes, with at most one file *)
(* per name whatever its case.  Space is not part of the promise, so a put *)
(* or an insert may fail; ok says whether the latest call succeeded.       *)
(***************************************************************************)
EXTENDS Integers, Sequences

CONSTANTS
  Name,      \* names as callers write them
  Fold,      \* Fold[n]: the name without its case
  Content,   \* what a file may hold
  Position   \* positions callers ask an insert for

VARIABLES
  files,     \* sequence of [name, content] in directory order
  ok,        \* did the latest call succeed
  at         \* where it was to insert a file, 0 when it inserts none

storeVars == <<files, ok, at>>

StoreInit == files = << >> /\ ok = TRUE /\ at = 0

\* A list without its file of name n, whatever the name's case.
Without(list, n) ==
  LET hits == {i \in 1 .. Len(list) : Fold[list[i].name] = Fold[n]}
      hit  == CHOOSE i \in hits : TRUE
  IN  IF hits = {} THEN list
      ELSE SubSeq(list, 1, hit - 1) \o SubSeq(list, hit + 1, Len(list))

\* A put replaces the file of that name and lists the new one last.  A put
\* that fails may lose the file it was to replace, never another one.
Put(n, d) ==
  \/ /\ ok' = TRUE
     /\ files' = Append(Without(files, n), [name |-> n, content |-> d])
  \/ /\ ok' = FALSE
     /\ files' \in {files, Without(files, n)}

\* An insert lists the file before the one now at the position, or last when
\* there is none, whether or not it replaces one listed before.  One that fails
\* keeps every file before the position and, after it, a prefix of the
\* list it was making.
Insert(position, n, d) ==
  LET cut    == IF position < Len(files) THEN position ELSE Len(files)
      before == Without(SubSeq(files, 1, cut), n)
      after  == Without(SubSeq(files, cut + 1, Len(files)), n)
      tail   == << [name |-> n, content |-> d] >> \o after
  IN  \/ ok' = TRUE /\ files' = before \o tail
      \/ ok' = FALSE /\ \E k \in 0 .. Len(after) : files' = before \o SubSeq(tail, 1, k)

Remove(n) == ok' = TRUE /\ files' = Without(files, n) /\ files' # files

Wipe == ok' = TRUE /\ files' = << >>

\* Placing the root, reserving, withholding, and calls that are refused.
Keep == ok' \in BOOLEAN /\ UNCHANGED files

StoreNext ==
  \/ /\ at' = 0
     /\ \/ Keep
        \/ Wipe
        \/ \E n \in Name, d \in Content : Put(n, d)
        \/ \E n \in Name : Remove(n)
  \/ \E position \in Position, n \in Name, d \in Content :
       at' = position /\ Insert(position, n, d)

StoreSpec == StoreInit /\ [][StoreNext]_storeVars

=============================================================================
