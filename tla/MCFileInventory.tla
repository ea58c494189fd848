--------------------------- MODULE MCFileInventory ---------------------------
(***************************************************************************)
(* Small instances of FileInventory for TLC.                               *)
(***************************************************************************)
EXTENDS FileInventory, TLC

CONSTANTS ann, bob, b1, b2

\* One unit: every uploader's file of a name has the same key.
SameUnit == [u \in Users |-> CHOOSE x \in Units : TRUE]

\* Bytes of their own for each.
OneBodyEach == {<<ann, b1>>, <<bob, b2>>}
=============================================================================
