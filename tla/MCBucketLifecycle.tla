-------------------------- MODULE MCBucketLifecycle --------------------------
(***************************************************************************)
(* Small instances of BucketLifecycle for TLC.                             *)
(***************************************************************************)
EXTENDS BucketLifecycle, TLC

CONSTANTS ann, bob, cat, n1, n2, i1, i2, i3, i4

\* Each name is a project id of its owner; n1 can also be bob's when two
\* display names sanitise to the same prefix.
OwnNames == {<<ann, n1>>, <<bob, n2>>}
AnnOnly == {<<ann, n1>>}
Colliding == {<<ann, n1>>, <<bob, n1>>}

AllWrite == [u \in Users |-> "rw"]
CatReads == [u \in Users |-> IF u = cat THEN "ro" ELSE "rw"]

IdSymmetry == Permutations(Ids)
=============================================================================
