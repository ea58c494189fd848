---------------------------- MODULE MCProposalSync ----------------------------
(***************************************************************************)
(* Small instances of ProposalSync for TLC.                                *)
(***************************************************************************)
EXTENDS ProposalSync, TLC

CONSTANTS ann, prop, prep, hand

OnEach(p, q, h) == [b \in Buckets |-> CASE b = prop -> p [] b = prep -> q [] OTHER -> h]
StartingRights == {OnEach({"ro", "rw"}, {"rw"}, {}), OnEach({"ro"}, {}, {"rw"})}
=============================================================================
