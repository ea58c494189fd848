---------------------------- MODULE MCTenantAccess ----------------------------
(***************************************************************************)
(* Small instances of TenantAccess for TLC.                                *)
(***************************************************************************)
EXTENDS TenantAccess, TLC

NobodyUpstream == [u \in Users |-> [t \in Synced |-> "none"]]
AllUpstream == [u \in Users |-> [t \in Synced |-> "rw"]]

Symmetry == Permutations(Users) \cup Permutations(Groups) \cup Permutations(Logins)
=============================================================================
