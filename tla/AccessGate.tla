------------------------------ MODULE AccessGate ------------------------------
(***************************************************************************)
(* What tenant access promises, whatever logins, administrators and        *)
(* refreshes do at the same time: a membership comes into being, or has    *)
(* its revocation lifted, only through a login of its own user that was    *)
(* matched with the tenant while the tenant had a mapping; the one         *)
(* exception is the import of a tenant whose members RGWSquared decides.   *)
(* Everybody else can only withdraw.                                       *)
(***************************************************************************)
CONSTANTS Users, Tenants, Synced

VARIABLES
    standing,   \* standing[u][t]: of u's membership in t
    presented,  \* presented[u]: tenants a login of u in progress is matched with
    open        \* tenants with a group mapping

vars == <<standing, presented, open>>

Standing == {"none", "good", "revoked"}

Init ==
    /\ standing \in [Users -> [Tenants -> Standing]]
    /\ presented = [u \in Users |-> {}]
    /\ open = {}

\* A login of u starts, matched with open tenants.
Present(u, T) ==
    /\ T \subseteq open
    /\ presented' = [presented EXCEPT ![u] = @ \cup T]
    /\ UNCHANGED <<standing, open>>

\* A first membership, by a login or by the import.
Enter(u, t) ==
    /\ t \in presented[u] \cup Synced
    /\ standing[u][t] = "none"
    /\ standing' = [standing EXCEPT ![u][t] = "good"]
    /\ UNCHANGED <<presented, open>>

\* A login of u decides about all of u's memberships: those in T are in good
\* standing, the others are withdrawn.
Decided(s, good) ==
    IF s = "none" THEN "none" ELSE IF good THEN "good" ELSE "revoked"

Settle(u, T) ==
    /\ T \subseteq presented[u]
    /\ standing' = [standing EXCEPT ![u] =
                      [t \in Tenants |-> Decided(@[t], t \in T)]]
    /\ \E P \in SUBSET presented[u] : presented' = [presented EXCEPT ![u] = P]
    /\ UNCHANGED open

\* A login of u gives up some or all of the tenants it was matched with.
Forget(u) ==
    /\ \E P \in SUBSET presented[u] : presented' = [presented EXCEPT ![u] = P]
    /\ UNCHANGED <<standing, open>>

Open(t) ==
    /\ open' = open \cup {t}
    /\ UNCHANGED <<standing, presented>>

\* A mapping of t goes: t may close, and members in U are withdrawn.
Close(t, U) ==
    /\ open' \in {open, open \ {t}}
    /\ standing' = [u \in Users |->
                      IF u \in U
                      THEN [standing[u] EXCEPT ![t] = Decided(@, FALSE)]
                      ELSE standing[u]]
    /\ UNCHANGED presented

Next ==
    \/ \E u \in Users :
         \/ \E T \in SUBSET Tenants : Present(u, T) \/ Settle(u, T)
         \/ \E t \in Tenants : Enter(u, t)
         \/ Forget(u)
    \/ \E t \in Tenants : Open(t) \/ \E U \in SUBSET Users : Close(t, U)

Spec == Init /\ [][Next]_vars
=============================================================================
