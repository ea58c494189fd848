------------------------------ MODULE MCAccounts ------------------------------
(***************************************************************************)
(* Small instances of Accounts for TLC.                                    *)
(***************************************************************************)
EXTENDS Accounts, TLC

CONSTANTS dotted, under, ann, bob

\* Two preferred user names that sanitise to one local name.
DottedAndUnder == (ann :> dotted) @@ (bob :> under)
BothUnder == [s \in Subjects |-> under]
OwnMailbox == [s \in Subjects |-> s]
SameMailbox == [s \in Subjects |-> CHOOSE m \in Mailboxes : TRUE]
=============================================================================
