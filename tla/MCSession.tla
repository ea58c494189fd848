------------------------------ MODULE MCSession ------------------------------
(***************************************************************************)
(* A small instance of Session for TLC.                                    *)
(***************************************************************************)
EXTENDS Session

CONSTANTS ann, bob, lab, mill, t1, a1

TwoAndOne == [u \in Users |-> IF u = ann THEN {lab, mill} ELSE {mill}]
TwoAndOneCall == [c \in Calls |-> IF c = 3 THEN a1 ELSE t1]
=============================================================================
