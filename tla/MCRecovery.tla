----------------------------- MODULE MCRecovery ------------------------------
(* Two drives that only their aliases tell apart, and two spare devices: one *)
(* of another product, one that differs in the alias only.                   *)
EXTENDS Recovery

MCExpected == <<[alias |-> 1, eep |-> 10], [alias |-> 0, eep |-> 10],
                [alias |-> 0, eep |-> 30]>>
MCSpares == {[alias |-> 0, eep |-> 20], [alias |-> 2, eep |-> 10]}
=============================================================================
