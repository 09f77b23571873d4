------------------------------ MODULE MCLoginFlow ------------------------------
(* One browser with two tabs, one page besides the root, a clock of three ticks. *)
EXTENDS LoginFlow, TLC
CONSTANTS t1, t2, alice, bob, crowd
MCTabs == {t1, t2}
MCSymmetry == Permutations(MCTabs)
================================================================================
