----------------------------- MODULE MCReadSide -----------------------------
(* Two workers of one projection over one tag of three versions, with one  *)
(* failure or one interrupt; without claims one worker over two tags, with *)
(* one of each.                                                            *)
EXTENDS ReadSide

CONSTANTS w1, w2

TwoWorkers == {w1, w2}
TagCount(m) == IF m = "unclaimed" THEN 2 ELSE 1
Versions(t) == IF t = 1 THEN 3 ELSE 1

MCInit == Init /\ faults + interrupts = (IF Claiming THEN 1 ELSE 0)
MCSpec == MCInit /\ [][Next]_vars /\ Fairness

=============================================================================
