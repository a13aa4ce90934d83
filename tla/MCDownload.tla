----------------------------- MODULE MCDownload -----------------------------
(* Instances of Download for TLC.                                          *)
EXTENDS Download

Both(b, i) == [t \in Pieces |-> IF t = "bloom" THEN b ELSE i]

\* chunk 0 lacks its bloom, chunk 2 is good, and chunk 1 is one of these
MCDiscs ==
    {[c \in Chunks |-> IF c = 0 THEN Both("none", "good") ELSE IF c = 1 THEN d ELSE Both("good", "good")] :
        d \in {Both("wrong", "good"), Both("none", "short"), Both("good", "locked"),
               Both("none", "locked"), Both("good", "none"), Both("locked", "wrong")}}
MCOptions == {[all |-> FALSE, first |-> 0], [all |-> TRUE, first |-> 0], [all |-> TRUE, first |-> 1]}
MCRemotes == {{0, 1}, {0, 2}}
=============================================================================
