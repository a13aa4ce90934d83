----------------------------- MODULE MCScraper -----------------------------
(* Instances of Scraper for TLC.                                           *)
EXTENDS Scraper

\* one appearance in each block
Dense  == [b \in Blocks |-> 1]
\* blocks 2 and 5 are empty, block 6 fills a chunk by itself
Uneven == [b \in Blocks |-> IF b \in {2, 5} THEN 0 ELSE IF b = 6 THEN 4 ELSE 1]
\* block 5, the first after the chunk that ends at 4, is empty
Gap == [b \in Blocks |-> IF b = 5 THEN 0 ELSE 1]
\* the grid is at 4 and 8, and block 8 is empty
EmptySnap == [b \in Blocks |-> IF b = 8 THEN 0 ELSE 1]
=============================================================================
