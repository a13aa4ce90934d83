---------------------------- MODULE MCTimestamps ----------------------------
(* Instances of Timestamps for TLC.                                        *)
EXTENDS Timestamps
=============================================================================
