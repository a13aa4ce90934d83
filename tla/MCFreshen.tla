----------------------------- MODULE MCFreshen -----------------------------
(* Instances of Freshen for TLC.                                           *)
EXTENDS Freshen, TLC

CONSTANTS u1, u2, A, B

\* in chunks, and in the second block of a stage that begins at 1 or at 5
Around == [a \in Addrs |-> (IF a = A THEN {2, 6} ELSE {3, 4}) \cap Blocks]
Everywhere == [a \in Addrs |-> Blocks]

Two  == u1 :> <<A, B>> @@ u2 :> <<A>>
Twice == u1 :> <<A, A>>

\* one updater that is killed or told to skip at any point, with
\* mutexes still to be made; and two that share the mutex of A
Alone == [active |-> {u1}, known |-> {}, events |-> {"crash", "skip"}, upto |-> 4]
Together == [active |-> {u1, u2}, known |-> {A, B}, events |-> {"sigint"}, upto |-> 6]
Unreadable == [active |-> {u1}, known |-> {}, events |-> {"chunk"}, upto |-> 6]
AllSettings == {Alone, Together}
LostChunk == {Unreadable}
=============================================================================
