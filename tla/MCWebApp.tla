------------------------------ MODULE MCWebApp ------------------------------
(* Instances of WebApp for TLC *)
EXTENDS WebApp

(* any two of the happenings *)
MCLimit == [e \in Happenings |-> IF e = "any" THEN 2 ELSE 1]
=============================================================================
