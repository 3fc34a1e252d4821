------------------------------ MODULE MCBlock ------------------------------
(* Model-checking instance of Block: two transactions, lists of up to six, *)
(* so that odd levels occur at the first and at the second level.           *)
EXTENDS Block

CONSTANTS t1, t2, Null
=============================================================================
