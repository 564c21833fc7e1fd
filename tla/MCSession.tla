------------------------------ MODULE MCSession ------------------------------
(* Requests, users, addresses and ids stand for each other. *)
EXTENDS Session, TLC

Symmetric == Permutations(Requests) \cup Permutations(Names)
               \cup Permutations(Addresses) \cup Permutations(Tokens)
=============================================================================
