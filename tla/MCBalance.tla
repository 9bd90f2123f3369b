------------------------------- MODULE MCBalance -------------------------------
(* Balance with two servers, configured in another order than that of their *)
(* names.                                                                   *)
EXTENDS Balance, TLC

MCchat_servers == <<2, 1>>
Symmetry == Permutations(Clients)
================================================================================
