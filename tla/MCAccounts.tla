---------------------------- MODULE MCAccounts ----------------------------
(* Two clients of one account and one of another.                          *)
EXTENDS Accounts, TLC

CONSTANTS c1, c2, c3

MCClients == {c1, c2, c3}
MCEmail == [c \in MCClients |-> IF c = c3 THEN "e2" ELSE "e1"]
MCPassword == [c \in MCClients |-> IF c = c3 THEN "p2" ELSE "p1"]
Interchangeable == Permutations({c1, c2})
=============================================================================
