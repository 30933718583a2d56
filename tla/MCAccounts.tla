------------------------------ MODULE MCAccounts ------------------------------
(***************************************************************************)
(* Small instances of Accounts.                                            *)
(***************************************************************************)
EXTENDS Accounts, TLC

\* Requests, tenants and addresses are told apart by what the rows say alone.
AccountSymmetry ==
    Permutations(Requests) \cup Permutations(Tenants) \cup Permutations(Emails)
===============================================================================
