------------------------------ MODULE MCWorkScope ------------------------------
(* Small instances of groups, memberships and work scopes.                   *)
EXTENDS WorkScope, TLC

\* Accounts are interchangeable, and so are chats.
ScopeSymmetry == Permutations(Phones) \cup Permutations(Chats)
================================================================================
