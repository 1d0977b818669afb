---------------------------- MODULE MCLoginAttempts ----------------------------
(* Small instances of the login of one account.                               *)
EXTENDS LoginAttempts, TLC

LoginSymmetry ==
    Permutations(Attempts) \cup Permutations(StartIds) \cup Permutations(InputIds)
================================================================================
