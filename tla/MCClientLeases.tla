----------------------------- MODULE MCClientLeases -----------------------------
(* Small instances: two tenants' profiles of one MAX account.                *)
EXTENDS ClientLeases, TLC

MCAccount == [p \in Profiles |-> "account"]

LeasesSymmetry == Permutations(Sends) \cup Permutations(Tests) \cup Permutations(Logins)
                  \cup Permutations(Profiles)
================================================================================
