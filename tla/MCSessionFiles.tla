---------------------------- MODULE MCSessionFiles ----------------------------
(* Small instances of an account's session files.                            *)
EXTENDS SessionFiles, TLC

\* The logins by SMS are interchangeable.
FileSymmetry == Permutations(Fresh)
================================================================================
