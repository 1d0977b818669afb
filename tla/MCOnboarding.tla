----------------------------- MODULE MCOnboarding -----------------------------
(* Small instances of onboarding.                                            *)
EXTENDS Onboarding, TLC

\* Sessions are interchangeable, and so are chats.
OnboardingSymmetry == Permutations(Sessions) \cup Permutations(Chats)
================================================================================
