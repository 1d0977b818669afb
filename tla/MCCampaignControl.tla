--------------------------- MODULE MCCampaignControl ---------------------------
(* Two concurrent requests over a handful of request ids, any of which may be *)
(* sent again; both background loops; a few worker tasks.  Requests and       *)
(* handlers are interchangeable.                                              *)
EXTENDS CampaignControl, TLC

Symmetry == Permutations(Handlers) \cup Permutations(Starts)
================================================================================
