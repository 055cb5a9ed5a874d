------------------------- MODULE MCWebhookPipeline -------------------------
(* Small instances of WebhookPipeline for TLC. *)
EXTENDS WebhookPipeline, TLC

Symmetry == Permutations(Slot) \cup Permutations(Replayer)
=============================================================================
