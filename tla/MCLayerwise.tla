----------------------------- MODULE MCLayerwise ----------------------------
(* A batch of two requests: the first asks for a chunk that may be cached, the second for it and another. *)
EXTENDS Layerwise

MCLWPrompts == <<<<1>>, <<1, 2>>>>
=============================================================================
