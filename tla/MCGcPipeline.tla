---------------------------- MODULE MCGcPipeline ----------------------------
(* GcPipeline for TLC: no kept pack, or one of a single object. *)
EXTENDS GcPipeline, TLC

CONSTANTS a, b

MCObjects == {a, b}
MCKeeps == {{}, {{a}}, {{b}}}
MCSymmetry == Permutations(MCObjects)
=============================================================================
