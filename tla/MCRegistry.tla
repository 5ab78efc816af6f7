----------------------------- MODULE MCRegistry -----------------------------
(***************************************************************************)
(* Two versions for TLC: one has two rival bundles, one has a single one.  *)
(***************************************************************************)
EXTENDS Registry, TLC

CONSTANTS v1, v2, b1, b2, c1

MCVersions == {v1, v2}
MCBundles == {b1, b2, c1}
MCVersionOf == b1 :> v1 @@ b2 :> v1 @@ c1 :> v2
=============================================================================
