-------------------------- MODULE RegistryContract --------------------------
(***************************************************************************)
(* What a bundle registry promises to those who install from it, whatever  *)
(* happens to the server: the bytes of a version are written once and for  *)
(* ever, and the catalogue announces a digest only for bytes that are      *)
(* there.  The catalogue may lag, shrink or be unreadable for a while.     *)
(***************************************************************************)
CONSTANTS
  Versions,   \* name@version of a bundle
  Bundles,    \* contents of well-formed bundles
  VersionOf,  \* the version that the manifest of a bundle names
  None

VARIABLES published, catalogue

vars == <<published, catalogue>>

Init ==
  /\ published = [v \in Versions |-> None]
  /\ catalogue = [v \in Versions |-> None]

\* The first bytes stored for a version are its bytes.
Publish(b) ==
  /\ published[VersionOf[b]] = None
  /\ published' = [published EXCEPT ![VersionOf[b]] = b]
  /\ UNCHANGED catalogue

\* The catalogue is replaced by any truthful one.
Announce ==
  /\ catalogue' \in [Versions -> Bundles \cup {None}]
  /\ \A v \in Versions : catalogue'[v] \in {None, published[v]}
  /\ UNCHANGED published

Next == Announce \/ \E b \in Bundles : Publish(b)

Spec == Init /\ [][Next]_vars
=============================================================================
