----------------------------- MODULE MCWorkspace -----------------------------
(***************************************************************************)
(* Two packages for TLC, one of them in two versions.                      *)
(***************************************************************************)
EXTENDS Workspace, TLC

CONSTANTS x, y, x1, x2, x3, y1, t, u

MCNameOf == x1 :> x @@ x2 :> x @@ x3 :> x @@ y1 :> y
\* x1 and x2 are two builds of version 1, x3 is version 2.
MCVersionOf == x1 :> 1 @@ x2 :> 1 @@ x3 :> 2 @@ y1 :> 1
MCRank == x :> 1 @@ y :> 2
MCSlotRank == 1 :> 1 @@ t :> 2 @@ 2 :> 3 @@ u :> 4

Dep(kind, version, ref) == [kind |-> kind, version |-> version, ref |-> ref]
Sempkg(main, dev) == [s \in Sections |-> IF s = Main THEN main ELSE dev]
Wants(dx, dy) == x :> dx @@ y :> dy

\* The git dependency has a version that is not the one of its ref.
Git == Dep("git", 2, 1)
Here == Dep("here", 1, 1)
Registry == Dep("registry", 1, 1)
Url == Dep("url", 1, 1)

MCDeps == {Registry, Git}
MCSelections == {<< >>, <<"dev">>}
MCManifests ==
  { Sempkg(Wants(Git, Registry), Wants(None, None)),
    Sempkg(Wants(None, None), Wants(Git, Here)),
    Sempkg(Wants(Registry, None), Wants(Url, Url)) }

\* One package in two builds of one version, for commands that run together.
RaceDeps == {Registry, Here}
RaceNameOf == x1 :> x @@ x2 :> x
RaceVersionOf == x1 :> 1 @@ x2 :> 1
NoSelection == {<< >>}
RaceManifests == {[s \in Sections |-> x :> d] : d \in RaceDeps}
=============================================================================
