------------------------------- MODULE Bundle -------------------------------
(***************************************************************************)
(* A bundle from the directories of an index to an installed tree: pack    *)
(* and sign of sembundle, what may happen to the archive on the way, and   *)
(* the checks of sempkg's install.                                         *)
(*                                                                         *)
(* A text is told by the revision of the index it was written at and by    *)
(* the time the packer stamped it with; a digest is the text it is taken   *)
(* of.  The tree may be written again while it is packed.  A directory is  *)
(* the one file that a build writes there (graph/codegraph.db, embeddings/ *)
(* source-index.json), a table is the files of one revision of it.         *)
(***************************************************************************)
EXTENDS Integers, FiniteSets, Sequences, SequencesExt

CONSTANTS
    Plans,          \* the values of plan
    MaxRevision     \* revisions of a path

Required == <<"config.json", "graph/", "embeddings/">>
LancePaths == <<"lance/metadata.json", "lance/docs.lance">>
CodePaths == <<"code/metadata.json", "code/code.lance">>
TreePaths == ToSet(Required \o LancePaths \o CodePaths)
Stamped == {"lance/metadata.json", "code/metadata.json"}
Metadata == "metadata.json"

ASSUME BundleAssumption == MaxRevision \in Nat \ {0}

VARIABLES
    plan,       \* the bounds of this behaviour: calls of pack (`packs`), the
                \* extensions each may be given (`extensions`), faults
                \* between the publisher and the installer (`faults`),
                \* whether installs ask for a signature (`keys`), the paths of
                \* the tree that are written again or removed (`rewritten`)
    tree,       \* [TreePaths -> revision, 0 when no file is there]
    packing,    \* the pack that runs: what it has read and has still to read
    packs,      \* packs begun so far, which are also the time
    output,     \* <name>-<version>.sembundle
    signature,  \* the .sig next to it
    parcel,     \* the two as they reach the installer
    faults,     \* faults so far
    installed,  \* the bundle's directory in the store
    packed      \* history: the archives that pack has returned

bundleVars == <<plan, tree, packing, packs, output, signature, parcel, faults,
                installed, packed>>

None == [kind |-> "none"]
Text(revision, stamp) == [revision |-> revision, stamp |-> stamp]
Garbled == Text(0, 0)
Entry(key, content) == [key |-> key, content |-> content]
Keys(entries) == {entries[i].key : i \in DOMAIN entries}

-----------------------------------------------------------------------------
(* Pack                                                                    *)

There(paths) == \A i \in DOMAIN paths : tree[paths[i]] # 0
ValidInputDir == There(Required)
ValidLanceDir == There(LancePaths)
ValidCodeDir == There(CodePaths)

InitBundle ==
    /\ plan \in Plans
    /\ tree = [p \in TreePaths |-> 1]
    /\ packing = None /\ packs = 0 /\ output = None /\ signature = None
    /\ parcel = None /\ faults = 0 /\ installed = None /\ packed = {}

\* What an index writes; it may also be gone.
Rewrite(p) ==
    /\ tree[p] < MaxRevision
    /\ tree' = [tree EXCEPT ![p] = IF @ = 0 THEN MaxRevision ELSE @ + 1]
    /\ UNCHANGED <<plan, packing, packs, output, signature, parcel, faults, installed, packed>>
Clear(p) ==
    /\ tree[p] # 0
    /\ tree' = [tree EXCEPT ![p] = 0]
    /\ UNCHANGED <<plan, packing, packs, output, signature, parcel, faults, installed, packed>>

(* The directories are validated first; nothing keeps them as they are.    *)
Pack(extensions) ==
    /\ packing = None /\ packs < plan.packs
    /\ ValidInputDir
    /\ "lance" \in extensions => ValidLanceDir
    /\ "code" \in extensions => ValidCodeDir
    /\ packs' = packs + 1
    /\ packing' = [kind |-> "collecting", entries |-> <<>>,
                   extensions |-> extensions,
                   left |-> Required \o <<Metadata>>
                            \o (IF "lance" \in extensions THEN LancePaths ELSE <<>>)
                            \o (IF "code" \in extensions THEN CodePaths ELSE <<>>)]
    /\ UNCHANGED <<plan, tree, output, signature, parcel, faults, installed, packed>>

(* What an entry says: the generated and the stamped ones have the time.   *)
ContentOf(p) ==
    IF p = Metadata THEN Text(0, packs)
    ELSE Text(tree[p], IF p \in Stamped THEN packs ELSE 0)
Copied(p) == Text(tree[p], 0)
\* Mutant of Collected: metadata.json is copied with the other files again.
CollectedTwice(p) ==
    IF p \in Stamped THEN <<Entry(p, ContentOf(p)), Entry(p, Copied(p))>>
    ELSE <<Entry(p, ContentOf(p))>>
Collected(p) ==
    IF p # Metadata /\ tree[p] = 0 THEN <<>> ELSE <<Entry(p, ContentOf(p))>>

(* The next path is read.  A file or a directory that is gone is an error; *)
(* a directory that is there and was emptied, graph/ and embeddings/ too,  *)
(* gives no entries.                                                       *)
Collect ==
    /\ packing.kind = "collecting" /\ packing.left # <<>>
    /\ LET p == Head(packing.left)
       IN  \/ p # Metadata /\ tree[p] = 0 /\ packing' = None
           \/ /\ p = "config.json" => tree[p] # 0
              /\ packing' = [packing EXCEPT !.left = Tail(@), !.entries = @ \o Collected(p)]
    /\ UNCHANGED <<plan, tree, packs, output, signature, parcel, faults, installed, packed>>

(* The checksums of the entries, the last one of a key as a map keeps it.  *)
Checksums(entries) ==
    [k \in Keys(entries) |->
        LET last == CHOOSE i \in DOMAIN entries :
                        /\ entries[i].key = k
                        /\ \A j \in DOMAIN entries : entries[j].key = k => j <= i
        IN  entries[last].content]
SpecVersion(extensions) == IF "code" \in extensions THEN "code" ELSE "lance"
ManifestOf(p) ==
    [spec_version |-> SpecVersion(p.extensions), extensions |-> p.extensions,
     created_at |-> packs, checksums |-> Checksums(p.entries)]
Archive(p) ==
    [kind |-> "archive", whole |-> TRUE, manifests |-> <<ManifestOf(p)>>,
     entries |-> p.entries]

(* The output is cut to nothing and written entry by entry: until the pack *)
(* returns it is not whole.                                                *)
Create ==
    /\ packing.kind = "collecting" /\ packing.left = <<>>
    /\ packing' = [packing EXCEPT !.kind = "writing"]
    /\ output' = [Archive(packing) EXCEPT !.whole = FALSE]
    /\ UNCHANGED <<plan, tree, packs, signature, parcel, faults, installed, packed>>
Finish ==
    /\ packing.kind = "writing"
    /\ packing' = None
    /\ output' = Archive(packing)
    /\ packed' = packed \cup {Archive(packing)}
    /\ UNCHANGED <<plan, tree, packs, signature, parcel, faults, installed>>
\* The packer is killed, or the disk is full.
Kill ==
    /\ packing # None
    /\ packing' = None
    /\ UNCHANGED <<plan, tree, packs, output, signature, parcel, faults, installed, packed>>

Digest(archive) == archive
(* Whatever bytes are there are signed; a later pack leaves the signature. *)
Sign ==
    /\ output # None /\ signature # Digest(output) /\ TRUE \in plan.keys
    /\ signature' = Digest(output)
    /\ UNCHANGED <<plan, tree, packing, packs, output, parcel, faults, installed, packed>>

-----------------------------------------------------------------------------
(* On the way                                                              *)

Ship ==
    /\ output # None
    /\ parcel' = [kind |-> "parcel", bundle |-> output, signature |-> signature]
    /\ parcel' # parcel
    /\ UNCHANGED <<plan, tree, packing, packs, output, signature, faults, installed, packed>>

(* What may have become of an archive: an entry is garbled, lost, or there *)
(* twice with two texts, the manifest is lost or there twice, the end is   *)
(* missing.                                                                *)
Damaged(a) ==
    {[a EXCEPT !.entries[i].content = Garbled] : i \in DOMAIN a.entries}
    \cup {[a EXCEPT !.entries = RemoveAt(@, i)] : i \in DOMAIN a.entries}
    \cup {[a EXCEPT !.entries = Append(@, Entry(@[i].key, Garbled))] :
            i \in DOMAIN a.entries}
    \cup {[a EXCEPT !.manifests = <<>>], [a EXCEPT !.manifests = @ \o @],
          [a EXCEPT !.whole = FALSE]}
Damage ==
    /\ parcel # None /\ faults < plan.faults
    /\ faults' = faults + 1
    /\ \E a \in Damaged(parcel.bundle) : parcel' = [parcel EXCEPT !.bundle = a]
    /\ UNCHANGED <<plan, tree, packing, packs, output, signature, installed, packed>>

-----------------------------------------------------------------------------
(* Verify and install                                                      *)

VerifySignature(bundle, sig) == sig = Digest(bundle)
(* Both readers go over all entries; an archive without its end, with no   *)
(* manifest or with more than one is refused.                              *)
ReadManifest(a) == a.whole /\ Len(a.manifests) = 1
AsListed(a) ==
    LET listed == a.manifests[1].checksums
    IN  \A i \in DOMAIN a.entries :
            LET e == a.entries[i]
            IN  e.key \in DOMAIN listed => e.content = listed[e.key]
\* Mutant of VerifyChecksums: what is listed need not be there.
VerifyPresent(a) == AsListed(a)
VerifyChecksums(a) ==
    AsListed(a) /\ DOMAIN a.manifests[1].checksums \subseteq Keys(a.entries)
Accepted(a) == ReadManifest(a) /\ VerifyChecksums(a)

\* A later entry of a key overwrites an earlier one.
Extracted(a) == Checksums(a.entries)
Install(verifyKey) ==
    /\ parcel # None /\ installed = None
    /\ verifyKey => VerifySignature(parcel.bundle, parcel.signature)
    /\ Accepted(parcel.bundle)
    /\ installed' = [kind |-> "bundle", files |-> Extracted(parcel.bundle),
                     manifest |-> parcel.bundle.manifests[1]]
    /\ UNCHANGED <<plan, tree, packing, packs, output, signature, parcel, faults, packed>>
Uninstall ==
    /\ installed # None
    /\ installed' = None
    /\ UNCHANGED <<plan, tree, packing, packs, output, signature, parcel, faults, packed>>

NextBundle ==
    \/ \E p \in TreePaths \cap plan.rewritten : Rewrite(p) \/ Clear(p)
    \/ \E extensions \in plan.extensions : Pack(extensions)
    \/ Collect \/ Create \/ Finish \/ Kill \/ Sign
    \/ Ship \/ Damage
    \/ \E verifyKey \in plan.keys : Install(verifyKey)
    \/ Uninstall

-----------------------------------------------------------------------------
(* What is installed is one packing as it was returned by pack, whole and  *)
(* unmixed: store.rs checks an archive before it extracts it, with a key   *)
(* or without one, whatever was written, signed or damaged in between.     *)
InstalledAsPacked ==
    installed # None =>
        \E a \in packed : /\ installed.manifest = a.manifests[1]
                          /\ installed.files = Extracted(a)

(* What pack returns, the reader accepts (pack.rs and reader.rs): no file  *)
(* that was collected, also from a tree that was written again meanwhile,  *)
(* disagrees with the manifest.                                            *)
PackedIsAccepted == \A a \in packed : Accepted(a)

(* docs/sembundle-spec.md:60 asks of every bundle a file in graph/ and one *)
(* in embeddings/.  pack looks for them before it reads them, and neither  *)
(* reader does: no run lists this as holding.                              *)
PackedIsComplete == \A a \in packed : ToSet(Required) \subseteq Keys(a.entries)
=============================================================================
